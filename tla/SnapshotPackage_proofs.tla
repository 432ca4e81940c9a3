----------------------- MODULE SnapshotPackage_proofs -----------------------
(***************************************************************************)
(* A snapshot package loses nothing: its pages hold exactly the items that *)
(* were selected, whatever the limits of a page.  And the selection is the *)
(* largest that fits: page counts and sums only grow with the messages,    *)
(* and one message more never takes more than one page more.               *)
(***************************************************************************)
EXTENDS SnapshotPackage, FiniteSetTheorems, SequenceTheorems, WellFoundedInduction, TLAPS

LEMMA LeastNatural ==
    ASSUME NEW S \in SUBSET Nat, S # {}
    PROVE  \E n \in S : \A m \in S : n <= m
<1>1. PICK n \in S : \A m \in S : ~(<<m, n>> \in OpToRel(<, Nat))
    BY WFMin, NatLessThanWellFounded
<1>2. \A m \in S : ~(m < n)
    BY <1>1 DEF OpToRel
<1> QED BY <1>2
-----------------------------------------------------------------------------
(* The k-th element of a finite set of numbers.                             *)

UpTo(S, n) == {m \in S : m <= n}

LEMMA CountUpTo ==
    ASSUME NEW S \in SUBSET Nat, IsFiniteSet(S), NEW n \in Nat
    PROVE  /\ IsFiniteSet(UpTo(S, n)) /\ Cardinality(UpTo(S, n)) \in Nat
           /\ Cardinality(UpTo(S, n)) <= Cardinality(S) /\ Cardinality(S) \in Nat
           /\ n + 1 \in S => Cardinality(UpTo(S, n + 1)) = Cardinality(UpTo(S, n)) + 1
           /\ n + 1 \notin S => UpTo(S, n + 1) = UpTo(S, n)
<1>0. \A m \in S : m \in Nat
    OBVIOUS
<1>1. UpTo(S, n) \in SUBSET S
    BY DEF UpTo
<1>2. /\ IsFiniteSet(UpTo(S, n)) /\ Cardinality(UpTo(S, n)) <= Cardinality(S)
      /\ Cardinality(UpTo(S, n)) \in Nat /\ Cardinality(S) \in Nat
    BY <1>1, FS_Subset, FS_CardinalityType
<1>3. ASSUME n + 1 \in S
      PROVE  Cardinality(UpTo(S, n + 1)) = Cardinality(UpTo(S, n)) + 1
    <2>1. \A m \in S : m <= n + 1 <=> m <= n \/ m = n + 1
        BY <1>0
    <2>2. UpTo(S, n + 1) = UpTo(S, n) \cup {n + 1}
        BY <1>3, <2>1 DEF UpTo
    <2>3. n + 1 \notin UpTo(S, n)
        BY <1>3 DEF UpTo
    <2> QED  BY <1>2, <2>2, <2>3, FS_AddElement
<1>4. n + 1 \notin S => UpTo(S, n + 1) = UpTo(S, n)
    <2>1. n + 1 \notin S => \A m \in S : m <= n + 1 <=> m <= n
        BY <1>0
    <2> QED  BY <2>1 DEF UpTo
<1> QED
    BY <1>2, <1>3, <1>4

\* The count rises past every element.
LEMMA CountStrict ==
    ASSUME NEW S \in SUBSET Nat, IsFiniteSet(S), NEW m \in Nat, NEW n \in Nat, NEW x \in S, m < x, x <= n
    PROVE  Cardinality(UpTo(S, m)) < Cardinality(UpTo(S, n))
<1>1. /\ IsFiniteSet(UpTo(S, m)) /\ Cardinality(UpTo(S, m)) \in Nat
      /\ IsFiniteSet(UpTo(S, n)) /\ Cardinality(UpTo(S, n)) \in Nat
    BY CountUpTo
<1>0. \A k \in S : k \in Nat
    OBVIOUS
<1>2. x \notin UpTo(S, m) /\ UpTo(S, m) \cup {x} \in SUBSET UpTo(S, n)
    <2>1. \A k \in S : k <= m => k <= n
        BY <1>0
    <2>2. ~(x <= m)
        BY <1>0
    <2> QED  BY <2>1, <2>2 DEF UpTo
<1>3. Cardinality(UpTo(S, m) \cup {x}) = Cardinality(UpTo(S, m)) + 1
    BY <1>1, <1>2, FS_AddElement
<1>4. Cardinality(UpTo(S, m) \cup {x}) <= Cardinality(UpTo(S, n))
    BY <1>1, <1>2, FS_Subset
<1> QED
    BY <1>1, <1>3, <1>4

LEMMA NthExists ==
    ASSUME NEW N \in Nat, NEW S \in SUBSET (0..N), NEW j \in 1..Cardinality(S)
    PROVE  IsFiniteSet(S) /\ \E n \in S : Cardinality(UpTo(S, n)) = j
<1> DEFINE T == {n \in Nat : Cardinality(UpTo(S, n)) >= j}
<1>0. \A k \in S : k \in Nat /\ k <= N
    OBVIOUS
<1>1. IsFiniteSet(S) /\ S \in SUBSET Nat /\ Cardinality(S) \in Nat
    <2>1. IsFiniteSet(0..N)
        BY FS_Interval
    <2>2. IsFiniteSet(S)
        BY <2>1, FS_Subset
    <2> QED  BY <1>0, <2>2, FS_CardinalityType
<1>2. UpTo(S, N) = S
    BY <1>0 DEF UpTo
<1>3. N \in T
    BY <1>1, <1>2
<1>4. PICK n \in T : \A m \in T : n <= m
    <2> HIDE DEF T
    <2>1. T \in SUBSET Nat
        BY DEF T
    <2> QED  BY <1>3, <2>1, LeastNatural
<1>5. CASE n = 0
    <2>1. UpTo(S, 0) = IF 0 \in S THEN {0} ELSE {}
        <3>1. \A k \in S : k <= 0 <=> k = 0
            BY <1>0
        <3> QED  BY <3>1 DEF UpTo
    <2>2. Cardinality({}) = 0 /\ Cardinality({0}) = 1
        BY FS_EmptySet, FS_Singleton
    <2>3. 0 \in S /\ Cardinality(UpTo(S, 0)) = j
        BY <1>1, <1>4, <1>5, <2>1, <2>2
    <2> QED  BY <1>1, <2>3
<1>6. CASE n # 0
    <2> PICK p \in Nat : n = p + 1
        <3>1. n - 1 \in Nat /\ n = (n - 1) + 1
            BY <1>4, <1>6
        <3> QED  BY <3>1
    <2>1. Cardinality(UpTo(S, p)) \in Nat /\ Cardinality(UpTo(S, p)) < j
        <3>1. Cardinality(UpTo(S, p)) \in Nat
            BY <1>1, CountUpTo
        <3>2. p \notin T
            BY <1>4
        <3> QED  BY <1>1, <3>1, <3>2
    <2>2. Cardinality(UpTo(S, p + 1)) >= j
        BY <1>4
    <2>3. p + 1 \in S
        BY <1>1, <2>1, <2>2, CountUpTo
    <2>4. Cardinality(UpTo(S, p + 1)) = Cardinality(UpTo(S, p)) + 1
        BY <1>1, <2>3, CountUpTo
    <2> QED  BY <1>1, <2>1, <2>2, <2>3, <2>4
<1> QED
    BY <1>5, <1>6

\* Every element less by one: as many.
LEMMA ShiftCount ==
    ASSUME NEW Q \in SUBSET (Nat \ {0}), IsFiniteSet(Q)
    PROVE  LET E == {k - 1 : k \in Q} IN IsFiniteSet(E) /\ Cardinality(E) = Cardinality(Q)
<1> DEFINE E == {k - 1 : k \in Q}
           f == [k \in Q |-> k - 1]
<1>1. f \in Bijection(Q, E)
    BY DEF Bijection, Injection, Surjection, IsInjective
<1>2. ExistsBijection(Q, E)
    BY <1>1 DEF ExistsBijection
<1> HIDE DEF E
<1>3. IsFiniteSet(E) /\ Cardinality(E) = Cardinality(Q)
    BY <1>2, FS_Bijection
<1> QED
    BY <1>3 DEF E
-----------------------------------------------------------------------------
(* Pages.                                                                   *)

\* k starts a page if the page in front of it cannot take it.
Begins(items, P, k) ==
    \A p \in P : p < k =>
        \/ \E q \in P : p < q /\ q < k
        \/ ~FitsPage(SubSeq(items, p, k))

\* The pages of the first h items.
StartsOf(items, P, h) == P \in SUBSET (1..h) /\ \A k \in 1..h : k \in P <=> Begins(items, P, k)

LEMMA StartsExist ==
    ASSUME NEW items, NEW n \in Nat
    PROVE  \E P : StartsOf(items, P, n)
<1> DEFINE Bad == {h \in Nat : ~ \E P : StartsOf(items, P, h)}
<1>1. SUFFICES ASSUME Bad # {} PROVE FALSE
    OBVIOUS
<1>2. PICK h \in Bad : \A g \in Bad : h <= g
    <2> HIDE DEF Bad
    <2>1. Bad \in SUBSET Nat
        BY DEF Bad
    <2> QED  BY <1>1, <2>1, LeastNatural
<1>3. h # 0
    <2>1. StartsOf(items, {}, 0)
        BY DEF StartsOf
    <2> QED  BY <1>2, <2>1
<1> PICK g \in Nat : h = g + 1
    <2>1. h - 1 \in Nat /\ h = (h - 1) + 1
        BY <1>2, <1>3
    <2> QED  BY <2>1
<1>4. PICK P : StartsOf(items, P, g)
    <2>1. g \notin Bad
        BY <1>2
    <2> QED  BY <2>1
<1>5. PICK Q : Q = IF Begins(items, P, g + 1) THEN P \cup {g + 1} ELSE P
    OBVIOUS
<1>6. P \in SUBSET (1..g) /\ Q \in SUBSET (1..(g + 1)) /\ \A k \in 1..g : k \in Q <=> k \in P
    BY <1>4, <1>5 DEF StartsOf
<1>7. \A k \in 1..(g + 1) : Begins(items, Q, k) <=> Begins(items, P, k)
    <2> SUFFICES ASSUME NEW k \in 1..(g + 1)
                 PROVE  Begins(items, Q, k) <=> Begins(items, P, k)
        OBVIOUS
    <2>1. \A p : p \in Q /\ p < k <=> p \in P /\ p < k
        BY <1>5, <1>6
    <2> QED  BY <2>1 DEF Begins
<1>8. \A k \in 1..(g + 1) : k \in Q <=> Begins(items, Q, k)
    <2> SUFFICES ASSUME NEW k \in 1..(g + 1) PROVE k \in Q <=> Begins(items, P, k)
        BY <1>7
    <2>1. CASE k = g + 1
        BY <1>5, <1>6, <2>1
    <2>2. CASE k # g + 1
        BY <1>4, <1>6, <2>2 DEF StartsOf
    <2> QED  BY <2>1, <2>2
<1> QED
    BY <1>2, <1>6, <1>8 DEF StartsOf

\* Starts is what its definition asks for.
LEMMA StartsFound ==
    ASSUME NEW items, NEW n \in Nat, DOMAIN items = 1..n
    PROVE  StartsOf(items, Starts(items), n)
<1>1. PICK P : StartsOf(items, P, n)
    BY StartsExist
<1>2. \E R \in SUBSET DOMAIN items : \A k \in DOMAIN items :
          k \in R <=> \A p \in R : p < k =>
                        \/ \E q \in R : p < q /\ q < k
                        \/ ~FitsPage(SubSeq(items, p, k))
    BY <1>1 DEF StartsOf, Begins
<1>3. /\ Starts(items) \in SUBSET DOMAIN items
      /\ \A k \in DOMAIN items :
          k \in Starts(items) <=> \A p \in Starts(items) : p < k =>
                        \/ \E q \in Starts(items) : p < q /\ q < k
                        \/ ~FitsPage(SubSeq(items, p, k))
    BY <1>2 DEF Starts
<1> QED
    BY <1>3 DEF StartsOf, Begins

\* The first item of a section starts a page.
LEMMA StartsFirst ==
    ASSUME NEW items, NEW n \in Nat, DOMAIN items = 1..n
    PROVE  Starts(items) \in SUBSET (1..n) /\ (n > 0 => 1 \in Starts(items))
<1>1. StartsOf(items, Starts(items), n)
    BY StartsFound
<1>2. n > 0 => 1 \in Starts(items)
    <2>1. \A p \in Starts(items) : ~(p < 1)
        BY <1>1 DEF StartsOf
    <2> QED  BY <1>1, <2>1 DEF StartsOf, Begins
<1> QED
    BY <1>1, <1>2 DEF StartsOf
-----------------------------------------------------------------------------
(* What the pages hold.                                                     *)

Nth(S, k) == CHOOSE n \in S : Cardinality(UpTo(S, n)) = k

Ends(items) == {k - 1 : k \in Starts(items) \ {1}} \cup {Len(items)}

Elements(s) == {s[k] : k \in DOMAIN s}

LEMMA PaginateIs ==
    ASSUME NEW items
    PROVE  Paginate(items) = [k \in 1..Cardinality(Starts(items)) |->
                                SubSeq(items, Nth(Starts(items), k), Nth(Ends(items), k))]
BY DEF Paginate, Nth, Ends, UpTo

LEMMA NthIs ==
    ASSUME NEW N \in Nat, NEW S \in SUBSET (0..N), NEW j \in 1..Cardinality(S)
    PROVE  Nth(S, j) \in S /\ Cardinality(UpTo(S, Nth(S, j))) = j
<1>1. IsFiniteSet(S) /\ \E n \in S : Cardinality(UpTo(S, n)) = j
    BY NthExists
<1> QED
    BY <1>1 DEF Nth

\* There are as many ends as starts.
LEMMA EndsCount ==
    ASSUME NEW I, NEW items \in Seq(I), items # <<>>
    PROVE  /\ Ends(items) \in SUBSET (0..Len(items))
           /\ IsFiniteSet(Starts(items)) /\ IsFiniteSet(Ends(items))
           /\ Cardinality(Ends(items)) = Cardinality(Starts(items))
<1> PICK n, S : n = Len(items) /\ S = Starts(items)
    OBVIOUS
<1>1. n \in Nat /\ n > 0 /\ DOMAIN items = 1..n
    OBVIOUS
<1>2. S \in SUBSET (1..n) /\ 1 \in S
    BY <1>1, StartsFirst
<1>3. IsFiniteSet(S) /\ Cardinality(S) \in Nat
    <2>1. IsFiniteSet(1..n)
        BY <1>1, FS_Interval
    <2>2. IsFiniteSet(S)
        BY <1>2, <2>1, FS_Subset
    <2> QED  BY <2>2, FS_CardinalityType
<1> PICK Q : Q = S \ {1}
    OBVIOUS
<1>4. IsFiniteSet(Q) /\ Cardinality(Q) = Cardinality(S) - 1
    BY <1>2, <1>3, FS_RemoveElement
<1> PICK E : E = {k - 1 : k \in Q}
    OBVIOUS
<1>5. \A k \in Q : k \in Nat /\ 1 < k /\ k <= n
    BY <1>1, <1>2
<1>6. IsFiniteSet(E) /\ Cardinality(E) = Cardinality(Q)
    <2>1. Q \in SUBSET (Nat \ {0})
        BY <1>5
    <2> QED  BY <1>4, <2>1, ShiftCount
<1>7. \A e \in E : e \in 0..n /\ e # n
    BY <1>1, <1>5
<1>8. IsFiniteSet(E \cup {n}) /\ Cardinality(E \cup {n}) = Cardinality(E) + 1
    <2>1. n \notin E
        BY <1>7
    <2> QED  BY <1>6, <2>1, FS_AddElement
<1>9. Ends(items) = E \cup {n}
    BY DEF Ends
<1>10. E \cup {n} \in SUBSET (0..n)
    BY <1>1, <1>7
<1>11. Cardinality(E \cup {n}) = Cardinality(S)
    BY <1>3, <1>4, <1>6, <1>8
<1> QED
    BY <1>3, <1>8, <1>9, <1>10, <1>11

\* As many ends are at or before b as starts, but for the first, at or before b + 1.
LEMMA EndsBefore ==
    ASSUME NEW I, NEW items \in Seq(I), items # <<>>, NEW b \in Nat, b < Len(items)
    PROVE  Cardinality(UpTo(Ends(items), b)) = Cardinality(UpTo(Starts(items), b + 1)) - 1
<1> PICK n, S : n = Len(items) /\ S = Starts(items)
    OBVIOUS
<1>1. n \in Nat /\ n > 0 /\ DOMAIN items = 1..n
    OBVIOUS
<1>2. S \in SUBSET (1..n) /\ 1 \in S
    BY <1>1, StartsFirst
<1>3. IsFiniteSet(S)
    <2>1. IsFiniteSet(1..n)
        BY <1>1, FS_Interval
    <2> QED  BY <1>2, <2>1, FS_Subset
<1> PICK T : T = UpTo(S, b + 1)
    OBVIOUS
<1>4. IsFiniteSet(T) /\ 1 \in T /\ \A k \in T : k \in S
    <2>1. T \in SUBSET S
        BY DEF UpTo
    <2>2. 1 <= b + 1
        OBVIOUS
    <2> QED  BY <1>2, <1>3, <2>1, <2>2, FS_Subset DEF UpTo
<1> PICK Q : Q = T \ {1}
    OBVIOUS
<1>5. IsFiniteSet(Q) /\ Cardinality(Q) = Cardinality(T) - 1
    BY <1>4, FS_RemoveElement
<1> PICK E : E = {k - 1 : k \in Q}
    OBVIOUS
<1>6. \A k \in S : k \in Nat /\ 1 <= k /\ k <= n
    BY <1>1, <1>2
<1>7. Cardinality(E) = Cardinality(Q)
    <2>1. Q \in SUBSET (Nat \ {0})
        BY <1>4, <1>6
    <2> QED  BY <1>5, <2>1, ShiftCount
<1>8. UpTo(Ends(items), b) = E
    <2>1. \A k \in S : k \in Q <=> (k # 1 /\ k - 1 <= b)
        BY <1>6 DEF UpTo
    <2>2. ASSUME NEW e \in UpTo(Ends(items), b) PROVE e \in E
        <3>1. e \in Ends(items) /\ e <= b
            BY DEF UpTo
        <3>2. PICK k \in S \ {1} : e = k - 1
            BY <1>1, <3>1 DEF Ends
        <3> QED  BY <2>1, <3>1, <3>2
    <2>3. ASSUME NEW e \in E PROVE e \in UpTo(Ends(items), b)
        <3>1. PICK k \in Q : e = k - 1
            BY <2>3
        <3>2. k \in S \ {1} /\ k - 1 <= b
            BY <1>4, <2>1, <3>1
        <3> QED  BY <3>1, <3>2 DEF Ends, UpTo
    <2> QED  BY <2>2, <2>3
<1> QED
    BY <1>5, <1>7, <1>8

LEMMA PageBounds ==
    ASSUME NEW I, NEW items \in Seq(I), items # <<>>, NEW j \in 1..Cardinality(Starts(items))
    PROVE  /\ Nth(Starts(items), j) \in Starts(items)
           /\ Nth(Starts(items), j) \in 1..Len(items)
           /\ Cardinality(UpTo(Starts(items), Nth(Starts(items), j))) = j
           /\ Nth(Ends(items), j) \in Ends(items)
           /\ Nth(Ends(items), j) \in 0..Len(items)
           /\ Cardinality(UpTo(Ends(items), Nth(Ends(items), j))) = j
<1> PICK n, S, E : n = Len(items) /\ S = Starts(items) /\ E = Ends(items)
    OBVIOUS
<1>1. n \in Nat /\ n > 0 /\ DOMAIN items = 1..n
    OBVIOUS
<1>2. S \in SUBSET (1..n) /\ E \in SUBSET (0..n) /\ Cardinality(E) = Cardinality(S)
    BY <1>1, StartsFirst, EndsCount
<1>3. S \in SUBSET (0..n)
    BY <1>2
<1>4. Nth(S, j) \in S /\ Cardinality(UpTo(S, Nth(S, j))) = j
    BY <1>1, <1>3, NthIs
<1>5. Nth(E, j) \in E /\ Cardinality(UpTo(E, Nth(E, j))) = j
    BY <1>1, <1>2, NthIs
<1> QED
    BY <1>2, <1>4, <1>5

\* The pages of a section are made of its items, and every item is on one.
LEMMA PagesCover ==
    ASSUME NEW I, NEW items \in Seq(I)
    PROVE  /\ Paginate(items) \in Seq(Seq(I))
           /\ \A p \in DOMAIN Paginate(items) : Elements(Paginate(items)[p]) \subseteq Elements(items)
           /\ \A i \in DOMAIN items : \E p \in DOMAIN Paginate(items) :
                    items[i] \in Elements(Paginate(items)[p])
<1>1. CASE items = <<>>
    <2>1. Starts(items) = {}
        <3>1. Starts(items) \in SUBSET (1..0)
            BY <1>1, StartsFirst
        <3> QED  BY <3>1
    <2>2. Cardinality(Starts(items)) = 0
        BY <2>1, FS_EmptySet
    <2>3. Paginate(items) = <<>>
        BY <2>2, PaginateIs
    <2>4. <<>> \in Seq(Seq(I)) /\ DOMAIN Paginate(items) = {} /\ DOMAIN items = {}
        BY <1>1, <2>3
    <2> QED  BY <2>3, <2>4
<1>2. CASE items # <<>>
    <2> PICK n, S, E, c : n = Len(items) /\ S = Starts(items) /\ E = Ends(items) /\ c = Cardinality(S)
        OBVIOUS
    <2>1. n \in Nat /\ n > 0 /\ DOMAIN items = 1..n
        BY <1>2
    <2>2. S \in SUBSET (1..n) /\ 1 \in S /\ E \in SUBSET (0..n) /\ IsFiniteSet(S) /\ IsFiniteSet(E)
          /\ c \in Nat
        BY <1>2, <2>1, StartsFirst, EndsCount, FS_CardinalityType
    <2> PICK pages : pages = Paginate(items)
        OBVIOUS
    <2>3. DOMAIN pages = 1..c /\ \A j \in 1..c : pages[j] = SubSeq(items, Nth(S, j), Nth(E, j))
        BY PaginateIs
    <2>4. ASSUME NEW j \in 1..c
          PROVE  /\ pages[j] \in Seq(I)
                 /\ Elements(pages[j]) = {items[i] : i \in Nth(S, j)..Nth(E, j)}
        <3> PICK a, b : a = Nth(S, j) /\ b = Nth(E, j)
            OBVIOUS
        <3>1. a \in 1..n /\ b \in 0..n
            BY <1>2, PageBounds
        <3>2. \A i \in a..b : items[i] \in I
            BY <2>1, <3>1
        <3>3. /\ SubSeq(items, a, b) \in Seq(I)
              /\ Len(SubSeq(items, a, b)) = IF a <= b THEN b - a + 1 ELSE 0
              /\ \A i \in 1..(b - a + 1) : SubSeq(items, a, b)[i] = items[a + i - 1]
            BY <2>1, <3>1, <3>2, SubSeqProperties
        <3> PICK page : page = SubSeq(items, a, b)
            OBVIOUS
        <3>4. DOMAIN page = 1..(b - a + 1)
            BY <2>1, <3>1, <3>3
        <3>5. ASSUME NEW x \in Elements(page) PROVE x \in {items[i] : i \in a..b}
            <4>1. PICK k \in 1..(b - a + 1) : x = page[k]
                BY <3>4 DEF Elements
            <4>2. a + k - 1 \in a..b
                BY <2>1, <3>1
            <4> QED  BY <3>3, <4>1, <4>2
        <3>6. ASSUME NEW i \in a..b PROVE items[i] \in Elements(page)
            <4>1. i - a + 1 \in 1..(b - a + 1) /\ a + (i - a + 1) - 1 = i
                BY <2>1, <3>1
            <4>2. page[i - a + 1] = items[a + (i - a + 1) - 1]
                BY <3>3, <4>1
            <4> QED  BY <3>4, <4>1, <4>2 DEF Elements
        <3>7. Elements(page) = {items[i] : i \in a..b}
            BY <3>5, <3>6
        <3> QED  BY <2>3, <3>3, <3>7
    <2>5. pages \in Seq(Seq(I))
        <3>1. pages = [j \in 1..c |-> pages[j]]
            BY <2>3, PaginateIs
        <3>2. \A j \in 1..c : pages[j] \in Seq(I)
            BY <2>4
        <3> QED  BY <2>2, <3>1, <3>2
    <2>6. ASSUME NEW p \in DOMAIN pages PROVE Elements(pages[p]) \subseteq Elements(items)
        <3>1. p \in 1..c /\ Nth(S, p) \in 1..n /\ Nth(E, p) \in 0..n
            BY <1>2, <2>3, <2>6, PageBounds
        <3>2. \A i \in Nth(S, p)..Nth(E, p) : i \in 1..n
            BY <2>1, <3>1
        <3>3. Elements(pages[p]) = {items[i] : i \in Nth(S, p)..Nth(E, p)}
            BY <2>4, <3>1
        <3>4. \A i \in 1..n : items[i] \in Elements(items)
            BY <2>1 DEF Elements
        <3> QED  BY <3>2, <3>3, <3>4
    <2>7. ASSUME NEW i \in DOMAIN items
          PROVE  \E p \in DOMAIN pages : items[i] \in Elements(pages[p])
        <3>0. i \in 1..n /\ S \in SUBSET Nat /\ \A k \in S : k \in Nat
            BY <2>1, <2>2
        <3> PICK j : j = Cardinality(UpTo(S, i))
            OBVIOUS
        <3>1. IsFiniteSet(UpTo(S, i)) /\ j \in Nat /\ j <= c
            BY <2>2, <3>0, CountUpTo
        <3>2. j # 0
            <4>1. 1 \in UpTo(S, i)
                BY <2>2, <3>0 DEF UpTo
            <4> QED  BY <3>1, <4>1, FS_EmptySet
        <3>3. j \in 1..c
            BY <2>2, <3>1, <3>2
        <3> PICK a, b : a = Nth(S, j) /\ b = Nth(E, j)
            OBVIOUS
        <3>4. /\ a \in S /\ a \in 1..n /\ Cardinality(UpTo(S, a)) = j
              /\ b \in E /\ b \in 0..n /\ Cardinality(UpTo(E, b)) = j
            BY <1>2, <3>3, PageBounds
        <3>5. a <= i
            <4> SUFFICES ASSUME ~(a <= i) PROVE FALSE
                OBVIOUS
            <4>1. UpTo(S, i) \cup {a} \in SUBSET UpTo(S, a) /\ a \notin UpTo(S, i)
                <5>1. \A k \in S : k <= i => k <= a
                    BY <2>1, <3>0, <3>4
                <5>2. a <= a
                    BY <3>4
                <5> QED  BY <3>4, <5>1, <5>2 DEF UpTo
            <4>2. Cardinality(UpTo(S, i) \cup {a}) = j + 1
                BY <3>1, <4>1, FS_AddElement
            <4>3. IsFiniteSet(UpTo(S, a))
                BY <2>2, <3>0, <3>4, CountUpTo
            <4>4. Cardinality(UpTo(S, i) \cup {a}) <= Cardinality(UpTo(S, a))
                BY <4>1, <4>3, FS_Subset
            <4> QED  BY <3>1, <3>4, <4>2, <4>4
        <3>6. i <= b
            <4> SUFFICES ASSUME ~(i <= b) PROVE FALSE
                OBVIOUS
            <4>1. b \in Nat /\ b < n /\ b + 1 <= i
                BY <2>1, <3>0, <3>4
            <4>2. j = Cardinality(UpTo(S, b + 1)) - 1
                BY <1>2, <3>4, <4>1, EndsBefore
            <4>3. UpTo(S, b + 1) \in SUBSET UpTo(S, i)
                <5>1. \A k \in S : k <= b + 1 => k <= i
                    BY <3>0, <4>1
                <5> QED  BY <5>1 DEF UpTo
            <4>4. Cardinality(UpTo(S, b + 1)) <= j
                BY <3>1, <4>3, FS_Subset
            <4>5. Cardinality(UpTo(S, b + 1)) \in Nat
                BY <2>2, <3>0, <4>1, CountUpTo
            <4> QED  BY <3>1, <4>2, <4>4, <4>5
        <3>7. i \in a..b
            BY <3>0, <3>4, <3>5, <3>6
        <3> QED  BY <2>3, <2>4, <3>3, <3>7
    <2> QED  BY <2>5, <2>6, <2>7
<1> QED
    BY <1>1, <1>2
-----------------------------------------------------------------------------
(* The package.                                                             *)

\* Where the loop stops: at the first message it does not take.
LEMMA SelectedIs ==
    ASSUME NEW I, NEW newest \in Seq(I), NEW reads, NEW groups, NEW k, k = Selected(reads, groups, newest)
    PROVE  /\ k \in 0..Len(newest)
           /\ k = Len(newest) \/ Verdict(reads, groups, newest, k) # "take"
           /\ \A j \in 0..(k - 1) : Verdict(reads, groups, newest, j) = "take"
<1> PICK n : n = Len(newest)
    OBVIOUS
<1> DEFINE Stop(i) == i = n \/ Verdict(reads, groups, newest, i) # "take"
           T == {i \in 0..n : Stop(i)}
<1>0. n \in Nat
    OBVIOUS
<1>1. n \in T /\ T \in SUBSET Nat
    BY <1>0
<1>2. PICK h \in T : \A m \in T : h <= m
    <2> HIDE DEF T
    <2> QED  BY <1>1, LeastNatural
<1>3. \A j \in 0..(h - 1) : j \in 0..n /\ j \notin T /\ j # n
    BY <1>0, <1>2
<1>4. /\ h \in 0..n
      /\ h = n \/ Verdict(reads, groups, newest, h) # "take"
      /\ \A j \in 0..(h - 1) : Verdict(reads, groups, newest, j) = "take"
    BY <1>2, <1>3
<1> HIDE DEF T, Stop
<1>5. \E i \in 0..Len(newest) :
        /\ i = Len(newest) \/ Verdict(reads, groups, newest, i) # "take"
        /\ \A j \in 0..(i - 1) : Verdict(reads, groups, newest, j) = "take"
    BY <1>4
<1> QED
    BY <1>5 DEF Selected

LEMMA SelectedIn ==
    ASSUME NEW I, NEW newest \in Seq(I), NEW reads, NEW groups
    PROVE  Selected(reads, groups, newest) \in 0..Len(newest)
BY SelectedIs

LEMMA SuffixIs ==
    ASSUME NEW I, NEW newest \in Seq(I), NEW k \in 0..Len(newest)
    PROVE  /\ Suffix(newest, k) \in Seq(I) /\ Len(Suffix(newest, k)) = k
           /\ \A i \in 1..k : Suffix(newest, k)[i] = newest[k + 1 - i]
<1> PICK s : s = SubSeq(newest, 1, k)
    OBVIOUS
<1>0. k \in Nat /\ k <= Len(newest) /\ \A i \in 1..k : newest[i] \in I
    OBVIOUS
<1>1. Len(s) = k /\ \A i \in 1..k : s[i] = newest[i]
    <2>1. /\ Len(s) = IF 1 <= k THEN k - 1 + 1 ELSE 0
          /\ \A i \in 1..(k - 1 + 1) : s[i] = newest[1 + i - 1]
        BY <1>0, SubSeqProperties
    <2>2. \A i \in 1..k : i \in 1..(k - 1 + 1) /\ 1 + i - 1 = i
        BY <1>0
    <2> QED  BY <1>0, <2>1, <2>2
<1>2. Suffix(newest, k) = [i \in 1..k |-> s[k + 1 - i]]
    BY <1>1 DEF Suffix, Backwards
<1>3. \A i \in 1..k : k + 1 - i \in 1..k
    BY <1>0
<1>4. \A i \in 1..k : Suffix(newest, k)[i] = newest[k + 1 - i]
    BY <1>1, <1>2, <1>3
<1>5. Suffix(newest, k) \in Seq(I) /\ Len(Suffix(newest, k)) = k
    BY <1>0, <1>1, <1>2, <1>3
<1> QED
    BY <1>4, <1>5

LEMMA SuffixHolds ==
    ASSUME NEW I, NEW newest \in Seq(I), NEW k \in 0..Len(newest)
    PROVE  /\ Suffix(newest, k) \in Seq(I)
           /\ Elements(Suffix(newest, k)) = {newest[i] : i \in 1..k}
<1> PICK s : s = Suffix(newest, k)
    OBVIOUS
<1>1. s \in Seq(I) /\ Len(s) = k /\ \A i \in 1..k : s[i] = newest[k + 1 - i]
    BY SuffixIs
<1>2. k \in Nat /\ DOMAIN s = 1..k
    BY <1>1
<1>3. \A i \in 1..k : k + 1 - i \in 1..k /\ k + 1 - (k + 1 - i) = i
    BY <1>2
<1>4. ASSUME NEW x \in Elements(s) PROVE x \in {newest[i] : i \in 1..k}
    BY <1>1, <1>2, <1>3, <1>4 DEF Elements
<1>5. ASSUME NEW i \in 1..k PROVE newest[i] \in Elements(s)
    <2>1. s[k + 1 - i] = newest[k + 1 - (k + 1 - i)]
        BY <1>1, <1>3
    <2>2. s[k + 1 - i] = newest[i] /\ k + 1 - i \in 1..k
        BY <1>3, <2>1
    <2> QED  BY <1>2, <2>2 DEF Elements
<1> QED
    BY <1>1, <1>4, <1>5

\* The first k items.
Firsts(items, k) == {items[i] : i \in 1..k}

\* The items of some pages.
Contents(pages) == UNION {Elements(pages[p].items) : p \in DOMAIN pages}

Sections == {"read_states", "groups", "recent_plain_messages"}

Pages(I) == [section : Sections, items : Seq(I)]

LEMMA SectionHolds ==
    ASSUME NEW I, NEW items \in Seq(I), NEW name \in Sections
    PROVE  /\ Section(name, Paginate(items)) \in Seq(Pages(I))
           /\ Contents(Section(name, Paginate(items))) = Elements(items)
<1> PICK pages, sect : pages = Paginate(items) /\ sect = Section(name, pages)
    OBVIOUS
<1>1. /\ pages \in Seq(Seq(I))
      /\ \A p \in DOMAIN pages : Elements(pages[p]) \subseteq Elements(items)
      /\ \A i \in DOMAIN items : \E p \in DOMAIN pages : items[i] \in Elements(pages[p])
    BY PagesCover
<1>2. /\ DOMAIN sect = DOMAIN pages
      /\ \A p \in DOMAIN pages : sect[p] = [section |-> name, items |-> pages[p]]
    BY DEF Section
<1>3. \A p \in DOMAIN pages : sect[p] \in Pages(I) /\ sect[p].items = pages[p]
    <2>1. \A p \in DOMAIN pages : pages[p] \in Seq(I)
        BY <1>1
    <2> QED  BY <1>2, <2>1 DEF Pages
<1>4. sect \in Seq(Pages(I))
    <2> PICK c \in Nat : DOMAIN pages = 1..c
        BY <1>1
    <2>1. sect = [p \in 1..c |-> sect[p]]
        BY <1>2 DEF Section
    <2>2. \A p \in 1..c : sect[p] \in Pages(I)
        BY <1>3
    <2> QED  BY <2>1, <2>2
<1>5. ASSUME NEW x \in Contents(sect) PROVE x \in Elements(items)
    <2>1. PICK p \in DOMAIN sect : x \in Elements(sect[p].items)
        BY <1>5 DEF Contents
    <2> QED  BY <1>1, <1>2, <1>3, <2>1
<1>6. ASSUME NEW x \in Elements(items) PROVE x \in Contents(sect)
    <2>1. PICK i \in DOMAIN items : x = items[i]
        BY <1>6 DEF Elements
    <2>2. PICK p \in DOMAIN pages : x \in Elements(pages[p])
        BY <1>1, <2>1
    <2> QED  BY <1>2, <1>3, <2>2 DEF Contents
<1> QED
    BY <1>4, <1>5, <1>6

LEMMA ContentsConcat ==
    ASSUME NEW I, NEW s \in Seq(Pages(I)), NEW t \in Seq(Pages(I))
    PROVE  s \o t \in Seq(Pages(I)) /\ Contents(s \o t) = Contents(s) \cup Contents(t)
<1> PICK u : u = s \o t
    OBVIOUS
<1>1. /\ u \in Seq(Pages(I)) /\ Len(u) = Len(s) + Len(t) /\ Len(s) \in Nat /\ Len(t) \in Nat
      /\ DOMAIN u = 1..(Len(s) + Len(t)) /\ DOMAIN s = 1..Len(s) /\ DOMAIN t = 1..Len(t)
      /\ \A i \in 1..(Len(s) + Len(t)) : u[i] = IF i <= Len(s) THEN s[i] ELSE t[i - Len(s)]
    BY ConcatProperties
<1>2. ASSUME NEW x \in Contents(u) PROVE x \in Contents(s) \cup Contents(t)
    <2>1. PICK p \in DOMAIN u : x \in Elements(u[p].items)
        BY <1>2 DEF Contents
    <2>2. CASE p <= Len(s)
        <3>1. p \in DOMAIN s /\ u[p] = s[p]
            BY <1>1, <2>2
        <3> QED  BY <2>1, <3>1 DEF Contents
    <2>3. CASE ~(p <= Len(s))
        <3>1. p - Len(s) \in DOMAIN t /\ u[p] = t[p - Len(s)]
            BY <1>1, <2>3
        <3> QED  BY <2>1, <3>1 DEF Contents
    <2> QED  BY <2>2, <2>3
<1>3. ASSUME NEW x \in Contents(s) PROVE x \in Contents(u)
    <2>1. PICK p \in DOMAIN s : x \in Elements(s[p].items)
        BY <1>3 DEF Contents
    <2>2. p \in DOMAIN u /\ u[p] = s[p]
        BY <1>1
    <2> QED  BY <2>1, <2>2 DEF Contents
<1>4. ASSUME NEW x \in Contents(t) PROVE x \in Contents(u)
    <2>1. PICK p \in DOMAIN t : x \in Elements(t[p].items)
        BY <1>4 DEF Contents
    <2>2. p + Len(s) \in DOMAIN u /\ u[p + Len(s)] = t[p]
        <3>1. p + Len(s) \in DOMAIN u /\ ~(p + Len(s) <= Len(s)) /\ (p + Len(s)) - Len(s) = p
            BY <1>1
        <3> QED  BY <1>1, <3>1
    <2> QED  BY <2>1, <2>2 DEF Contents
<1> QED
    BY <1>1, <1>2, <1>3, <1>4

\* The pages of a package hold all of the required state and the messages that
\* were selected, each on a page and nothing besides; there is a page at least.
THEOREM PackageHolds ==
    ASSUME NEW I, NEW reads \in Seq(I), NEW groups \in Seq(I), NEW newest \in Seq(I)
    PROVE  LET pages == PackagePages(reads, groups, newest)
               k == Selected(reads, groups, newest)
           IN  /\ pages \in Seq(Pages(I)) /\ pages # <<>>
               /\ k \in 0..Len(newest)
               /\ Contents(pages) = Elements(reads) \cup Elements(groups) \cup Firsts(newest, k)
<1> PICK k, messages, a, b, c, ab, all :
        /\ k = Selected(reads, groups, newest)
        /\ messages = Suffix(newest, k)
        /\ a = Section("read_states", Paginate(reads))
        /\ b = Section("groups", Paginate(groups))
        /\ c = Section("recent_plain_messages", Paginate(messages))
        /\ ab = a \o b
        /\ all = ab \o c
    OBVIOUS
<1>1. k \in 0..Len(newest)
    BY SelectedIn
<1>2. messages \in Seq(I) /\ Elements(messages) = Firsts(newest, k)
    BY <1>1, SuffixHolds DEF Firsts
<1>3. /\ a \in Seq(Pages(I)) /\ Contents(a) = Elements(reads)
      /\ b \in Seq(Pages(I)) /\ Contents(b) = Elements(groups)
      /\ c \in Seq(Pages(I)) /\ Contents(c) = Elements(messages)
    <2>1. {"read_states", "groups", "recent_plain_messages"} \subseteq Sections
        BY DEF Sections
    <2> QED  BY <1>2, <2>1, SectionHolds
<1>4. ab \in Seq(Pages(I)) /\ Contents(ab) = Contents(a) \cup Contents(b)
    BY <1>3, ContentsConcat
<1>5. all \in Seq(Pages(I)) /\ Contents(all) = Contents(ab) \cup Contents(c)
    <2>1. ab \in Seq(Pages(I)) /\ c \in Seq(Pages(I))
        BY <1>3, <1>4
    <2>2. ab \o c \in Seq(Pages(I)) /\ Contents(ab \o c) = Contents(ab) \cup Contents(c)
        BY ONLY <2>1, ContentsConcat
    <2> QED  BY <2>2
<1> PICK one : one = [section |-> "read_states", items |-> <<>>]
    OBVIOUS
<1>6. PackagePages(reads, groups, newest) = IF all = <<>> THEN <<one>> ELSE all
    BY DEF PackagePages
<1>7. /\ <<one>> \in Seq(Pages(I)) /\ <<one>> # <<>> /\ Contents(<<one>>) = {}
      /\ Contents(<<>>) = {}
    <2>1. one \in Pages(I)
        BY DEF Pages, Sections
    <2>2. Elements(one.items) = {}
        BY DEF Elements
    <2>3. Contents(<<one>>) = {}
        BY <2>2 DEF Contents
    <2>4. Contents(<<>>) = {}
        BY DEF Contents
    <2> QED  BY <2>1, <2>3, <2>4
<1> QED
    BY <1>1, <1>2, <1>3, <1>4, <1>5, <1>6, <1>7
-----------------------------------------------------------------------------
(* Sums of sizes.                                                           *)

\* Every item has a size.
Sized(I) == \A x \in I : x.size \in Nat

\* f[k] is the size of the first k items, for k up to n.
SumUpTo(items, f, n) ==
    f = [k \in 0..n |-> IF k = 0 THEN 0 ELSE f[k - 1] + items[k].size]

LEMMA SumUpToExists ==
    ASSUME NEW items, NEW n \in Nat
    PROVE  \E f : SumUpTo(items, f, n)
<1> DEFINE Bad == {h \in Nat : ~ \E f : SumUpTo(items, f, h)}
<1>1. SUFFICES ASSUME Bad # {} PROVE FALSE
    OBVIOUS
<1>2. PICK h \in Bad : \A g \in Bad : h <= g
    <2> HIDE DEF Bad
    <2>1. Bad \in SUBSET Nat
        BY DEF Bad
    <2> QED  BY <1>1, <2>1, LeastNatural
<1>3. h # 0
    <2> PICK f : f = [k \in 0..0 |-> 0]
        OBVIOUS
    <2>1. SumUpTo(items, f, 0)
        BY DEF SumUpTo
    <2> QED  BY <1>2, <2>1
<1> PICK g \in Nat : h = g + 1
    <2>1. h - 1 \in Nat /\ h = (h - 1) + 1
        BY <1>2, <1>3
    <2> QED  BY <2>1
<1>4. PICK f : SumUpTo(items, f, g)
    <2>1. g \notin Bad
        BY <1>2
    <2> QED  BY <2>1
<1> PICK e : e = [k \in 0..(g + 1) |-> IF k = g + 1 THEN f[g] + items[g + 1].size ELSE f[k]]
    OBVIOUS
<1>5. \A k \in 0..g : e[k] = f[k] /\ f[k] = IF k = 0 THEN 0 ELSE f[k - 1] + items[k].size
    BY <1>4 DEF SumUpTo
<1>6. ASSUME NEW k \in 0..(g + 1)
      PROVE  e[k] = IF k = 0 THEN 0 ELSE e[k - 1] + items[k].size
    <2>1. CASE k = g + 1
        <3>1. g \in 0..g /\ k - 1 = g /\ k # 0
            BY <2>1
        <3> QED  BY <1>5, <2>1, <3>1
    <2>2. CASE k # g + 1
        <3>1. k \in 0..g /\ (k # 0 => k - 1 \in 0..g)
            BY <2>2
        <3> QED  BY <1>5, <3>1
    <2> QED  BY <2>1, <2>2
<1>7. SumUpTo(items, e, g + 1)
    BY <1>6 DEF SumUpTo
<1> QED
    BY <1>2, <1>7

\* What Total computes: the last of the running sums.
LEMMA TotalIs ==
    ASSUME NEW I, Sized(I), NEW items \in Seq(I)
    PROVE  \E f : SumUpTo(items, f, Len(items)) /\ Total(items) = f[Len(items)]
<1>1. \E f : SumUpTo(items, f, Len(items))
    BY SumUpToExists
<1> PICK c : c = CHOOSE f : f = [k \in 0..Len(items) |-> IF k = 0 THEN 0 ELSE f[k - 1] + items[k].size]
    OBVIOUS
<1>2. SumUpTo(items, c, Len(items))
    BY <1>1 DEF SumUpTo
<1>3. Total(items) = c[Len(items)]
    BY DEF Total
<1> QED
    BY <1>2, <1>3

Measured(items, n) == \A k \in 1..n : items[k].size \in Nat

LEMMA SumSteps ==
    ASSUME NEW items, NEW n \in Nat, Measured(items, n),
           NEW f, SumUpTo(items, f, n)
    PROVE  /\ f[0] = 0
           /\ \A k \in 0..n : f[k] \in Nat
           /\ \A k \in 1..n : f[k] = f[k - 1] + items[k].size
<1>1. \A k \in 0..n : f[k] = IF k = 0 THEN 0 ELSE f[k - 1] + items[k].size
    BY DEF SumUpTo
<1>2. f[0] = 0 /\ \A k \in 1..n : f[k] = f[k - 1] + items[k].size
    BY <1>1
<1> DEFINE Bad == {h \in Nat : h <= n /\ f[h] \notin Nat}
<1>3. Bad = {}
    <2> SUFFICES ASSUME Bad # {} PROVE FALSE
        OBVIOUS
    <2>1. PICK h \in Bad : \A g \in Bad : h <= g
        <3> HIDE DEF Bad
        <3>1. Bad \in SUBSET Nat
            BY DEF Bad
        <3> QED  BY <3>1, LeastNatural
    <2>2. h # 0 /\ h \in 1..n
        BY <1>2, <2>1
    <2>3. h - 1 \in Nat /\ h - 1 <= n /\ h - 1 \notin Bad
        BY <2>1, <2>2
    <2>4. f[h - 1] \in Nat
        BY <2>3
    <2>5. items[h].size \in Nat
        BY <2>2 DEF Measured
    <2> QED  BY <1>2, <2>1, <2>2, <2>4, <2>5
<1>4. \A k \in 0..n : f[k] \in Nat
    BY <1>3
<1> QED
    BY <1>2, <1>4

\* Running sums never fall.
LEMMA SumRises ==
    ASSUME NEW items, NEW n \in Nat, Measured(items, n),
           NEW f, SumUpTo(items, f, n), NEW a \in 0..n, NEW b \in 0..n, a <= b
    PROVE  f[a] <= f[b]
<1>1. /\ \A k \in 0..n : f[k] \in Nat
      /\ \A k \in 1..n : f[k] = f[k - 1] + items[k].size
    BY SumSteps
<1> DEFINE Bad == {h \in Nat : a <= h /\ h <= n /\ ~(f[a] <= f[h])}
<1>2. Bad = {}
    <2> SUFFICES ASSUME Bad # {} PROVE FALSE
        OBVIOUS
    <2>1. PICK h \in Bad : \A g \in Bad : h <= g
        <3> HIDE DEF Bad
        <3>1. Bad \in SUBSET Nat
            BY DEF Bad
        <3> QED  BY <3>1, LeastNatural
    <2>2. h # a /\ h \in 1..n
        BY <1>1, <2>1
    <2>3. h - 1 \in Nat /\ h - 1 \in 0..n /\ a <= h - 1 /\ h - 1 \notin Bad
        BY <2>1, <2>2
    <2>4. f[a] <= f[h - 1]
        BY <2>3
    <2>5. items[h].size \in Nat
        BY <2>2 DEF Measured
    <2> QED  BY <1>1, <2>1, <2>2, <2>3, <2>4, <2>5
<1> QED
    BY <1>2

\* The first m items of t are as large as those of items from o + 1 on.
SameFrom(items, o, t, m) == \A k \in 1..m : t[k].size = items[o + k].size

LEMMA SumShifts ==
    ASSUME NEW items, NEW n \in Nat, Measured(items, n),
           NEW f, SumUpTo(items, f, n),
           NEW t, NEW m \in Nat, NEW o \in Nat, o + m <= n,
           SameFrom(items, o, t, m), NEW g, SumUpTo(t, g, m)
    PROVE  \A k \in 0..m : g[k] = f[o + k] - f[o]
<1>1. /\ f[0] = 0
      /\ \A k \in 0..n : f[k] \in Nat
      /\ \A k \in 1..n : f[k] = f[k - 1] + items[k].size
    BY SumSteps
<1>0. \A k \in 1..n : items[k].size \in Nat
    BY DEF Measured
<1>2. \A k \in 1..m : o + k \in 1..n /\ t[k].size = items[o + k].size /\ t[k].size \in Nat
    BY <1>0 DEF SameFrom
<1>3. /\ g[0] = 0
      /\ \A k \in 0..m : g[k] \in Nat
      /\ \A k \in 1..m : g[k] = g[k - 1] + t[k].size
    <2>1. Measured(t, m)
        BY <1>2 DEF Measured
    <2> QED  BY <2>1, SumSteps
<1> DEFINE Bad == {h \in Nat : h <= m /\ g[h] # f[o + h] - f[o]}
<1>4. Bad = {}
    <2> SUFFICES ASSUME Bad # {} PROVE FALSE
        OBVIOUS
    <2>1. PICK h \in Bad : \A e \in Bad : h <= e
        <3> HIDE DEF Bad
        <3>1. Bad \in SUBSET Nat
            BY DEF Bad
        <3> QED  BY <3>1, LeastNatural
    <2>2. h # 0
        <3>1. o + 0 = o /\ o \in 0..n
            OBVIOUS
        <3> QED  BY <1>1, <1>3, <2>1, <3>1
    <2>3. /\ h \in 1..m /\ h - 1 \in Nat /\ h - 1 <= m /\ h - 1 \notin Bad
          /\ o \in 0..n /\ o + h \in 1..n /\ o + (h - 1) \in 0..n /\ (o + h) - 1 = o + (h - 1)
        BY <2>1, <2>2
    <2>4. g[h - 1] = f[o + (h - 1)] - f[o]
        BY <2>3
    <2>5. f[o + h] = f[o + (h - 1)] + items[o + h].size /\ f[o] \in Nat /\ f[o + (h - 1)] \in Nat
          /\ items[o + h].size \in Nat
        BY <1>0, <1>1, <2>3
    <2>6. g[h] = g[h - 1] + items[o + h].size
        BY <1>2, <1>3, <2>3
    <2> QED  BY <2>1, <2>4, <2>5, <2>6
<1> QED
    BY <1>4

LEMMA SliceIs ==
    ASSUME NEW I, NEW items \in Seq(I), NEW a \in 1..(Len(items) + 1), NEW b \in 0..Len(items), a <= b + 1
    PROVE  /\ SubSeq(items, a, b) \in Seq(I)
           /\ Len(SubSeq(items, a, b)) = b - a + 1
           /\ \A k \in 1..(b - a + 1) : SubSeq(items, a, b)[k] = items[(a - 1) + k]
<1> PICK n : n = Len(items)
    OBVIOUS
<1>1. n \in Nat /\ \A i \in a..b : items[i] \in I
    OBVIOUS
<1>2. /\ SubSeq(items, a, b) \in Seq(I)
      /\ Len(SubSeq(items, a, b)) = IF a <= b THEN b - a + 1 ELSE 0
      /\ \A i \in 1..(b - a + 1) : SubSeq(items, a, b)[i] = items[a + i - 1]
    BY <1>1, SubSeqProperties
<1>3. \A i \in 1..(b - a + 1) : a + i - 1 = (a - 1) + i
    OBVIOUS
<1> QED
    BY <1>1, <1>2, <1>3

\* The size of a slice is a difference of running sums.
LEMMA SliceTotal ==
    ASSUME NEW I, Sized(I), NEW items \in Seq(I), NEW f, SumUpTo(items, f, Len(items)),
           NEW a \in 1..(Len(items) + 1), NEW b \in 0..Len(items), a <= b + 1
    PROVE  Total(SubSeq(items, a, b)) = f[b] - f[a - 1]
<1> PICK n, t, m, o : n = Len(items) /\ t = SubSeq(items, a, b) /\ m = b - a + 1 /\ o = a - 1
    OBVIOUS
<1>1. n \in Nat /\ m \in Nat /\ o \in Nat /\ o + m <= n /\ o + m = b /\ m \in 0..m
    OBVIOUS
<1>2. Measured(items, n)
    BY DEF Sized, Measured
<1>3. t \in Seq(I) /\ Len(t) = m /\ \A k \in 1..m : t[k] = items[o + k]
    <2>1. /\ SubSeq(items, a, b) \in Seq(I)
          /\ Len(SubSeq(items, a, b)) = b - a + 1
          /\ \A k \in 1..(b - a + 1) : SubSeq(items, a, b)[k] = items[(a - 1) + k]
        BY SliceIs
    <2> QED  BY <2>1
<1>4. PICK g : SumUpTo(t, g, Len(t)) /\ Total(t) = g[Len(t)]
    BY <1>3, TotalIs
<1>5. SumUpTo(t, g, m) /\ Total(t) = g[m] /\ SumUpTo(items, f, n)
    BY <1>3, <1>4
<1>6. SameFrom(items, o, t, m)
    BY <1>3 DEF SameFrom
<1>7. \A k \in 0..m : g[k] = f[o + k] - f[o]
    BY ONLY <1>1, <1>2, <1>5, <1>6, SumShifts
<1> QED
    BY <1>1, <1>5, <1>7

LEMMA TotalType ==
    ASSUME NEW I, Sized(I), NEW items \in Seq(I)
    PROVE  Total(items) \in Nat
<1>1. PICK f : SumUpTo(items, f, Len(items)) /\ Total(items) = f[Len(items)]
    BY TotalIs
<1>2. Len(items) \in Nat /\ Len(items) \in 0..Len(items) /\ Measured(items, Len(items))
    BY DEF Sized, Measured
<1>3. f[Len(items)] \in Nat
    BY <1>1, <1>2, SumSteps
<1> QED
    BY <1>1, <1>3

\* Turned around, the items are as large together.
LEMMA BackwardsTotal ==
    ASSUME NEW I, Sized(I), NEW items \in Seq(I)
    PROVE  /\ Backwards(items) \in Seq(I) /\ Len(Backwards(items)) = Len(items)
           /\ Total(Backwards(items)) = Total(items)
<1> PICK n, t : n = Len(items) /\ t = Backwards(items)
    OBVIOUS
<1>1. n \in Nat /\ \A k \in 1..n : n + 1 - k \in 1..n /\ items[n + 1 - k] \in I
    OBVIOUS
<1>2. t = [k \in 1..n |-> items[n + 1 - k]]
    BY DEF Backwards
<1>3. t \in Seq(I) /\ Len(t) = n /\ \A k \in 1..n : t[k] = items[n + 1 - k]
    BY <1>1, <1>2
<1>4. PICK f : SumUpTo(items, f, Len(items)) /\ Total(items) = f[Len(items)]
    BY TotalIs
<1>5. PICK g : SumUpTo(t, g, Len(t)) /\ Total(t) = g[Len(t)]
    BY <1>3, TotalIs
<1>6. \A k \in 1..n : items[k].size \in Nat /\ t[k].size \in Nat
    BY <1>1, <1>3 DEF Sized
<1>7. Measured(items, n) /\ Measured(t, n)
    BY <1>6 DEF Measured
<1>8. /\ f[0] = 0
      /\ \A k \in 0..n : f[k] \in Nat
      /\ \A k \in 1..n : f[k] = f[k - 1] + items[k].size
    <2>1. SumUpTo(items, f, n)
        BY <1>4
    <2> QED  BY ONLY <1>1, <1>7, <2>1, SumSteps
<1>9. /\ g[0] = 0
      /\ \A k \in 0..n : g[k] \in Nat
      /\ \A k \in 1..n : g[k] = g[k - 1] + t[k].size
    <2>1. SumUpTo(t, g, n)
        BY <1>3, <1>5
    <2> QED  BY ONLY <1>1, <1>7, <2>1, SumSteps
<1> DEFINE Bad == {h \in Nat : h <= n /\ g[h] # f[n] - f[n - h]}
<1>10. Bad = {}
    <2> SUFFICES ASSUME Bad # {} PROVE FALSE
        OBVIOUS
    <2>1. PICK h \in Bad : \A e \in Bad : h <= e
        <3> HIDE DEF Bad
        <3>1. Bad \in SUBSET Nat
            BY DEF Bad
        <3> QED  BY <3>1, LeastNatural
    <2>2. h # 0
        <3>1. n - 0 = n /\ n \in 0..n
            BY <1>1
        <3>2. f[n] \in Nat /\ f[n] - f[n - 0] = 0
            BY <1>8, <3>1
        <3> QED  BY <1>9, <2>1, <3>2
    <2>3. /\ h \in 1..n /\ h - 1 \in Nat /\ h - 1 <= n /\ h - 1 \notin Bad
          /\ n \in 0..n /\ n - h \in 0..n /\ n - (h - 1) = n + 1 - h /\ (n + 1 - h) - 1 = n - h
          /\ n + 1 - h \in 1..n /\ n + 1 - h \in 0..n
        BY <1>1, <2>1, <2>2
    <2>4. g[h - 1] = f[n] - f[n + 1 - h]
        BY <2>3
    <2>5. /\ f[n + 1 - h] = f[n - h] + items[n + 1 - h].size /\ items[n + 1 - h].size \in Nat
          /\ f[n] \in Nat /\ f[n - h] \in Nat
        BY <1>6, <1>8, <2>3
    <2>6. g[h] = g[h - 1] + items[n + 1 - h].size
        BY <1>3, <1>9, <2>3
    <2>7. g[h] # f[n] - f[n - h]
        BY <2>1
    <2> QED  BY ONLY <2>4, <2>5, <2>6, <2>7
<1>11. g[n] = f[n] - f[n - n] /\ n - n = 0 /\ n \in 0..n
    BY <1>1, <1>10
<1>12. g[n] = f[n]
    BY <1>8, <1>11
<1> QED
    BY <1>3, <1>4, <1>5, <1>12

\* A page that loses its first items still fits.
LEMMA FitsLess ==
    ASSUME NEW I, Sized(I), NEW items \in Seq(I),
           NEW p \in 1..Len(items), NEW q \in 1..Len(items), NEW k \in 1..Len(items), p <= q, q <= k,
           FitsPage(SubSeq(items, p, k))
    PROVE  FitsPage(SubSeq(items, q, k))
<1> PICK n : n = Len(items)
    OBVIOUS
<1>1. n \in Nat /\ Measured(items, n) /\ MaxPageItems \in Nat /\ MaxPageBytes \in Nat
    BY BudgetAssumption DEF Sized, Measured
<1>2. PICK f : SumUpTo(items, f, Len(items)) /\ Total(items) = f[Len(items)]
    BY TotalIs
<1>3. /\ p \in 1..(Len(items) + 1) /\ q \in 1..(Len(items) + 1) /\ k \in 0..Len(items)
      /\ p <= k + 1 /\ q <= k + 1
    BY <1>1
<1>4. Len(SubSeq(items, p, k)) = k - p + 1 /\ Len(SubSeq(items, q, k)) = k - q + 1
    BY <1>3, SliceIs
<1>5. Total(SubSeq(items, p, k)) = f[k] - f[p - 1] /\ Total(SubSeq(items, q, k)) = f[k] - f[q - 1]
    BY <1>2, <1>3, SliceTotal
<1>6. p - 1 \in 0..n /\ q - 1 \in 0..n /\ k \in 0..n /\ p - 1 <= q - 1
    OBVIOUS
<1>7. f[p - 1] <= f[q - 1]
    BY <1>1, <1>2, <1>6, SumRises
<1>8. f[p - 1] \in Nat /\ f[q - 1] \in Nat /\ f[k] \in Nat
    BY <1>1, <1>2, <1>6, SumSteps
<1>9. k - p + 1 <= MaxPageItems /\ f[k] - f[p - 1] <= MaxPageBytes
    BY <1>4, <1>5 DEF FitsPage
<1>10. k - q + 1 <= MaxPageItems /\ f[k] - f[q - 1] <= MaxPageBytes
    BY <1>1, <1>7, <1>8, <1>9
<1> QED
    BY <1>4, <1>5, <1>10 DEF FitsPage
-----------------------------------------------------------------------------
(* One item more in front: at most one page more.                           *)

\* P is where the pages start when the items from m to n are paged.
StartsFrom(items, P, m, n) ==
    P \in SUBSET (m..n) /\ \A k \in m..n : k \in P <=> Begins(items, P, k)

\* l is the last start at or before h.
LastAt(P, h, l) == l \in P /\ l <= h /\ \A q \in P : q <= h => q <= l

LEMMA StartsAre ==
    ASSUME NEW I, NEW items \in Seq(I)
    PROVE  StartsFrom(items, Starts(items), 1, Len(items))
<1>1. DOMAIN items = 1..Len(items) /\ Len(items) \in Nat
    OBVIOUS
<1>2. StartsOf(items, Starts(items), Len(items))
    BY <1>1, StartsFound
<1> QED
    BY <1>2 DEF StartsOf, StartsFrom

LEMMA StartsFromFinite ==
    ASSUME NEW items, NEW m \in Nat, NEW n \in Nat, NEW P, StartsFrom(items, P, m, n)
    PROVE  P \in SUBSET Nat /\ IsFiniteSet(P) /\ Cardinality(P) \in Nat /\ UpTo(P, n) = P
<1>1. P \in SUBSET (m..n) /\ \A k \in P : k \in Nat /\ m <= k /\ k <= n
    BY DEF StartsFrom
<1>2. IsFiniteSet(m..n)
    BY FS_Interval
<1>3. IsFiniteSet(P)
    BY <1>1, <1>2, FS_Subset
<1>4. Cardinality(P) \in Nat
    BY <1>3, FS_CardinalityType
<1>5. UpTo(P, n) = P
    BY <1>1 DEF UpTo
<1> QED
    BY <1>1, <1>3, <1>4, <1>5

LEMMA PageCountType ==
    ASSUME NEW I, NEW items \in Seq(I)
    PROVE  PageCount(items) \in Nat
<1> PICK n, P : n = Len(items) /\ P = Starts(items)
    OBVIOUS
<1>1. n \in Nat /\ 1 \in Nat
    OBVIOUS
<1>2. StartsFrom(items, P, 1, n)
    BY StartsAre
<1>3. Cardinality(P) \in Nat
    BY ONLY <1>1, <1>2, StartsFromFinite
<1> QED
    BY <1>3 DEF PageCount

\* The item at which the paging begins starts a page.
LEMMA FirstStarts ==
    ASSUME NEW items, NEW m \in Nat, NEW n \in Nat, m <= n, NEW P, StartsFrom(items, P, m, n)
    PROVE  m \in P
<1>1. m \in m..n /\ \A k \in P : ~(k < m)
    BY DEF StartsFrom
<1>2. Begins(items, P, m)
    BY <1>1 DEF Begins
<1> QED
    BY <1>1, <1>2 DEF StartsFrom

\* An item starts a page exactly when it does not fit the page in front of it.
LEMMA NextStart ==
    ASSUME NEW items, NEW m \in Nat, NEW n \in Nat, NEW P, StartsFrom(items, P, m, n),
           NEW h \in Nat, m <= h, h < n, NEW l, LastAt(P, h, l)
    PROVE  /\ h + 1 \in P <=> ~FitsPage(SubSeq(items, l, h + 1))
           /\ h + 1 \in P => LastAt(P, h + 1, h + 1)
           /\ h + 1 \notin P => LastAt(P, h + 1, l)
<1>1. h + 1 \in m..n /\ \A k \in P : k \in Nat /\ (k < h + 1 <=> k <= h)
                                    /\ (k <= h + 1 <=> k <= h \/ k = h + 1)
    BY DEF StartsFrom
<1>2. l \in P /\ l \in Nat /\ l <= h /\ l < h + 1 /\ \A q \in P : q <= h => q <= l
    BY <1>1 DEF LastAt
<1>3. ASSUME Begins(items, P, h + 1) PROVE ~FitsPage(SubSeq(items, l, h + 1))
    <2>1. ~ \E q \in P : l < q /\ q < h + 1
        BY <1>1, <1>2
    <2> QED  BY <1>2, <1>3, <2>1 DEF Begins
<1>4. ASSUME ~FitsPage(SubSeq(items, l, h + 1)) PROVE Begins(items, P, h + 1)
    <2> SUFFICES ASSUME NEW p \in P, p < h + 1
                 PROVE  \/ \E q \in P : p < q /\ q < h + 1
                        \/ ~FitsPage(SubSeq(items, p, h + 1))
        BY DEF Begins
    <2>1. p = l \/ p < l
        BY <1>1, <1>2
    <2> QED  BY <1>2, <1>4, <2>1
<1>5. h + 1 \in P <=> Begins(items, P, h + 1)
    BY <1>1 DEF StartsFrom
<1>6. h + 1 \in P => LastAt(P, h + 1, h + 1)
    BY <1>1 DEF LastAt
<1>7. h + 1 \notin P => LastAt(P, h + 1, l)
    <2> SUFFICES ASSUME h + 1 \notin P PROVE LastAt(P, h + 1, l)
        OBVIOUS
    <2>1. \A q \in P : q <= h + 1 => q <= h
        BY <1>1
    <2>2. l <= h + 1
        BY <1>2
    <2> QED  BY <1>2, <2>1, <2>2 DEF LastAt
<1> QED
    BY <1>3, <1>4, <1>5, <1>6, <1>7

\* P has as many pages as Q up to h and the last of P starts no later, or one
\* page more and the last of P starts no earlier.
Abreast(P, Q, h) ==
    \E i, j \in Nat :
        /\ LastAt(P, h, i) /\ LastAt(Q, h, j)
        /\ \/ Cardinality(UpTo(P, h)) = Cardinality(UpTo(Q, h)) /\ i <= j
           \/ Cardinality(UpTo(P, h)) = Cardinality(UpTo(Q, h)) + 1 /\ j <= i

LEMMA AbreastNext ==
    ASSUME NEW I, Sized(I), NEW items \in Seq(I), NEW P, NEW Q,
           StartsFrom(items, P, 1, Len(items)), StartsFrom(items, Q, 2, Len(items)),
           NEW h \in Nat, 2 <= h, h < Len(items), Abreast(P, Q, h)
    PROVE  Abreast(P, Q, h + 1)
<1> PICK n : n = Len(items)
    OBVIOUS
<1>1. n \in Nat /\ 1 \in Nat /\ 2 \in Nat /\ 1 <= h /\ h < n
    OBVIOUS
<1>2. P \in SUBSET Nat /\ IsFiniteSet(P) /\ Q \in SUBSET Nat /\ IsFiniteSet(Q)
    BY <1>1, StartsFromFinite
<1>3. PICK i \in Nat : \E j \in Nat :
        /\ LastAt(P, h, i) /\ LastAt(Q, h, j)
        /\ \/ Cardinality(UpTo(P, h)) = Cardinality(UpTo(Q, h)) /\ i <= j
           \/ Cardinality(UpTo(P, h)) = Cardinality(UpTo(Q, h)) + 1 /\ j <= i
    BY DEF Abreast
<1>4. PICK j \in Nat :
        /\ LastAt(P, h, i) /\ LastAt(Q, h, j)
        /\ \/ Cardinality(UpTo(P, h)) = Cardinality(UpTo(Q, h)) /\ i <= j
           \/ Cardinality(UpTo(P, h)) = Cardinality(UpTo(Q, h)) + 1 /\ j <= i
    BY <1>3
<1>5. /\ h + 1 \in P <=> ~FitsPage(SubSeq(items, i, h + 1))
      /\ h + 1 \in P => LastAt(P, h + 1, h + 1)
      /\ h + 1 \notin P => LastAt(P, h + 1, i)
    BY <1>1, <1>4, NextStart
<1>6. /\ h + 1 \in Q <=> ~FitsPage(SubSeq(items, j, h + 1))
      /\ h + 1 \in Q => LastAt(Q, h + 1, h + 1)
      /\ h + 1 \notin Q => LastAt(Q, h + 1, j)
    BY <1>1, <1>4, NextStart
<1> PICK c, d, c1, d1 : /\ c = Cardinality(UpTo(P, h)) /\ d = Cardinality(UpTo(Q, h))
                        /\ c1 = Cardinality(UpTo(P, h + 1)) /\ d1 = Cardinality(UpTo(Q, h + 1))
    OBVIOUS
<1>7. /\ c \in Nat /\ d \in Nat
      /\ h + 1 \in P => c1 = c + 1
      /\ h + 1 \notin P => c1 = c
      /\ h + 1 \in Q => d1 = d + 1
      /\ h + 1 \notin Q => d1 = d
    BY <1>2, CountUpTo
<1>8. i <= h /\ j <= h /\ 1 <= i /\ 1 <= j
    <2>1. i \in P /\ i <= h /\ j \in Q /\ j <= h
        BY <1>4 DEF LastAt
    <2> QED  BY <1>1, <2>1 DEF StartsFrom
<1>9. i \in 1..Len(items) /\ j \in 1..Len(items) /\ h + 1 \in 1..Len(items) /\ i <= h + 1 /\ j <= h + 1
    BY <1>1, <1>8
<1>10. ASSUME i <= j PROVE h + 1 \in Q => h + 1 \in P
    BY <1>5, <1>6, <1>9, <1>10, FitsLess
<1>11. ASSUME j <= i PROVE h + 1 \in P => h + 1 \in Q
    BY <1>5, <1>6, <1>9, <1>11, FitsLess
<1> PICK i1 : i1 = IF h + 1 \in P THEN h + 1 ELSE i
    OBVIOUS
<1> PICK j1 : j1 = IF h + 1 \in Q THEN h + 1 ELSE j
    OBVIOUS
<1>12. i1 \in Nat /\ j1 \in Nat /\ LastAt(P, h + 1, i1) /\ LastAt(Q, h + 1, j1)
    BY <1>5, <1>6
<1>13. (c1 = d1 /\ i1 <= j1) \/ (c1 = d1 + 1 /\ j1 <= i1)
    <2>1. CASE c = d /\ i <= j
        BY <1>7, <1>8, <1>10, <2>1
    <2>2. CASE c = d + 1 /\ j <= i
        BY <1>7, <1>8, <1>11, <2>2
    <2> QED  BY <1>4, <2>1, <2>2
<1> QED
    BY <1>12, <1>13 DEF Abreast

LEMMA AbreastFirst ==
    ASSUME NEW items, NEW n \in Nat, 2 <= n, NEW P, NEW Q,
           StartsFrom(items, P, 1, n), StartsFrom(items, Q, 2, n)
    PROVE  Abreast(P, Q, 2)
<1>0. 0 \in Nat /\ 1 \in Nat /\ 2 \in Nat /\ 0 + 1 = 1 /\ 1 + 1 = 2 /\ 1 <= n
    OBVIOUS
<1>1. P \in SUBSET Nat /\ IsFiniteSet(P) /\ Q \in SUBSET Nat /\ IsFiniteSet(Q)
    BY <1>0, StartsFromFinite
<1>2. 1 \in P /\ 2 \in Q
    BY <1>0, FirstStarts
<1>3. (\A k \in P : k \in Nat /\ 1 <= k) /\ (\A k \in Q : k \in Nat /\ 2 <= k)
    BY DEF StartsFrom
<1>4. UpTo(P, 0) = {} /\ UpTo(Q, 1) = {}
    BY <1>3 DEF UpTo
<1>5. Cardinality(UpTo(P, 0)) = 0 /\ Cardinality(UpTo(Q, 1)) = 0
    BY <1>4, FS_EmptySet
<1>6. Cardinality(UpTo(P, 0 + 1)) = 1 /\ Cardinality(UpTo(Q, 1 + 1)) = 1
    BY <1>0, <1>1, <1>2, <1>5, CountUpTo
<1>7. Cardinality(UpTo(P, 1)) = 1 /\ Cardinality(UpTo(Q, 2)) = 1
    BY <1>0, <1>6
<1>8. LastAt(Q, 2, 2)
    BY <1>2, <1>3 DEF LastAt
<1>9. CASE 2 \in P
    <2>1. Cardinality(UpTo(P, 1 + 1)) = 1 + 1
        BY <1>0, <1>1, <1>7, <1>9, CountUpTo
    <2>2. Cardinality(UpTo(P, 2)) = Cardinality(UpTo(Q, 2)) + 1
        BY <1>7, <2>1
    <2>3. LastAt(P, 2, 2)
        BY <1>3, <1>9 DEF LastAt
    <2> QED  BY <1>8, <2>2, <2>3 DEF Abreast
<1>10. CASE 2 \notin P
    <2>1. UpTo(P, 1 + 1) = UpTo(P, 1)
        BY <1>0, <1>1, <1>10, CountUpTo
    <2>2. Cardinality(UpTo(P, 2)) = Cardinality(UpTo(Q, 2))
        BY <1>7, <2>1
    <2>3. LastAt(P, 2, 1)
        BY <1>2, <1>3, <1>10 DEF LastAt
    <2> QED  BY <1>8, <2>2, <2>3 DEF Abreast
<1> QED
    BY <1>9, <1>10

\* Paging from the first item takes as many pages as from the second, or one more.
LEMMA OnePageMore ==
    ASSUME NEW I, Sized(I), NEW items \in Seq(I), 2 <= Len(items), NEW P, NEW Q,
           StartsFrom(items, P, 1, Len(items)), StartsFrom(items, Q, 2, Len(items))
    PROVE  Cardinality(P) = Cardinality(Q) \/ Cardinality(P) = Cardinality(Q) + 1
<1> PICK n : n = Len(items)
    OBVIOUS
<1>1. n \in Nat /\ 2 <= n /\ 1 \in Nat /\ 2 \in Nat
    OBVIOUS
<1> DEFINE Bad == {h \in Nat : 2 <= h /\ h <= n /\ ~Abreast(P, Q, h)}
<1>2. Bad = {}
    <2> SUFFICES ASSUME Bad # {} PROVE FALSE
        OBVIOUS
    <2>1. PICK h \in Bad : \A e \in Bad : h <= e
        <3> HIDE DEF Bad
        <3>1. Bad \in SUBSET Nat
            BY DEF Bad
        <3> QED  BY <3>1, LeastNatural
    <2>2. h # 2
        <3>1. Abreast(P, Q, 2)
            BY <1>1, AbreastFirst
        <3> QED  BY <2>1, <3>1
    <2> PICK g \in Nat : h = g + 1
        <3>1. h - 1 \in Nat /\ h = (h - 1) + 1
            BY <2>1, <2>2
        <3> QED  BY <3>1
    <2>3. 2 <= g /\ g < n /\ g \notin Bad
        BY <1>1, <2>1, <2>2
    <2>4. Abreast(P, Q, g)
        BY <1>1, <2>3
    <2>5. Abreast(P, Q, g + 1)
        BY <2>3, <2>4, AbreastNext
    <2> QED  BY <2>1, <2>5
<1>3. Abreast(P, Q, n)
    BY <1>1, <1>2
<1>4. UpTo(P, n) = P /\ UpTo(Q, n) = Q
    <2>1. StartsFrom(items, P, 1, n) /\ StartsFrom(items, Q, 2, n)
        OBVIOUS
    <2> QED  BY ONLY <1>1, <2>1, StartsFromFinite
<1> QED
    BY <1>3, <1>4 DEF Abreast

\* t is s with an item put in front.
Fronted(s, t) == Len(t) = Len(s) + 1 /\ \A k \in 1..Len(s) : t[k + 1] = s[k]

LEMMA FrontedSlice ==
    ASSUME NEW I, NEW s \in Seq(I), NEW t \in Seq(I), Fronted(s, t),
           NEW p \in 1..Len(s), NEW k \in 1..Len(s), p <= k
    PROVE  SubSeq(t, p + 1, k + 1) = SubSeq(s, p, k)
<1> PICK n, u, v : n = Len(s) /\ u = SubSeq(s, p, k) /\ v = SubSeq(t, p + 1, k + 1)
    OBVIOUS
<1>0. /\ p \in 1..(Len(s) + 1) /\ k \in 0..Len(s) /\ p <= k + 1 /\ n \in Nat
      /\ Len(t) = Len(s) + 1
      /\ p + 1 \in 1..(Len(t) + 1) /\ k + 1 \in 0..Len(t) /\ p + 1 <= (k + 1) + 1
    BY DEF Fronted
<1>1. u \in Seq(I) /\ Len(u) = k - p + 1 /\ \A i \in 1..(k - p + 1) : u[i] = s[(p - 1) + i]
    BY <1>0, SliceIs
<1>2. /\ v \in Seq(I) /\ Len(v) = (k + 1) - (p + 1) + 1
      /\ \A i \in 1..((k + 1) - (p + 1) + 1) : v[i] = t[((p + 1) - 1) + i]
    BY <1>0, SliceIs
<1>3. (k + 1) - (p + 1) + 1 = k - p + 1 /\ (p + 1) - 1 = (p - 1) + 1
    OBVIOUS
<1>4. ASSUME NEW i \in 1..(k - p + 1) PROVE v[i] = u[i]
    <2>1. (p - 1) + i \in 1..n /\ ((p + 1) - 1) + i = ((p - 1) + i) + 1
        BY <1>0
    <2>2. v[i] = t[((p - 1) + i) + 1]
        BY <1>2, <1>3, <2>1
    <2>3. t[((p - 1) + i) + 1] = s[(p - 1) + i]
        BY <2>1 DEF Fronted
    <2> QED  BY <1>1, <2>2, <2>3
<1>5. Len(u) = Len(v) /\ \A i \in 1..Len(u) : u[i] = v[i]
    BY <1>1, <1>2, <1>3, <1>4
<1>6. u = v
    BY <1>1, <1>2, <1>5, SeqEqual
<1> QED
    BY <1>6

LEMMA FrontedStarts ==
    ASSUME NEW I, NEW s \in Seq(I), NEW t \in Seq(I), Fronted(s, t)
    PROVE  /\ StartsFrom(t, {k + 1 : k \in Starts(s)}, 2, Len(t))
           /\ Cardinality({k + 1 : k \in Starts(s)}) = Cardinality(Starts(s))
<1> PICK n, S, Q : n = Len(s) /\ S = Starts(s) /\ Q = {k + 1 : k \in S}
    OBVIOUS
<1>1. n \in Nat /\ Len(t) = n + 1
    BY DEF Fronted
<1>2. StartsFrom(s, S, 1, n)
    BY StartsAre
<1>3. \A k \in S : k \in Nat /\ 1 <= k /\ k <= n
    BY <1>2 DEF StartsFrom
<1>4. \A k \in Nat : k \in S <=> k + 1 \in Q
    BY <1>3
<1>5. \A q \in Q : q \in Nat /\ 2 <= q /\ q <= n + 1 /\ q - 1 \in S /\ q = (q - 1) + 1
    BY <1>3
<1>6. ASSUME NEW k \in 1..n PROVE Begins(t, Q, k + 1) <=> Begins(s, S, k)
    <2>0. \A p \in S : p < k => FitsPage(SubSeq(t, p + 1, k + 1)) = FitsPage(SubSeq(s, p, k))
        <3> SUFFICES ASSUME NEW p \in S, p < k
                     PROVE  SubSeq(t, p + 1, k + 1) = SubSeq(s, p, k)
            OBVIOUS
        <3>1. p \in 1..Len(s) /\ k \in 1..Len(s) /\ p <= k
            BY <1>1, <1>3
        <3> QED  BY <3>1, FrontedSlice
    <2>1. ASSUME Begins(t, Q, k + 1), NEW p \in S, p < k, ~ \E q \in S : p < q /\ q < k
          PROVE  ~FitsPage(SubSeq(s, p, k))
        <3>1. p + 1 \in Q /\ p + 1 < k + 1
            BY <1>3, <1>4, <2>1
        <3>2. ~ \E q \in Q : p + 1 < q /\ q < k + 1
            <4> SUFFICES ASSUME NEW q \in Q, p + 1 < q, q < k + 1 PROVE FALSE
                OBVIOUS
            <4>1. q - 1 \in S /\ p < q - 1 /\ q - 1 < k
                BY <1>3, <1>5
            <4> QED  BY <2>1, <4>1
        <3>3. ~FitsPage(SubSeq(t, p + 1, k + 1))
            BY <2>1, <3>1, <3>2 DEF Begins
        <3> QED  BY <2>0, <2>1, <3>3
    <2>2. ASSUME Begins(s, S, k), NEW q \in Q, q < k + 1, ~ \E r \in Q : q < r /\ r < k + 1
          PROVE  ~FitsPage(SubSeq(t, q, k + 1))
        <3> PICK p \in S : q = p + 1
            BY <1>5
        <3>1. p < k
            BY <1>3, <2>2
        <3>2. ~ \E r \in S : p < r /\ r < k
            <4> SUFFICES ASSUME NEW r \in S, p < r, r < k PROVE FALSE
                OBVIOUS
            <4>1. r + 1 \in Q /\ q < r + 1 /\ r + 1 < k + 1
                BY <1>3, <1>4
            <4> QED  BY <2>2, <4>1
        <3>3. ~FitsPage(SubSeq(s, p, k))
            BY <2>2, <3>1, <3>2 DEF Begins
        <3> QED  BY <2>0, <3>1, <3>3
    <2> QED  BY <2>1, <2>2 DEF Begins
<1>7. Q \in SUBSET (2..(n + 1))
    BY <1>1, <1>5
<1>8. ASSUME NEW h \in 2..(n + 1) PROVE h \in Q <=> Begins(t, Q, h)
    <2> PICK k \in 1..n : h = k + 1
        <3>1. h - 1 \in 1..n /\ h = (h - 1) + 1
            BY <1>1
        <3> QED  BY <3>1
    <2>1. k \in S <=> Begins(s, S, k)
        BY <1>2 DEF StartsFrom
    <2>2. k \in Nat
        BY <1>1
    <2> QED  BY <1>4, <1>6, <2>1, <2>2
<1>9. StartsFrom(t, Q, 2, Len(t))
    BY <1>1, <1>7, <1>8 DEF StartsFrom
<1>10. Cardinality(Q) = Cardinality(S)
    <2>1. IsFiniteSet(Q)
        <3>1. IsFiniteSet(2..(n + 1))
            BY <1>1, FS_Interval
        <3> QED  BY <1>7, <3>1, FS_Subset
    <2>2. Q \in SUBSET (Nat \ {0})
        BY <1>5
    <2> PICK E : E = {k - 1 : k \in Q}
        OBVIOUS
    <2>3. Cardinality(E) = Cardinality(Q)
        BY <2>1, <2>2, ShiftCount
    <2>4. ASSUME NEW e \in E PROVE e \in S
        BY <1>5, <2>4
    <2>5. ASSUME NEW k \in S PROVE k \in E
        <3>1. k + 1 \in Q /\ k = (k + 1) - 1
            BY <1>3, <1>4
        <3> QED  BY <3>1
    <2>6. E = S
        BY <2>4, <2>5
    <2> QED  BY <2>3, <2>6
<1> QED
    BY <1>9, <1>10

\* With one item more in front the pages stay as many, or one more is needed.
LEMMA FrontedPages ==
    ASSUME NEW I, Sized(I), NEW s \in Seq(I), NEW t \in Seq(I), Fronted(s, t)
    PROVE  /\ PageCount(s) \in Nat /\ PageCount(t) \in Nat
           /\ PageCount(t) = PageCount(s) \/ PageCount(t) = PageCount(s) + 1
<1> PICK n, P, Q : n = Len(s) /\ P = Starts(t) /\ Q = {k + 1 : k \in Starts(s)}
    OBVIOUS
<1>1. n \in Nat /\ Len(t) = n + 1 /\ 1 \in Nat /\ n + 1 \in Nat
    BY DEF Fronted
<1>2. /\ StartsFrom(t, P, 1, Len(t)) /\ StartsFrom(t, P, 1, n + 1)
      /\ StartsFrom(s, Starts(s), 1, n)
    BY <1>1, StartsAre
<1>3. StartsFrom(t, Q, 2, Len(t)) /\ Cardinality(Q) = Cardinality(Starts(s))
    BY FrontedStarts
<1>4. PageCount(s) \in Nat /\ PageCount(t) \in Nat
    BY PageCountType
<1>5. CASE n = 0
    <2>1. Starts(s) = {}
        BY <1>2, <1>5 DEF StartsFrom
    <2>2. PageCount(s) = 0
        BY <2>1, FS_EmptySet DEF PageCount
    <2>3. 1 \in P /\ \A k \in P : k = 1
        <3>1. StartsFrom(t, P, 1, 1) /\ 1 <= 1
            BY <1>1, <1>2, <1>5
        <3>2. 1 \in P
            BY ONLY <1>1, <3>1, FirstStarts
        <3> QED  BY <3>1, <3>2 DEF StartsFrom
    <2>4. P = {1}
        BY <2>3
    <2>5. PageCount(t) = 1
        BY <2>4, FS_Singleton DEF PageCount
    <2> QED  BY <1>4, <2>2, <2>5
<1>6. CASE n # 0
    <2>1. 2 <= Len(t)
        BY <1>1, <1>6
    <2>2. Cardinality(P) = Cardinality(Q) \/ Cardinality(P) = Cardinality(Q) + 1
        BY <1>2, <1>3, <2>1, OnePageMore
    <2> QED  BY <1>3, <1>4, <2>2 DEF PageCount
<1> QED
    BY <1>5, <1>6
-----------------------------------------------------------------------------
(* Pages fit.                                                               *)

\* The page that ends at b starts at the last start before it.
LEMMA PageStart ==
    ASSUME NEW I, NEW items \in Seq(I), items # <<>>, NEW j \in 1..Cardinality(Starts(items))
    PROVE  /\ Nth(Ends(items), j) \in 1..Len(items)
           /\ LastAt(Starts(items), Nth(Ends(items), j), Nth(Starts(items), j))
<1> PICK n, S, E, a, b : /\ n = Len(items) /\ S = Starts(items) /\ E = Ends(items)
                         /\ a = Nth(S, j) /\ b = Nth(E, j)
    OBVIOUS
<1>1. n \in Nat /\ n > 0 /\ DOMAIN items = 1..n
    OBVIOUS
<1>2. S \in SUBSET (1..n) /\ 1 \in S
    BY <1>1, StartsFirst
<1>3. IsFiniteSet(S) /\ IsFiniteSet(E) /\ Cardinality(E) = Cardinality(S) /\ E \in SUBSET (0..n)
    BY EndsCount
<1>4. /\ a \in S /\ Cardinality(UpTo(S, a)) = j
      /\ b \in E /\ Cardinality(UpTo(E, b)) = j
    BY PageBounds
<1>5. (\A k \in S : k \in Nat /\ 1 <= k /\ k <= n) /\ (\A k \in E : k \in Nat /\ k <= n)
    BY <1>1, <1>2, <1>3
<1>6. S \in SUBSET Nat /\ j \in Nat /\ a \in Nat /\ b \in Nat
    BY <1>4, <1>5
<1>7. Cardinality(UpTo(S, b)) = j /\ b \in 1..n
    <2>1. CASE b = n
        <3>1. UpTo(S, n) = S /\ UpTo(E, n) = E
            BY <1>5 DEF UpTo
        <3> QED  BY <1>1, <1>3, <1>4, <2>1, <3>1
    <2>2. CASE b # n
        <3>1. PICK k \in S \ {1} : b = k - 1
            BY <1>4, <2>2 DEF Ends
        <3>2. b + 1 \in S /\ b \in 1..n /\ b < n
            BY <1>1, <1>5, <3>1
        <3>3. j = Cardinality(UpTo(S, b + 1)) - 1
            BY <1>4, <1>6, <3>2, EndsBefore
        <3>4. Cardinality(UpTo(S, b + 1)) = Cardinality(UpTo(S, b)) + 1 /\ Cardinality(UpTo(S, b)) \in Nat
            BY <1>3, <1>6, <3>2, CountUpTo
        <3> QED  BY <3>2, <3>3, <3>4
    <2> QED  BY <2>1, <2>2
<1>8. a <= b
    <2> SUFFICES ASSUME b < a PROVE FALSE
        BY <1>6
    <2>1. a <= a
        BY <1>6
    <2>2. Cardinality(UpTo(S, b)) < Cardinality(UpTo(S, a))
        BY <1>3, <1>4, <1>6, <2>1, CountStrict
    <2> QED  BY <1>4, <1>6, <1>7, <2>2
<1>9. ASSUME NEW q \in S, q <= b, ~(q <= a) PROVE FALSE
    <2>1. a < q
        BY <1>5, <1>6, <1>9
    <2>2. Cardinality(UpTo(S, a)) < Cardinality(UpTo(S, b))
        BY <1>3, <1>6, <1>9, <2>1, CountStrict
    <2> QED  BY <1>4, <1>6, <1>7, <2>2
<1> QED
    BY <1>4, <1>7, <1>8, <1>9 DEF LastAt

LEMMA OneItemFits ==
    ASSUME NEW I, Sized(I), NEW items \in Seq(I), ~OneItemTooLarge(items), NEW k \in 1..Len(items)
    PROVE  FitsPage(SubSeq(items, k, k))
<1> PICK n : n = Len(items)
    OBVIOUS
<1>1. n \in Nat /\ Measured(items, n) /\ MaxPageItems \in Nat /\ MaxPageItems >= 1 /\ MaxPageBytes \in Nat
    BY BudgetAssumption DEF Sized, Measured
<1>2. PICK f : SumUpTo(items, f, Len(items)) /\ Total(items) = f[Len(items)]
    BY TotalIs
<1>3. k \in 1..(Len(items) + 1) /\ k \in 0..Len(items) /\ k <= k + 1
    BY <1>1
<1>4. Len(SubSeq(items, k, k)) = k - k + 1 /\ Total(SubSeq(items, k, k)) = f[k] - f[k - 1]
    BY <1>2, <1>3, SliceIs, SliceTotal
<1>5. SumUpTo(items, f, n) /\ k \in 1..n /\ k \in 0..n /\ k - 1 \in 0..n
    BY <1>1, <1>2
<1>6. f[k] = f[k - 1] + items[k].size /\ f[k - 1] \in Nat
    <2>1. /\ \A i \in 0..n : f[i] \in Nat
          /\ \A i \in 1..n : f[i] = f[i - 1] + items[i].size
        BY ONLY <1>1, <1>5, SumSteps
    <2> QED  BY <1>5, <2>1
<1>7. items[k].size \in Nat /\ items[k].size <= MaxPageBytes
    <2>1. k \in DOMAIN items /\ items[k].size \in Nat
        BY <1>1, <1>5 DEF Measured
    <2> QED  BY <1>1, <2>1 DEF OneItemTooLarge
<1> QED
    BY <1>1, <1>4, <1>6, <1>7 DEF FitsPage

\* A page is within its limits wherever it is looked at, if every item is by itself.
LEMMA PageFits ==
    ASSUME NEW I, Sized(I), NEW items \in Seq(I), ~OneItemTooLarge(items),
           NEW b \in 1..Len(items), NEW a, LastAt(Starts(items), b, a)
    PROVE  FitsPage(SubSeq(items, a, b))
<1> PICK n, S : n = Len(items) /\ S = Starts(items)
    OBVIOUS
<1>1. n \in Nat /\ 1 \in Nat /\ StartsFrom(items, S, 1, n) /\ b \in 1..n
    BY StartsAre
<1>2. a \in S /\ a \in 1..n /\ a <= b /\ \A q \in S : q <= b => q <= a
    BY <1>1 DEF LastAt, StartsFrom
<1>3. CASE a = b
    BY <1>2, <1>3, OneItemFits
<1>4. CASE a # b
    <2> PICK h \in Nat : b = h + 1 /\ 1 <= h /\ h < n /\ a <= h
        <3>1. b - 1 \in Nat /\ b = (b - 1) + 1 /\ 1 <= b - 1 /\ b - 1 < n /\ a <= b - 1
            BY <1>1, <1>2, <1>4
        <3> QED  BY <3>1
    <2>1. h + 1 \notin S
        BY <1>2, <1>4
    <2>2. \A q \in S : q \in Nat /\ (q <= h => q <= b)
        BY <1>1 DEF StartsFrom
    <2>3. LastAt(S, h, a)
        BY <1>2, <2>2 DEF LastAt
    <2>4. 1 <= h /\ h < n
        OBVIOUS
    <2>5. h + 1 \in S <=> ~FitsPage(SubSeq(items, a, h + 1))
        BY ONLY <1>1, <2>3, <2>4, h \in Nat, NextStart
    <2> QED  BY <2>1, <2>5
<1> QED
    BY <1>3, <1>4

\* Every page is within the limits of a page, if every item is by itself.
LEMMA PagesFit ==
    ASSUME NEW I, Sized(I), NEW items \in Seq(I), ~OneItemTooLarge(items), NEW p \in DOMAIN Paginate(items)
    PROVE  FitsPage(Paginate(items)[p])
<1> PICK n, S, a, b : n = Len(items) /\ S = Starts(items) /\ a = Nth(S, p) /\ b = Nth(Ends(items), p)
    OBVIOUS
<1>1. p \in 1..Cardinality(S) /\ Paginate(items)[p] = SubSeq(items, a, b)
    BY PaginateIs
<1>2. items # <<>>
    <2> SUFFICES ASSUME items = <<>> PROVE FALSE
        OBVIOUS
    <2>1. n = 0 /\ StartsFrom(items, S, 1, n)
        BY StartsAre
    <2>2. S = {}
        BY <2>1 DEF StartsFrom
    <2>3. Cardinality(S) = 0
        BY <2>2, FS_EmptySet
    <2> QED  BY <1>1, <2>3
<1>3. b \in 1..Len(items) /\ LastAt(S, b, a)
    BY <1>1, <1>2, PageStart
<1> QED
    BY <1>1, <1>3, PageFits
-----------------------------------------------------------------------------
(* The selection is the largest that fits.                                  *)

\* One message more, one page more at most.
LEMMA SuffixPages ==
    ASSUME NEW I, Sized(I), NEW newest \in Seq(I), NEW k \in Nat, k < Len(newest)
    PROVE  /\ PageCount(Suffix(newest, k)) \in Nat /\ PageCount(Suffix(newest, k + 1)) \in Nat
           /\ PageCount(Suffix(newest, k)) <= PageCount(Suffix(newest, k + 1))
           /\ PageCount(Suffix(newest, k + 1)) <= PageCount(Suffix(newest, k)) + 1
<1> PICK s, t : s = Suffix(newest, k) /\ t = Suffix(newest, k + 1)
    OBVIOUS
<1>1. k \in 0..Len(newest) /\ k + 1 \in 0..Len(newest)
    OBVIOUS
<1>2. /\ s \in Seq(I) /\ Len(s) = k /\ \A i \in 1..k : s[i] = newest[k + 1 - i]
      /\ t \in Seq(I) /\ Len(t) = k + 1 /\ \A i \in 1..(k + 1) : t[i] = newest[(k + 1) + 1 - i]
    BY <1>1, SuffixIs
<1>3. \A i \in 1..k : t[i + 1] = s[i]
    <2>1. \A i \in 1..k : i + 1 \in 1..(k + 1) /\ (k + 1) + 1 - (i + 1) = k + 1 - i
        OBVIOUS
    <2> QED  BY <1>2, <2>1
<1>4. Fronted(s, t)
    BY <1>2, <1>3 DEF Fronted
<1>5. /\ PageCount(s) \in Nat /\ PageCount(t) \in Nat
      /\ PageCount(t) = PageCount(s) \/ PageCount(t) = PageCount(s) + 1
    BY <1>2, <1>4, FrontedPages
<1> QED
    BY <1>5

LEMMA SuffixPagesRise ==
    ASSUME NEW I, Sized(I), NEW newest \in Seq(I), NEW k \in Nat, NEW j \in Nat, k <= j, j <= Len(newest)
    PROVE  /\ PageCount(Suffix(newest, k)) \in Nat /\ PageCount(Suffix(newest, j)) \in Nat
           /\ PageCount(Suffix(newest, k)) <= PageCount(Suffix(newest, j))
<1> PICK n : n = Len(newest)
    OBVIOUS
<1>0. n \in Nat /\ \A h \in Nat : h <= n => h \in 0..Len(newest)
    OBVIOUS
<1>1. ASSUME NEW h \in Nat, h <= n PROVE PageCount(Suffix(newest, h)) \in Nat
    <2>1. Suffix(newest, h) \in Seq(I)
        BY <1>0, <1>1, SuffixIs
    <2> QED  BY <2>1, PageCountType
<1> DEFINE Bad == {h \in Nat : k <= h /\ h <= n /\
                       ~(PageCount(Suffix(newest, k)) <= PageCount(Suffix(newest, h)))}
<1>2. Bad = {}
    <2> SUFFICES ASSUME Bad # {} PROVE FALSE
        OBVIOUS
    <2>1. PICK h \in Bad : \A e \in Bad : h <= e
        <3> HIDE DEF Bad
        <3>1. Bad \in SUBSET Nat
            BY DEF Bad
        <3> QED  BY <3>1, LeastNatural
    <2>2. h # k /\ k <= n
        BY <1>0, <1>1, <2>1
    <2> PICK g \in Nat : h = g + 1
        <3>1. h - 1 \in Nat /\ h = (h - 1) + 1
            BY <2>1, <2>2
        <3> QED  BY <3>1
    <2>3. k <= g /\ g < n /\ g <= n /\ g \notin Bad
        BY <1>0, <2>1, <2>2
    <2>4. PageCount(Suffix(newest, k)) <= PageCount(Suffix(newest, g))
        BY <2>3
    <2>5. /\ PageCount(Suffix(newest, g)) \in Nat /\ PageCount(Suffix(newest, g + 1)) \in Nat
          /\ PageCount(Suffix(newest, g)) <= PageCount(Suffix(newest, g + 1))
        BY <2>3, SuffixPages
    <2>6. PageCount(Suffix(newest, k)) \in Nat
        BY <1>1, <2>2
    <2> QED  BY <2>1, <2>4, <2>5, <2>6
<1>3. k <= n /\ j <= n
    BY <1>0
<1> QED
    BY <1>1, <1>2, <1>3

LEMMA NoSuffix ==
    ASSUME NEW I, Sized(I), NEW newest \in Seq(I)
    PROVE  PageCount(Suffix(newest, 0)) = 0 /\ Total(Suffix(newest, 0)) = 0
<1> PICK s : s = Suffix(newest, 0)
    OBVIOUS
<1>1. s \in Seq(I) /\ Len(s) = 0
    <2>1. 0 \in 0..Len(newest)
        OBVIOUS
    <2> QED  BY <2>1, SuffixIs
<1>2. StartsFrom(s, Starts(s), 1, 0)
    BY <1>1, StartsAre
<1>3. Starts(s) = {}
    BY <1>2 DEF StartsFrom
<1>4. PageCount(s) = 0
    BY <1>3, FS_EmptySet DEF PageCount
<1>5. PICK f : SumUpTo(s, f, Len(s)) /\ Total(s) = f[Len(s)]
    BY <1>1, TotalIs
<1>6. f[0] = 0
    BY <1>1, <1>5 DEF SumUpTo
<1> QED
    BY <1>1, <1>4, <1>5, <1>6

\* The size of the newest k messages: a running sum of the messages.
LEMMA SuffixTotal ==
    ASSUME NEW I, Sized(I), NEW newest \in Seq(I)
    PROVE  \A j, k \in 0..Len(newest) :
               /\ Total(Suffix(newest, k)) = Total(SubSeq(newest, 1, k))
               /\ Total(SubSeq(newest, 1, k)) \in Nat /\ Total(SubSeq(newest, 1, j)) \in Nat
               /\ k <= j => Total(SubSeq(newest, 1, k)) <= Total(SubSeq(newest, 1, j))
<1> SUFFICES ASSUME NEW j \in 0..Len(newest), NEW k \in 0..Len(newest)
             PROVE  /\ Total(Suffix(newest, k)) = Total(SubSeq(newest, 1, k))
                    /\ Total(SubSeq(newest, 1, k)) \in Nat /\ Total(SubSeq(newest, 1, j)) \in Nat
                    /\ k <= j => Total(SubSeq(newest, 1, k)) <= Total(SubSeq(newest, 1, j))
    OBVIOUS
<1> PICK n : n = Len(newest)
    OBVIOUS
<1>1. n \in Nat /\ Measured(newest, n) /\ j \in 0..n /\ k \in 0..n
    BY DEF Sized, Measured
<1>2. PICK f : SumUpTo(newest, f, Len(newest)) /\ Total(newest) = f[Len(newest)]
    BY TotalIs
<1>3. 1 \in 1..(Len(newest) + 1) /\ 1 <= k + 1 /\ 1 <= j + 1
    BY <1>1
<1>4. SubSeq(newest, 1, k) \in Seq(I) /\ SubSeq(newest, 1, j) \in Seq(I)
    BY <1>3, SliceIs
<1>5. Total(Suffix(newest, k)) = Total(SubSeq(newest, 1, k))
    BY <1>4, BackwardsTotal DEF Suffix
<1>6. Total(SubSeq(newest, 1, k)) \in Nat /\ Total(SubSeq(newest, 1, j)) \in Nat
    BY <1>4, TotalType
<1>7. Total(SubSeq(newest, 1, k)) = f[k] - f[1 - 1] /\ Total(SubSeq(newest, 1, j)) = f[j] - f[1 - 1]
    BY <1>2, <1>3, SliceTotal
<1>8. SumUpTo(newest, f, n)
    BY <1>2
<1>9. f[0] = 0 /\ \A i \in 0..n : f[i] \in Nat
    BY ONLY <1>1, <1>8, SumSteps
<1>10. k <= j => f[k] <= f[j]
    BY ONLY <1>1, <1>8, SumRises
<1>11. Total(SubSeq(newest, 1, k)) = f[k] /\ Total(SubSeq(newest, 1, j)) = f[j]
    <2>1. 1 - 1 = 0 /\ f[k] \in Nat /\ f[j] \in Nat
        BY <1>1, <1>9
    <2> QED  BY <1>7, <1>9, <2>1
<1> QED
    BY <1>5, <1>6, <1>10, <1>11

\* One more message is within the budget.
Takes(reads, groups, newest, k) ==
    /\ newest[k + 1].size <= MaxPageBytes
    /\ k < MaxPackageItems - Len(reads \o groups)
    /\ Total(SubSeq(newest, 1, k + 1)) <= MaxPackageBytes - Total(reads \o groups)
    /\ PageCount(Suffix(newest, k + 1)) <= MaxPages
    /\ PageCount(Suffix(newest, k + 1)) <= MaxPages - RequiredPages(reads, groups)

\* What ends the selection without an error.
Spent(reads, groups, newest, k) ==
    \/ k >= MaxPackageItems - Len(reads \o groups)
    \/ Total(SubSeq(newest, 1, k + 1)) > MaxPackageBytes - Total(reads \o groups)
    \/ PageCount(Suffix(newest, k + 1)) > MaxPages - RequiredPages(reads, groups)

LEMMA RequiredIs ==
    ASSUME NEW I, Sized(I), NEW reads \in Seq(I), NEW groups \in Seq(I)
    PROVE  /\ reads \o groups \in Seq(I)
           /\ Len(reads \o groups) \in Nat /\ Total(reads \o groups) \in Nat
           /\ PageCount(reads) \in Nat /\ PageCount(groups) \in Nat
           /\ RequiredPages(reads, groups) \in Nat
           /\ ~OneItemTooLarge(reads \o groups) => ~OneItemTooLarge(reads) /\ ~OneItemTooLarge(groups)
<1> PICK u : u = reads \o groups
    OBVIOUS
<1>1. /\ u \in Seq(I) /\ Len(u) = Len(reads) + Len(groups) /\ Len(reads) \in Nat /\ Len(groups) \in Nat
      /\ DOMAIN u = 1..(Len(reads) + Len(groups))
      /\ DOMAIN reads = 1..Len(reads) /\ DOMAIN groups = 1..Len(groups)
      /\ \A i \in 1..(Len(reads) + Len(groups)) : u[i] = IF i <= Len(reads) THEN reads[i] ELSE groups[i - Len(reads)]
    BY ConcatProperties
<1>2. Total(u) \in Nat /\ Len(u) \in Nat
    <2>1. u \in Seq(I)
        BY <1>1
    <2>2. Total(u) \in Nat
        BY ONLY <2>1, Sized(I), TotalType
    <2> QED  BY <1>1, <2>2
<1>3. PageCount(reads) \in Nat /\ PageCount(groups) \in Nat
    BY PageCountType
<1>4. RequiredPages(reads, groups) \in Nat
    BY <1>3 DEF RequiredPages
<1>5. ASSUME OneItemTooLarge(reads) PROVE OneItemTooLarge(u)
    <2>1. PICK i \in DOMAIN reads : reads[i].size > MaxPageBytes
        BY <1>5 DEF OneItemTooLarge
    <2>2. i \in DOMAIN u /\ u[i] = reads[i]
        BY <1>1
    <2> QED  BY <2>1, <2>2 DEF OneItemTooLarge
<1>6. ASSUME OneItemTooLarge(groups) PROVE OneItemTooLarge(u)
    <2>1. PICK i \in DOMAIN groups : groups[i].size > MaxPageBytes
        BY <1>6 DEF OneItemTooLarge
    <2>2. i + Len(reads) \in DOMAIN u /\ ~(i + Len(reads) <= Len(reads)) /\ (i + Len(reads)) - Len(reads) = i
        BY <1>1
    <2>3. u[i + Len(reads)] = groups[i]
        BY <1>1, <2>2
    <2> QED  BY <2>1, <2>2, <2>3 DEF OneItemTooLarge
<1> QED
    BY <1>1, <1>2, <1>3, <1>4, <1>5, <1>6

\* What the loop's verdicts mean.
LEMMA VerdictIs ==
    ASSUME NEW I, Sized(I), NEW reads \in Seq(I), NEW groups \in Seq(I), NEW newest \in Seq(I),
           NEW k \in Nat, k < Len(newest)
    PROVE  /\ Verdict(reads, groups, newest, k) = "take" => Takes(reads, groups, newest, k)
           /\ Verdict(reads, groups, newest, k) = "raise" =>
                  \/ newest[k + 1].size > MaxPageBytes
                  \/ PageCount(Suffix(newest, k + 1)) > MaxPages
           /\ Verdict(reads, groups, newest, k) \notin {"take", "raise"} => Spent(reads, groups, newest, k)
<1> PICK size, l, q, r, t, pages, v :
        /\ v = Verdict(reads, groups, newest, k)
        /\ size = newest[k + 1].size
        /\ l = Len(reads \o groups) /\ q = RequiredPages(reads, groups) /\ r = Total(reads \o groups)
        /\ t = Total(SubSeq(newest, 1, k + 1)) /\ pages = PageCount(Suffix(newest, k + 1))
    OBVIOUS
<1>1. /\ size \in Nat /\ l \in Nat /\ r \in Nat /\ t \in Nat /\ pages \in Nat /\ q \in Nat
    <2>1. size \in Nat
        <3>1. k + 1 \in 1..Len(newest)
            OBVIOUS
        <3>2. newest[k + 1] \in I
            BY <3>1
        <3> QED  BY <3>2 DEF Sized
    <2>2. l \in Nat /\ r \in Nat /\ q \in Nat
        BY RequiredIs
    <2>3. t \in Nat
        <3>1. k + 1 \in 0..Len(newest)
            OBVIOUS
        <3> QED  BY <3>1, SuffixTotal
    <2>4. pages \in Nat
        BY SuffixPages
    <2> QED  BY <2>1, <2>2, <2>3, <2>4
<1>2. MaxPageBytes \in Nat /\ MaxPackageItems \in Nat /\ MaxPackageBytes \in Nat /\ MaxPages \in Nat
    BY BudgetAssumption
<1>3. v =
          IF size > MaxPageBytes THEN "raise"
          ELSE IF k >= MaxPackageItems - l THEN "max_items"
          ELSE IF t > MaxPackageBytes - r THEN "max_encoded_bytes"
          ELSE IF pages > MaxPages THEN "raise"
          ELSE IF pages > MaxPages - q THEN "max_pages"
          ELSE "take"
    BY DEF Verdict
<1>4. v = "take" => /\ size <= MaxPageBytes /\ k < MaxPackageItems - l /\ t <= MaxPackageBytes - r
                    /\ pages <= MaxPages /\ pages <= MaxPages - q
    BY ONLY <1>1, <1>2, <1>3, k \in Nat
<1>5. v = "raise" => size > MaxPageBytes \/ pages > MaxPages
    BY ONLY <1>3
<1>6. v \notin {"take", "raise"} => \/ k >= MaxPackageItems - l \/ t > MaxPackageBytes - r
                                   \/ pages > MaxPages - q
    BY ONLY <1>3
<1> QED
    BY <1>4, <1>5, <1>6 DEF Takes, Spent

\* The newest k messages and the required state make one package.
WithinBudget(reads, groups, newest, k) ==
    LET required == reads \o groups
        messages == Suffix(newest, k)
        sections == {Paginate(reads), Paginate(groups), Paginate(messages)}
    IN  /\ Len(required) + k <= MaxPackageItems
        /\ Total(required) + Total(messages) <= MaxPackageBytes
        /\ PageCount(reads) + PageCount(groups) + PageCount(messages) <= MaxPages
        /\ \A pages \in sections : \A p \in DOMAIN pages : FitsPage(pages[p])

\* What may keep a package from being made.
MayFail(reads, groups, newest, k) ==
    \/ ~RequiredFits(reads, groups)
    \/ OneItemTooLarge(newest)
    \/ RequiredPages(reads, groups) = 0 /\ PageCount(Suffix(newest, k + 1)) > MaxPages

\* None of the selected messages is too large for a page.
LEMMA SelectedItemsFit ==
    ASSUME NEW I, Sized(I), NEW newest \in Seq(I), NEW reads \in Seq(I), NEW groups \in Seq(I),
           NEW k \in 0..Len(newest), \A j \in 0..(k - 1) : Takes(reads, groups, newest, j)
    PROVE  ~OneItemTooLarge(Suffix(newest, k))
<1> PICK s : s = Suffix(newest, k)
    OBVIOUS
<1>1. s \in Seq(I) /\ Len(s) = k /\ \A i \in 1..k : s[i] = newest[k + 1 - i]
    BY SuffixIs
<1> SUFFICES ASSUME NEW i \in DOMAIN s, s[i].size > MaxPageBytes PROVE FALSE
    BY DEF OneItemTooLarge
<1>2. i \in 1..k /\ k \in Nat
    BY <1>1
<1>3. k - i \in 0..(k - 1) /\ (k - i) + 1 = k + 1 - i
    BY <1>2
<1>4. newest[k + 1 - i].size <= MaxPageBytes
    BY <1>3 DEF Takes
<1>5. s[i].size \in Nat /\ MaxPageBytes \in Nat
    <2>1. s[i] \in I
        BY <1>1
    <2> QED  BY <2>1, BudgetAssumption DEF Sized
<1> QED
    BY <1>1, <1>2, <1>4, <1>5

\* The budget the selection leaves.
LEMMA SelectedFits ==
    ASSUME NEW I, Sized(I), NEW newest \in Seq(I), NEW reads \in Seq(I), NEW groups \in Seq(I),
           NEW k \in 0..Len(newest), \A j \in 0..(k - 1) : Takes(reads, groups, newest, j),
           RequiredFits(reads, groups)
    PROVE  /\ Len(reads \o groups) + k <= MaxPackageItems
           /\ Total(reads \o groups) + Total(Suffix(newest, k)) <= MaxPackageBytes
           /\ RequiredPages(reads, groups) + PageCount(Suffix(newest, k)) <= MaxPages
<1> PICK l, r, q, t, pages :
        /\ l = Len(reads \o groups) /\ r = Total(reads \o groups) /\ q = RequiredPages(reads, groups)
        /\ t = Total(Suffix(newest, k)) /\ pages = PageCount(Suffix(newest, k))
    OBVIOUS
<1>1. l \in Nat /\ r \in Nat /\ q \in Nat
    BY RequiredIs
<1>2. t \in Nat /\ t = Total(SubSeq(newest, 1, k))
    BY SuffixTotal
<1>3. pages \in Nat
    BY SuffixIs, PageCountType
<1>4. MaxPackageItems \in Nat /\ MaxPackageBytes \in Nat /\ MaxPages \in Nat /\ k \in Nat
    BY BudgetAssumption
<1>5. l <= MaxPackageItems /\ r <= MaxPackageBytes /\ q <= MaxPages
    BY DEF RequiredFits
<1>6. CASE k = 0
    <2>1. t = 0 /\ pages = 0
        BY <1>6, NoSuffix
    <2>2. l + k <= MaxPackageItems /\ r + t <= MaxPackageBytes /\ q + pages <= MaxPages
        BY ONLY <1>1, <1>4, <1>5, <1>6, <2>1
    <2> QED  BY <2>2
<1>7. CASE k # 0
    <2>1. k - 1 \in 0..(k - 1) /\ (k - 1) + 1 = k
        BY <1>4, <1>7
    <2>2. Takes(reads, groups, newest, k - 1)
        BY <2>1
    <2>3. k - 1 < MaxPackageItems - l /\ t <= MaxPackageBytes - r /\ pages <= MaxPages - q
        BY <1>2, <2>1, <2>2 DEF Takes
    <2>4. l + k <= MaxPackageItems /\ r + t <= MaxPackageBytes /\ q + pages <= MaxPages
        BY ONLY <1>1, <1>2, <1>3, <1>4, <2>3
    <2> QED  BY <2>4
<1> QED
    BY <1>6, <1>7

\* Once the budget is spent, no more messages fit it.
LEMMA SpentStaysSpent ==
    ASSUME NEW I, Sized(I), NEW newest \in Seq(I), NEW reads \in Seq(I), NEW groups \in Seq(I),
           NEW k \in Nat, Spent(reads, groups, newest, k), NEW j \in Nat, k < j, j <= Len(newest)
    PROVE  ~WithinBudget(reads, groups, newest, j)
<1> PICK l, r, q, t, u, x, y :
        /\ l = Len(reads \o groups) /\ r = Total(reads \o groups) /\ q = RequiredPages(reads, groups)
        /\ t = Total(SubSeq(newest, 1, k + 1)) /\ u = Total(Suffix(newest, j))
        /\ x = PageCount(Suffix(newest, k + 1)) /\ y = PageCount(Suffix(newest, j))
    OBVIOUS
<1>0. k + 1 \in Nat /\ k + 1 <= j /\ k + 1 \in 0..Len(newest) /\ j \in 0..Len(newest)
    OBVIOUS
<1>1. l \in Nat /\ r \in Nat /\ q \in Nat /\ q = PageCount(reads) + PageCount(groups)
    BY RequiredIs DEF RequiredPages
<1>2. t \in Nat /\ u \in Nat /\ t <= u
    <2>1. /\ Total(SubSeq(newest, 1, k + 1)) \in Nat /\ Total(SubSeq(newest, 1, j)) \in Nat
          /\ Total(SubSeq(newest, 1, k + 1)) <= Total(SubSeq(newest, 1, j))
          /\ Total(Suffix(newest, j)) = Total(SubSeq(newest, 1, j))
        BY <1>0, SuffixTotal
    <2> QED  BY <2>1
<1>3. x \in Nat /\ y \in Nat /\ x <= y
    BY <1>0, SuffixPagesRise
<1>4. MaxPackageItems \in Nat /\ MaxPackageBytes \in Nat /\ MaxPages \in Nat
    BY BudgetAssumption
<1>5. k >= MaxPackageItems - l \/ t > MaxPackageBytes - r \/ x > MaxPages - q
    BY DEF Spent
<1>6. ~(l + j <= MaxPackageItems /\ r + u <= MaxPackageBytes /\ q + y <= MaxPages)
    <2>1. k + 1 <= j /\ l \in Nat /\ r \in Nat /\ q \in Nat
        BY <1>0, <1>1
    <2> QED  BY ONLY <1>2, <1>3, <1>4, <1>5, <2>1, k \in Nat, j \in Nat
<1>7. WithinBudget(reads, groups, newest, j) =>
          l + j <= MaxPackageItems /\ r + u <= MaxPackageBytes /\ q + y <= MaxPages
    BY <1>1 DEF WithinBudget
<1> QED
    BY <1>6, <1>7

\* The snapshot package holds as many of the newest messages as its budget of
\* items, bytes and pages allows beside the required state, no fewer and no
\* more, whatever the limits and the sizes; and it cannot be made only when
\* the required state is over the budget, an item is larger than a page, or
\* the messages alone need more pages than there may be.
THEOREM SelectionIsLargest ==
    ASSUME NEW I, Sized(I), NEW newest \in Seq(I), NEW reads \in Seq(I), NEW groups \in Seq(I)
    PROVE  LET k == Selected(reads, groups, newest)
           IN  IF PackageFails(reads, groups, newest) THEN MayFail(reads, groups, newest, k)
               ELSE /\ WithinBudget(reads, groups, newest, k)
                    /\ \A j \in (k + 1)..Len(newest) : ~WithinBudget(reads, groups, newest, j)
<1> PICK k, n : k = Selected(reads, groups, newest) /\ n = Len(newest)
    OBVIOUS
<1>1. /\ k \in 0..Len(newest)
      /\ k = Len(newest) \/ Verdict(reads, groups, newest, k) # "take"
      /\ \A j \in 0..(k - 1) : Verdict(reads, groups, newest, j) = "take"
    BY SelectedIs
<1>2. n \in Nat /\ k \in Nat /\ k <= n
    BY <1>1
<1>3. \A j \in 0..(k - 1) : Takes(reads, groups, newest, j)
    <2> SUFFICES ASSUME NEW j \in 0..(k - 1) PROVE Takes(reads, groups, newest, j)
        OBVIOUS
    <2>1. j \in Nat /\ j < Len(newest)
        BY <1>2
    <2> QED  BY <1>1, <2>1, VerdictIs
<1>4. ASSUME PackageFails(reads, groups, newest) PROVE MayFail(reads, groups, newest, k)
    <2> SUFFICES ASSUME RequiredFits(reads, groups), ~OneItemTooLarge(newest)
                 PROVE  RequiredPages(reads, groups) = 0 /\ PageCount(Suffix(newest, k + 1)) > MaxPages
        BY DEF MayFail
    <2>1. k < n /\ Verdict(reads, groups, newest, k) = "raise"
        BY <1>4 DEF PackageFails
    <2>2. newest[k + 1].size > MaxPageBytes \/ PageCount(Suffix(newest, k + 1)) > MaxPages
        BY <1>2, <2>1, VerdictIs
    <2>3. ~(newest[k + 1].size > MaxPageBytes)
        <3>1. k + 1 \in DOMAIN newest
            BY <1>2, <2>1
        <3> QED  BY <3>1 DEF OneItemTooLarge
    <2> PICK q, x, y : /\ q = RequiredPages(reads, groups) /\ x = PageCount(Suffix(newest, k))
                       /\ y = PageCount(Suffix(newest, k + 1))
        OBVIOUS
    <2>4. x \in Nat /\ y \in Nat /\ y <= x + 1
        BY <1>2, <2>1, SuffixPages
    <2>5. q + x <= MaxPages /\ q \in Nat /\ MaxPages \in Nat
        BY <1>1, <1>3, SelectedFits, RequiredIs, BudgetAssumption
    <2> QED  BY <2>2, <2>3, <2>4, <2>5
<1>5. ASSUME ~PackageFails(reads, groups, newest)
      PROVE  /\ WithinBudget(reads, groups, newest, k)
             /\ \A j \in (k + 1)..Len(newest) : ~WithinBudget(reads, groups, newest, j)
    <2>1. RequiredFits(reads, groups) /\ (k = n \/ Verdict(reads, groups, newest, k) # "raise")
        BY <1>2, <1>5 DEF PackageFails
    <2>2. WithinBudget(reads, groups, newest, k)
        <3> PICK m : m = Suffix(newest, k)
            OBVIOUS
        <3>1. /\ Len(reads \o groups) + k <= MaxPackageItems
              /\ Total(reads \o groups) + Total(m) <= MaxPackageBytes
              /\ PageCount(reads) + PageCount(groups) + PageCount(m) <= MaxPages
            BY <1>1, <1>3, <2>1, SelectedFits DEF RequiredPages
        <3>2. m \in Seq(I) /\ ~OneItemTooLarge(m)
            BY <1>1, <1>3, SuffixIs, SelectedItemsFit
        <3>3. ~OneItemTooLarge(reads) /\ ~OneItemTooLarge(groups)
            BY <2>1, RequiredIs DEF RequiredFits
        <3>4. \A s \in {reads, groups, m} : \A p \in DOMAIN Paginate(s) : FitsPage(Paginate(s)[p])
            BY <3>2, <3>3, PagesFit
        <3> QED  BY <3>1, <3>4 DEF WithinBudget
    <2>3. ASSUME NEW j \in (k + 1)..Len(newest) PROVE ~WithinBudget(reads, groups, newest, j)
        <3>1. j \in Nat /\ k < j /\ j <= Len(newest) /\ k < Len(newest) /\ k # n
            BY <1>2
        <3>2. Verdict(reads, groups, newest, k) \notin {"take", "raise"}
            BY <1>1, <2>1, <3>1
        <3>3. Spent(reads, groups, newest, k)
            BY <1>2, <3>1, <3>2, VerdictIs
        <3> QED  BY <1>2, <3>1, <3>3, SpentStaysSpent
    <2> QED  BY <2>2, <2>3
<1> QED
    BY <1>4, <1>5
-----------------------------------------------------------------------------
(* No other paging needs fewer pages.                                       *)

\* The items up to n on pages that start at P, each within the limits of a page.
Paging(items, P, n) ==
    /\ P \in SUBSET (1..n) /\ (n > 0 => 1 \in P)
    /\ \A k \in 1..n : \A l \in P : LastAt(P, k, l) => FitsPage(SubSeq(items, l, k))

LEMMA LastNext ==
    ASSUME NEW P \in SUBSET Nat, NEW h \in Nat, NEW l, LastAt(P, h, l)
    PROVE  /\ h + 1 \in P => LastAt(P, h + 1, h + 1)
           /\ h + 1 \notin P => LastAt(P, h + 1, l)
<1>1. \A k \in P : k \in Nat /\ (k <= h + 1 <=> k <= h \/ k = h + 1)
    OBVIOUS
<1>2. l \in P /\ l \in Nat /\ l <= h /\ l <= h + 1 /\ \A q \in P : q <= h => q <= l
    BY <1>1 DEF LastAt
<1>3. h + 1 \in P => LastAt(P, h + 1, h + 1)
    BY <1>1 DEF LastAt
<1>4. h + 1 \notin P => LastAt(P, h + 1, l)
    BY <1>1, <1>2 DEF LastAt
<1> QED
    BY <1>3, <1>4

\* P has fewer pages than Q up to h, or as many and the last of P starts no earlier.
NoMore(P, Q, h) ==
    \E i, j \in Nat :
        /\ LastAt(P, h, i) /\ LastAt(Q, h, j)
        /\ \/ Cardinality(UpTo(P, h)) < Cardinality(UpTo(Q, h))
           \/ Cardinality(UpTo(P, h)) = Cardinality(UpTo(Q, h)) /\ j <= i

LEMMA NoMoreFirst ==
    ASSUME NEW P \in SUBSET (Nat \ {0}), NEW Q \in SUBSET (Nat \ {0}), 1 \in P, 1 \in Q
    PROVE  NoMore(P, Q, 1)
<1>1. (\A k \in P : k \in Nat /\ 1 <= k) /\ (\A k \in Q : k \in Nat /\ 1 <= k)
    OBVIOUS
<1>2. UpTo(P, 1) = {1} /\ UpTo(Q, 1) = {1}
    <2>1. (\A k \in P : k <= 1 <=> k = 1) /\ (\A k \in Q : k <= 1 <=> k = 1)
        BY <1>1
    <2> QED  BY <2>1 DEF UpTo
<1>3. LastAt(P, 1, 1) /\ LastAt(Q, 1, 1)
    BY <1>1 DEF LastAt
<1>4. Cardinality(UpTo(P, 1)) = Cardinality(UpTo(Q, 1)) /\ 1 <= 1 /\ 1 \in Nat
    BY <1>2
<1> QED
    BY <1>3, <1>4 DEF NoMore

LEMMA NoMoreNext ==
    ASSUME NEW I, Sized(I), NEW items \in Seq(I), NEW P, NEW Q,
           StartsFrom(items, P, 1, Len(items)), Paging(items, Q, Len(items)),
           NEW h \in Nat, 1 <= h, h < Len(items), NoMore(P, Q, h)
    PROVE  NoMore(P, Q, h + 1)
<1> PICK n : n = Len(items)
    OBVIOUS
<1>1. n \in Nat /\ 1 \in Nat /\ 1 <= h /\ h < n /\ StartsFrom(items, P, 1, n) /\ h + 1 \in 1..n
    OBVIOUS
<1>2. P \in SUBSET Nat /\ IsFiniteSet(P) /\ Q \in SUBSET Nat /\ IsFiniteSet(Q)
    <2>1. P \in SUBSET Nat /\ IsFiniteSet(P)
        BY ONLY <1>1, StartsFromFinite
    <2>2. Q \in SUBSET (1..n) /\ \A k \in Q : k \in Nat
        BY <1>1 DEF Paging
    <2>3. IsFiniteSet(1..n)
        BY <1>1, FS_Interval
    <2> QED  BY <2>1, <2>2, <2>3, FS_Subset
<1>3. PICK i \in Nat : \E j \in Nat :
        /\ LastAt(P, h, i) /\ LastAt(Q, h, j)
        /\ \/ Cardinality(UpTo(P, h)) < Cardinality(UpTo(Q, h))
           \/ Cardinality(UpTo(P, h)) = Cardinality(UpTo(Q, h)) /\ j <= i
    BY DEF NoMore
<1>4. PICK j \in Nat :
        /\ LastAt(P, h, i) /\ LastAt(Q, h, j)
        /\ \/ Cardinality(UpTo(P, h)) < Cardinality(UpTo(Q, h))
           \/ Cardinality(UpTo(P, h)) = Cardinality(UpTo(Q, h)) /\ j <= i
    BY <1>3
<1>5. /\ h + 1 \in P <=> ~FitsPage(SubSeq(items, i, h + 1))
      /\ h + 1 \in P => LastAt(P, h + 1, h + 1)
      /\ h + 1 \notin P => LastAt(P, h + 1, i)
    BY <1>1, <1>4, NextStart
<1>6. /\ h + 1 \in Q => LastAt(Q, h + 1, h + 1)
      /\ h + 1 \notin Q => LastAt(Q, h + 1, j)
    BY <1>2, <1>4, LastNext
<1>7. h + 1 \notin Q => FitsPage(SubSeq(items, j, h + 1))
    <2>1. j \in Q
        BY <1>4 DEF LastAt
    <2> QED  BY <1>1, <1>6, <2>1 DEF Paging
<1> PICK c, d, c1, d1 : /\ c = Cardinality(UpTo(P, h)) /\ d = Cardinality(UpTo(Q, h))
                        /\ c1 = Cardinality(UpTo(P, h + 1)) /\ d1 = Cardinality(UpTo(Q, h + 1))
    OBVIOUS
<1>8. /\ c \in Nat /\ d \in Nat
      /\ h + 1 \in P => c1 = c + 1
      /\ h + 1 \notin P => c1 = c
      /\ h + 1 \in Q => d1 = d + 1
      /\ h + 1 \notin Q => d1 = d
    BY <1>2, CountUpTo
<1>9. i <= h /\ j <= h /\ 1 <= i /\ 1 <= j
    <2>1. i \in P /\ i <= h /\ j \in Q /\ j <= h
        BY <1>4 DEF LastAt
    <2> QED  BY <1>1, <2>1 DEF StartsFrom, Paging
<1>10. i \in 1..Len(items) /\ j \in 1..Len(items) /\ h + 1 \in 1..Len(items) /\ i <= h + 1
    BY <1>1, <1>9
<1>11. ASSUME j <= i PROVE h + 1 \in P => h + 1 \in Q
    BY <1>5, <1>7, <1>10, <1>11, FitsLess
<1> PICK i1 : i1 = IF h + 1 \in P THEN h + 1 ELSE i
    OBVIOUS
<1> PICK j1 : j1 = IF h + 1 \in Q THEN h + 1 ELSE j
    OBVIOUS
<1>12. i1 \in Nat /\ j1 \in Nat /\ LastAt(P, h + 1, i1) /\ LastAt(Q, h + 1, j1)
    BY <1>5, <1>6
<1>13. c1 < d1 \/ (c1 = d1 /\ j1 <= i1)
    <2>1. CASE c < d
        BY <1>8, <1>9, <2>1
    <2>2. CASE c = d /\ j <= i
        BY <1>8, <1>9, <1>11, <2>2
    <2> QED  BY <1>4, <2>1, <2>2
<1> QED
    BY <1>12, <1>13 DEF NoMore

LEMMA FewerPagesDoNot ==
    ASSUME NEW I, Sized(I), NEW items \in Seq(I), NEW Q, Paging(items, Q, Len(items))
    PROVE  PageCount(items) <= Cardinality(Q)
<1> PICK n, P : n = Len(items) /\ P = Starts(items)
    OBVIOUS
<1>0. P = Starts(items)
    OBVIOUS
<1>1. n \in Nat /\ 1 \in Nat
    OBVIOUS
<1>2. StartsFrom(items, P, 1, n)
    BY StartsAre
<1>3. Q \in SUBSET (1..n) /\ (n > 0 => 1 \in Q)
    BY DEF Paging
<1>4. IsFiniteSet(Q) /\ Cardinality(Q) \in Nat
    <2>1. IsFiniteSet(1..n)
        BY <1>1, FS_Interval
    <2>2. IsFiniteSet(Q)
        BY <1>3, <2>1, FS_Subset
    <2> QED  BY <2>2, FS_CardinalityType
<1>5. UpTo(P, n) = P /\ Cardinality(P) \in Nat
    BY ONLY <1>1, <1>2, StartsFromFinite, SMTT(30)
<1>6. CASE n = 0
    <2>1. P = {}
        BY <1>2, <1>6 DEF StartsFrom
    <2>2. PageCount(items) = 0
        BY <2>1, FS_EmptySet DEF PageCount
    <2> QED  BY <1>4, <2>2
<1>7. CASE n # 0
    <2> DEFINE Bad == {h \in Nat : 1 <= h /\ h <= n /\ ~NoMore(P, Q, h)}
    <2>1. NoMore(P, Q, 1)
        <3>1. P \in SUBSET (Nat \ {0}) /\ Q \in SUBSET (Nat \ {0})
            <4>1. P \in SUBSET (1..n) /\ 1..n \in SUBSET (Nat \ {0})
                BY <1>1, <1>2 DEF StartsFrom
            <4> QED  BY <1>3, <4>1
        <3>2. 1 \in P
            <4>1. 1 <= n
                BY <1>1, <1>7
            <4> QED  BY ONLY <1>1, <1>2, <4>1, FirstStarts
        <3> QED  BY <1>1, <1>3, <1>7, <3>1, <3>2, NoMoreFirst
    <2>2. Bad = {}
        <3> SUFFICES ASSUME Bad # {} PROVE FALSE
            OBVIOUS
        <3>1. PICK h \in Bad : \A e \in Bad : h <= e
            <4> HIDE DEF Bad
            <4>1. Bad \in SUBSET Nat
                BY DEF Bad
            <4> QED  BY <4>1, LeastNatural
        <3>2. h # 1
            BY <2>1, <3>1
        <3> PICK g \in Nat : h = g + 1
            <4>1. h - 1 \in Nat /\ h = (h - 1) + 1
                BY <3>1, <3>2
            <4> QED  BY <4>1
        <3>3. 1 <= g /\ g < n /\ g \notin Bad
            BY <1>1, <3>1, <3>2
        <3>4. NoMore(P, Q, g)
            BY <1>1, <3>3
        <3>5. NoMore(P, Q, g + 1)
            BY <1>2, <3>3, <3>4, NoMoreNext
        <3> QED  BY <3>1, <3>5
    <2>3. NoMore(P, Q, n)
        BY <1>1, <1>7, <2>2
    <2>4. UpTo(Q, n) = Q
        <3>1. \A k \in Q : k <= n
            BY <1>1, <1>3
        <3> QED  BY <3>1 DEF UpTo
    <2>5. Cardinality(P) < Cardinality(Q) \/ Cardinality(P) = Cardinality(Q)
        BY <1>5, <2>3, <2>4 DEF NoMore
    <2> QED  BY ONLY <1>0, <1>4, <1>5, <2>5 DEF PageCount
<1> QED
    BY <1>6, <1>7

\* No way of putting the items of a section on pages, in their order and within
\* the limits, needs fewer pages than _paginate_nonempty_sections makes: the
\* limit on the pages of a package turns nothing away that would fit it.
THEOREM FewestPages ==
    ASSUME NEW I, Sized(I), NEW items \in Seq(I), ~OneItemTooLarge(items)
    PROVE  /\ Paging(items, Starts(items), Len(items))
           /\ \A Q : Paging(items, Q, Len(items)) => PageCount(items) <= Cardinality(Q)
<1>1. Len(items) \in Nat /\ DOMAIN items = 1..Len(items)
    OBVIOUS
<1>2. Starts(items) \in SUBSET (1..Len(items)) /\ (Len(items) > 0 => 1 \in Starts(items))
    BY <1>1, StartsFirst
<1>3. \A k \in 1..Len(items) : \A l \in Starts(items) :
          LastAt(Starts(items), k, l) => FitsPage(SubSeq(items, l, k))
    BY PageFits
<1>4. Paging(items, Starts(items), Len(items))
    BY <1>2, <1>3 DEF Paging
<1> QED
    BY <1>4, FewerPagesDoNot
-----------------------------------------------------------------------------
(* A package is within its limits.                                          *)

PagesWithin(pages) == Len(pages) <= MaxPages /\ \A p \in DOMAIN pages : FitsPage(pages[p].items)

\* c pages of items within the limits of a page.
PagesFitting(pages, c) == Len(pages) = c /\ \A p \in DOMAIN pages : FitsPage(pages[p].items)

LEMMA SectionFits ==
    ASSUME NEW I, Sized(I), NEW items \in Seq(I), ~OneItemTooLarge(items), NEW name \in Sections
    PROVE  PagesFitting(Section(name, Paginate(items)), PageCount(items))
<1> PICK c, pages, sect : c = PageCount(items) /\ pages = Paginate(items) /\ sect = Section(name, pages)
    OBVIOUS
<1>1. c \in Nat
    BY PageCountType
<1>2. DOMAIN pages = 1..c
    BY PaginateIs DEF PageCount
<1>3. sect \in Seq(Pages(I))
    BY SectionHolds
<1>4. DOMAIN sect = 1..c /\ \A p \in 1..c : sect[p].items = pages[p]
    BY <1>2 DEF Section
<1>5. Len(sect) = c
    BY <1>1, <1>3, <1>4
<1>6. \A p \in 1..c : FitsPage(pages[p])
    BY <1>2, PagesFit
<1> QED
    BY <1>4, <1>5, <1>6 DEF PagesFitting

LEMMA FittingConcat ==
    ASSUME NEW I, NEW s \in Seq(Pages(I)), NEW t \in Seq(Pages(I)), NEW c \in Nat, NEW d \in Nat,
           PagesFitting(s, c), PagesFitting(t, d)
    PROVE  s \o t \in Seq(Pages(I)) /\ PagesFitting(s \o t, c + d)
<1> PICK u : u = s \o t
    OBVIOUS
<1>1. /\ u \in Seq(Pages(I)) /\ Len(u) = Len(s) + Len(t)
      /\ DOMAIN u = 1..(Len(s) + Len(t)) /\ DOMAIN s = 1..Len(s) /\ DOMAIN t = 1..Len(t)
      /\ \A i \in 1..(Len(s) + Len(t)) : u[i] = IF i <= Len(s) THEN s[i] ELSE t[i - Len(s)]
    BY ConcatProperties
<1>2. Len(s) = c /\ Len(t) = d
    BY DEF PagesFitting
<1>3. ASSUME NEW p \in DOMAIN u PROVE FitsPage(u[p].items)
    <2>1. p \in 1..(c + d)
        BY <1>1, <1>2
    <2>2. CASE p <= c
        <3>1. p \in DOMAIN s /\ u[p] = s[p]
            BY <1>1, <1>2, <2>1, <2>2
        <3> QED  BY <3>1 DEF PagesFitting
    <2>3. CASE ~(p <= c)
        <3>1. p - c \in DOMAIN t /\ u[p] = t[p - c]
            BY <1>1, <1>2, <2>1, <2>3
        <3> QED  BY <3>1 DEF PagesFitting
    <2> QED  BY <2>2, <2>3
<1> QED
    BY <1>1, <1>2, <1>3 DEF PagesFitting

\* A package that is made has no more pages than it may have, and no page of it
\* has more items or bytes than a page may have (paginate_sections).
THEOREM PackageWithin ==
    ASSUME NEW I, Sized(I), NEW newest \in Seq(I), NEW reads \in Seq(I), NEW groups \in Seq(I),
           ~PackageFails(reads, groups, newest)
    PROVE  PagesWithin(PackagePages(reads, groups, newest))
<1> PICK k, m, a, b, c, ab, all :
        /\ k = Selected(reads, groups, newest)
        /\ m = Suffix(newest, k)
        /\ a = Section("read_states", Paginate(reads))
        /\ b = Section("groups", Paginate(groups))
        /\ c = Section("recent_plain_messages", Paginate(m))
        /\ ab = a \o b
        /\ all = ab \o c
    OBVIOUS
<1>1. k \in 0..Len(newest)
    BY SelectedIn
<1>2. m \in Seq(I)
    BY <1>1, SuffixIs
<1>3. RequiredFits(reads, groups)
    BY DEF PackageFails
<1>4. \A j \in 0..(k - 1) : Takes(reads, groups, newest, j)
    <2> SUFFICES ASSUME NEW j \in 0..(k - 1) PROVE Takes(reads, groups, newest, j)
        OBVIOUS
    <2>1. j \in Nat /\ j < Len(newest) /\ Verdict(reads, groups, newest, j) = "take"
        BY <1>1, SelectedIs
    <2> QED  BY <2>1, VerdictIs
<1>5. ~OneItemTooLarge(reads) /\ ~OneItemTooLarge(groups) /\ ~OneItemTooLarge(m)
    <2>1. ~OneItemTooLarge(m)
        BY <1>1, <1>4, SelectedItemsFit
    <2> QED  BY <1>3, <2>1, RequiredIs DEF RequiredFits
<1> PICK x, y, z : x = PageCount(reads) /\ y = PageCount(groups) /\ z = PageCount(m)
    OBVIOUS
<1>6. x \in Nat /\ y \in Nat /\ z \in Nat /\ MaxPages \in Nat /\ 1 <= MaxPages
    BY <1>2, PageCountType, BudgetAssumption
<1>7. x + y + z <= MaxPages
    BY <1>1, <1>3, <1>4, SelectedFits DEF RequiredPages
<1>8. {"read_states", "groups", "recent_plain_messages"} \subseteq Sections
    BY DEF Sections
<1>9. /\ a \in Seq(Pages(I)) /\ b \in Seq(Pages(I)) /\ c \in Seq(Pages(I))
      /\ PagesFitting(a, x) /\ PagesFitting(b, y) /\ PagesFitting(c, z)
    BY <1>2, <1>5, <1>8, SectionHolds, SectionFits
<1>10. ab \in Seq(Pages(I)) /\ PagesFitting(ab, x + y) /\ x + y \in Nat
    <2>1. a \o b \in Seq(Pages(I)) /\ PagesFitting(a \o b, x + y)
        BY ONLY <1>6, <1>9, FittingConcat
    <2> QED  BY <1>6, <2>1
<1>11. PagesFitting(all, x + y + z)
    <2>1. PagesFitting(ab \o c, (x + y) + z)
        BY ONLY <1>6, <1>9, <1>10, FittingConcat
    <2> QED  BY <2>1
<1> PICK one : one = [section |-> "read_states", items |-> <<>>]
    OBVIOUS
<1>12. PackagePages(reads, groups, newest) = IF all = <<>> THEN <<one>> ELSE all
    BY DEF PackagePages
<1>13. PagesWithin(all)
    BY <1>7, <1>11 DEF PagesFitting, PagesWithin
<1>14. PagesWithin(<<one>>)
    <2>1. FitsPage(<<>>)
        <3>1. <<>> \in Seq(I)
            OBVIOUS
        <3>2. PICK f : SumUpTo(<<>>, f, Len(<<>>)) /\ Total(<<>>) = f[Len(<<>>)]
            BY <3>1, TotalIs
        <3>3. Total(<<>>) = 0
            BY <3>2 DEF SumUpTo
        <3> QED  BY <3>3, BudgetAssumption DEF FitsPage
    <2>2. Len(<<one>>) = 1 /\ DOMAIN <<one>> = {1} /\ <<one>>[1].items = <<>>
        OBVIOUS
    <2> QED  BY <1>6, <2>1, <2>2 DEF PagesWithin
<1> QED
    BY <1>12, <1>13, <1>14
=============================================================================
