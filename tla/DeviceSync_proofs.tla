-------------------------- MODULE DeviceSync_proofs -------------------------
(***************************************************************************)
(* A device misses nothing it is not told of, and its picture of the       *)
(* account is true of one point of the history.                            *)
(***************************************************************************)
EXTENDS DeviceSync, SnapshotPackage_proofs

States == [read : Nat, changes : Nat, member : BOOLEAN]

EntryRow == [kind : Kinds, size : Nat, time : Nat, state : States]

\* The log tells what the story says, and each entry carries the state that its
\* change made of the one before; the last row is never removed.
LogInv ==
    /\ story \in Seq([kind : Kinds, size : Nat]) /\ log \in Seq(EntryRow) /\ now \in Nat
    /\ Len(log) <= Len(story) /\ \A n \in DOMAIN log : log[n].kind = story[n].kind
    /\ \A n \in DOMAIN log : log[n].state = Changed(StateAt(log, n - 1), log[n].kind)
    /\ kept \in SUBSET (1..Len(log)) /\ (Len(log) # 0 => Len(log) \in kept)

LEMMA LogFacts ==
    ASSUME LogInv
    PROVE  /\ Len(log) \in Nat /\ DOMAIN log = 1..Len(log)
           /\ \A n \in 1..Len(log) :
                /\ log[n] \in EntryRow /\ log[n].kind \in Kinds /\ log[n].size \in Nat
                /\ log[n].time \in Nat /\ log[n].state \in States
           /\ \A n \in 0..Len(log) : StateAt(log, n) \in States
           /\ Highest = Len(log)
           /\ IsFiniteSet(kept) /\ \A n \in kept : n \in Nat /\ 1 <= n /\ n <= Len(log)
<1>1. Len(log) \in Nat /\ DOMAIN log = 1..Len(log) /\ \A n \in 1..Len(log) : log[n] \in EntryRow
    BY DEF LogInv
<1>2. \A n \in 1..Len(log) :
                /\ log[n].kind \in Kinds /\ log[n].size \in Nat
                /\ log[n].time \in Nat /\ log[n].state \in States
    BY <1>1 DEF EntryRow
<1>3. InitialState \in States
    BY DEF InitialState, States
<1>4. \A n \in 0..Len(log) : StateAt(log, n) \in States
    <2> SUFFICES ASSUME NEW n \in 0..Len(log) PROVE StateAt(log, n) \in States
        OBVIOUS
    <2>1. CASE n = 0
        BY <1>3, <2>1 DEF StateAt
    <2>2. CASE n # 0
        <3>1. n \in 1..Len(log)
            BY <1>1, <2>2
        <3> QED  BY <1>2, <2>2, <3>1 DEF StateAt
    <2> QED  BY <2>1, <2>2
<1>5. \A n \in kept : n \in Nat /\ 1 <= n /\ n <= Len(log)
    BY <1>1 DEF LogInv
<1>6. IsFiniteSet(kept)
    <2>1. IsFiniteSet(1..Len(log)) /\ kept \in SUBSET (1..Len(log))
        BY <1>1, FS_Interval DEF LogInv
    <2> QED  BY <2>1, FS_Subset
<1>7. Highest = Len(log)
    <2>1. CASE Len(log) = 0
        <3>1. kept = {}
            BY <1>5, <2>1
        <3> QED  BY <2>1, <3>1 DEF Highest
    <2>2. CASE Len(log) # 0
        <3> PICK h : h = Len(log)
            OBVIOUS
        <3>1. h \in kept /\ \A k \in kept : k <= h
            BY <1>5, <2>2 DEF LogInv
        <3>2. \A n \in kept : (\A k \in kept : k <= n) => n = h
            BY <1>1, <1>5, <3>1
        <3>3. (CHOOSE n \in kept : \A k \in kept : k <= n) = h
            BY <3>1, <3>2
        <3> QED  BY <3>1, <3>3 DEF Highest
    <2> QED  BY <2>1, <2>2
<1> QED
    BY <1>1, <1>2, <1>4, <1>5, <1>6, <1>7
-----------------------------------------------------------------------------
(* The account's state.                                                     *)

LEMMA ChangeIs ==
    ASSUME NEW s \in States, NEW kind \in Kinds
    PROVE  /\ Changed(s, kind) \in States
           /\ kind = "read" => Changed(s, kind).read = s.read + 1
           /\ kind # "read" => Changed(s, kind).read = s.read
           /\ kind \in {"join", "leave"} => Changed(s, kind).changes = s.changes + 1
           /\ kind \notin {"join", "leave"} =>
                Changed(s, kind).changes = s.changes /\ Changed(s, kind).member = s.member
<1>1. CASE kind = "read"
    <2>1. Changed(s, kind) = [s EXCEPT !.read = s.read + 1]
        BY <1>1 DEF Changed
    <2>2. s.read + 1 \in Nat
        BY DEF States
    <2>3. ASSUME NEW v \in Nat PROVE [s EXCEPT !.read = v] \in States /\ [s EXCEPT !.read = v].read = v
                /\ [s EXCEPT !.read = v].changes = s.changes /\ [s EXCEPT !.read = v].member = s.member
        BY DEF States
    <2> QED  BY <1>1, <2>1, <2>2, <2>3
<1>2. CASE kind \in {"join", "leave"}
    <2> PICK v : v = s.changes + 1
        OBVIOUS
    <2>1. v \in Nat
        BY DEF States
    <2>2. CASE kind = "join"
        <3>1. Changed(s, kind) = [s EXCEPT !.changes = v, !.member = TRUE]
            BY <2>2 DEF Changed
        <3>2. /\ [s EXCEPT !.changes = v, !.member = TRUE] \in States
              /\ [s EXCEPT !.changes = v, !.member = TRUE].changes = v
              /\ [s EXCEPT !.changes = v, !.member = TRUE].read = s.read
            BY <2>1 DEF States
        <3> HIDE DEF Changed
        <3> QED  BY <2>2, <3>1, <3>2
    <2>3. CASE kind = "leave"
        <3>1. Changed(s, kind) = [s EXCEPT !.changes = v, !.member = FALSE]
            BY <2>3 DEF Changed
        <3>2. /\ [s EXCEPT !.changes = v, !.member = FALSE] \in States
              /\ [s EXCEPT !.changes = v, !.member = FALSE].changes = v
              /\ [s EXCEPT !.changes = v, !.member = FALSE].read = s.read
            BY <2>1 DEF States
        <3> HIDE DEF Changed
        <3> QED  BY <2>3, <3>1, <3>2
    <2> QED  BY <1>2, <2>2, <2>3
<1>3. CASE kind \in {"direct", "group"}
    BY <1>3 DEF Changed
<1> QED
    BY <1>1, <1>2, <1>3 DEF Kinds

\* Versions never fall, change only with their entries, and rise with a change
\* of membership.
Between(m, n) ==
    /\ StateAt(log, m).read <= StateAt(log, n).read
    /\ StateAt(log, m).changes <= StateAt(log, n).changes
    /\ (\A k \in (m + 1)..n : log[k].kind # "read") => StateAt(log, m).read = StateAt(log, n).read
    /\ (\A k \in (m + 1)..n : log[k].kind \notin {"join", "leave"}) =>
            /\ StateAt(log, m).changes = StateAt(log, n).changes
            /\ StateAt(log, m).member = StateAt(log, n).member
    /\ (\E k \in (m + 1)..n : log[k].kind \in {"join", "leave"}) =>
            StateAt(log, m).changes < StateAt(log, n).changes

LEMMA BetweenNext ==
    ASSUME LogInv, NEW m \in Nat, NEW g \in Nat, m <= g, g + 1 <= Len(log), Between(m, g)
    PROVE  Between(m, g + 1)
<1> PICK a, b, e, kind : a = StateAt(log, m) /\ b = StateAt(log, g) /\ e = StateAt(log, g + 1) /\ kind = log[g + 1].kind
    OBVIOUS
<1>0. kind = log[g + 1].kind
    OBVIOUS
<1>1. g + 1 \in 1..Len(log) /\ m \in 0..Len(log) /\ g \in 0..Len(log) /\ Len(log) \in Nat
    BY LogFacts
<1>2. a \in States /\ b \in States /\ kind \in Kinds
    BY <1>1, LogFacts
<1>3. e = Changed(b, kind)
    <2>1. StateAt(log, g + 1) = log[g + 1].state /\ (g + 1) - 1 = g
        BY <1>1 DEF StateAt
    <2>2. log[g + 1].state = Changed(StateAt(log, (g + 1) - 1), log[g + 1].kind)
        BY <1>1, LogFacts DEF LogInv
    <2> QED  BY <2>1, <2>2
<1>4. /\ e \in States
      /\ kind = "read" => e.read = b.read + 1
      /\ kind # "read" => e.read = b.read
      /\ kind \in {"join", "leave"} => e.changes = b.changes + 1
      /\ kind \notin {"join", "leave"} => e.changes = b.changes /\ e.member = b.member
    BY <1>2, <1>3, ChangeIs
<1>5. /\ a.read \in Nat /\ b.read \in Nat /\ e.read \in Nat
      /\ a.changes \in Nat /\ b.changes \in Nat /\ e.changes \in Nat
    BY <1>2, <1>4 DEF States
<1>6. \A k : k \in (m + 1)..(g + 1) <=> k \in (m + 1)..g \/ k = g + 1
    OBVIOUS
<1>7. /\ a.read <= b.read /\ a.changes <= b.changes
      /\ (\A k \in (m + 1)..g : log[k].kind # "read") => a.read = b.read
      /\ (\A k \in (m + 1)..g : log[k].kind \notin {"join", "leave"}) =>
            a.changes = b.changes /\ a.member = b.member
      /\ (\E k \in (m + 1)..g : log[k].kind \in {"join", "leave"}) => a.changes < b.changes
    BY DEF Between
<1>8. a.read <= e.read /\ a.changes <= e.changes
    <2>1. a.read <= b.read /\ a.changes <= b.changes
        BY <1>7
    <2>2. e.read \in {b.read, b.read + 1} /\ e.changes \in {b.changes, b.changes + 1}
        BY ONLY <1>4
    <2> QED  BY ONLY <1>5, <2>1, <2>2
<1>9. ASSUME \A k \in (m + 1)..(g + 1) : log[k].kind # "read" PROVE a.read = e.read
    <2>1. a.read = b.read /\ kind # "read"
        BY ONLY <1>0, <1>6, <1>7, <1>9
    <2> QED  BY ONLY <1>4, <2>1
<1>10. ASSUME \A k \in (m + 1)..(g + 1) : log[k].kind \notin {"join", "leave"}
       PROVE  a.changes = e.changes /\ a.member = e.member
    <2>1. a.changes = b.changes /\ a.member = b.member /\ kind \notin {"join", "leave"}
        BY ONLY <1>0, <1>6, <1>7, <1>10
    <2> QED  BY ONLY <1>4, <2>1
<1>11. ASSUME NEW k \in (m + 1)..(g + 1), log[k].kind \in {"join", "leave"} PROVE a.changes < e.changes
    <2>1. CASE k = g + 1
        <3>1. e.changes = b.changes + 1
            BY ONLY <1>0, <1>4, <1>11, <2>1
        <3> QED  BY ONLY <1>5, <1>7, <3>1
    <2>2. CASE k # g + 1
        <3>1. a.changes < b.changes
            BY ONLY <1>6, <1>7, <1>11, <2>2, k \in (m + 1)..(g + 1)
        <3>2. e.changes = b.changes \/ e.changes = b.changes + 1
            BY ONLY <1>4
        <3> QED  BY ONLY <1>5, <3>1, <3>2
    <2> QED  BY <2>1, <2>2
<1> QED
    BY <1>8, <1>9, <1>10, <1>11 DEF Between

LEMMA StatesBetween ==
    ASSUME LogInv, NEW m \in 0..Len(log), NEW n \in m..Len(log)
    PROVE  Between(m, n)
<1> DEFINE Bad == {k \in m..Len(log) : ~Between(m, k)}
<1>0. Len(log) \in Nat /\ m \in Nat
    BY LogFacts
<1>1. SUFFICES ASSUME Bad # {} PROVE FALSE
    OBVIOUS
<1>2. PICK h \in Bad : \A g \in Bad : h <= g
    <2>1. Bad \in SUBSET Nat
        BY <1>0
    <2> HIDE DEF Bad
    <2> QED  BY <1>1, <2>1, LeastNatural
<1>3. Between(m, m)
    <2>1. StateAt(log, m) \in States
        BY LogFacts
    <2>2. StateAt(log, m).read \in Nat /\ StateAt(log, m).changes \in Nat
        BY <2>1 DEF States
    <2>3. \A k : k \notin (m + 1)..m
        BY <1>0
    <2> QED  BY <2>2, <2>3 DEF Between
<1> PICK g \in Nat : h = g + 1
    <2>1. h - 1 \in Nat /\ h = (h - 1) + 1
        BY <1>0, <1>2, <1>3
    <2> QED  BY <2>1
<1>4. g \in m..Len(log) /\ g \notin Bad /\ m <= g /\ g + 1 <= Len(log)
    BY <1>0, <1>2, <1>3
<1>5. Between(m, g)
    BY <1>4
<1>6. Between(m, g + 1)
    BY <1>0, <1>4, <1>5, BetweenNext
<1> QED
    BY <1>2, <1>6
-----------------------------------------------------------------------------
(* A page of the log.                                                       *)

LEMMA ScannedIs ==
    ASSUME LogInv, NEW after \in Nat, Scanned(after) # {}, Contiguous(after)
    PROVE  \E b \in (after + 1)..Len(log) :
              /\ Scanned(after) = (after + 1)..b
              /\ (CHOOSE n \in Scanned(after) : Later(Scanned(after), n) = {}) = b
<1> PICK rows : rows = Scanned(after)
    OBVIOUS
<1>1. rows \in SUBSET kept
    BY DEF Scanned, Later
<1>2. Cardinality(rows) \in Nat
    BY <1>1, LogFacts, FS_Subset, FS_CardinalityType
<1> PICK b : b = after + Cardinality(rows)
    OBVIOUS
<1>3. b \in Nat /\ rows = (after + 1)..b
    BY <1>2 DEF Contiguous
<1>4. b \in rows
    <2>1. PICK n \in rows : TRUE
        OBVIOUS
    <2> HIDE DEF Scanned
    <2>2. n \in (after + 1)..b
        BY <1>3, <2>1
    <2>3. b \in (after + 1)..b
        BY ONLY <1>3, <2>2, after \in Nat
    <2> QED  BY <1>3, <2>3
<1>5. b \in (after + 1)..Len(log)
    <2>1. b \in kept
        BY <1>1, <1>4
    <2>2. b <= Len(log) /\ Len(log) \in Nat
        BY <2>1, LogFacts
    <2> QED  BY <1>3, <1>4, <2>2
<1>6. Later(rows, b) = {} /\ \A n \in rows : Later(rows, n) = {} => n = b
    <2>1. \A n \in rows : n \in Nat /\ n <= b
        BY ONLY <1>3, after \in Nat
    <2>2. Later(rows, b) = {}
        BY <1>3, <2>1 DEF Later
    <2>3. ASSUME NEW n \in rows, n # b PROVE b \in Later(rows, n)
        BY <1>3, <1>4, <2>1, <2>3 DEF Later
    <2> QED  BY <2>2, <2>3
<1>7. (CHOOSE n \in rows : Later(rows, n) = {}) = b
    BY <1>4, <1>6
<1> QED
    BY <1>3, <1>5, <1>7

\* The larger of some versions.
LEMMA LargestIs ==
    ASSUME NEW T, NEW v \in T, v \in Nat, \A w \in T : w \in Nat /\ w <= v
    PROVE  (CHOOSE u \in T : \A w \in T : w <= u) = v
<1>1. \A u \in T : (\A w \in T : w <= u) => u = v
    OBVIOUS
<1> QED
    BY <1>1

\* The last of some rows.
LEMMA LastRow ==
    ASSUME NEW N \in Nat, NEW S \in SUBSET (0..N), S # {}
    PROVE  \E n \in S : Later(S, n) = {} /\ (CHOOSE k \in S : Later(S, k) = {}) = n /\ \A k \in S : k <= n
<1> DEFINE T == {N - k : k \in S}
<1>1. T \in SUBSET Nat /\ T # {}
    <2>1. \A k \in S : N - k \in Nat
        OBVIOUS
    <2> QED  BY <2>1
<1>2. PICK t \in T : \A u \in T : t <= u
    <2> HIDE DEF T
    <2> QED  BY <1>1, LeastNatural
<1>3. PICK n \in S : t = N - n
    OBVIOUS
<1>4. \A k \in S : k \in Nat /\ k <= n
    <2>1. \A k \in S : k \in Nat /\ t <= N - k
        BY <1>2
    <2>2. ASSUME NEW k \in Nat, NEW m \in Nat, N - m <= N - k PROVE k <= m
        BY <2>2
    <2> HIDE DEF T
    <2> QED  BY <1>3, <2>1, <2>2
<1>5. Later(S, n) = {} /\ \A k \in S : Later(S, k) = {} => k = n
    <2>1. Later(S, n) = {}
        <3>1. \A k \in S : ~(k > n)
            BY ONLY <1>4, n \in S
        <3> QED  BY <3>1 DEF Later
    <2>2. ASSUME NEW k \in S, k # n PROVE n \in Later(S, k)
        BY <1>4, <2>2 DEF Later
    <2> QED  BY <2>1, <2>2
<1>6. (CHOOSE k \in S : Later(S, k) = {}) = n
    BY <1>5
<1> QED
    BY <1>4, <1>5, <1>6

LEMMA ReadOfPage ==
    ASSUME LogInv, NEW p \in 0..Len(log), NEW q \in 0..p, NEW b \in (q + 1)..Len(log)
    PROVE  Reduced(StateAt(log, p), (q + 1)..b).read = StateAt(log, Larger(p, b)).read
<1> PICK top, rows, v : top = Larger(p, b) /\ rows = (q + 1)..b /\ v = StateAt(log, top).read
    OBVIOUS
<1> PICK T : T = {StateAt(log, p).read} \cup {log[n].state.read : n \in {k \in rows : log[k].kind = "read"}}
    OBVIOUS
<1>1. Reduced(StateAt(log, p), rows).read = (CHOOSE u \in T : \A w \in T : w <= u)
    BY DEF Reduced
<1>2. /\ Len(log) \in Nat /\ p \in Nat /\ q \in Nat /\ b \in Nat /\ top \in Nat /\ p <= top /\ b <= top
      /\ top <= Len(log) /\ top \in 0..Len(log) /\ (top = p \/ top = b)
    BY LogFacts DEF Larger
<1>3. \A n \in 0..Len(log) : StateAt(log, n).read \in Nat
    <2>1. \A n \in 0..Len(log) : StateAt(log, n) \in States
        BY LogFacts
    <2> QED  BY <2>1 DEF States
<1>4. \A n \in rows : n \in 0..Len(log) /\ n <= top /\ log[n].state = StateAt(log, n)
    <2>1. \A n \in rows : n \in 0..Len(log) /\ n <= top /\ n # 0
        BY <1>2
    <2> QED  BY <2>1 DEF StateAt
<1>5. \A n \in 0..Len(log) : n <= top => StateAt(log, n).read <= v
    <2> SUFFICES ASSUME NEW n \in 0..Len(log), n <= top PROVE StateAt(log, n).read <= v
        OBVIOUS
    <2>1. top \in n..Len(log)
        BY <1>2
    <2> QED  BY <2>1, StatesBetween DEF Between
<1>6. v \in Nat /\ \A w \in T : w \in Nat /\ w <= v
    <2>1. v \in Nat
        BY <1>2, <1>3
    <2>2. StateAt(log, p).read \in Nat /\ StateAt(log, p).read <= v
        BY <1>2, <1>3, <1>5
    <2>3. \A n \in rows : log[n].state.read \in Nat /\ log[n].state.read <= v
        BY <1>3, <1>4, <1>5
    <2> QED  BY <2>1, <2>2, <2>3
<1>7. v \in T
    <2> DEFINE S == {k \in (p + 1)..b : log[k].kind = "read"}
    <2>1. CASE S = {}
        <3>1. \A k \in (p + 1)..top : log[k].kind # "read"
            BY <1>2, <2>1
        <3>2. top \in p..Len(log)
            BY <1>2
        <3>3. StateAt(log, p).read = v
            BY <3>1, <3>2, StatesBetween DEF Between
        <3> QED  BY <3>3
    <2>2. CASE S # {}
        <3>1. S \in SUBSET (0..b)
            BY <1>2
        <3>2. PICK n \in S : \A k \in S : k <= n
            <4> HIDE DEF S
            <4> QED  BY <1>2, <2>2, <3>1, LastRow
        <3>3. n \in rows /\ log[n].kind = "read" /\ n \in Nat /\ n <= b /\ n > p
            BY <1>2
        <3>4. top = b /\ n \in 0..Len(log) /\ top \in n..Len(log)
            BY <1>2, <3>3
        <3>5. \A k \in (n + 1)..top : log[k].kind # "read"
            <4> SUFFICES ASSUME NEW k \in (n + 1)..top, log[k].kind = "read" PROVE FALSE
                OBVIOUS
            <4>1. k \in S /\ ~(k <= n)
                BY <1>2, <3>3, <3>4
            <4> QED  BY <3>2, <4>1
        <3>6. StateAt(log, n).read = v
            BY <3>4, <3>5, StatesBetween DEF Between
        <3>7. log[n].state.read = v
            BY <1>4, <3>3, <3>6
        <3> QED  BY <3>3, <3>7
    <2> QED  BY <2>1, <2>2
<1> QED
    BY <1>1, <1>6, <1>7, LargestIs

LEMMA MembershipOfPage ==
    ASSUME LogInv, NEW p \in 0..Len(log), NEW q \in 0..p, NEW b \in (q + 1)..Len(log)
    PROVE  LET r == Reduced(StateAt(log, p), (q + 1)..b)
               s == StateAt(log, Larger(p, b))
           IN  r.changes = s.changes /\ r.member = s.member
<1> PICK top, rows, x, s, M : /\ top = Larger(p, b) /\ rows = (q + 1)..b
                              /\ x = StateAt(log, p) /\ s = StateAt(log, top)
                              /\ M = Membership(rows)
    OBVIOUS
<1>1. /\ Reduced(x, rows).changes = Larger(x.changes, M.changes)
      /\ Reduced(x, rows).member = IF M.changes > x.changes THEN M.member ELSE x.member
    BY DEF Reduced
<1>2. /\ Len(log) \in Nat /\ p \in Nat /\ q \in Nat /\ b \in Nat /\ top \in Nat /\ p <= top /\ b <= top
      /\ top <= Len(log) /\ top \in 0..Len(log) /\ (top = p \/ top = b)
    BY LogFacts DEF Larger
<1>3. \A n \in 0..Len(log) : StateAt(log, n).changes \in Nat
    <2>1. \A n \in 0..Len(log) : StateAt(log, n) \in States
        BY LogFacts
    <2> QED  BY <2>1 DEF States
<1>4. x.changes \in Nat /\ s.changes \in Nat
    BY <1>2, <1>3
<1> PICK C : C = {n \in rows : log[n].kind \in {"join", "leave"}}
    OBVIOUS
<1>5. CASE \A k \in (p + 1)..b : log[k].kind \notin {"join", "leave"}
    <2>1. x.changes = s.changes /\ x.member = s.member
        <3>1. \A k \in (p + 1)..top : log[k].kind \notin {"join", "leave"}
            BY <1>2, <1>5
        <3>2. top \in p..Len(log)
            BY <1>2
        <3> QED  BY <3>1, <3>2, StatesBetween DEF Between
    <2>2. M.changes \in Nat /\ M.changes <= x.changes
        <3>1. CASE C = {}
            <4>1. M = InitialState
                BY <3>1 DEF Membership
            <4>2. M.changes = 0
                BY <4>1 DEF InitialState
            <4> QED  BY <1>4, <4>2
        <3>2. CASE C # {}
            <4>1. C \in SUBSET (0..b)
                BY <1>2
            <4>2. PICK n \in C : (CHOOSE k \in C : Later(C, k) = {}) = n
                BY <1>2, <3>2, <4>1, LastRow
            <4>3. M = log[n].state
                BY <3>2, <4>2 DEF Membership
            <4>4. n \in 0..Len(log) /\ n # 0 /\ n <= b /\ n \in Nat
                BY <1>2, <4>2
            <4>5. n <= p
                <5>1. n \notin (p + 1)..b
                    BY <1>5, <4>2
                <5> QED  BY <1>2, <4>4, <5>1
            <4>6. M = StateAt(log, n) /\ p \in n..Len(log)
                BY <1>2, <4>3, <4>4, <4>5 DEF StateAt
            <4>7. M.changes <= x.changes
                BY <4>4, <4>6, StatesBetween DEF Between
            <4> QED  BY <1>3, <4>4, <4>6, <4>7
        <3> QED  BY <3>1, <3>2
    <2>3. Reduced(x, rows).changes = x.changes /\ Reduced(x, rows).member = x.member
        BY <1>1, <1>4, <2>2 DEF Larger
    <2> QED  BY <2>1, <2>3
<1>6. CASE \E k \in (p + 1)..b : log[k].kind \in {"join", "leave"}
    <2>1. PICK k \in (p + 1)..b : log[k].kind \in {"join", "leave"}
        BY <1>6
    <2>2. k \in C /\ k \in Nat /\ k > p /\ k <= b
        BY <1>2, <2>1
    <2>3. C \in SUBSET (0..b) /\ C # {}
        <3>1. \A j \in rows : j \in 0..b
            BY <1>2
        <3>2. \A j \in C : j \in rows
            OBVIOUS
        <3> QED  BY ONLY <2>2, <3>1, <3>2
    <2>4. PICK n \in C : (CHOOSE j \in C : Later(C, j) = {}) = n /\ \A j \in C : j <= n
        <3>1. b \in Nat
            BY <1>2
        <3> QED  BY ONLY <2>3, <3>1, LastRow
    <2>5. M = log[n].state
        BY <2>3, <2>4 DEF Membership
    <2>6. n \in Nat /\ n <= b /\ n > p /\ n \in 0..Len(log) /\ n # 0 /\ log[n].kind \in {"join", "leave"}
        BY <1>2, <2>2, <2>4
    <2>7. M = StateAt(log, n) /\ top = b
        BY <1>2, <2>2, <2>5, <2>6 DEF StateAt
    <2>8. x.changes < M.changes
        <3>1. n \in p..Len(log) /\ n \in (p + 1)..n
            BY <1>2, <2>6
        <3> QED  BY <2>6, <2>7, <3>1, StatesBetween DEF Between
    <2>9. M.changes = s.changes /\ M.member = s.member
        <3>1. top \in n..Len(log)
            BY <1>2, <2>6, <2>7
        <3>2. ASSUME NEW j \in (n + 1)..top, log[j].kind \in {"join", "leave"} PROVE FALSE
            <4>1. j \in C /\ ~(j <= n)
                BY <1>2, <2>6, <2>7, <3>2
            <4> QED  BY <2>4, <4>1
        <3> QED  BY <2>6, <2>7, <3>1, <3>2, StatesBetween DEF Between
    <2>10. Reduced(x, rows).changes = M.changes /\ Reduced(x, rows).member = M.member
        BY <1>1, <1>4, <2>8, <2>9 DEF Larger
    <2> QED  BY <2>9, <2>10
<1> QED
    BY <1>5, <1>6

\* What a client has after a page is the state at the page's end, or still the
\* state it had if that is newer.
LEMMA ReducedIs ==
    ASSUME LogInv, NEW p \in 0..Len(log), NEW q \in 0..p, NEW b \in (q + 1)..Len(log)
    PROVE  Reduced(StateAt(log, p), (q + 1)..b) = StateAt(log, Larger(p, b))
<1> PICK r, s : r = Reduced(StateAt(log, p), (q + 1)..b) /\ s = StateAt(log, Larger(p, b))
    OBVIOUS
<1>1. r.read = s.read /\ r.changes = s.changes /\ r.member = s.member
    BY ReadOfPage, MembershipOfPage
<1>2. r = [read |-> r.read, changes |-> r.changes, member |-> r.member]
    BY DEF Reduced
<1>3. s \in States
    <2>1. Larger(p, b) \in 0..Len(log)
        BY LogFacts DEF Larger
    <2> QED  BY <2>1, LogFacts
<1>4. s = [read |-> s.read, changes |-> s.changes, member |-> s.member]
    BY <1>3 DEF States
<1> QED
    BY <1>1, <1>2, <1>4
-----------------------------------------------------------------------------
(* The snapshot.                                                            *)

LEMMA RankFalls ==
    ASSUME NEW N \in Nat, NEW S \in SUBSET (1..N), NEW m \in S, NEW n \in S, m < n
    PROVE  /\ Cardinality(Later(S, n)) \in Nat /\ Cardinality(Later(S, m)) \in Nat
           /\ Cardinality(Later(S, n)) < Cardinality(Later(S, m))
<1>0. \A k \in S : k \in Nat
    OBVIOUS
<1>1. IsFiniteSet(S)
    <2>1. IsFiniteSet(1..N)
        BY FS_Interval
    <2> QED  BY <2>1, FS_Subset
<1> PICK A, B : A = Later(S, n) /\ B = Later(S, m)
    OBVIOUS
<1>2. A \in SUBSET S /\ B \in SUBSET S
    BY DEF Later
<1>3. IsFiniteSet(A) /\ IsFiniteSet(B) /\ Cardinality(A) \in Nat /\ Cardinality(B) \in Nat
    BY <1>1, <1>2, FS_Subset, FS_CardinalityType
<1>4. n \notin A /\ A \cup {n} \in SUBSET B
    <2>1. \A k \in S : k > n => k > m
        BY <1>0
    <2>2. ~(n > n) /\ n > m
        BY <1>0
    <2> QED  BY <2>1, <2>2 DEF Later
<1>5. Cardinality(A \cup {n}) = Cardinality(A) + 1
    BY <1>3, <1>4, FS_AddElement
<1>6. Cardinality(A \cup {n}) <= Cardinality(B)
    BY <1>3, <1>4, FS_Subset
<1> QED
    BY <1>3, <1>5, <1>6

LEMMA RanksExist ==
    ASSUME NEW N \in Nat, NEW S \in SUBSET (1..N), NEW k \in 1..Cardinality(S)
    PROVE  \E n \in S : Cardinality(Later(S, n)) = k - 1
<1>0. \A n \in S : n \in Nat
    OBVIOUS
<1>1. IsFiniteSet(S) /\ Cardinality(S) \in Nat
    <2>1. IsFiniteSet(1..N)
        BY FS_Interval
    <2> QED  BY <2>1, FS_Subset, FS_CardinalityType
<1> PICK j : j = Cardinality(S) - k + 1
    OBVIOUS
<1>2. j \in 1..Cardinality(S)
    BY <1>1
<1>3. PICK n \in S : Cardinality(UpTo(S, n)) = j
    <2>1. S \in SUBSET (0..N)
        OBVIOUS
    <2> QED  BY <1>2, <2>1, NthExists
<1> PICK U : U = UpTo(S, n)
    OBVIOUS
<1>4. U \in SUBSET S
    BY DEF UpTo
<1>5. Later(S, n) = S \ U
    <2>1. \A m \in S : m > n <=> ~(m <= n)
        BY <1>0
    <2> QED  BY <2>1 DEF Later, UpTo
<1>6. S \cap U = U
    BY <1>4
<1>7. Cardinality(S \ U) = Cardinality(S) - Cardinality(S \cap U)
    <2>1. IsFiniteSet(U)
        BY <1>1, <1>4, FS_Subset
    <2> QED  BY <1>1, <2>1, FS_Difference
<1>8. Cardinality(S \ U) = k - 1
    <2>1. Cardinality(S \ U) = Cardinality(S) - j
        BY <1>3, <1>6, <1>7
    <2>2. ASSUME NEW c \in Nat PROVE c - (c - k + 1) = k - 1
        OBVIOUS
    <2> QED  BY <1>1, <2>1, <2>2
<1> QED
    BY <1>5, <1>8

\* Newest lists the rows from the last to the first.
LEMMA NewestIs ==
    ASSUME NEW N \in Nat, NEW S \in SUBSET (1..N)
    PROVE  /\ Cardinality(S) \in Nat /\ DOMAIN Newest(S) = 1..Cardinality(S)
           /\ \A k \in 1..Cardinality(S) : Newest(S)[k] \in S
           /\ \A n \in S : \E i \in 1..Cardinality(S) :
                /\ Newest(S)[i] = n
                /\ \A k \in 1..Cardinality(S) : Newest(S)[k] <= n => i <= k
<1>0. \A n \in S : n \in Nat
    OBVIOUS
<1>1. IsFiniteSet(S) /\ Cardinality(S) \in Nat
    <2>1. IsFiniteSet(1..N)
        BY FS_Interval
    <2> QED  BY <2>1, FS_Subset, FS_CardinalityType
<1>2. DOMAIN Newest(S) = 1..Cardinality(S)
    BY DEF Newest
<1>3. \A k \in 1..Cardinality(S) :
        Newest(S)[k] \in S /\ Cardinality(Later(S, Newest(S)[k])) = k - 1
    <2> SUFFICES ASSUME NEW k \in 1..Cardinality(S)
                 PROVE  Newest(S)[k] \in S /\ Cardinality(Later(S, Newest(S)[k])) = k - 1
        OBVIOUS
    <2>1. \E n \in S : Cardinality(Later(S, n)) = k - 1
        BY RanksExist
    <2>2. Newest(S)[k] = CHOOSE n \in S : Cardinality(Later(S, n)) = k - 1
        BY DEF Newest
    <2> QED  BY <2>1, <2>2
<1>4. ASSUME NEW n \in S
      PROVE  \E i \in 1..Cardinality(S) :
                /\ Newest(S)[i] = n
                /\ \A k \in 1..Cardinality(S) : Newest(S)[k] <= n => i <= k
    <2> PICK L : L = Later(S, n)
        OBVIOUS
    <2>1. L \cup {n} \in SUBSET S /\ n \notin L
        <3>1. ~(n > n)
            BY <1>0
        <3> QED  BY <3>1 DEF Later
    <2>2. IsFiniteSet(L) /\ Cardinality(L) \in Nat
        <3>1. L \in SUBSET S
            BY <2>1
        <3> QED  BY <1>1, <3>1, FS_Subset, FS_CardinalityType
    <2>3. Cardinality(L) + 1 <= Cardinality(S)
        <3>1. Cardinality(L \cup {n}) = Cardinality(L) + 1
            BY <2>1, <2>2, FS_AddElement
        <3>2. Cardinality(L \cup {n}) <= Cardinality(S)
            BY <1>1, <2>1, FS_Subset
        <3> QED  BY <3>1, <3>2
    <2> PICK i : i = Cardinality(L) + 1
        OBVIOUS
    <2>4. i \in 1..Cardinality(S) /\ i - 1 = Cardinality(L)
        BY <1>1, <2>2, <2>3
    <2> PICK m : m = Newest(S)[i]
        OBVIOUS
    <2>5. m \in S /\ Cardinality(Later(S, m)) = Cardinality(L)
        BY <1>3, <2>4
    <2>6. m = n
        <3>1. ~(m < n)
            <4>1. ASSUME m < n PROVE Cardinality(L) \in Nat /\ Cardinality(L) < Cardinality(Later(S, m))
                BY <2>5, <4>1, RankFalls
            <4> QED  BY <2>5, <4>1
        <3>2. ~(n < m)
            <4>1. ASSUME n < m PROVE Cardinality(L) \in Nat /\ Cardinality(Later(S, m)) < Cardinality(L)
                BY <2>5, <4>1, RankFalls
            <4> QED  BY <2>5, <4>1
        <3> QED  BY <1>0, <2>5, <3>1, <3>2
    <2>7. ASSUME NEW k \in 1..Cardinality(S), Newest(S)[k] <= n PROVE i <= k
        <3> PICK u : u = Newest(S)[k]
            OBVIOUS
        <3>1. u \in S /\ Cardinality(Later(S, u)) = k - 1 /\ u <= n
            BY <1>3, <2>7
        <3>2. CASE u = n
            BY <1>1, <2>2, <3>1, <3>2
        <3>3. CASE u < n
            <4>1. Cardinality(L) < Cardinality(Later(S, u))
                BY <3>1, <3>3, RankFalls
            <4> QED  BY <1>1, <2>2, <3>1, <4>1
        <3> QED  BY <1>0, <3>1, <3>2, <3>3
    <2> QED  BY <2>4, <2>6, <2>7
<1> QED
    BY <1>1, <1>2, <1>3, <1>4

ReadRow == [what : {"read"}, size : {1}, read : Nat]

GroupRow == [what : {"group"}, size : {1}, changes : Nat, member : BOOLEAN]

MessageRow == [what : {"message"}, size : Nat, seq : Nat]

ItemRow == ReadRow \cup GroupRow \cup MessageRow

\* The messages among some items.
Told(items) == {i.seq : i \in {j \in items : j.what = "message"}}

\* No message up to seq is missing, but for those that the manifest leaves out.
Accounted(seq, cutoff, floor, has) ==
    \A n \in kept :
        /\ n <= seq /\ IsMessage(n) /\ Readable(n)
        /\ log[n].time >= cutoff /\ n >= floor
        => n \in has

LEMMA RecentIs ==
    ASSUME LogInv
    PROVE  /\ Recent \in SUBSET (1..Len(log))
           /\ RecentItems \in Seq(MessageRow) /\ Len(RecentItems) = Cardinality(Recent)
           /\ \A k \in 1..Len(RecentItems) :
                RecentItems[k] = MessageItem(Newest(Recent)[k]) /\ Newest(Recent)[k] \in Recent
<1> PICK c, S, newest : c = Cardinality(S) /\ S = Recent /\ newest = Newest(Recent)
    OBVIOUS
<1>1. S \in SUBSET (1..Len(log)) /\ Len(log) \in Nat
    BY LogFacts DEF Recent, RecentRows, LogInv
<1>2. c \in Nat /\ DOMAIN newest = 1..c /\ \A k \in 1..c : newest[k] \in S
    BY <1>1, NewestIs
<1>3. RecentItems = [k \in 1..c |-> MessageItem(newest[k])]
    BY <1>2 DEF RecentItems
<1>4. \A k \in 1..c : MessageItem(newest[k]) \in MessageRow
    <2> SUFFICES ASSUME NEW k \in 1..c PROVE MessageItem(newest[k]) \in MessageRow
        OBVIOUS
    <2>1. newest[k] \in 1..Len(log) /\ newest[k] \in Nat
        <3>1. \A n \in S : n \in 1..Len(log)
            BY <1>1
        <3>2. \A n \in 1..Len(log) : n \in Nat
            OBVIOUS
        <3> QED  BY <1>2, <3>1, <3>2
    <2>2. log[newest[k]].size \in Nat
        BY <2>1, LogFacts
    <2> QED  BY <2>1, <2>2 DEF MessageItem, MessageRow
<1>5. RecentItems \in Seq(MessageRow) /\ Len(RecentItems) = c
    BY <1>2, <1>3, <1>4
<1>6. \A k \in 1..c : RecentItems[k] = MessageItem(newest[k])
    BY <1>3
<1> QED
    BY <1>1, <1>2, <1>5, <1>6

LEMMA StateIs ==
    ASSUME LogInv
    PROVE  /\ State \in States /\ State.read \in Nat /\ State.changes \in Nat /\ State.member \in BOOLEAN
           /\ ~HasGroup => State.changes = 0 /\ State.member
           /\ ReadItem \in ReadRow /\ GroupItem \in GroupRow
<1>1. State \in States
    <2>1. Len(log) \in 0..Len(log)
        BY LogFacts
    <2> QED  BY <2>1, LogFacts DEF State
<1>2. State.read \in Nat /\ State.changes \in Nat /\ State.member \in BOOLEAN
    BY <1>1 DEF States
<1>3. ASSUME ~HasGroup PROVE State.changes = 0 /\ State.member
    <2>1. Len(log) \in Nat /\ 0 \in 0..Len(log) /\ Len(log) \in 0..Len(log)
        BY LogFacts
    <2>2. \A k \in (0 + 1)..Len(log) : log[k].kind \notin {"join", "leave"}
        <3> SUFFICES ASSUME NEW k \in 1..Len(log) PROVE log[k].kind \notin {"join", "leave"}
            OBVIOUS
        <3>1. Len(story) \in Nat /\ Len(log) <= Len(story) /\ DOMAIN story = 1..Len(story)
            BY DEF LogInv
        <3>2. k \in DOMAIN story /\ k \in DOMAIN log
            BY <2>1, <3>1, LogFacts
        <3>3. log[k].kind = story[k].kind
            BY <3>2 DEF LogInv
        <3> QED  BY <1>3, <3>2, <3>3 DEF HasGroup
    <2>3. Between(0, Len(log))
        BY <2>1, StatesBetween
    <2>4. StateAt(log, 0).changes = State.changes /\ StateAt(log, 0).member = State.member
        BY <2>2, <2>3 DEF Between, State
    <2>5. StateAt(log, 0).changes = 0 /\ StateAt(log, 0).member = TRUE
        BY DEF StateAt, InitialState
    <2> QED  BY <2>4, <2>5
<1>4. ReadItem \in ReadRow
    BY <1>2 DEF ReadItem, ReadRow
<1>5. GroupItem \in GroupRow
    BY <1>2 DEF GroupItem, GroupRow
<1> QED
    BY <1>1, <1>2, <1>3, <1>4, <1>5

\* The items of the snapshot that would be taken now.
Taken == Contents(PackagePages(ReadItems, GroupItems, RecentItems))

LEMMA ItemsAre ==
    ASSUME LogInv
    PROVE  /\ ReadItems \in Seq(ItemRow) /\ GroupItems \in Seq(ItemRow) /\ RecentItems \in Seq(ItemRow)
           /\ Elements(ReadItems) = IF State.read = 0 THEN {} ELSE {ReadItem}
           /\ Elements(GroupItems) = IF HasGroup THEN {GroupItem} ELSE {}
<1> PICK reads, groups : /\ reads = (IF State.read = 0 THEN {} ELSE {ReadItem})
                         /\ groups = (IF HasGroup THEN {GroupItem} ELSE {})
    OBVIOUS
<1>1. ReadItems \in Seq(ItemRow) /\ Elements(ReadItems) = reads
    <2>1. CASE State.read = 0
        BY <2>1 DEF ReadItems, Elements
    <2>2. CASE State.read # 0
        <3>1. ReadItems = <<ReadItem>> /\ ReadItem \in ItemRow
            BY <2>2, StateIs DEF ReadItems, ItemRow
        <3>2. Elements(<<ReadItem>>) = {ReadItem}
            BY DEF Elements
        <3> QED  BY <2>2, <3>1, <3>2
    <2> QED  BY <2>1, <2>2
<1>2. GroupItems \in Seq(ItemRow) /\ Elements(GroupItems) = groups
    <2>1. CASE ~HasGroup
        BY <2>1 DEF GroupItems, Elements
    <2>2. CASE HasGroup
        <3>1. GroupItems = <<GroupItem>> /\ GroupItem \in ItemRow
            BY <2>2, StateIs DEF GroupItems, ItemRow
        <3>2. Elements(<<GroupItem>>) = {GroupItem}
            BY DEF Elements
        <3> QED  BY <2>2, <3>1, <3>2
    <2> QED  BY <2>1, <2>2
<1>3. RecentItems \in Seq(ItemRow)
    <2>1. MessageRow \subseteq ItemRow /\ RecentItems \in Seq(MessageRow)
        BY RecentIs DEF ItemRow
    <2> QED  BY <2>1, SeqMonotonic
<1> QED
    BY <1>1, <1>2, <1>3

LEMMA TakenIs ==
    ASSUME LogInv
    PROVE  LET k == Selected(ReadItems, GroupItems, RecentItems)
               reads == IF State.read = 0 THEN {} ELSE {ReadItem}
               groups == IF HasGroup THEN {GroupItem} ELSE {}
           IN  /\ PackagePages(ReadItems, GroupItems, RecentItems) \in Seq(Pages(ItemRow))
               /\ PackagePages(ReadItems, GroupItems, RecentItems) # <<>>
               /\ k \in 0..Len(RecentItems)
               /\ Taken = reads \cup groups \cup Firsts(RecentItems, k)
<1> PICK reads, groups : /\ reads = (IF State.read = 0 THEN {} ELSE {ReadItem})
                         /\ groups = (IF HasGroup THEN {GroupItem} ELSE {})
    OBVIOUS
<1>1. /\ ReadItems \in Seq(ItemRow) /\ GroupItems \in Seq(ItemRow) /\ RecentItems \in Seq(ItemRow)
      /\ Elements(ReadItems) = reads /\ Elements(GroupItems) = groups
    BY ItemsAre
<1> PICK r, g, m, pages, k : /\ r = ReadItems /\ g = GroupItems /\ m = RecentItems
                             /\ pages = PackagePages(r, g, m) /\ k = Selected(r, g, m)
    OBVIOUS
<1>4. r \in Seq(ItemRow) /\ g \in Seq(ItemRow) /\ m \in Seq(ItemRow)
    BY <1>1
<1>5. /\ pages \in Seq(Pages(ItemRow)) /\ pages # <<>> /\ k \in 0..Len(m)
      /\ Contents(pages) = Elements(r) \cup Elements(g) \cup Firsts(m, k)
    <2>1. /\ PackagePages(r, g, m) \in Seq(Pages(ItemRow)) /\ PackagePages(r, g, m) # <<>>
          /\ Selected(r, g, m) \in 0..Len(m)
          /\ Contents(PackagePages(r, g, m)) =
                Elements(r) \cup Elements(g) \cup Firsts(m, Selected(r, g, m))
        BY ONLY <1>4, PackageHolds
    <2> QED  BY <2>1
<1>6. Taken = reads \cup groups \cup Firsts(m, k)
    <2>1. Taken = Contents(pages)
        BY DEF Taken
    <2>2. Elements(r) = reads /\ Elements(g) = groups
        BY <1>1
    <2>3. Contents(pages) = Elements(r) \cup Elements(g) \cup Firsts(m, k)
        BY <1>5
    <2> HIDE DEF Taken
    <2> QED  BY ONLY <2>1, <2>2, <2>3
<1> QED
    BY <1>5, <1>6

\* The snapshot tells the state.
LEMMA FrozenState ==
    ASSUME LogInv
    PROVE  Frozen(Taken) = State
<1> PICK items, k : items = Taken /\ k = Selected(ReadItems, GroupItems, RecentItems)
    OBVIOUS
<1>1. /\ k \in 0..Len(RecentItems)
      /\ items = (IF State.read = 0 THEN {} ELSE {ReadItem}) \cup (IF HasGroup THEN {GroupItem} ELSE {})
                    \cup Firsts(RecentItems, k)
    BY TakenIs
<1>2. /\ ReadItem.what = "read" /\ ReadItem.read = State.read
      /\ GroupItem.what = "group" /\ GroupItem.changes = State.changes /\ GroupItem.member = State.member
    BY DEF ReadItem, GroupItem
<1>3. \A i \in 1..k : RecentItems[i].what = "message"
    <2> SUFFICES ASSUME NEW i \in 1..k PROVE RecentItems[i].what = "message"
        OBVIOUS
    <2>1. i \in 1..Len(RecentItems)
        BY <1>1, RecentIs
    <2>2. RecentItems[i] \in MessageRow
        BY <2>1, RecentIs
    <2> QED  BY <2>2 DEF MessageRow
<1>4. \A i \in items : i.what = "read" <=> State.read # 0 /\ i = ReadItem
    BY <1>1, <1>2, <1>3 DEF Firsts
<1>5. \A i \in items : i.what = "group" <=> HasGroup /\ i = GroupItem
    BY <1>1, <1>2, <1>3 DEF Firsts
<1>6. (State.read # 0 => ReadItem \in items) /\ (HasGroup => GroupItem \in items)
    BY <1>1
<1>7. Frozen(items).read = State.read
    <2>1. CASE State.read = 0
        BY <1>4, <2>1 DEF Frozen
    <2>2. CASE State.read # 0
        <3>1. ReadItem \in items /\ \A i \in items : i.what = "read" <=> i = ReadItem
            BY <1>4, <1>6, <2>2
        <3>2. (CHOOSE i \in items : i.what = "read") = ReadItem
            BY <3>1
        <3> QED  BY <1>2, <3>1, <3>2 DEF Frozen
    <2> QED  BY <2>1, <2>2
<1>8. Frozen(items).changes = State.changes
    <2>1. CASE ~HasGroup
        BY <1>5, <2>1, StateIs DEF Frozen
    <2>2. CASE HasGroup
        <3>1. GroupItem \in items /\ \A i \in items : i.what = "group" <=> i = GroupItem
            BY <1>5, <1>6, <2>2
        <3>2. (CHOOSE i \in items : i.what = "group") = GroupItem
            BY <3>1
        <3> QED  BY <1>2, <3>1, <3>2 DEF Frozen
    <2> QED  BY <2>1, <2>2
<1>9. Frozen(items).member = State.member
    <2>1. Frozen(items).member = (\A i \in items : i.what = "group" => i.member)
        BY DEF Frozen
    <2>2. (\A i \in items : i.what = "group" => i.member) <=> State.member
        <3>1. CASE ~HasGroup
            BY <1>5, <3>1, StateIs
        <3>2. CASE HasGroup
            BY <1>2, <1>5, <1>6, <3>2
        <3> QED  BY <3>1, <3>2
    <2>3. State.member \in BOOLEAN
        BY StateIs
    <2> QED  BY <2>1, <2>2, <2>3
<1>10. Frozen(items) = [read |-> Frozen(items).read, changes |-> Frozen(items).changes, member |-> Frozen(items).member]
    BY DEF Frozen
<1>11. State = [read |-> State.read, changes |-> State.changes, member |-> State.member]
    <2>1. State \in States
        BY StateIs
    <2> QED  BY <2>1 DEF States
<1> QED
    BY <1>7, <1>8, <1>9, <1>10, <1>11

\* What is readable is served.
LEMMA ReadableVisible ==
    ASSUME LogInv, NEW n \in kept, Readable(n)
    PROVE  Visible(n)
<1>1. n \in Nat /\ 1 <= n /\ n <= Len(log) /\ Len(log) \in Nat
    BY LogFacts
<1> SUFFICES ASSUME log[n].kind = "group" PROVE HasGroup /\ State.member
    BY DEF Visible
<1>2. State.member
    <2>1. Len(log) \in n..Len(log)
        BY <1>1
    <2> QED  BY <2>1 DEF Readable, State
<1>3. n \in DOMAIN story /\ n \in DOMAIN log
    <2>1. Len(story) \in Nat /\ Len(log) <= Len(story) /\ DOMAIN story = 1..Len(story)
        BY DEF LogInv
    <2>2. DOMAIN log = 1..Len(log)
        BY LogFacts
    <2> QED  BY <1>1, <2>1, <2>2
<1>4. log[n].kind = story[n].kind
    BY <1>3 DEF LogInv
<1> QED
    BY <1>2, <1>3, <1>4 DEF HasGroup

\* The snapshot accounts for every message up to the head.
LEMMA TakenAccounts ==
    ASSUME LogInv
    PROVE  Accounted(Highest, now - Window, Floor(RecentItems), Told(Taken))
<1> PICK k, newest, S, floor : /\ k = Selected(ReadItems, GroupItems, RecentItems)
                               /\ newest = RecentItems /\ S = Recent /\ floor = Floor(RecentItems)
    OBVIOUS
<1>1. /\ Len(log) \in Nat /\ Highest = Len(log)
      /\ \A n \in kept : n \in Nat /\ 1 <= n /\ n <= Len(log)
    BY LogFacts
<1>2. /\ S \in SUBSET (1..Len(log)) /\ newest \in Seq(MessageRow) /\ Len(newest) = Cardinality(S)
      /\ \A i \in 1..Len(newest) : newest[i] = MessageItem(Newest(S)[i]) /\ Newest(S)[i] \in S
    BY RecentIs
<1>3. k \in 0..Len(newest) /\ \A i \in 1..k : newest[i] \in Taken
    BY TakenIs DEF Firsts
<1>4. ASSUME NEW n \in kept, n <= Highest, IsMessage(n), Readable(n), log[n].time >= now - Window, n >= floor
      PROVE  n \in Told(Taken)
    <2>1. n \in S
        <3>1. Visible(n)
            BY <1>4, ReadableVisible
        <3> QED  BY <1>4, <3>1 DEF Recent, RecentRows
    <2>2. PICK i \in 1..Cardinality(S) :
                /\ Newest(S)[i] = n
                /\ \A j \in 1..Cardinality(S) : Newest(S)[j] <= n => i <= j
        BY <1>1, <1>2, <2>1, NewestIs
    <2>3. i <= k
        <3>0. Len(newest) \in Nat /\ Len(newest) = Cardinality(S) /\ k \in Nat /\ k <= Len(newest)
            BY <1>2, <1>3
        <3>1. CASE k = Len(newest)
            BY <3>0, <3>1
        <3>2. CASE k # Len(newest) /\ k = 0
            <4>1. floor = Highest + 1
                BY <3>2 DEF Floor
            <4> QED  BY <1>1, <1>4, <4>1
        <3>3. CASE k # Len(newest) /\ k # 0
            <4>1. floor = newest[k].seq
                BY <3>3 DEF Floor
            <4>2. k \in 1..Cardinality(S)
                BY <3>0, <3>3
            <4>3. newest[k] = MessageItem(Newest(S)[k])
                BY <1>2, <4>2
            <4>4. floor = Newest(S)[k] /\ Newest(S)[k] \in S
                BY <1>2, <4>1, <4>2, <4>3 DEF MessageItem
            <4>5. floor \in Nat /\ n \in Nat
                <5>1. \A m \in S : m \in 1..Len(log)
                    BY <1>2
                <5>2. \A m \in 1..Len(log) : m \in Nat
                    OBVIOUS
                <5> QED  BY <1>1, <4>4, <5>1, <5>2
            <4>6. Newest(S)[k] <= n
                BY <1>4, <4>4, <4>5
            <4> QED  BY <2>2, <4>2, <4>6
        <3> QED  BY <3>1, <3>2, <3>3
    <2>4. i \in 1..k /\ i \in 1..Len(newest)
        BY <1>2, <1>3, <2>3
    <2>5. newest[i] \in Taken /\ newest[i] = MessageItem(n)
        BY <1>2, <1>3, <2>2, <2>4
    <2>6. newest[i].what = "message" /\ newest[i].seq = n
        BY <2>5 DEF MessageItem
    <2> QED  BY <2>5, <2>6 DEF Told
<1> QED
    BY <1>4 DEF Accounted
-----------------------------------------------------------------------------
(* The inductive invariant.                                                 *)

ClientRow ==
    [mode : {"new", "follow", "recover"}, restarts : Nat, epoch : Nat, seq : Nat,
     state : States \cup {NoState}, base : Nat, pending : SUBSET Nat, known : SUBSET Nat,
     cutoff : Int, floor : Nat, page : Nat, got : SUBSET ItemRow]

SessionRow ==
    [epoch : Nat \ {0}, highest : Nat, expires : Nat, cutoff : Int, floor : Nat,
     pages : Seq(Pages(ItemRow))]

BindingRow == [client : Clients \cup {NoClient}, epoch : Nat]

\* How much of the history a client's picture accounts for.
AsOf(r) == Larger(r.seq, r.base)

\* What the first k pages hold.
Fetched(pages, k) == UNION {Elements(pages[p].items) : p \in 1..k}

\* A client that fetches snapshot s has its first pages; the snapshot is not
\* older than what the client has, tells the state of its own head, and lists
\* every message up to there.
Fetching(r, s) ==
    /\ s \in SessionRow /\ r.page \in 1..Len(s.pages)
    /\ r.got = Fetched(s.pages, r.page - 1)
    /\ AsOf(r) <= s.highest /\ s.highest <= Len(log)
    /\ Frozen(Contents(s.pages)) = StateAt(log, s.highest)
    /\ Accounted(s.highest, s.cutoff, s.floor, Told(Contents(s.pages)))

\* A client was served, or is new; what it was served is true, and nothing up to
\* its cursor is missing, whatever it is doing.
Good(r, s) ==
    /\ r \in ClientRow
    /\ AsOf(r) <= Len(log)
    /\ r.mode = "follow" => r.epoch # 0
    /\ r.epoch # 0 => r.state = StateAt(log, AsOf(r))
    /\ Accounted(r.seq, r.cutoff, r.floor, r.known \cup r.pending)
    /\ r.mode = "recover" => Fetching(r, s)

BindingInv == binding \in BindingRow /\ (binding.client # NoClient => binding.epoch # 0)

SyncInv ==
    /\ LogInv /\ BindingInv
    /\ client \in [Clients -> ClientRow] /\ session \in [Clients -> SessionRow \cup {NoSession}]
    /\ \A c \in Clients : Good(client[c], session[c])
-----------------------------------------------------------------------------
(* The log only grows, and rows of it only go.                              *)

LogKept ==
    /\ Len(log) <= Len(log') /\ \A n \in 1..Len(log) : log'[n] = log[n]
    /\ \A n \in kept' : n <= Len(log) => n \in kept

LEMMA HappenLog ==
    ASSUME LogInv, Happen
    PROVE  LogInv' /\ LogKept /\ Len(log') = Len(log) + 1
<1> PICK n, e, told : n = Len(log) + 1 /\ told = story[n] /\ e = Entry(told)
    OBVIOUS
<1>1. /\ log' = Append(log, e) /\ kept' = kept \cup {n} /\ UNCHANGED <<story, now>>
      /\ n <= Len(story) /\ Len(log) \in Nat /\ n \in Nat /\ Len(story) \in Nat
    <2>1. Len(log) \in Nat /\ Len(story) \in Nat /\ Len(log) < Len(story)
        BY DEF LogInv, Happen
    <2> QED  BY <2>1 DEF Happen
<1>2. told \in [kind : Kinds, size : Nat] /\ n \in DOMAIN story
    <2>1. n \in 1..Len(story)
        BY <1>1
    <2> PICK R : R = [kind : Kinds, size : Nat]
        OBVIOUS
    <2>2. story \in Seq(R)
        BY DEF LogInv
    <2>3. story[n] \in R /\ n \in DOMAIN story
        BY ONLY <2>1, <2>2
    <2> QED  BY <2>3
<1>3. told.kind \in Kinds /\ told.size \in Nat
    BY <1>2
<1>4. Changed(State, told.kind) \in States
    BY <1>3, StateIs, ChangeIs
<1>5. /\ e \in EntryRow /\ e.kind = told.kind /\ e.state = Changed(State, told.kind)
    <2>1. now \in Nat
        BY DEF LogInv
    <2> QED  BY <1>3, <1>4, <2>1 DEF Entry, EntryRow
<1>6. /\ log' \in Seq(EntryRow) /\ Len(log') = n /\ log'[n] = e
      /\ \A k \in 1..Len(log) : log'[k] = log[k]
    <2>1. log \in Seq(EntryRow)
        BY DEF LogInv
    <2> QED  BY <1>1, <1>5, <2>1, AppendProperties
<1>7. DOMAIN log = 1..Len(log) /\ DOMAIN log' = 1..n
    BY <1>6, LogFacts
<1>8. \A k \in 1..n : k \in 1..Len(log) \/ k = n
    BY <1>1
<1>9. \A k \in DOMAIN log' : log'[k].kind = story[k].kind
    <2>1. \A k \in 1..Len(log) : log[k].kind = story[k].kind
        BY <1>7 DEF LogInv
    <2> QED  BY <1>5, <1>6, <1>7, <1>8, <2>1
<1>10. \A k \in 0..Len(log) : StateAt(log', k) = StateAt(log, k)
    <2> SUFFICES ASSUME NEW k \in 0..Len(log) PROVE StateAt(log', k) = StateAt(log, k)
        OBVIOUS
    <2>1. k = 0 \/ k \in 1..Len(log)
        BY <1>1
    <2> QED  BY <1>6, <2>1 DEF StateAt
<1>11. \A k \in DOMAIN log' : log'[k].state = Changed(StateAt(log', k - 1), log'[k].kind)
    <2> SUFFICES ASSUME NEW k \in 1..n PROVE log'[k].state = Changed(StateAt(log', k - 1), log'[k].kind)
        BY <1>7
    <2>1. CASE k \in 1..Len(log)
        <3>1. k - 1 \in 0..Len(log) /\ k \in DOMAIN log
            BY <1>1, <1>7, <2>1
        <3>2. log[k].state = Changed(StateAt(log, k - 1), log[k].kind)
            BY <3>1 DEF LogInv
        <3> QED  BY <1>6, <1>10, <2>1, <3>1, <3>2
    <2>2. CASE k = n
        <3>1. n - 1 = Len(log) /\ Len(log) \in 0..Len(log)
            BY <1>1
        <3>2. StateAt(log', n - 1) = State
            BY <1>10, <3>1 DEF State
        <3> QED  BY <1>5, <1>6, <2>2, <3>2
    <2> QED  BY <1>8, <2>1, <2>2
<1>12. kept' \in SUBSET (1..n) /\ n \in kept'
    <2>1. \A k \in kept : k \in 1..n
        BY <1>1, LogFacts
    <2> QED  BY <1>1, <2>1
<1>13. \A k \in kept' : k <= Len(log) => k \in kept
    BY <1>1
<1>14. story' \in Seq([kind : Kinds, size : Nat]) /\ now' \in Nat /\ Len(log') <= Len(story')
    BY <1>1, <1>6 DEF LogInv
<1>15. LogInv'
    <2>1. kept' \in SUBSET (1..Len(log')) /\ (Len(log') # 0 => Len(log') \in kept')
        BY <1>6, <1>12
    <2>2. \A k \in DOMAIN log' : log'[k].kind = story'[k].kind
        BY <1>1, <1>9
    <2>3. log' \in Seq(EntryRow)
        BY <1>6
    <2> QED  BY ONLY <1>11, <1>14, <2>1, <2>2, <2>3, Zenon DEF LogInv, StateAt
<1>16. Len(log) <= Len(log') /\ Len(log') = Len(log) + 1
    BY <1>1, <1>6
<1>17. LogKept
    BY <1>6, <1>13, <1>16 DEF LogKept
<1> QED
    BY <1>15, <1>16, <1>17

LEMMA SameLog ==
    ASSUME LogInv, UNCHANGED <<story, log>>, now' \in Nat, kept' \in SUBSET kept,
           Len(log) # 0 => Len(log) \in kept'
    PROVE  LogInv' /\ LogKept
<1>1. kept' \in SUBSET (1..Len(log))
    BY DEF LogInv
<1>2. UNCHANGED Len(log) /\ Len(log) \in Nat
    BY LogFacts
<1> QED
    BY <1>1, <1>2 DEF LogInv, LogKept, StateAt

LEMMA StatesStay ==
    ASSUME LogInv, LogKept, NEW n \in 0..Len(log)
    PROVE  StateAt(log', n) = StateAt(log, n)
<1>1. n = 0 \/ n \in 1..Len(log)
    BY LogFacts
<1> QED
    BY <1>1 DEF LogKept, StateAt

LEMMA AccountedStays ==
    ASSUME LogInv, LogInv', LogKept, NEW seq \in Nat, seq <= Len(log), NEW cutoff, NEW floor, NEW has,
           Accounted(seq, cutoff, floor, has)
    PROVE  Accounted(seq, cutoff, floor, has)'
<1> SUFFICES ASSUME NEW n \in kept', n <= seq, IsMessage(n)', Readable(n)', log'[n].time >= cutoff, n >= floor
             PROVE  n \in has
    BY DEF Accounted
<1>1. /\ n \in Nat /\ 1 <= n /\ n <= Len(log)
      /\ Len(log) \in Nat /\ Len(log') \in Nat /\ Len(log) <= Len(log')
    <2>1. kept' \in SUBSET (1..Len(log')) /\ Len(log') \in Nat /\ Len(log) \in Nat /\ Len(log) <= Len(log')
        <3>1. Len(log') \in Nat
            BY DEF LogInv
        <3> QED  BY <3>1, LogFacts DEF LogInv, LogKept
    <2>2. n \in 1..Len(log')
        BY <2>1
    <2> QED  BY <2>1, <2>2
<1>2. n \in kept /\ n \in 1..Len(log) /\ log'[n] = log[n]
    BY <1>1 DEF LogKept
<1>3. IsMessage(n)
    BY <1>2 DEF IsMessage
<1>4. Readable(n)
    <2>1. CASE log'[n].kind = "direct"
        BY <1>2, <2>1 DEF Readable
    <2>2. CASE \A k \in n..Len(log') : StateAt(log', k).member
        <3>1. \A k \in n..Len(log) : k \in n..Len(log') /\ k \in 0..Len(log)
            BY <1>1
        <3>2. \A k \in n..Len(log) : StateAt(log, k).member
            BY <2>2, <3>1, StatesStay
        <3> QED  BY <3>2 DEF Readable
    <2> QED  BY <2>1, <2>2 DEF Readable
<1> QED
    BY <1>2, <1>3, <1>4 DEF Accounted

LEMMA AsOfIs ==
    ASSUME NEW r \in ClientRow
    PROVE  /\ r.seq \in Nat /\ r.base \in Nat /\ AsOf(r) \in Nat
           /\ r.seq <= AsOf(r) /\ r.base <= AsOf(r)
<1>1. r.seq \in Nat /\ r.base \in Nat
    BY DEF ClientRow
<1> QED
    BY <1>1 DEF AsOf, Larger

LEMMA GoodStays ==
    ASSUME LogInv, LogInv', LogKept, NEW r, NEW s, Good(r, s)
    PROVE  Good(r, s)'
<1>1. /\ r \in ClientRow /\ AsOf(r) <= Len(log) /\ (r.mode = "follow" => r.epoch # 0)
      /\ r.epoch # 0 => r.state = StateAt(log, AsOf(r))
      /\ Accounted(r.seq, r.cutoff, r.floor, r.known \cup r.pending)
    BY DEF Good
<1>2. Len(log) \in Nat /\ Len(log') \in Nat /\ Len(log) <= Len(log')
    BY LogFacts DEF LogInv, LogKept
<1>3. AsOf(r) \in Nat /\ r.seq \in Nat /\ r.seq <= AsOf(r) /\ AsOf(r) <= Len(log)
    BY <1>1, AsOfIs
<1>4. AsOf(r) <= Len(log') /\ StateAt(log', AsOf(r)) = StateAt(log, AsOf(r))
    <2>1. AsOf(r) \in 0..Len(log)
        BY <1>2, <1>3
    <2> QED  BY <1>2, <1>3, <2>1, StatesStay
<1>5. Accounted(r.seq, r.cutoff, r.floor, r.known \cup r.pending)'
    <2> PICK seq, cutoff, floor, has : seq = r.seq /\ cutoff = r.cutoff /\ floor = r.floor /\ has = r.known \cup r.pending
        OBVIOUS
    <2>1. seq \in Nat /\ seq <= Len(log) /\ Accounted(seq, cutoff, floor, has)
        BY <1>1, <1>2, <1>3
    <2>2. Accounted(seq, cutoff, floor, has)'
        BY <2>1, AccountedStays
    <2> QED  BY <2>2
<1>6. ASSUME r.mode = "recover" PROVE Fetching(r, s)'
    <2>1. Fetching(r, s)
        BY <1>6 DEF Good
    <2> PICK seq, cutoff, floor, has : seq = s.highest /\ cutoff = s.cutoff /\ floor = s.floor
                                       /\ has = Told(Contents(s.pages))
        OBVIOUS
    <2>2. /\ s \in SessionRow /\ seq <= Len(log) /\ Frozen(Contents(s.pages)) = StateAt(log, seq)
          /\ Accounted(seq, cutoff, floor, has)
        BY <2>1 DEF Fetching
    <2>3. seq \in Nat
        BY <2>2 DEF SessionRow
    <2>4. Accounted(seq, cutoff, floor, has)'
        BY <2>2, <2>3, AccountedStays
    <2>5. seq <= Len(log') /\ StateAt(log', seq) = StateAt(log, seq)
        <3>1. seq \in 0..Len(log)
            BY <1>2, <2>2, <2>3
        <3> QED  BY <1>2, <2>2, <2>3, <3>1, StatesStay
    <2> QED  BY <2>1, <2>2, <2>4, <2>5 DEF Fetching
<1> QED
    BY <1>1, <1>4, <1>5, <1>6 DEF Good
-----------------------------------------------------------------------------
(* The steps of clients.                                                    *)

LEMMA SyncFacts ==
    ASSUME SyncInv, NEW c \in Clients
    PROVE  /\ LogInv /\ client[c] \in ClientRow /\ Good(client[c], session[c])
           /\ session[c] \in SessionRow \cup {NoSession}
BY DEF SyncInv

LEMMA OneClient ==
    ASSUME SyncInv, UNCHANGED <<story, log, kept, now>>, BindingInv', NEW c \in Clients, NEW r,
           NEW s \in SessionRow \cup {NoSession}, Good(r, s),
           client' = [client EXCEPT ![c] = r], session' = [session EXCEPT ![c] = s]
    PROVE  SyncInv'
<1>1. LogInv /\ client \in [Clients -> ClientRow] /\ session \in [Clients -> SessionRow \cup {NoSession}]
      /\ \A d \in Clients : Good(client[d], session[d])
    BY DEF SyncInv
<1>2. LogInv' /\ LogKept
    <2>1. now \in Nat /\ (Len(log) # 0 => Len(log) \in kept)
        BY <1>1 DEF LogInv
    <2> QED  BY <1>1, <2>1, SameLog
<1>3. r \in ClientRow
    BY DEF Good
<1>4. client' \in [Clients -> ClientRow] /\ session' \in [Clients -> SessionRow \cup {NoSession}]
    BY <1>1, <1>3
<1>5. ASSUME NEW d \in Clients PROVE Good(client[d], session[d])'
    <2> PICK q, t : q = (IF d = c THEN r ELSE client[d]) /\ t = (IF d = c THEN s ELSE session[d])
        OBVIOUS
    <2>1. Good(q, t)
        BY <1>1
    <2>2. Good(q, t)'
        BY <1>1, <1>2, <2>1, GoodStays
    <2>3. client'[d] = q /\ session'[d] = t
        BY <1>1
    <2> QED  BY <2>2, <2>3
<1> QED
    BY <1>2, <1>4, <1>5 DEF SyncInv

\* A snapshot is issued.
LEMMA IssueStep ==
    ASSUME SyncInv, UNCHANGED <<story, log, kept, now>>, BindingInv', NEW c \in Clients,
           binding'.epoch \in Nat \ {0}, NEW n \in Nat, Issue(c, n)
    PROVE  SyncInv'
<1> PICK o, newest : o = client[c] /\ newest = RecentItems
    OBVIOUS
<1>0. o \in ClientRow /\ Good(o, session[c]) /\ LogInv /\ client \in [Clients -> ClientRow]
    BY SyncFacts DEF SyncInv
<1> PICK r, s : /\ r = [o EXCEPT !.mode = "recover", !.page = 1, !.got = {}, !.restarts = n]
                /\ s = [epoch |-> binding'.epoch, highest |-> Highest, expires |-> now + Lifetime,
                        cutoff |-> now - Window, floor |-> Floor(newest),
                        pages |-> PackagePages(ReadItems, GroupItems, newest)]
    OBVIOUS
<1>1. session' = [session EXCEPT ![c] = s]
    BY DEF Issue, Snapshot
<1>2. client' = [client EXCEPT ![c] = r]
    <2>1. client' = [client EXCEPT ![c].mode = "recover", ![c].page = 1, ![c].got = {}, ![c].restarts = n]
        BY DEF Issue
    <2> QED  BY <1>0, <2>1
<1>3. /\ r \in ClientRow /\ r.mode = "recover" /\ r.page = 1 /\ r.got = {}
      /\ r.epoch = o.epoch /\ r.seq = o.seq /\ r.base = o.base /\ r.state = o.state
      /\ r.known = o.known /\ r.pending = o.pending /\ r.cutoff = o.cutoff /\ r.floor = o.floor
    BY <1>0 DEF ClientRow
<1>4. /\ PackagePages(ReadItems, GroupItems, newest) \in Seq(Pages(ItemRow))
      /\ PackagePages(ReadItems, GroupItems, newest) # <<>>
    BY <1>0, TakenIs
<1>5. Floor(newest) \in Nat
    <2> PICK k : k = Selected(ReadItems, GroupItems, newest)
        OBVIOUS
    <2>1. k \in 0..Len(newest) /\ newest \in Seq(MessageRow)
        BY <1>0, TakenIs, RecentIs
    <2>2. CASE k = Len(newest)
        BY <2>2 DEF Floor
    <2>3. CASE k # Len(newest) /\ k = 0
        <3>1. Highest \in Nat
            BY <1>0, LogFacts
        <3> QED  BY <2>3, <3>1 DEF Floor
    <2>4. CASE k # Len(newest) /\ k # 0
        <3>1. k \in 1..Len(newest)
            BY <2>1, <2>4
        <3>2. newest[k] \in MessageRow
            BY <2>1, <3>1
        <3>3. newest[k].seq \in Nat
            BY <3>2 DEF MessageRow
        <3> QED  BY <2>4, <3>3 DEF Floor
    <2> QED  BY <2>2, <2>3, <2>4
<1>6. /\ s \in SessionRow /\ s.highest = Highest /\ s.cutoff = now - Window /\ s.floor = Floor(newest)
      /\ s.pages = PackagePages(ReadItems, GroupItems, newest)
    <2>1. Highest \in Nat /\ now \in Nat /\ Window \in Nat /\ Lifetime \in Nat
        BY <1>0, LogFacts, SyncAssumption DEF LogInv
    <2>2. now + Lifetime \in Nat /\ now - Window \in Int
        BY <2>1
    <2> QED  BY <1>4, <1>5, <2>1, <2>2 DEF SessionRow
<1>7. Fetching(r, s)
    <2>1. 1 \in 1..Len(s.pages)
        BY <1>4, <1>6, EmptySeq
    <2>2. Fetched(s.pages, 0) = {}
        BY DEF Fetched
    <2>3. Fetched(s.pages, r.page - 1) = {}
        BY <1>3, <2>2
    <2>4. AsOf(r) = AsOf(o) /\ AsOf(o) <= Len(log) /\ Highest = Len(log) /\ Len(log) \in Nat
        BY <1>0, <1>3, LogFacts DEF AsOf, Good
    <2>5. Contents(s.pages) = Taken
        BY <1>6 DEF Taken
    <2>6. Frozen(Contents(s.pages)) = StateAt(log, s.highest)
        BY <1>0, <1>6, <2>4, <2>5, FrozenState DEF State
    <2>7. Accounted(s.highest, s.cutoff, s.floor, Told(Contents(s.pages)))
        BY <1>0, <1>6, <2>5, TakenAccounts
    <2> QED  BY <1>3, <1>6, <2>1, <2>3, <2>4, <2>6, <2>7 DEF Fetching
<1>8. Good(r, s)
    BY <1>0, <1>3, <1>7 DEF Good, AsOf
<1> QED
    BY <1>1, <1>2, <1>6, <1>8, OneClient

LEMMA BootstrapStep ==
    ASSUME SyncInv, NEW c \in Clients, NEW paging \in BOOLEAN, Bootstrap(c, paging)
    PROVE  SyncInv'
<1> PICK o, n, e : /\ o = client[c] /\ n = client[c].restarts + (IF client[c].mode = "new" THEN 0 ELSE 1)
                   /\ e = binding'.epoch
    OBVIOUS
<1>0. o \in ClientRow /\ Good(o, session[c]) /\ LogInv /\ client \in [Clients -> ClientRow]
    BY SyncFacts DEF SyncInv
<1>1. n \in Nat
    <2>1. o.restarts \in Nat
        BY <1>0 DEF ClientRow
    <2> QED  BY <2>1
<1>2. UNCHANGED <<story, log, kept, now>>
    BY DEF Bootstrap
<1>3. BindingInv' /\ e \in Nat \ {0}
    <2>1. c # NoClient
        BY SyncAssumption
    <2>2. BindingInv
        BY DEF SyncInv
    <2>3. CASE binding.client = c
        <3>1. binding' = binding
            BY <2>3 DEF Bootstrap
        <3> QED  BY <2>1, <2>2, <2>3, <3>1 DEF BindingInv, BindingRow
    <2>4. CASE binding.client # c
        <3>1. binding' = [client |-> c, epoch |-> 1]
            BY <2>4 DEF Bootstrap
        <3> QED  BY <3>1 DEF BindingInv, BindingRow
    <2> QED  BY <2>3, <2>4
<1>4. CASE Issue(c, n)
    BY <1>1, <1>2, <1>3, <1>4, IssueStep
<1>5. CASE /\ session' = [session EXCEPT ![c] = NoSession]
           /\ client' = [client EXCEPT ![c].mode = "follow", ![c].restarts = n,
                                       ![c].epoch = e, ![c].seq = 0,
                                       ![c].state = State, ![c].base = Highest,
                                       ![c].got = {}, ![c].page = 0]
    <2> PICK r : r = [o EXCEPT !.mode = "follow", !.restarts = n, !.epoch = e, !.seq = 0, !.state = State,
                               !.base = Highest, !.got = {}, !.page = 0]
        OBVIOUS
    <2>1. client' = [client EXCEPT ![c] = r]
        BY <1>0, <1>5
    <2>2. State \in States /\ Highest = Len(log) /\ Len(log) \in Nat /\ State = StateAt(log, Len(log))
        BY <1>0, StateIs, LogFacts DEF State
    <2>3. r \in ClientRow /\ r.mode = "follow" /\ r.epoch = e /\ r.seq = 0 /\ r.base = Len(log) /\ r.state = State
        <3> PICK x, h : x = State /\ h = Highest
            OBVIOUS
        <3>1. x \in States /\ h \in Nat /\ h = Len(log)
            BY <2>2
        <3>2. r = [o EXCEPT !.mode = "follow", !.restarts = n, !.epoch = e, !.seq = 0, !.state = x,
                            !.base = h, !.got = {}, !.page = 0]
            OBVIOUS
        <3>3. x \in States \cup {NoState} /\ e \in Nat /\ o \in ClientRow
            BY <1>0, <1>3, <3>1
        <3>4. r \in ClientRow
            BY ONLY <1>1, <3>1, <3>2, <3>3 DEF ClientRow
        <3>5. r.mode = "follow" /\ r.epoch = e /\ r.seq = 0 /\ r.base = h /\ r.state = x
            BY ONLY <3>2, <3>3 DEF ClientRow
        <3> QED  BY <3>1, <3>4, <3>5
    <2>4. AsOf(r) = Len(log)
        BY <2>2, <2>3 DEF AsOf, Larger
    <2>5. Accounted(r.seq, r.cutoff, r.floor, r.known \cup r.pending)
        <3>1. \A k \in kept : ~(k <= 0)
            BY <1>0, LogFacts
        <3> QED  BY <2>3, <3>1 DEF Accounted
    <2>6. Good(r, NoSession)
        BY <1>3, <2>2, <2>3, <2>4, <2>5 DEF Good
    <2> QED  BY <1>2, <1>3, <1>5, <2>1, <2>6, OneClient
<1> QED
    BY <1>4, <1>5 DEF Bootstrap

LEMMA RecoverStep ==
    ASSUME SyncInv, NEW c \in Clients, Recover(c)
    PROVE  SyncInv'
<1>1. client[c] \in ClientRow /\ BindingInv /\ c # NoClient
    BY SyncAssumption DEF SyncInv
<1>2. client[c].restarts \in Nat
    BY <1>1 DEF ClientRow
<1>3. UNCHANGED <<story, log, kept, now, binding>> /\ binding.client = c /\ Issue(c, client[c].restarts)
    BY DEF Recover
<1>4. BindingInv' /\ binding'.epoch \in Nat \ {0}
    BY <1>1, <1>3 DEF BindingInv, BindingRow
<1> QED
    BY <1>2, <1>3, <1>4, IssueStep

LEMMA SameSession ==
    ASSUME SyncInv, NEW c \in Clients, UNCHANGED session
    PROVE  session' = [session EXCEPT ![c] = session[c]] /\ session[c] \in SessionRow \cup {NoSession}
BY DEF SyncInv

\* What a page of the log makes of a client.
LEMMA DeltaRow ==
    ASSUME SyncInv, NEW c \in Clients, Delta(c)
    PROVE  \E r, b : LET o == client[c] IN
              /\ client' = [client EXCEPT ![c] = r]
              /\ b \in (o.seq + 1)..Len(log)
              /\ r \in ClientRow /\ r.mode = o.mode /\ r.epoch = o.epoch /\ r.seq = b /\ r.base = o.base
              /\ r.cutoff = o.cutoff /\ r.floor = o.floor /\ r.known = o.known
              /\ r.pending = o.pending \cup {n \in (o.seq + 1)..b : IsMessage(n) /\ Visible(n) /\ n \notin o.known}
              /\ AsOf(r) = Larger(AsOf(o), b) /\ AsOf(r) \in AsOf(o)..Len(log)
              /\ r.state = StateAt(log, AsOf(r))
<1> PICK o, rows : o = client[c] /\ rows = Scanned(client[c].seq)
    OBVIOUS
<1>0. o \in ClientRow /\ Good(o, session[c]) /\ LogInv /\ client \in [Clients -> ClientRow]
    BY SyncFacts DEF SyncInv
<1>1. /\ o.seq \in Nat /\ o.base \in Nat /\ AsOf(o) \in Nat /\ o.seq <= AsOf(o) /\ o.base <= AsOf(o)
      /\ AsOf(o) <= Len(log) /\ Len(log) \in Nat
    BY <1>0, AsOfIs, LogFacts DEF Good
<1>2. PICK b \in (o.seq + 1)..Len(log) :
        rows = (o.seq + 1)..b /\ (CHOOSE n \in rows : Later(rows, n) = {}) = b
    <2>1. rows # {} /\ Contiguous(o.seq)
        BY DEF Delta
    <2> QED  BY <1>0, <1>1, <2>1, ScannedIs
<1>3. o.mode = "follow" /\ o.epoch # 0 /\ o.state = StateAt(log, AsOf(o))
    BY <1>0 DEF Delta, Good
<1>4. Reduced(o.state, rows) = StateAt(log, Larger(AsOf(o), b))
    <2>1. AsOf(o) \in 0..Len(log) /\ o.seq \in 0..AsOf(o)
        BY <1>1
    <2> QED  BY <1>0, <1>2, <1>3, <2>1, ReducedIs
<1> PICK x, P : /\ x = Reduced(o.state, rows)
                /\ P = o.pending \cup {n \in rows : IsMessage(n) /\ Visible(n) /\ n \notin o.known}
    OBVIOUS
<1>5. b \in Nat /\ Larger(AsOf(o), b) \in 0..Len(log) /\ Larger(AsOf(o), b) >= AsOf(o)
    BY <1>1, <1>2 DEF Larger
<1>6. x \in States
    BY <1>0, <1>4, <1>5, LogFacts
<1>7. P \in SUBSET Nat
    <2>1. o.pending \in SUBSET Nat
        BY <1>0 DEF ClientRow
    <2>2. \A n \in rows : n \in Nat
        BY ONLY <1>1, <1>2
    <2> QED  BY <2>1, <2>2
<1> PICK r : r = [o EXCEPT !.seq = b, !.state = x, !.pending = P]
    OBVIOUS
<1>8. client' = [client EXCEPT ![c] = r]
    <2>1. client' = [client EXCEPT
                        ![c].seq = CHOOSE n \in rows : Later(rows, n) = {},
                        ![c].state = Reduced(@, rows),
                        ![c].pending = @ \cup {n \in rows : /\ IsMessage(n) /\ Visible(n)
                                                            /\ n \notin client[c].known}]
        BY DEF Delta
    <2>2. client' = [client EXCEPT
                        ![c].seq = CHOOSE n \in rows : Later(rows, n) = {},
                        ![c].state = Reduced(o.state, rows),
                        ![c].pending = o.pending \cup {n \in rows : /\ IsMessage(n) /\ Visible(n)
                                                            /\ n \notin o.known}]
        BY <1>0, <2>1
    <2>3. client' = [client EXCEPT ![c].seq = b, ![c].state = x, ![c].pending = P]
        BY <1>2, <2>2
    <2> QED  BY <1>0, <2>3
<1>9. /\ r \in ClientRow /\ r.mode = o.mode /\ r.epoch = o.epoch /\ r.seq = b /\ r.base = o.base
      /\ r.cutoff = o.cutoff /\ r.floor = o.floor /\ r.known = o.known
      /\ r.pending = P /\ r.state = x
    <2>1. r = [o EXCEPT !.seq = b, !.state = x, !.pending = P]
        OBVIOUS
    <2>2. x \in States \cup {NoState} /\ b \in Nat /\ o \in ClientRow
        BY <1>0, <1>5, <1>6
    <2>3. r \in ClientRow
        BY ONLY <1>7, <2>1, <2>2 DEF ClientRow
    <2> QED  BY ONLY <2>1, <2>2, <2>3 DEF ClientRow
<1>10. AsOf(r) = Larger(AsOf(o), b)
    <2>1. Larger(b, o.base) = Larger(Larger(o.seq, o.base), b)
        BY <1>1, <1>2, <1>5 DEF Larger
    <2> QED  BY <1>9, <2>1 DEF AsOf
<1>11. AsOf(r) \in AsOf(o)..Len(log)
    BY <1>1, <1>5, <1>10
<1>12. r.state = StateAt(log, AsOf(r))
    BY <1>4, <1>9, <1>10
<1>13. P = o.pending \cup {n \in (o.seq + 1)..b : IsMessage(n) /\ Visible(n) /\ n \notin o.known}
    BY <1>2
<1>14. o = client[c] /\ b \in (o.seq + 1)..Len(log)
    BY <1>2
<1> HIDE DEF IsMessage, Visible, AsOf, Larger, StateAt, ClientRow
<1> QED
    BY ONLY <1>8, <1>9, <1>10, <1>11, <1>12, <1>13, <1>14

LEMMA DeltaStep ==
    ASSUME SyncInv, NEW c \in Clients, Delta(c)
    PROVE  SyncInv'
<1> PICK o : o = client[c]
    OBVIOUS
<1>0. o \in ClientRow /\ Good(o, session[c]) /\ LogInv
    BY SyncFacts
<1>1. PICK r, b :
        /\ client' = [client EXCEPT ![c] = r]
        /\ b \in (o.seq + 1)..Len(log)
        /\ r \in ClientRow /\ r.mode = o.mode /\ r.epoch = o.epoch /\ r.seq = b /\ r.base = o.base
        /\ r.cutoff = o.cutoff /\ r.floor = o.floor /\ r.known = o.known
        /\ r.pending = o.pending \cup {n \in (o.seq + 1)..b : IsMessage(n) /\ Visible(n) /\ n \notin o.known}
        /\ AsOf(r) = Larger(AsOf(o), b) /\ AsOf(r) \in AsOf(o)..Len(log)
        /\ r.state = StateAt(log, AsOf(r))
    BY DeltaRow
<1>2. UNCHANGED <<story, log, kept, now, binding, session>> /\ o.mode = "follow" /\ o.epoch # 0
    BY <1>0 DEF Delta, Good
<1>3. Accounted(r.seq, r.cutoff, r.floor, r.known \cup r.pending)
    <2> SUFFICES ASSUME NEW n \in kept, n <= b, IsMessage(n), Readable(n), log[n].time >= o.cutoff, n >= o.floor
                 PROVE  n \in o.known \cup r.pending
        BY <1>1 DEF Accounted
    <2>1. CASE n <= o.seq
        BY <1>0, <1>1, <2>1 DEF Good, Accounted
    <2>2. CASE ~(n <= o.seq)
        <3>1. o.seq \in Nat /\ n \in Nat /\ b \in Nat
            BY <1>0, <1>1, AsOfIs, LogFacts
        <3>2. n \in (o.seq + 1)..b
            BY <2>2, <3>1
        <3>3. Visible(n)
            BY <1>0, ReadableVisible
        <3> QED  BY <1>1, <3>2, <3>3
    <2> QED  BY <2>1, <2>2
<1>4. AsOf(r) <= Len(log)
    BY <1>0, <1>1, AsOfIs, LogFacts
<1>5. Good(r, session[c])
    BY <1>1, <1>2, <1>3, <1>4 DEF Good
<1>6. BindingInv'
    BY <1>2 DEF SyncInv, BindingInv
<1> QED
    BY <1>1, <1>2, <1>5, <1>6, SameSession, OneClient

LEMMA GetBatchStep ==
    ASSUME SyncInv, NEW c \in Clients, NEW S, GetBatch(c, S)
    PROVE  SyncInv'
<1> PICK o, P, K : /\ o = client[c] /\ P = client[c].pending \ S
                   /\ K = client[c].known \cup {n \in S \cap kept : Visible(n)}
    OBVIOUS
<1>0. o \in ClientRow /\ Good(o, session[c]) /\ LogInv /\ client \in [Clients -> ClientRow]
    BY SyncFacts DEF SyncInv
<1>1. P \in SUBSET Nat /\ K \in SUBSET Nat
    <2>1. o.pending \in SUBSET Nat /\ o.known \in SUBSET Nat
        BY <1>0 DEF ClientRow
    <2>2. \A n \in kept : n \in Nat
        BY <1>0, LogFacts
    <2> QED  BY <2>1, <2>2
<1> PICK r : r = [o EXCEPT !.pending = P, !.known = K]
    OBVIOUS
<1>2. UNCHANGED <<story, log, kept, now, binding, session>> /\ client' = [client EXCEPT ![c] = r]
    <2>1. client' = [client EXCEPT ![c].pending = P, ![c].known = K]
        BY DEF GetBatch
    <2> QED  BY <1>0, <2>1 DEF GetBatch
<1>3. /\ r \in ClientRow /\ r.mode = o.mode /\ r.epoch = o.epoch /\ r.seq = o.seq /\ r.base = o.base
      /\ r.cutoff = o.cutoff /\ r.floor = o.floor /\ r.known = K /\ r.pending = P /\ r.state = o.state
      /\ r.page = o.page /\ r.got = o.got
    BY <1>0, <1>1 DEF ClientRow
<1>4. AsOf(r) = AsOf(o)
    BY <1>3 DEF AsOf
<1>5. Accounted(r.seq, r.cutoff, r.floor, r.known \cup r.pending)
    <2> SUFFICES ASSUME NEW n \in kept, n <= o.seq, IsMessage(n), Readable(n), log[n].time >= o.cutoff, n >= o.floor
                 PROVE  n \in K \cup P
        BY <1>3 DEF Accounted
    <2>1. n \in o.known \cup o.pending
        BY <1>0 DEF Good, Accounted
    <2>2. Visible(n)
        BY <1>0, ReadableVisible
    <2> QED  BY <2>1, <2>2
<1>6. Good(r, session[c])
    BY <1>0, <1>3, <1>4, <1>5 DEF Good, Fetching
<1>7. BindingInv'
    BY <1>2 DEF SyncInv, BindingInv
<1> QED
    BY <1>2, <1>6, <1>7, SameSession, OneClient

LEMMA FetchedNext ==
    ASSUME NEW pages \in Seq(Pages(ItemRow)), NEW k \in 1..Len(pages)
    PROVE  /\ Fetched(pages, k) = Fetched(pages, k - 1) \cup Items(pages[k])
           /\ Fetched(pages, Len(pages)) = Contents(pages)
           /\ Fetched(pages, k) \in SUBSET ItemRow
<1>1. Items(pages[k]) = Elements(pages[k].items)
    BY DEF Items, Elements
<1>2. DOMAIN pages = 1..Len(pages) /\ Len(pages) \in Nat
    OBVIOUS
<1>3. \A p : p \in 1..k <=> p \in 1..(k - 1) \/ p = k
    BY <1>2
<1>4. Fetched(pages, k) = Fetched(pages, k - 1) \cup Elements(pages[k].items)
    BY <1>3 DEF Fetched
<1>5. Fetched(pages, Len(pages)) = Contents(pages)
    BY <1>2 DEF Fetched, Contents
<1>6. \A p \in 1..Len(pages) : Elements(pages[p].items) \in SUBSET ItemRow
    <2> SUFFICES ASSUME NEW p \in 1..Len(pages) PROVE Elements(pages[p].items) \in SUBSET ItemRow
        OBVIOUS
    <2>1. pages[p] \in Pages(ItemRow)
        OBVIOUS
    <2>2. pages[p].items \in Seq(ItemRow)
        BY <2>1 DEF Pages
    <2> PICK s : s = pages[p].items
        OBVIOUS
    <2>3. \A i \in DOMAIN s : s[i] \in ItemRow
        BY <2>2
    <2> QED  BY <2>3 DEF Elements
<1>7. \A p \in 1..k : p \in 1..Len(pages)
    BY <1>2
<1>8. Fetched(pages, k) \in SUBSET ItemRow
    BY <1>6, <1>7 DEF Fetched
<1> QED
    BY <1>1, <1>4, <1>5, <1>8

LEMMA ToldNumbers ==
    ASSUME NEW items \in SUBSET ItemRow
    PROVE  Told(items) \in SUBSET Nat
<1> SUFFICES ASSUME NEW i \in items, i.what = "message" PROVE i.seq \in Nat
    BY DEF Told
<1>1. i \in MessageRow
    BY DEF ItemRow, ReadRow, GroupRow
<1> QED
    BY <1>1 DEF MessageRow

\* What the next page, and what the last page, makes of a client.
MorePages(o, r, s) ==
    /\ r.mode = o.mode /\ r.epoch = o.epoch /\ r.seq = o.seq /\ r.base = o.base /\ r.state = o.state
    /\ r.cutoff = o.cutoff /\ r.floor = o.floor /\ r.known = o.known
    /\ r.page = o.page + 1 /\ r.page \in 1..Len(s.pages) /\ r.got = Fetched(s.pages, r.page - 1)
    /\ UNCHANGED session

LastPage(o, r, s, c) ==
    /\ r.mode = "follow" /\ r.epoch = s.epoch /\ r.seq = s.highest /\ r.base = s.highest
    /\ r.state = StateAt(log, s.highest) /\ r.cutoff = s.cutoff /\ r.floor = s.floor
    /\ r.known = o.known \cup Told(Contents(s.pages))
    /\ session' = [session EXCEPT ![c] = NoSession]

LEMMA PageRow ==
    ASSUME SyncInv, NEW c \in Clients, Page(c)
    PROVE  /\ Fetching(client[c], session[c]) /\ client[c].mode = "recover"
           /\ \E r : /\ client' = [client EXCEPT ![c] = r]
                     /\ r \in ClientRow /\ r.pending = client[c].pending
                     /\ \/ MorePages(client[c], r, session[c])
                        \/ LastPage(client[c], r, session[c], c)
<1> PICK o, s : o = client[c] /\ s = session[c]
    OBVIOUS
<1>0. o \in ClientRow /\ Good(o, s) /\ LogInv /\ client \in [Clients -> ClientRow]
    BY SyncFacts DEF SyncInv
<1>1. o.mode = "recover" /\ Fetching(o, s)
    BY <1>0 DEF Page, Good
<1>2. s \in SessionRow /\ o.page \in 1..Len(s.pages) /\ o.got = Fetched(s.pages, o.page - 1)
    BY <1>1 DEF Fetching
<1>3. s.pages \in Seq(Pages(ItemRow)) /\ Len(s.pages) \in Nat
    BY <1>2 DEF SessionRow
<1> PICK got : got = o.got \cup Items(s.pages[o.page])
    OBVIOUS
<1>4. got = Fetched(s.pages, o.page) /\ got \in SUBSET ItemRow
    BY <1>2, <1>3, FetchedNext
<1>5. CASE o.page < Len(s.pages)
    <2> PICK p : p = o.page + 1
        OBVIOUS
    <2> PICK r : r = [o EXCEPT !.page = p, !.got = got]
        OBVIOUS
    <2>1. client' = [client EXCEPT ![c] = r] /\ UNCHANGED session
        <3>1. client' = [client EXCEPT ![c].page = @ + 1, ![c].got = got] /\ UNCHANGED session
            BY <1>5 DEF Page
        <3> QED  BY <1>0, <3>1
    <2>2. p \in 1..Len(s.pages) /\ p \in Nat /\ p - 1 = o.page
        BY <1>2, <1>3, <1>5
    <2>3. r = [o EXCEPT !.page = p, !.got = got] /\ o \in ClientRow
        BY <1>0
    <2>4. r \in ClientRow
        BY ONLY <1>4, <2>2, <2>3 DEF ClientRow
    <2>5. /\ r.mode = o.mode /\ r.epoch = o.epoch /\ r.seq = o.seq /\ r.base = o.base
          /\ r.cutoff = o.cutoff /\ r.floor = o.floor /\ r.known = o.known /\ r.pending = o.pending
          /\ r.state = o.state /\ r.page = p /\ r.got = got
        BY ONLY <2>3 DEF ClientRow
    <2>6. MorePages(o, r, s)
        BY <1>4, <2>1, <2>2, <2>5 DEF MorePages
    <2> QED  BY <1>1, <2>1, <2>4, <2>5, <2>6
<1>6. CASE ~(o.page < Len(s.pages))
    <2>1. o.page = Len(s.pages)
        BY <1>2, <1>3, <1>6
    <2>2. got = Contents(s.pages)
        BY <1>2, <1>3, <1>4, <2>1, FetchedNext
    <2> PICK e, h, x, cut, fl, K : /\ e = s.epoch /\ h = s.highest /\ x = Frozen(got)
                                   /\ cut = s.cutoff /\ fl = s.floor /\ K = o.known \cup Told(got)
        OBVIOUS
    <2> PICK r : r = [o EXCEPT !.mode = "follow", !.page = 0, !.got = {}, !.epoch = e, !.seq = h, !.base = h,
                               !.state = x, !.cutoff = cut, !.floor = fl, !.known = K]
        OBVIOUS
    <2>3. client' = [client EXCEPT ![c] = r] /\ session' = [session EXCEPT ![c] = NoSession]
        <3>1. /\ client' = [client EXCEPT
                            ![c].mode = "follow", ![c].page = 0, ![c].got = {},
                            ![c].epoch = s.epoch, ![c].seq = s.highest,
                            ![c].base = s.highest, ![c].state = Frozen(got),
                            ![c].cutoff = s.cutoff, ![c].floor = s.floor,
                            ![c].known = @ \cup Told(got)]
              /\ session' = [session EXCEPT ![c] = NoSession]
            BY <1>6 DEF Page, Anchor, Told
        <3>2. client' = [client EXCEPT
                    ![c].mode = "follow", ![c].page = 0, ![c].got = {}, ![c].epoch = e, ![c].seq = h,
                    ![c].base = h, ![c].state = x, ![c].cutoff = cut, ![c].floor = fl, ![c].known = K]
            BY <1>0, <3>1
        <3>3. client \in [Clients -> ClientRow] /\ o = client[c]
            BY <1>0
        <3>4. r = [o EXCEPT !.mode = "follow", !.page = 0, !.got = {}, !.epoch = e, !.seq = h, !.base = h,
                            !.state = x, !.cutoff = cut, !.floor = fl, !.known = K]
            OBVIOUS
        <3>5. client'[c] = r
            BY ONLY <3>2, <3>3, <3>4
        <3>6. DOMAIN client' = Clients /\ \A d \in Clients : d # c => client'[d] = client[d]
            BY ONLY <3>2, <3>3
        <3>7. client' = [client EXCEPT ![c] = client'[c]]
            <4>1. client' = [d \in Clients |-> client'[d]]
                BY ONLY <3>2, <3>3
            <4> QED  BY ONLY <3>3, <3>6, <4>1
        <3> QED  BY <3>1, <3>5, <3>7
    <2>4. e \in Nat /\ h \in Nat /\ cut \in Int /\ fl \in Nat
        BY <1>2 DEF SessionRow
    <2>5. x = StateAt(log, h) /\ h <= Len(log) /\ Len(log) \in Nat
        BY <1>0, <1>1, <2>2, LogFacts DEF Fetching
    <2>6. x \in States \cup {NoState}
        <3>1. h \in 0..Len(log)
            BY <2>4, <2>5
        <3> QED  BY <1>0, <2>5, <3>1, LogFacts
    <2>7. K \in SUBSET Nat
        <3>1. o.known \in SUBSET Nat
            BY <1>0 DEF ClientRow
        <3> QED  BY <1>4, <3>1, ToldNumbers
    <2>8. r = [o EXCEPT !.mode = "follow", !.page = 0, !.got = {}, !.epoch = e, !.seq = h, !.base = h,
                        !.state = x, !.cutoff = cut, !.floor = fl, !.known = K] /\ o \in ClientRow
        BY <1>0
    <2>9. r \in ClientRow
        BY ONLY <2>4, <2>6, <2>7, <2>8 DEF ClientRow
    <2>10. /\ r.mode = "follow" /\ r.epoch = e /\ r.seq = h /\ r.base = h /\ r.cutoff = cut /\ r.floor = fl
           /\ r.known = K /\ r.state = x /\ r.pending = o.pending
        BY ONLY <2>8 DEF ClientRow
    <2>11. LastPage(o, r, s, c)
        BY <2>2, <2>3, <2>5, <2>10 DEF LastPage
    <2>12. /\ client' = [client EXCEPT ![c] = r] /\ r \in ClientRow /\ r.pending = client[c].pending
           /\ LastPage(client[c], r, session[c], c)
           /\ Fetching(client[c], session[c]) /\ client[c].mode = "recover"
        BY <1>1, <2>3, <2>9, <2>10, <2>11
    <2> QED  BY ONLY <2>12, Zenon
<1> QED
    BY <1>5, <1>6

LEMMA PageStep ==
    ASSUME SyncInv, NEW c \in Clients, Page(c)
    PROVE  SyncInv'
<1> PICK o, s : o = client[c] /\ s = session[c]
    OBVIOUS
<1>0. o \in ClientRow /\ Good(o, s) /\ LogInv
    BY SyncFacts
<1>1. UNCHANGED <<story, log, kept, now, binding>> /\ BindingInv'
    BY DEF Page, SyncInv, BindingInv
<1>2. PICK r : /\ client' = [client EXCEPT ![c] = r] /\ r \in ClientRow /\ r.pending = o.pending
               /\ MorePages(o, r, s) \/ LastPage(o, r, s, c)
    BY PageRow
<1>3. o.mode = "recover" /\ Fetching(o, s)
    BY PageRow
<1>4. CASE MorePages(o, r, s)
    <2>1. AsOf(r) = AsOf(o)
        BY <1>4 DEF AsOf, MorePages
    <2>2. Fetching(r, s)
        BY <1>3, <1>4, <2>1 DEF Fetching, MorePages
    <2>3. Good(r, s)
        BY <1>0, <1>2, <1>4, <2>1, <2>2 DEF Good, MorePages
    <2>4. UNCHANGED session
        BY <1>4 DEF MorePages
    <2> QED  BY <1>1, <1>2, <2>3, <2>4, SameSession, OneClient
<1>5. CASE LastPage(o, r, s, c)
    <2>1. s \in SessionRow /\ s.highest <= Len(log)
        BY <1>3 DEF Fetching
    <2>2. s.epoch # 0 /\ s.highest \in Nat
        BY <2>1 DEF SessionRow
    <2>3. AsOf(r) = s.highest
        BY <1>5, <2>2 DEF AsOf, Larger, LastPage
    <2>4. Accounted(r.seq, r.cutoff, r.floor, r.known \cup r.pending)
        <3>1. Accounted(s.highest, s.cutoff, s.floor, Told(Contents(s.pages)))
            BY <1>3 DEF Fetching
        <3> QED  BY <1>5, <3>1 DEF Accounted, LastPage
    <2>5. Good(r, NoSession)
        BY <1>2, <1>5, <2>1, <2>2, <2>3, <2>4 DEF Good, LastPage
    <2>6. session' = [session EXCEPT ![c] = NoSession]
        BY <1>5 DEF LastPage
    <2> QED  BY <1>1, <1>2, <2>5, <2>6, OneClient
<1> QED
    BY <1>2, <1>4, <1>5

LEMMA PageExpiredStep ==
    ASSUME SyncInv, NEW c \in Clients, PageExpired(c)
    PROVE  SyncInv'
<1> PICK o, m : o = client[c] /\ m = IF client[c].epoch = 0 THEN "new" ELSE "follow"
    OBVIOUS
<1> PICK r : r = [o EXCEPT !.mode = m, !.page = 0, !.got = {}]
    OBVIOUS
<1>0. o \in ClientRow /\ Good(o, session[c]) /\ LogInv /\ client \in [Clients -> ClientRow]
    BY SyncFacts DEF SyncInv
<1>1. UNCHANGED <<story, log, kept, now, binding>> /\ BindingInv' /\ session' = [session EXCEPT ![c] = NoSession]
    BY DEF PageExpired, SyncInv, BindingInv
<1>2. client' = [client EXCEPT ![c] = r]
    <2>1. client' = [client EXCEPT ![c].mode = m, ![c].page = 0, ![c].got = {}]
        BY DEF PageExpired
    <2> QED  BY <1>0, <2>1
<1>3. r = [o EXCEPT !.mode = m, !.page = 0, !.got = {}] /\ o \in ClientRow /\ m \in {"new", "follow"}
      /\ (m = "follow" => o.epoch # 0)
    BY <1>0
<1>4. r \in ClientRow
    BY ONLY <1>3 DEF ClientRow
<1>5. /\ r.mode = m /\ r.epoch = o.epoch /\ r.seq = o.seq /\ r.base = o.base
      /\ r.cutoff = o.cutoff /\ r.floor = o.floor /\ r.known = o.known /\ r.pending = o.pending
      /\ r.state = o.state
    BY ONLY <1>3 DEF ClientRow
<1>6. AsOf(r) = AsOf(o)
    BY <1>5 DEF AsOf
<1>7. r.mode # "recover"
    BY <1>3, <1>5
<1>8. Good(r, NoSession)
    BY <1>0, <1>3, <1>4, <1>5, <1>6, <1>7 DEF Good
<1> QED
    BY <1>1, <1>2, <1>8, OneClient
-----------------------------------------------------------------------------
(* The steps of the account, the clock and the operator.                    *)

LEMMA WorldStep ==
    ASSUME SyncInv, LogInv', LogKept, BindingInv', UNCHANGED <<session, client>>
    PROVE  SyncInv'
<1>1. \A c \in Clients : Good(client[c], session[c])'
    <2> SUFFICES ASSUME NEW c \in Clients PROVE Good(client[c], session[c])'
        OBVIOUS
    <2> PICK r, s : r = client[c] /\ s = session[c]
        OBVIOUS
    <2>1. LogInv /\ Good(r, s)
        BY DEF SyncInv
    <2>2. Good(r, s)'
        BY <2>1, GoodStays
    <2> QED  BY <2>2
<1> QED
    BY <1>1 DEF SyncInv

LEMMA SyncStep ==
    ASSUME SyncInv, [Next]_vars
    PROVE  SyncInv'
<1>0. LogInv /\ BindingInv /\ now \in Nat /\ Len(log) \in Nat /\ (Len(log) # 0 => Len(log) \in kept)
    BY LogFacts DEF SyncInv, LogInv
<1>1. CASE Happen
    <2>1. BindingInv' /\ UNCHANGED <<session, client>>
        BY <1>0, <1>1 DEF Happen, BindingInv
    <2> QED  BY <1>0, <1>1, <2>1, HappenLog, WorldStep
<1>2. CASE Tick
    <2>1. BindingInv' /\ UNCHANGED <<story, log, kept, session, client>> /\ now' \in Nat
        BY <1>0, <1>2 DEF Tick, BindingInv
    <2> QED  BY <1>0, <2>1, SameLog, WorldStep
<1>3. CASE \E n \in kept : Remove(n)
    <2>1. PICK n \in kept : Remove(n)
        BY <1>3
    <2>2. BindingInv' /\ UNCHANGED <<story, log, now, session, client>> /\ kept' = kept \ {n}
        BY <1>0, <2>1 DEF Remove, BindingInv
    <2>3. n # Len(log)
        BY <1>0, <2>1, LogFacts DEF Remove
    <2> QED  BY <1>0, <2>2, <2>3, SameLog, WorldStep
<1>4. CASE NewEpoch
    <2>1. BindingInv' /\ UNCHANGED <<story, log, kept, now, session, client>>
        BY <1>0, <1>4 DEF NewEpoch, BindingInv, BindingRow
    <2> QED  BY <1>0, <2>1, SameLog, WorldStep
<1>5. CASE \E c \in Clients : \E paging \in Capabilities : Bootstrap(c, paging)
    BY <1>5, BootstrapStep DEF Capabilities
<1>6. CASE \E c \in Clients : Recover(c)
    BY <1>6, RecoverStep
<1>7. CASE \E c \in Clients : Delta(c)
    BY <1>7, DeltaStep
<1>8. CASE \E c \in Clients : \E S \in SUBSET client[c].pending : GetBatch(c, S)
    BY <1>8, GetBatchStep
<1>9. CASE \E c \in Clients : Page(c)
    BY <1>9, PageStep
<1>10. CASE \E c \in Clients : PageExpired(c)
    BY <1>10, PageExpiredStep
<1>11. CASE UNCHANGED vars
    <2>1. BindingInv' /\ UNCHANGED <<story, log, kept, now, session, client>>
        BY <1>0, <1>11 DEF vars, BindingInv
    <2> QED  BY <1>0, <2>1, SameLog, WorldStep
<1> QED
    BY <1>1, <1>2, <1>3, <1>4, <1>5, <1>6, <1>7, <1>8, <1>9, <1>10, <1>11 DEF Next

LEMMA SyncInit ==
    ASSUME Init
    PROVE  SyncInv
<1>1. LogInv
    <2>1. story \in Seq([kind : Kinds, size : Nat])
        BY SyncAssumption DEF Init
    <2> QED  BY <2>1 DEF Init, LogInv
<1>2. BindingInv
    BY DEF Init, BindingInv, BindingRow
<1>3. NewClient \in ClientRow
    BY DEF NewClient, ClientRow
<1>4. client \in [Clients -> ClientRow] /\ session \in [Clients -> SessionRow \cup {NoSession}]
    BY <1>3 DEF Init
<1>5. Good(NewClient, NoSession)
    <2>1. AsOf(NewClient) = 0 /\ Len(log) = 0 /\ kept = {}
        BY DEF NewClient, AsOf, Larger, Init
    <2>2. NewClient.mode = "new" /\ NewClient.epoch = 0
        BY DEF NewClient
    <2> QED  BY <1>3, <2>1, <2>2 DEF Good, Accounted
<1>6. \A c \in Clients : client[c] = NewClient /\ session[c] = NoSession
    BY DEF Init
<1> QED
    BY <1>1, <1>2, <1>4, <1>5, <1>6 DEF SyncInv

\* The inductive invariant holds of every behaviour.
THEOREM SyncInvariant == Spec => []SyncInv
<1>1. Init => SyncInv
    BY SyncInit
<1>2. SyncInv /\ [Next]_vars => SyncInv'
    BY SyncStep
<1> QED
    BY <1>1, <1>2, PTL DEF Spec

\* A device that follows the log has every message up to its cursor that is still
\* there and readable, or is about to fetch it - but for what the manifest of its
\* last snapshot says it left out (sync.delta, sync.snapshot, message.get_batch).
THEOREM NothingLost == Spec => []NoSilentLoss
<1>1. SyncInv => NoSilentLoss
    BY DEF SyncInv, Good, Accounted, NoSilentLoss
<1> QED
    BY <1>1, SyncInvariant, PTL
-----------------------------------------------------------------------------
(* The snapshot that would be taken now.                                    *)

LEMMA LargestNow ==
    ASSUME LogInv
    PROVE  SnapshotIsNewestSuffix
<1> PICK r, g, m, k : r = ReadItems /\ g = GroupItems /\ m = RecentItems /\ k = Selected(r, g, m)
    OBVIOUS
<1>1. r \in Seq(ItemRow) /\ g \in Seq(ItemRow) /\ m \in Seq(ItemRow)
    BY ItemsAre
<1>2. Sized(ItemRow)
    BY DEF Sized, ItemRow, ReadRow, GroupRow, MessageRow
<1>3. IF PackageFails(r, g, m) THEN MayFail(r, g, m, Selected(r, g, m))
      ELSE /\ WithinBudget(r, g, m, Selected(r, g, m))
           /\ \A j \in (Selected(r, g, m) + 1)..Len(m) : ~WithinBudget(r, g, m, j)
    BY ONLY <1>1, <1>2, SelectionIsLargest
<1>4. MayFail(r, g, m, k) => Excused(m, k)
    BY DEF MayFail, Excused
<1>5. \A j : WithinBudget(r, g, m, j) <=> FitsBudget(m, j)
    BY DEF WithinBudget, FitsBudget
<1>6. IF PackageFails(r, g, m) THEN Excused(m, k)
      ELSE FitsBudget(m, k) /\ \A j \in (k + 1)..Len(m) : ~FitsBudget(m, j)
    BY <1>3, <1>4, <1>5
<1> QED
    BY <1>6 DEF SnapshotIsNewestSuffix

\* Whenever a snapshot is taken (select_snapshot_package), it holds as many of the
\* newest messages as its budget of items, bytes and pages allows beside the
\* required state, no fewer and no more; and it can be taken unless the required
\* state is over the budget, an item is larger than a page or, in an account
\* without required state, the messages need more pages than a package may have.
THEOREM SnapshotIsLargest == Spec => []SnapshotIsNewestSuffix
<1>1. SyncInv => SnapshotIsNewestSuffix
    BY LargestNow DEF SyncInv
<1> QED
    BY <1>1, SyncInvariant, PTL
-----------------------------------------------------------------------------
(* The refinement of the abstract feed.                                     *)

LEMMA FeedStutters ==
    ASSUME UNCHANGED log,
           \A c \in Clients : /\ client'[c].seq = client[c].seq /\ client'[c].base = client[c].base
                              /\ client'[c].state = client[c].state
    PROVE  UNCHANGED Feed!vars
BY DEF Feed!vars

LEMMA FeedCatchUp ==
    ASSUME SyncInv, UNCHANGED log, NEW c \in Clients, NEW r, client' = [client EXCEPT ![c] = r],
           AsOf(r) \in AsOf(client[c])..Len(log), r.state = StateAt(log, AsOf(r))
    PROVE  Feed!CatchUp(c)
<1> PICK asof, asof2, view, view2 :
        /\ asof = [d \in Clients |-> Larger(client[d].seq, client[d].base)]
        /\ asof2 = [d \in Clients |-> Larger(client'[d].seq, client'[d].base)]
        /\ view = [d \in Clients |-> client[d].state]
        /\ view2 = [d \in Clients |-> client'[d].state]
    OBVIOUS
<1>1. client'[c] = r /\ \A d \in Clients : d # c => client'[d] = client[d]
    BY DEF SyncInv
<1>2. asof[c] = AsOf(client[c])
    BY DEF AsOf
<1>3. asof2 = [asof EXCEPT ![c] = AsOf(r)]
    BY <1>1 DEF AsOf
<1>4. view2 = [view EXCEPT ![c] = StateAt(log, AsOf(r))]
    BY <1>1
<1>5. \E n \in asof[c]..Len(log) : /\ asof2 = [asof EXCEPT ![c] = n]
                                  /\ view2 = [view EXCEPT ![c] = StateAt(log, n)]
                                  /\ UNCHANGED log
    BY <1>2, <1>3, <1>4
<1> QED
    BY <1>5 DEF Feed!CatchUp

LEMMA FeedRow ==
    ASSUME SyncInv, NEW c \in Clients, NEW r, client' = [client EXCEPT ![c] = r], UNCHANGED log,
           r.seq = client[c].seq, r.base = client[c].base, r.state = client[c].state
    PROVE  UNCHANGED Feed!vars
<1>1. client'[c] = r /\ \A d \in Clients : d # c => client'[d] = client[d]
    BY DEF SyncInv
<1> QED
    BY <1>1, FeedStutters

LEMMA FeedIssue ==
    ASSUME SyncInv, NEW c \in Clients, NEW n, Issue(c, n), UNCHANGED log
    PROVE  UNCHANGED Feed!vars
<1> PICK r : r = [client[c] EXCEPT !.mode = "recover", !.page = 1, !.got = {}, !.restarts = n]
    OBVIOUS
<1>0. client \in [Clients -> ClientRow]
    BY DEF SyncInv
<1>1. client' = [client EXCEPT ![c].mode = "recover", ![c].page = 1, ![c].got = {}, ![c].restarts = n]
    BY DEF Issue
<1>2. client' = [client EXCEPT ![c] = r]
    BY <1>0, <1>1
<1>3. r.seq = client[c].seq /\ r.base = client[c].base /\ r.state = client[c].state
    BY <1>0 DEF ClientRow
<1> QED
    BY <1>2, <1>3, FeedRow

LEMMA FeedBootstrap ==
    ASSUME SyncInv, NEW c \in Clients, NEW paging \in BOOLEAN, Bootstrap(c, paging)
    PROVE  Feed!CatchUp(c) \/ UNCHANGED Feed!vars
<1> PICK o, n, e, x, h : /\ o = client[c] /\ n = client[c].restarts + (IF client[c].mode = "new" THEN 0 ELSE 1)
                         /\ e = binding'.epoch /\ x = State /\ h = Highest
    OBVIOUS
<1>0. o \in ClientRow /\ Good(o, session[c]) /\ LogInv /\ client \in [Clients -> ClientRow] /\ UNCHANGED log
    BY SyncFacts DEF SyncInv, Bootstrap
<1>1. CASE Issue(c, n)
    BY <1>0, <1>1, FeedIssue
<1>2. CASE client' = [client EXCEPT ![c].mode = "follow", ![c].restarts = n,
                                    ![c].epoch = e, ![c].seq = 0,
                                    ![c].state = State, ![c].base = Highest,
                                    ![c].got = {}, ![c].page = 0]
    <2> PICK r : r = [o EXCEPT !.mode = "follow", !.restarts = n, !.epoch = e, !.seq = 0, !.state = x,
                               !.base = h, !.got = {}, !.page = 0]
        OBVIOUS
    <2>1. client' = [client EXCEPT ![c] = r]
        BY <1>0, <1>2
    <2>2. h = Len(log) /\ Len(log) \in Nat /\ x = StateAt(log, Len(log))
        BY <1>0, LogFacts DEF State
    <2>3. r.seq = 0 /\ r.base = h /\ r.state = x
        <3>1. o \in ClientRow /\ r = [o EXCEPT !.mode = "follow", !.restarts = n, !.epoch = e, !.seq = 0,
                                               !.state = x, !.base = h, !.got = {}, !.page = 0]
            BY <1>0
        <3> QED  BY ONLY <3>1 DEF ClientRow
    <2>4. AsOf(r) = Len(log)
        BY <2>2, <2>3 DEF AsOf, Larger
    <2>5. AsOf(o) \in Nat /\ AsOf(o) <= Len(log)
        BY <1>0, AsOfIs DEF Good
    <2>6. AsOf(r) \in AsOf(client[c])..Len(log)
        BY <2>2, <2>4, <2>5
    <2> QED  BY <1>0, <2>1, <2>2, <2>3, <2>4, <2>6, FeedCatchUp
<1> QED
    BY <1>1, <1>2 DEF Bootstrap

LEMMA FeedDelta ==
    ASSUME SyncInv, NEW c \in Clients, Delta(c)
    PROVE  Feed!CatchUp(c)
<1>1. \E r : client' = [client EXCEPT ![c] = r] /\ AsOf(r) \in AsOf(client[c])..Len(log) /\ r.state = StateAt(log, AsOf(r))
    BY DeltaRow
<1>2. UNCHANGED log
    BY DEF Delta
<1> QED
    BY <1>1, <1>2, FeedCatchUp

LEMMA FeedPage ==
    ASSUME SyncInv, NEW c \in Clients, Page(c)
    PROVE  Feed!CatchUp(c) \/ UNCHANGED Feed!vars
<1> PICK o, s : o = client[c] /\ s = session[c]
    OBVIOUS
<1>0. UNCHANGED log /\ o \in ClientRow /\ LogInv /\ Len(log) \in Nat
    BY SyncFacts, LogFacts DEF Page
<1>1. PICK r : /\ client' = [client EXCEPT ![c] = r] /\ r \in ClientRow
               /\ MorePages(o, r, s) \/ LastPage(o, r, s, c)
    BY PageRow
<1>2. CASE MorePages(o, r, s)
    BY <1>0, <1>1, <1>2, FeedRow DEF MorePages
<1>3. CASE LastPage(o, r, s, c)
    <2>1. Fetching(o, s)
        BY PageRow
    <2>2. s \in SessionRow /\ s.highest <= Len(log) /\ AsOf(o) <= s.highest
        BY <2>1 DEF Fetching
    <2>3. s.highest \in Nat /\ AsOf(o) \in Nat
        BY <1>0, <2>2, AsOfIs DEF SessionRow
    <2>4. AsOf(r) = s.highest
        BY <1>3, <2>3 DEF AsOf, Larger, LastPage
    <2>5. AsOf(r) \in AsOf(client[c])..Len(log) /\ r.state = StateAt(log, AsOf(r))
        BY <1>0, <1>3, <2>2, <2>3, <2>4 DEF LastPage
    <2> QED  BY <1>0, <1>1, <2>5, FeedCatchUp
<1> QED
    BY <1>1, <1>2, <1>3

LEMMA FeedOther ==
    ASSUME SyncInv, NEW c \in Clients,
           PageExpired(c) \/ \E S \in SUBSET client[c].pending : GetBatch(c, S)
    PROVE  UNCHANGED Feed!vars
<1>0. client \in [Clients -> ClientRow]
    BY DEF SyncInv
<1>1. CASE PageExpired(c)
    <2> PICK m : m = IF client[c].epoch = 0 THEN "new" ELSE "follow"
        OBVIOUS
    <2> PICK r : r = [client[c] EXCEPT !.mode = m, !.page = 0, !.got = {}]
        OBVIOUS
    <2>1. client' = [client EXCEPT ![c].mode = m, ![c].page = 0, ![c].got = {}] /\ UNCHANGED log
        BY <1>1 DEF PageExpired
    <2>2. client' = [client EXCEPT ![c] = r]
        BY <1>0, <2>1
    <2>3. r.seq = client[c].seq /\ r.base = client[c].base /\ r.state = client[c].state
        BY <1>0 DEF ClientRow
    <2> QED  BY <2>1, <2>2, <2>3, FeedRow
<1>2. CASE \E S \in SUBSET client[c].pending : GetBatch(c, S)
    <2>1. PICK S : GetBatch(c, S)
        BY <1>2
    <2> PICK P, K : P = client[c].pending \ S /\ K = client[c].known \cup {n \in S \cap kept : Visible(n)}
        OBVIOUS
    <2> PICK r : r = [client[c] EXCEPT !.pending = P, !.known = K]
        OBVIOUS
    <2>2. client' = [client EXCEPT ![c].pending = P, ![c].known = K] /\ UNCHANGED log
        BY <2>1 DEF GetBatch
    <2>3. client' = [client EXCEPT ![c] = r]
        BY <1>0, <2>2
    <2>4. r.seq = client[c].seq /\ r.base = client[c].base /\ r.state = client[c].state
        BY <1>0 DEF ClientRow
    <2> QED  BY <2>2, <2>3, <2>4, FeedRow
<1> QED
    BY <1>1, <1>2

LEMMA FeedPublish ==
    ASSUME SyncInv, Happen
    PROVE  Feed!Publish
<1>1. log \in Seq(EntryRow) /\ log' \in Seq(EntryRow) /\ Len(log') = Len(log) + 1
      /\ \A n \in 1..Len(log) : log'[n] = log[n]
    BY HappenLog DEF SyncInv, LogInv, LogKept
<1>2. SubSeq(log', 1, Len(log)) = log
    BY <1>1
<1>3. UNCHANGED client
    BY DEF Happen
<1> QED
    BY <1>1, <1>2, <1>3 DEF Feed!Publish

LEMMA FeedStep ==
    ASSUME SyncInv, [Next]_vars
    PROVE  [Feed!Next]_(Feed!vars)
<1>1. CASE Happen
    BY <1>1, FeedPublish DEF Feed!Next
<1>2. CASE Tick \/ (\E n \in kept : Remove(n)) \/ NewEpoch \/ UNCHANGED vars
    <2>1. UNCHANGED <<log, client>>
        BY <1>2 DEF Tick, Remove, NewEpoch, vars
    <2> QED  BY <2>1, FeedStutters
<1>3. CASE \E c \in Clients : \E paging \in Capabilities : Bootstrap(c, paging)
    BY <1>3, FeedBootstrap DEF Capabilities, Feed!Next
<1>4. CASE \E c \in Clients : Recover(c)
    <2>1. \E c \in Clients : Issue(c, client[c].restarts) /\ UNCHANGED log
        BY <1>4 DEF Recover
    <2> QED  BY <2>1, FeedIssue
<1>5. CASE \E c \in Clients : Delta(c)
    BY <1>5, FeedDelta DEF Feed!Next
<1>6. CASE \E c \in Clients : Page(c)
    BY <1>6, FeedPage DEF Feed!Next
<1>7. CASE \E c \in Clients : PageExpired(c) \/ \E S \in SUBSET client[c].pending : GetBatch(c, S)
    BY <1>7, FeedOther
<1> QED
    BY <1>1, <1>2, <1>3, <1>4, <1>5, <1>6, <1>7 DEF Next

LEMMA FeedInit ==
    ASSUME Init
    PROVE  Feed!Init
BY DEF Init, NewClient, Larger, Feed!Init

\* What a device holds is always the account's state at one point of its
\* history, and that point only moves forward: bootstrap, pages of the log and
\* frozen snapshots implement the abstract feed.
THEOREM FeedFollowed == Spec => FollowsFeed
<1>1. Init => Feed!Init
    BY FeedInit
<1>2. SyncInv /\ [Next]_vars => [Feed!Next]_(Feed!vars)
    BY FeedStep
<1> QED
    BY <1>1, <1>2, SyncInvariant, PTL DEF Spec, FollowsFeed, Feed!Spec
-----------------------------------------------------------------------------
(* What a device is served page by page is within the limits.               *)

SessionsWithin == \A c \in Clients : session[c] # NoSession => PagesWithin(session[c].pages)

LEMMA IssuedWithin ==
    ASSUME SyncInv, SessionsWithin, NEW c \in Clients, NEW n, Issue(c, n)
    PROVE  SessionsWithin'
<1> PICK s : s = Snapshot(RecentItems)
    OBVIOUS
<1>1. session' = [session EXCEPT ![c] = s] /\ ~PackageFails(ReadItems, GroupItems, RecentItems)
    BY DEF Issue
<1>2. PagesWithin(PackagePages(ReadItems, GroupItems, RecentItems))
    <2> PICK r, g, m : r = ReadItems /\ g = GroupItems /\ m = RecentItems
        OBVIOUS
    <2>1. r \in Seq(ItemRow) /\ g \in Seq(ItemRow) /\ m \in Seq(ItemRow)
        BY ItemsAre DEF SyncInv
    <2>2. Sized(ItemRow)
        BY DEF Sized, ItemRow, ReadRow, GroupRow, MessageRow
    <2>3. ~PackageFails(r, g, m)
        BY <1>1
    <2>4. PagesWithin(PackagePages(r, g, m))
        BY ONLY <2>1, <2>2, <2>3, PackageWithin
    <2> QED  BY <2>4
<1>3. PagesWithin(s.pages)
    BY <1>2 DEF Snapshot
<1>4. session \in [Clients -> SessionRow \cup {NoSession}]
    BY DEF SyncInv
<1>5. ASSUME NEW d \in Clients PROVE session'[d] = IF d = c THEN s ELSE session[d]
    BY <1>1, <1>4
<1> QED
    BY <1>3, <1>5 DEF SessionsWithin, PagesWithin

LEMMA EndedWithin ==
    ASSUME SyncInv, SessionsWithin,
           session' = session \/ \E c \in Clients : session' = [session EXCEPT ![c] = NoSession]
    PROVE  SessionsWithin'
<1>1. session \in [Clients -> SessionRow \cup {NoSession}]
    BY DEF SyncInv
<1>2. \A d \in Clients : session'[d] = session[d] \/ session'[d] = NoSession
    BY <1>1
<1> QED
    BY <1>2 DEF SessionsWithin, PagesWithin

LEMMA WithinStep ==
    ASSUME SyncInv, SessionsWithin, [Next]_vars
    PROVE  SessionsWithin'
<1>1. CASE Happen \/ Tick \/ (\E n \in kept : Remove(n)) \/ NewEpoch \/ UNCHANGED vars
    <2>1. session' = session
        BY <1>1 DEF Happen, Tick, Remove, NewEpoch, vars
    <2> QED  BY <2>1, EndedWithin
<1>2. ASSUME NEW c \in Clients, NEW paging \in Capabilities, Bootstrap(c, paging)
      PROVE  SessionsWithin'
    <2>1. (\E n : Issue(c, n)) \/ session' = [session EXCEPT ![c] = NoSession]
        BY <1>2 DEF Bootstrap
    <2> QED  BY <2>1, IssuedWithin, EndedWithin
<1>3. ASSUME NEW c \in Clients, Recover(c)
      PROVE  SessionsWithin'
    <2>1. \E n : Issue(c, n)
        BY <1>3 DEF Recover
    <2> QED  BY <2>1, IssuedWithin
<1>4. ASSUME NEW c \in Clients, Delta(c) \/ \E S \in SUBSET client[c].pending : GetBatch(c, S)
      PROVE  SessionsWithin'
    <2>1. session' = session
        BY <1>4 DEF Delta, GetBatch
    <2> QED  BY <2>1, EndedWithin
<1>5. ASSUME NEW c \in Clients, Page(c) \/ PageExpired(c)
      PROVE  SessionsWithin'
    <2>1. session' = session \/ session' = [session EXCEPT ![c] = NoSession]
        BY <1>5 DEF Page, PageExpired
    <2> QED  BY <2>1, EndedWithin
<1> QED
    BY <1>1, <1>2, <1>3, <1>4, <1>5 DEF Next

\* The pages a device fetches of a snapshot (sync.snapshot) stay within the limits
\* on the items and bytes of a page and on the pages of a package for as long as
\* the session lives, whatever is logged, removed or renamed meanwhile.
THEOREM PagesStayWithin == Spec => []SessionsWithin
<1>1. Init => SessionsWithin
    BY DEF Init, SessionsWithin
<1>2. SyncInv /\ SessionsWithin /\ [Next]_vars => SessionsWithin'
    BY WithinStep
<1> QED
    BY <1>1, <1>2, SyncInvariant, PTL DEF Spec
-----------------------------------------------------------------------------
(* What catching up rests on: a device that is behind is served, and every  *)
(* answer takes it further.                                                 *)

\* sync.delta has a page for the device.
CanFollow(c) ==
    /\ client[c].mode = "follow" /\ binding.client = c /\ client[c].epoch = binding.epoch
    /\ Scanned(client[c].seq) # {} /\ Contiguous(client[c].seq)

BehindIsServed ==
    \A c \in Clients :
        /\ binding.client = c /\ SnapshotEnabled(c) /\ ~SnapshotFails
        /\ client[c].mode = "follow"
        /\ client[c].epoch # binding.epoch \/ client[c].seq # Len(log)
        => CanFollow(c) \/ CanRecover(c)

\* Behind the head there is a row to scan.
LEMMA RowsAhead ==
    ASSUME LogInv, NEW after \in Nat, after < Len(log)
    PROVE  Scanned(after) # {}
<1> PICK ahead : ahead = Later(kept, after)
    OBVIOUS
<1>1. Len(log) \in Nat /\ Len(log) \in kept /\ \A n \in kept : n \in Nat
    BY LogFacts DEF LogInv
<1>2. ahead \in SUBSET Nat /\ ahead # {}
    BY <1>1 DEF Later
<1>3. PICK n \in ahead : \A m \in ahead : n <= m
    BY <1>2, LeastNatural
<1>4. ahead \ Later(kept, n) = {n}
    <2>1. \A m \in ahead : m \in kept /\ m \in Nat /\ (m > n <=> m # n)
        BY <1>1, <1>3 DEF Later
    <2> QED  BY <1>3, <2>1 DEF Later
<1>5. Cardinality(ahead \ Later(kept, n)) <= Limit
    <2>1. Cardinality({n}) = 1
        BY FS_Singleton
    <2>2. Limit \in Nat /\ 1 <= Limit
        BY SyncAssumption
    <2> QED  BY <1>4, <2>1, <2>2
<1> QED
    BY <1>3, <1>5 DEF Scanned

\* A device that is behind - at an older epoch, or before the head of the log - is
\* answered, with a page of the log or with a snapshot to fetch, unless its
\* snapshot cannot be taken (sync.delta).
THEOREM NeverStuck == Spec => []BehindIsServed
<1>1. SyncInv => BehindIsServed
    <2> SUFFICES ASSUME SyncInv, NEW c \in Clients,
                        binding.client = c, SnapshotEnabled(c), ~SnapshotFails, client[c].mode = "follow",
                        client[c].epoch # binding.epoch \/ client[c].seq # Len(log), ~CanRecover(c)
                 PROVE  CanFollow(c)
        BY DEF BehindIsServed
    <2> PICK o : o = client[c]
        OBVIOUS
    <2>1. o \in ClientRow /\ Good(o, session[c]) /\ LogInv
        BY SyncFacts
    <2>2. o.epoch = binding.epoch /\ Contiguous(o.seq) /\ o.seq # Len(log)
        BY DEF CanRecover
    <2>3. o.seq \in Nat /\ o.seq <= AsOf(o) /\ AsOf(o) \in Nat /\ AsOf(o) <= Len(log) /\ Len(log) \in Nat
        BY <2>1, AsOfIs, LogFacts DEF Good
    <2>4. o.seq < Len(log)
        BY <2>2, <2>3
    <2>5. Scanned(o.seq) # {}
        BY <2>1, <2>3, <2>4, RowsAhead
    <2> QED  BY <2>2, <2>5 DEF CanFollow
<1> QED
    BY <1>1, SyncInvariant, PTL

Advance ==
    \A c \in Clients :
        /\ Delta(c) => client[c].seq < client[c].seq'
        /\ Page(c) =>
            \/ client[c].mode' = "recover" /\ client[c].page' = client[c].page + 1
            \/ client[c].mode' = "follow" /\ client[c].seq <= client[c].seq'

\* Every page of the log moves the cursor of the device forward, and every page of a
\* snapshot brings the next one, or ends the recovery with a cursor that is not
\* behind the one the device had (sync.delta, sync.snapshot).
THEOREM AnswersAdvance == Spec => [][Advance]_vars
<1>1. SyncInv /\ [Next]_vars => [Advance]_vars
    <2> SUFFICES ASSUME SyncInv, NEW c \in Clients
                 PROVE  /\ Delta(c) => client[c].seq < client[c].seq'
                        /\ Page(c) =>
                            \/ client[c].mode' = "recover" /\ client[c].page' = client[c].page + 1
                            \/ client[c].mode' = "follow" /\ client[c].seq <= client[c].seq'
        BY DEF Advance
    <2> PICK o, s : o = client[c] /\ s = session[c]
        OBVIOUS
    <2>1. o \in ClientRow /\ Good(o, s) /\ LogInv /\ client \in [Clients -> ClientRow]
        BY SyncFacts DEF SyncInv
    <2>2. o.seq \in Nat /\ o.seq <= AsOf(o) /\ AsOf(o) \in Nat /\ Len(log) \in Nat
        BY <2>1, AsOfIs, LogFacts
    <2>3. ASSUME Delta(c) PROVE o.seq < client'[c].seq
        <3>1. PICK r, b : /\ client' = [client EXCEPT ![c] = r]
                          /\ b \in (o.seq + 1)..Len(log) /\ r.seq = b
            BY <2>3, DeltaRow
        <3>2. client'[c] = r
            BY <2>1, <3>1
        <3> QED  BY <2>2, <3>1, <3>2
    <2>4. ASSUME Page(c)
          PROVE  \/ client'[c].mode = "recover" /\ client'[c].page = o.page + 1
                 \/ client'[c].mode = "follow" /\ o.seq <= client'[c].seq
        <3>1. /\ Fetching(o, s) /\ o.mode = "recover"
              /\ \E r : /\ client' = [client EXCEPT ![c] = r]
                        /\ r \in ClientRow /\ r.pending = o.pending
                        /\ MorePages(o, r, s) \/ LastPage(o, r, s, c)
            BY <2>4, PageRow
        <3>2. PICK r : /\ client' = [client EXCEPT ![c] = r] /\ r \in ClientRow
                       /\ MorePages(o, r, s) \/ LastPage(o, r, s, c)
            BY <3>1
        <3>3. client'[c] = r
            BY <2>1, <3>2
        <3>4. ASSUME MorePages(o, r, s) PROVE r.mode = "recover" /\ r.page = o.page + 1
            BY <3>1, <3>4 DEF MorePages
        <3>5. ASSUME LastPage(o, r, s, c) PROVE r.mode = "follow" /\ o.seq <= r.seq
            <4>1. r.mode = "follow" /\ r.seq = s.highest
                BY <3>5 DEF LastPage
            <4>2. AsOf(o) <= s.highest /\ s.highest \in Nat
                BY <3>1 DEF Fetching, SessionRow
            <4> QED  BY <2>2, <4>1, <4>2
        <3> QED  BY <3>2, <3>3, <3>4, <3>5
    <2> QED  BY <2>3, <2>4
<1> QED
    BY <1>1, SyncInvariant, PTL DEF Spec
=============================================================================
