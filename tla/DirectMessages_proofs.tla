------------------------ MODULE DirectMessages_proofs ------------------------
(***************************************************************************)
(* Proofs about DirectMessages: well-formed states, one row per operation, *)
(* accepted messages stored at both ends, the sync log complete and a      *)
(* device that follows it, pages without a gap on a serial server.         *)
(***************************************************************************)
EXTENDS DirectMessages, FiniteSetTheorems, WellFoundedInduction, TLAPS

(* A finite set of numbers has a greatest one: the one with the fewest     *)
(* elements above it.                                                      *)
LEMMA GreatestExists ==
    ASSUME NEW S, S \subseteq Nat, IsFiniteSet(S), S # {}
    PROVE  \E n \in S : \A k \in S : k <= n
<1> DEFINE Above(n) == {k \in S : k > n}
           C == {Cardinality(Above(n)) : n \in S}
<1>1. \A n \in S : IsFiniteSet(Above(n)) /\ Cardinality(Above(n)) \in Nat
    <2> TAKE n \in S
    <2>1. Above(n) \in SUBSET S
        OBVIOUS
    <2> QED BY <2>1, FS_Subset, FS_CardinalityType
<1>2. C \subseteq Nat /\ C # {}
    BY <1>1
<1>3. PICK c \in C : \A d \in C : ~(<<d, c>> \in OpToRel(<, Nat))
    BY <1>2, WFMin, NatLessThanWellFounded
<1>4. \A d \in C : ~(d < c)
    BY <1>2, <1>3 DEF OpToRel
<1>5. PICK n \in S : c = Cardinality(Above(n))
    OBVIOUS
<1>6. SUFFICES ASSUME NEW k \in S, k > n PROVE FALSE
    BY <1>5
<1>7. Above(k) \in SUBSET Above(n) /\ k \in Above(n) /\ k \notin Above(k)
    <2>1. k \in Nat /\ n \in Nat
        OBVIOUS
    <2>3. k > n
        BY <1>6
    <2>2. \A j \in S : j > k => j > n
        BY <2>1, <2>3
    <2>4. k \in Above(n)
        BY <2>3
    <2>5. ~(k > k)
        BY <2>1
    <2>6. k \notin Above(k)
        BY <2>5
    <2>7. Above(k) \in SUBSET Above(n)
        BY <2>2
    <2> QED BY <2>4, <2>6, <2>7
<1>8. Cardinality(Above(k)) < Cardinality(Above(n))
    <2>1. Cardinality(Above(k)) <= Cardinality(Above(n)) /\ Cardinality(Above(k)) # Cardinality(Above(n))
        BY <1>1, <1>7, FS_Subset
    <2> HIDE DEF Above
    <2> QED BY <2>1, <1>1, <1>6
<1>9. Cardinality(Above(k)) \in C
    BY <1>6
<1> QED BY <1>4, <1>5, <1>8, <1>9

LEMMA GreatestValue ==
    ASSUME NEW D, IsFiniteSet(D), D # {}, NEW f, \A m \in D : f[m] \in Nat
    PROVE  \E n \in {f[m] : m \in D} : \A k \in {f[m] : m \in D} : k <= n
<1> DEFINE T == {f[m] : m \in D}
           g == [m \in D |-> f[m]]
<1>1. g \in Surjection(D, T)
    BY DEF Surjection
<1>2. IsFiniteSet(T)
    BY <1>1, FS_Surjection
<1>3. T \subseteq Nat /\ T # {}
    OBVIOUS
<1> HIDE DEF T
<1>4. \E n \in T : \A k \in T : k <= n
    BY <1>2, <1>3, GreatestExists
<1> QED BY <1>4 DEF T
-----------------------------------------------------------------------------
(* Well-formed states. *)

LEMMA TableFinite ==
    ASSUME TypeOK, NEW s \in Servers, NEW M, M \subseteq DOMAIN rows[s]
    PROVE  IsFiniteSet(M)
<1>1. M \in SUBSET Messages
    BY DEF TypeOK
<1> QED BY <1>1, RequestsAssumption, FS_Subset

LEMMA NextSeqAbove ==
    ASSUME TypeOK, NEW s \in Servers
    PROVE  NextSeq(s) \in Nat /\ NextSeq(s) > 0 /\ \A m \in DOMAIN rows[s] : rows[s][m].seq < NextSeq(s)
<1> DEFINE D == DOMAIN rows[s]
           f == [m \in D |-> rows[s][m].seq]
           used == {0} \cup {rows[s][m].seq : m \in D}
<1>1. IsFiniteSet(D)
    BY TableFinite
<1>2. \A m \in D : f[m] \in Nat
    BY DEF TypeOK, Rows
<1>3. {f[m] : m \in D} = {rows[s][m].seq : m \in D}
    OBVIOUS
<1>4. used \subseteq Nat
    BY DEF TypeOK, Rows
<1>5. \E n \in used : \A k \in used : k <= n
    <2>1. CASE D = {}
        BY <2>1
    <2>2. CASE D # {}
        <3>1. PICK n \in {f[m] : m \in D} : \A k \in {f[m] : m \in D} : k <= n
            <4> HIDE DEF D, f
            <4> QED BY <1>1, <1>2, <2>2, GreatestValue
        <3>2. n \in used /\ n \in Nat
            BY <1>3, <1>4
        <3>3. \A k \in used : k <= n
            BY <1>3, <3>1, <3>2
        <3> QED BY <3>2, <3>3
    <2> QED BY <2>1, <2>2
<1> DEFINE top == CHOOSE n \in used : \A k \in used : k <= n
<1>6. top \in used /\ \A k \in used : k <= top
    BY <1>5
<1>7. NextSeq(s) = 1 + top
    BY DEF NextSeq
<1>8. 0 \in used /\ \A m \in D : rows[s][m].seq \in used
    OBVIOUS
<1> HIDE DEF top, used
<1>9. top \in Nat /\ top >= 0 /\ \A m \in D : rows[s][m].seq \in Nat /\ rows[s][m].seq <= top
    BY <1>4, <1>6, <1>8
<1>10. ASSUME NEW m \in D PROVE rows[s][m].seq < 1 + top
    BY <1>9
<1> QED BY <1>7, <1>9, <1>10

LEMMA NextSeqType ==
    ASSUME TypeOK, NEW s \in Servers
    PROVE  NextSeq(s) \in Nat
BY NextSeqAbove

\* A watermark that inbox.mark_read moves goes up.
LEMMA AdvancedGrows ==
    ASSUME TypeOK, NEW o \in Users, NEW p \in Users, NEW done,
           Advanced(o, p, done) # marks[o][p]
    PROVE  /\ Advanced(o, p, done) \in Marks
           /\ Advanced(o, p, done).up_to > marks[o][p].up_to
           /\ Advanced(o, p, done).version = marks[o][p].version + 1
<1> DEFINE D == ReadPrefix(o, p, done)
           f == [m \in D |-> SeqOf(o, m)]
           prefix == {SeqOf(o, m) : m \in D}
<1>1. Home[o] \in Servers /\ D \subseteq DOMAIN rows[Home[o]]
    BY HomeAssumption DEF ReadPrefix, Thread
<1>2. IsFiniteSet(D)
    BY <1>1, TableFinite
<1>3. \A m \in D : f[m] \in Nat /\ f[m] > marks[o][p].up_to
    BY <1>1 DEF TypeOK, Rows, SeqOf, ReadPrefix
<1>4. prefix # {} /\ D # {}
    BY DEF Advanced
<1>5. {f[m] : m \in D} = prefix
    OBVIOUS
<1>6. \E n \in {f[m] : m \in D} : \A k \in {f[m] : m \in D} : k <= n
    <2> HIDE DEF D, f
    <2> QED BY <1>2, <1>3, <1>4, GreatestValue
<1> DEFINE top == CHOOSE n \in prefix : \A k \in prefix : k <= n
<1>7. top \in prefix
    BY <1>5, <1>6
<1>8. top \in Nat /\ top > marks[o][p].up_to
    BY <1>3, <1>5, <1>7
<1>9. Advanced(o, p, done) = [up_to |-> top, version |-> marks[o][p].version + 1]
    BY <1>4 DEF Advanced
<1>10. marks[o][p].version \in Nat
    BY DEF TypeOK, Marks
<1> HIDE DEF top
<1> QED BY <1>8, <1>9, <1>10 DEF Marks

LEMMA IdleType == Idle \in ThreadStates /\ Idle.phase = "idle" /\ Idle.callee = NoThread
BY DEF Idle, Serving, ThreadStates

\* Scanned events are a finite part of the log.
LEMMA ScannedFinite ==
    ASSUME NEW log \in Seq(Events), NEW S, S \subseteq DOMAIN log
    PROVE  IsFiniteSet(S) /\ S \subseteq Nat
<1>1. DOMAIN log = 1..Len(log) /\ Len(log) \in Nat
    OBVIOUS
<1>2. IsFiniteSet(1..Len(log))
    BY <1>1, FS_Interval
<1>3. S \in SUBSET (1..Len(log))
    BY <1>1
<1>4. 1..Len(log) \subseteq Nat
    BY <1>1
<1> QED BY <1>2, <1>3, <1>4, FS_Subset

\* The read state mark is told by event i, the last of the scanned ones about p.
HeldFrom(log, scanned, i, p, mark) ==
    /\ IsRead(log[i], p)
    /\ \A j \in scanned : IsRead(log[j], p) => j <= i
    /\ mark = [up_to |-> log[i].up_to, version |-> log[i].version]

\* A device holds the last read state of the events it was given, or what it
\* held before.
LEMMA ReducedIsLast ==
    ASSUME NEW log \in Seq(Events), NEW scanned, scanned \subseteq DOMAIN log,
           NEW held, NEW p \in Users
    PROVE  \/ /\ \A i \in scanned : ~IsRead(log[i], p)
              /\ Reduced(held, log, scanned, p) = held
           \/ \E i \in scanned : HeldFrom(log, scanned, i, p, Reduced(held, log, scanned, p))
<1> DEFINE own == {i \in scanned : IsRead(log[i], p)}
           last == CHOOSE i \in own : \A j \in own : j <= i
<1>1. CASE own = {}
    BY <1>1 DEF Reduced
<1>2. CASE own # {}
    <2>1. own \subseteq DOMAIN log
        OBVIOUS
    <2>2. \E i \in own : \A j \in own : j <= i
        <3> HIDE DEF own
        <3> QED BY <2>1, <1>2, ScannedFinite, GreatestExists
    <2>3. last \in own /\ \A j \in own : j <= last
        <3> HIDE DEF own
        <3> QED BY <2>2
    <2>4. Reduced(held, log, scanned, p) = [up_to |-> log[last].up_to, version |-> log[last].version]
        BY <1>2 DEF Reduced
    <2> HIDE DEF last
    <2> QED BY <1>2, <2>3, <2>4 DEF HeldFrom
<1> QED BY <1>1, <1>2

LEMMA EventTypes ==
    ASSUME NEW e \in Events
    PROVE  /\ e.kind \in {"message", "read"}
           /\ e.kind = "message" => e.message \in Messages
           /\ e.kind = "read" => e.peer \in Users /\ e.up_to \in Nat /\ e.version \in Nat
BY DEF Events, MessageEvent

-----------------------------------------------------------------------------
(* Calls between servers: what a waiting thread may expect of its callee.  *)

Busy(t) == thread[t].phase # "idle"

\* A thread that waits posts to the recipient's server, and its callee works
\* on the same request there.
Waits(t) ==
    LET u == thread[t].callee
    IN  /\ thread[t].phase = "post"
        /\ thread[u].phase \in {"check", "insert"}
        /\ thread[u].request = thread[t].request
        /\ Serves[u] = Home[thread[t].request.recipient]

CallInv ==
    \A t \in Threads :
        /\ ~Busy(t) => thread[t] = Idle
        /\ thread[t].callee # NoThread => Waits(t)
        /\ Busy(t) => Serves[t] \in {Home[thread[t].request.sender], Home[thread[t].request.recipient]}
        /\ thread[t].phase = "post" => Serves[t] = Home[thread[t].request.sender]

LEMMA AnswersType ==
    ASSUME TypeOK, CallInv, NEW t \in Threads, NEW th, th \in {Answered(t), Failed(t)}
    PROVE  /\ th \in [Threads -> ThreadStates]
           /\ \A c \in Threads : th[c].phase # "idle" => th[c].request \in Requests
<1>1. Idle \in ThreadStates /\ Idle.phase = "idle"
    BY IdleType
<1>2. \A c \in Threads : thread[c] \in ThreadStates
    BY DEF TypeOK
<1>3. \A c \in Threads : thread[c].callee = t => thread[c].request \in Requests
    <2> TAKE c \in Threads
    <2> HAVE thread[c].callee = t
    <2>1. thread[c].callee # NoThread
        BY HomeAssumption
    <2>2. thread[c].phase = "post"
        BY <2>1 DEF CallInv, Waits
    <2> QED BY <2>2 DEF TypeOK
<1>4. \A c \in Threads : [thread[c] EXCEPT !.phase = "check", !.callee = NoThread] \in ThreadStates
    BY <1>2 DEF ThreadStates
<1>5. CASE th = Answered(t)
    BY <1>1, <1>2, <1>3, <1>4, <1>5 DEF Answered, TypeOK, ThreadStates
<1>6. CASE th = Failed(t)
    BY <1>1, <1>2, <1>6 DEF Failed, TypeOK
<1> QED BY <1>5, <1>6

\* A thread that gets no answer of its own waits for none.
LEMMA AnswersCall ==
    ASSUME TypeOK, CallInv, NEW t \in Threads, thread' \in {Answered(t), Failed(t)}
    PROVE  CallInv'
<1>1. Idle.phase = "idle" /\ Idle.callee = NoThread
    BY IdleType
<1> SUFFICES ASSUME NEW c \in Threads
             PROVE  /\ ~Busy(c)' => thread'[c] = Idle
                    /\ thread'[c].callee # NoThread => Waits(c)'
                    /\ Busy(c)' => Serves[c] \in {Home[thread'[c].request.sender], Home[thread'[c].request.recipient]}
                    /\ thread'[c].phase = "post" => Serves[c] = Home[thread'[c].request.sender]
    BY DEF CallInv
<1>2. CASE thread'[c] = Idle
    BY <1>1, <1>2 DEF Busy
<1>3. CASE thread'[c] = thread[c] /\ c # t /\ thread[c].callee # t
    <2>1. ASSUME thread[c].callee # NoThread PROVE Waits(c)'
        <3> DEFINE u == thread[c].callee
        <3>1. Waits(c) /\ u \in Threads
            BY <2>1 DEF CallInv, TypeOK, ThreadStates
        <3>2. thread[u].callee = NoThread
            <4>1. thread[u].phase # "post"
                BY <3>1 DEF Waits
            <4> QED BY <3>1, <4>1 DEF CallInv, Waits
        <3>3. thread'[u] = thread[u]
            BY <1>3, <3>1, <3>2, HomeAssumption DEF Answered, Failed
        <3> QED BY <1>3, <3>1, <3>3 DEF Waits
    <2> QED BY <1>3, <2>1 DEF CallInv, Busy
<1>4. CASE thread'[c] = [thread[c] EXCEPT !.phase = "check", !.callee = NoThread] /\ thread[c].callee = t
    <2>1. thread[c].phase = "post" /\ thread[c] \in ThreadStates
        BY <1>4, HomeAssumption DEF CallInv, Waits, TypeOK
    <2>2. Serves[c] = Home[thread[c].request.sender]
        BY <2>1 DEF CallInv
    <2>3. thread'[c].phase = "check" /\ thread'[c].callee = NoThread /\ thread'[c].request = thread[c].request
        BY <1>4, <2>1 DEF ThreadStates
    <2> QED BY <2>2, <2>3 DEF Busy
<1> QED BY <1>2, <1>3, <1>4 DEF Answered, Failed

\* The threads of a request that starts.
LEMMA StartType ==
    ASSUME NEW q \in Requests, NEW ph, ph \in {"check", "post"}
    PROVE  /\ Serving(q, ph) \in ThreadStates
           /\ Serving(q, ph).phase = ph
           /\ Serving(q, ph).request = q
           /\ Serving(q, ph).callee = NoThread
BY DEF Idle, Serving, ThreadStates

LEMMA CallSend ==
    ASSUME TypeOK, CallInv, NEW t \in Threads, NEW q \in Requests, Send(t, q)
    PROVE  CallInv'
<1> DEFINE ph == IF Home[q.recipient] = Home[q.sender] THEN "check" ELSE "post"
           new == Serving(q, ph)
<1>1. new.phase = ph /\ new.request = q /\ new.callee = NoThread
    <2>1. ph \in {"check", "post"}
        OBVIOUS
    <2> HIDE DEF ph
    <2> QED BY <2>1, StartType
<1>2. thread' = [thread EXCEPT ![t] = new] /\ thread[t].phase = "idle"
    BY IdleType DEF Send
<1>3. \A c \in Threads : thread[c].callee # t
    <2> SUFFICES ASSUME NEW c \in Threads, thread[c].callee = t PROVE FALSE
        OBVIOUS
    <2>1. Waits(c)
        BY HomeAssumption DEF CallInv
    <2> QED BY <1>2, <2>1 DEF Waits
<1> HIDE DEF new
<1> SUFFICES ASSUME NEW c \in Threads
             PROVE  /\ ~Busy(c)' => thread'[c] = Idle
                    /\ thread'[c].callee # NoThread => Waits(c)'
                    /\ Busy(c)' => Serves[c] \in {Home[thread'[c].request.sender], Home[thread'[c].request.recipient]}
                    /\ thread'[c].phase = "post" => Serves[c] = Home[thread'[c].request.sender]
    BY DEF CallInv
<1>4. CASE c = t
    <2>1. thread'[c] = new
        BY <1>2, <1>4 DEF TypeOK
    <2> QED BY <1>1, <1>4, <2>1 DEF Busy, Send
<1>5. CASE c # t
    <2>1. thread'[c] = thread[c] /\ thread[c].callee \in Threads \cup {NoThread}
        BY <1>2, <1>5 DEF TypeOK, ThreadStates
    <2>2. thread[c].callee # NoThread => thread'[thread[c].callee] = thread[thread[c].callee]
        BY <1>2, <1>3, <2>1 DEF TypeOK
    <2> QED BY <2>1, <2>2 DEF CallInv, Waits, Busy
<1> QED BY <1>4, <1>5

LEMMA CallPost ==
    ASSUME TypeOK, CallInv, NEW t \in Threads, NEW u \in Threads, Post(t, u)
    PROVE  CallInv'
<1> DEFINE q == thread[t].request
           new == Serving(q, "check")
<1>1. thread[t].phase = "post" /\ thread[t].callee = NoThread /\ thread[u].phase = "idle" /\ t # u
    BY IdleType DEF Post
<1>2. q \in Requests
    BY <1>1 DEF TypeOK
<1>3. new.phase = "check" /\ new.request = q /\ new.callee = NoThread
    BY <1>2, StartType
<1>4. \A c \in Threads : thread[c].callee \notin {t, u}
    <2> SUFFICES ASSUME NEW c \in Threads, thread[c].callee \in {t, u} PROVE FALSE
        OBVIOUS
    <2>1. Waits(c)
        BY HomeAssumption DEF CallInv
    <2> QED BY <1>1, <2>1 DEF Waits
<1>5. /\ thread'[u] = new
      /\ thread'[t].phase = "post" /\ thread'[t].request = q /\ thread'[t].callee = u
      /\ \A c \in Threads \ {t, u} : thread'[c] = thread[c]
    BY <1>1 DEF Post, TypeOK, ThreadStates
<1> HIDE DEF new
<1> SUFFICES ASSUME NEW c \in Threads
             PROVE  /\ ~Busy(c)' => thread'[c] = Idle
                    /\ thread'[c].callee # NoThread => Waits(c)'
                    /\ Busy(c)' => Serves[c] \in {Home[thread'[c].request.sender], Home[thread'[c].request.recipient]}
                    /\ thread'[c].phase = "post" => Serves[c] = Home[thread'[c].request.sender]
    BY DEF CallInv
<1>6. CASE c = t
    <2>1. Waits(t)'
        BY <1>3, <1>5 DEF Waits, Post
    <2>2. Serves[t] = Home[q.sender]
        BY <1>1 DEF CallInv
    <2> QED BY <1>5, <1>6, <2>1, <2>2 DEF Busy
<1>7. CASE c = u
    BY <1>3, <1>5, <1>7 DEF Busy, Post
<1>8. CASE c \notin {t, u}
    <2>1. thread'[c] = thread[c] /\ thread[c].callee \in Threads \cup {NoThread}
        BY <1>5, <1>8 DEF TypeOK, ThreadStates
    <2>2. thread[c].callee # NoThread => thread'[thread[c].callee] = thread[thread[c].callee]
        BY <1>4, <1>5, <2>1
    <2> QED BY <2>1, <2>2 DEF CallInv, Waits, Busy
<1> QED BY <1>6, <1>7, <1>8

\* A check that finds nothing keeps its thread at work on the same request.
LEMMA CallChecked ==
    ASSUME TypeOK, CallInv, NEW t \in Threads, NEW n, thread[t].phase = "check",
           thread' = [thread EXCEPT ![t].phase = "insert", ![t].seq = n]
    PROVE  CallInv'
<1>1. /\ thread'[t].phase = "insert" /\ thread'[t].request = thread[t].request
      /\ thread'[t].callee = thread[t].callee
      /\ \A c \in Threads \ {t} : thread'[c] = thread[c]
    BY DEF TypeOK, ThreadStates
<1>2. thread[t].callee = NoThread
    BY DEF CallInv, Waits
<1>3. \A c \in Threads : thread[c].callee \in Threads \cup {NoThread}
    BY DEF TypeOK, ThreadStates
<1> SUFFICES ASSUME NEW c \in Threads
             PROVE  /\ ~Busy(c)' => thread'[c] = Idle
                    /\ thread'[c].callee # NoThread => Waits(c)'
                    /\ Busy(c)' => Serves[c] \in {Home[thread'[c].request.sender], Home[thread'[c].request.recipient]}
                    /\ thread'[c].phase = "post" => Serves[c] = Home[thread'[c].request.sender]
    BY DEF CallInv
<1>4. CASE c = t
    BY <1>1, <1>2, <1>4 DEF CallInv, Busy
<1>5. CASE c # t
    <2>1. thread'[c] = thread[c]
        BY <1>1, <1>5
    <2>2. ASSUME thread[c].callee # NoThread PROVE Waits(c)'
        <3> DEFINE u == thread[c].callee
        <3>1. Waits(c) /\ u \in Threads
            BY <1>3, <2>2 DEF CallInv
        <3>2. thread'[u].phase \in {"check", "insert"} /\ thread'[u].request = thread[u].request
            BY <1>1, <3>1 DEF Waits
        <3> QED BY <2>1, <3>1, <3>2 DEF Waits
    <2> QED BY <2>1, <2>2 DEF CallInv, Busy
<1> QED BY <1>4, <1>5

LEMMA CallStep ==
    ASSUME TypeOK, CallInv, [Next]_vars
    PROVE  CallInv'
<1>1. CASE UNCHANGED thread
    BY <1>1 DEF CallInv, Waits, Busy
<1>2. ASSUME NEW t \in Threads, NEW q \in Requests, Send(t, q) \/ SendAgain(t, q)
      PROVE  CallInv'
    <2>1. CASE Send(t, q)
        BY <2>1, CallSend
    <2>2. CASE SendAgain(t, q)
        BY <1>1, <2>2 DEF SendAgain
    <2> QED BY <1>2, <2>1, <2>2
<1>3. ASSUME NEW t \in Threads, NEW u \in Threads, Post(t, u) PROVE CallInv'
    BY <1>3, CallPost
<1>4. ASSUME NEW t \in Threads, Check(t) PROVE CallInv'
    <2>1. CASE thread' \in {Answered(t), Failed(t)}
        BY <2>1, AnswersCall
    <2>2. CASE thread' = [thread EXCEPT ![t].phase = "insert", ![t].seq = NextSeq(Serves[t])]
        BY <1>4, <2>2, CallChecked DEF Check
    <2> QED BY <1>4, <2>1, <2>2 DEF Check
<1>5. ASSUME NEW t \in Threads, Insert(t) \/ Abandon(t) PROVE CallInv'
    BY <1>5, AnswersCall DEF Insert, Abandon
<1>6. CASE Reading
    BY <1>1, <1>6 DEF Reading, MarkRead, InboxMarkRead
<1>7. CASE Following
    BY <1>1, <1>7 DEF Following, Delta, ThreadAfter
<1>8. CASE Sending
    BY <1>2, <1>3, <1>4, <1>5, <1>8 DEF Sending
<1>9. CASE UNCHANGED vars
    BY <1>1, <1>9 DEF vars
<1> QED BY <1>6, <1>7, <1>8, <1>9 DEF Next

LEMMA TypeSending ==
    ASSUME TypeOK, CallInv, Sending
    PROVE  TypeOK'
<1>1. ASSUME NEW t \in Threads, NEW q \in Requests, Send(t, q) PROVE TypeOK'
    <2> DEFINE ph == IF Home[q.recipient] = Home[q.sender] THEN "check" ELSE "post"
               new == Serving(q, ph)
    <2>1. new \in ThreadStates /\ new.request \in Requests
        <3>1. ph \in {"check", "post"}
            OBVIOUS
        <3> HIDE DEF ph
        <3> QED BY <3>1, StartType
    <2>2. thread' = [thread EXCEPT ![t] = new] /\ UNCHANGED <<store, accepted, device, reader>>
        BY <1>1 DEF Send
    <2> HIDE DEF new
    <2> QED BY <2>1, <2>2 DEF TypeOK, store
<1>2. ASSUME NEW t \in Threads, NEW q \in Requests, SendAgain(t, q) PROVE TypeOK'
    <2>1. rows[Home[q.sender]][q.message].seq \in Nat
        BY <1>2, HomeAssumption, RequestsAssumption DEF SendAgain, TypeOK, Rows
    <2> QED BY <1>2, <2>1 DEF SendAgain, TypeOK, store
<1>3. ASSUME NEW t \in Threads, NEW u \in Threads, Post(t, u) PROVE TypeOK'
    <2> DEFINE new == Serving(thread[t].request, "check")
    <2>1. thread[t].request \in Requests /\ thread[t] \in ThreadStates
        BY <1>3 DEF Post, TypeOK
    <2>2. new \in ThreadStates /\ new.request \in Requests
        BY <2>1, StartType
    <2>3. t # u
        BY <1>3, IdleType DEF Post
    <2>4. /\ thread' = [thread EXCEPT ![t] = [thread[t] EXCEPT !.callee = u], ![u] = new]
          /\ UNCHANGED <<store, accepted, device, reader>>
        BY <1>3, <2>3 DEF Post
    <2>5. /\ [thread[t] EXCEPT !.callee = u] \in ThreadStates
          /\ [thread[t] EXCEPT !.callee = u].request \in Requests
        BY <2>1 DEF ThreadStates
    <2> HIDE DEF new
    <2> QED BY <2>2, <2>4, <2>5 DEF TypeOK, store
<1>4. ASSUME NEW t \in Threads, Check(t) PROVE TypeOK'
    <2> DEFINE q == thread[t].request
               s == Serves[t]
    <2>1. s \in Servers /\ q \in Requests /\ Earlier(s, q) \subseteq DOMAIN rows[s]
        BY <1>4, HomeAssumption DEF Check, TypeOK, Earlier, OfOperation
    <2>2. CASE thread' \in {Answered(t), Failed(t)}
        <3>1. accepted' \subseteq [request : Requests, seq : Nat]
            BY <1>4, <2>1 DEF Check, Told, TypeOK, Rows
        <3> QED BY <1>4, <2>2, <3>1, AnswersType DEF Check, TypeOK, store
    <2>3. CASE thread' = [thread EXCEPT ![t].phase = "insert", ![t].seq = NextSeq(s)] /\ UNCHANGED accepted
        <3>1. NextSeq(s) \in Nat
            BY <2>1, NextSeqType
        <3>2. thread' \in [Threads -> ThreadStates]
            <4> PICK n : n = NextSeq(s)
                OBVIOUS
            <4>1. thread \in [Threads -> ThreadStates] /\ n \in Nat
                BY <3>1 DEF TypeOK
            <4>2. [thread[t] EXCEPT !.phase = "insert", !.seq = n] \in ThreadStates
                BY <4>1 DEF ThreadStates
            <4>3. thread' = [thread EXCEPT ![t] = [thread[t] EXCEPT !.phase = "insert", !.seq = n]]
                BY <2>3, <4>1
            <4> QED BY <4>1, <4>2, <4>3
        <3>3. \A c \in Threads : thread'[c].phase # "idle" => thread'[c].request \in Requests
            BY <2>1, <2>3 DEF TypeOK, ThreadStates
        <3> QED BY <1>4, <2>3, <3>2, <3>3 DEF Check, TypeOK, store
    <2> QED BY <1>4, <2>2, <2>3 DEF Check
<1>5. ASSUME NEW t \in Threads, Insert(t) PROVE TypeOK'
    <2> DEFINE q == thread[t].request
               s == Serves[t]
               n == thread[t].seq
    <2>1. s \in Servers /\ q \in Requests /\ n \in Nat
        BY <1>5, HomeAssumption DEF Insert, TypeOK, ThreadStates
    <2>2. thread' \in {Answered(t), Failed(t)}
        BY <1>5 DEF Insert
    <2>3. CASE UNCHANGED <<rows, events, accepted>>
        BY <1>5, <2>2, <2>3, AnswersType DEF Insert, TypeOK
    <2>4. CASE /\ rows' = [rows EXCEPT ![s] = WithRow(rows[s], q, n)]
               /\ events' = [o \in Users |->
                      IF o \in Notified(s, q) THEN Append(events[o], MessageEvent(q.message))
                      ELSE events[o]]
               /\ accepted' = Told(t, n)
        <3>1. Row(q, n) \in Rows /\ q.message \in Messages
            BY <2>1, RequestsAssumption DEF Row, Rows
        <3>2. DOMAIN rows' = Servers /\ \A x \in Servers \ {s} : rows'[x] = rows[x]
            BY <2>4 DEF TypeOK
        <3>3. rows'[s] = WithRow(rows[s], q, n)
            BY <2>1, <2>4 DEF TypeOK
        <3>4. /\ DOMAIN rows'[s] \subseteq Messages
              /\ \A m \in DOMAIN rows'[s] : rows'[s][m] \in Rows
            BY <2>1, <3>1, <3>3 DEF TypeOK, WithRow
        <3>5. MessageEvent(q.message) \in Events
            BY <3>1 DEF Events
        <3>6. events' \in [Users -> Seq(Events)]
            BY <2>4, <3>5 DEF TypeOK
        <3>7. \A o \in Users : Len(events[o]) <= Len(events'[o])
            <4> TAKE o \in Users
            <4>1. events[o] \in Seq(Events)
                BY DEF TypeOK
            <4>2. Len(Append(events[o], MessageEvent(q.message))) = Len(events[o]) + 1 /\ Len(events[o]) \in Nat
                BY <4>1
            <4>3. Len(events[o]) <= Len(events[o]) + 1 /\ Len(events[o]) <= Len(events[o])
                BY <4>2
            <4> QED BY <2>4, <4>2, <4>3
        <3>8. \A o \in Users : device'[o].cursor <= Len(events'[o])
            <4> TAKE o \in Users
            <4>1. device'[o].cursor = device[o].cursor /\ device[o].cursor \in Nat
                BY <1>5 DEF Insert, TypeOK, Devices
            <4>2. Len(events[o]) \in Nat /\ Len(events'[o]) \in Nat
                BY <3>6 DEF TypeOK
            <4>3. device[o].cursor <= Len(events[o])
                BY DEF TypeOK
            <4> QED BY <3>7, <4>1, <4>2, <4>3
        <3>9. accepted' \subseteq [request : Requests, seq : Nat]
            BY <2>1, <2>4 DEF Told, TypeOK
        <3>10. UNCHANGED <<read, marks, device, reader>>
            BY <1>5 DEF Insert
        <3> QED BY <2>2, <3>2, <3>4, <3>6, <3>8, <3>9, <3>10, AnswersType DEF TypeOK
    <2> QED BY <1>5, <2>3, <2>4 DEF Insert
<1>6. ASSUME NEW t \in Threads, Abandon(t) PROVE TypeOK'
    BY <1>6, AnswersType DEF Abandon, TypeOK, store
<1> QED BY <1>1, <1>2, <1>3, <1>4, <1>5, <1>6 DEF Sending

\* The read state a watermark leaves: it is new and published, or the old one.
LEMMA MarkedGrows ==
    ASSUME NEW old \in Marks, NEW n \in Nat, NEW p \in Users
    PROVE  /\ Marked(old, n) \in Marks
           /\ \/ Marked(old, n) = old /\ Published(p, old, Marked(old, n)) = <<>>
              \/ /\ Marked(old, n).version = old.version + 1
                 /\ Marked(old, n).up_to >= old.up_to
                 /\ Published(p, old, Marked(old, n)) = <<ReadEvent(p, Marked(old, n))>>
<1>1. old.up_to \in Nat /\ old.version \in Nat /\ old = [up_to |-> old.up_to, version |-> old.version]
    BY DEF Marks
<1> DEFINE saved == Max(old.up_to, n)
<1>2. saved \in Nat /\ saved >= old.up_to
    BY <1>1 DEF Max
<1>3. CASE old.version = 0 \/ saved > old.up_to
    <2>1. Marked(old, n) = [up_to |-> saved, version |-> old.version + 1]
        BY <1>3 DEF Marked
    <2>2. Published(p, old, Marked(old, n)) = <<ReadEvent(p, Marked(old, n))>>
        BY <1>3, <2>1 DEF Published
    <2> QED BY <1>1, <1>2, <2>1, <2>2 DEF Marks
<1>4. CASE ~(old.version = 0 \/ saved > old.up_to)
    <2>1. saved = old.up_to
        BY <1>1, <1>2, <1>4
    <2>2. Marked(old, n) = old
        BY <1>1, <1>4, <2>1 DEF Marked
    <2>3. Published(p, old, Marked(old, n)) = <<>>
        BY <1>1, <1>4, <2>2 DEF Published
    <2> QED BY <2>2, <2>3
<1> QED BY <1>3, <1>4

\* What a step on the read state of <<o, p>> does to the tables: nothing, or a
\* new read state and the event that tells it.
MarkMoves(o, p) ==
    LET new == marks'[o][p]
    IN  \/ UNCHANGED <<marks, events>>
        \/ /\ new \in Marks
           /\ new.version = marks[o][p].version + 1
           /\ new.up_to >= marks[o][p].up_to
           /\ marks' = [marks EXCEPT ![o][p] = new]
           /\ events' = [events EXCEPT ![o] = Append(@, ReadEvent(p, new))]

ReadStep(o, p) ==
    /\ MarkMoves(o, p)
    /\ read' \in [Users -> SUBSET Messages]
    /\ UNCHANGED <<rows, thread, accepted, device, reader>>

LEMMA ThreadType ==
    ASSUME TypeOK, NEW o \in Users, NEW p \in Users
    PROVE  /\ Home[o] \in Servers
           /\ Thread(o, p) \subseteq DOMAIN rows[Home[o]]
           /\ Thread(o, p) \subseteq Messages
           /\ \A m \in Thread(o, p) : SeqOf(o, m) \in Nat
BY HomeAssumption DEF TypeOK, Thread, SeqOf, Rows

LEMMA MarkReadMoves ==
    ASSUME TypeOK, NEW o \in Users, NEW p \in Users, MarkRead(o, p)
    PROVE  ReadStep(o, p)
<1>1. PICK n \in {0} \cup UNION {1..SeqOf(o, m) : m \in Thread(o, p)} :
          /\ marks' = [marks EXCEPT ![o][p] = Marked(marks[o][p], n)]
          /\ read' = [read EXCEPT ![o] = @ \cup {x \in Thread(o, p) : SeqOf(o, x) <= Marked(marks[o][p], n).up_to}]
          /\ events' = [events EXCEPT ![o] = @ \o Published(p, marks[o][p], Marked(marks[o][p], n))]
          /\ UNCHANGED <<rows, thread, accepted, device, reader>>
    BY DEF MarkRead
<1> DEFINE new == Marked(marks[o][p], n)
<1>2. n \in Nat
    BY ThreadType
<1>3. marks[o][p] \in Marks /\ events[o] \in Seq(Events)
    BY DEF TypeOK
<1>4. /\ new \in Marks
      /\ \/ new = marks[o][p] /\ Published(p, marks[o][p], new) = <<>>
         \/ /\ new.version = marks[o][p].version + 1
            /\ new.up_to >= marks[o][p].up_to
            /\ Published(p, marks[o][p], new) = <<ReadEvent(p, new)>>
    BY <1>2, <1>3, MarkedGrows
<1> HIDE DEF new
<1>5. marks'[o][p] = new /\ marks' = [marks EXCEPT ![o][p] = new]
    BY <1>1 DEF TypeOK, new
<1>6. read' \in [Users -> SUBSET Messages]
    <2>1. {x \in Thread(o, p) : SeqOf(o, x) <= new.up_to} \subseteq Messages
        BY ThreadType
    <2> QED BY <1>1, <2>1 DEF TypeOK, new
<1>7. CASE new = marks[o][p] /\ Published(p, marks[o][p], new) = <<>>
    <2>1. marks' = marks
        BY <1>5, <1>7 DEF TypeOK
    <2>2. events[o] \o <<>> = events[o]
        BY <1>3
    <2>3. events' = [events EXCEPT ![o] = events[o] \o Published(p, marks[o][p], new)]
        BY <1>1 DEF new
    <2>4. events' = events
        BY <1>7, <2>2, <2>3 DEF TypeOK
    <2> QED BY <1>1, <1>6, <2>1, <2>4 DEF ReadStep, MarkMoves
<1>8. CASE /\ new.version = marks[o][p].version + 1
           /\ new.up_to >= marks[o][p].up_to
           /\ Published(p, marks[o][p], new) = <<ReadEvent(p, new)>>
    <2>1. ReadEvent(p, new) \in Events
        BY <1>4 DEF ReadEvent, Events, Marks
    <2>2. events[o] \o <<ReadEvent(p, new)>> = Append(events[o], ReadEvent(p, new))
        BY <1>3, <2>1
    <2>3. events' = [events EXCEPT ![o] = events[o] \o Published(p, marks[o][p], new)]
        BY <1>1 DEF new
    <2>4. events' = [events EXCEPT ![o] = Append(@, ReadEvent(p, new))]
        BY <1>8, <2>2, <2>3
    <2> QED BY <1>1, <1>4, <1>5, <1>6, <1>8, <2>4 DEF ReadStep, MarkMoves
<1> QED BY <1>4, <1>7, <1>8

LEMMA InboxMarkReadMoves ==
    ASSUME TypeOK, NEW o \in Users, NEW p \in Users, InboxMarkRead(o, p)
    PROVE  ReadStep(o, p)
<1>1. PICK ids \in SUBSET Thread(o, p) \ {{}} :
          /\ read' = [read EXCEPT ![o] = @ \cup ids]
          /\ marks' = [marks EXCEPT ![o][p] = Advanced(o, p, read[o] \cup ids)]
          /\ events' = [events EXCEPT ![o] =
                 IF Advanced(o, p, read[o] \cup ids) = marks[o][p] THEN @
                 ELSE Append(@, ReadEvent(p, Advanced(o, p, read[o] \cup ids)))]
          /\ UNCHANGED <<rows, thread, accepted, device, reader>>
    BY DEF InboxMarkRead
<1> DEFINE new == Advanced(o, p, read[o] \cup ids)
<1>2. new # marks[o][p] => /\ new \in Marks /\ new.up_to > marks[o][p].up_to
                           /\ new.version = marks[o][p].version + 1
    BY AdvancedGrows
<1> HIDE DEF new
<1>3. marks'[o][p] = new /\ marks' = [marks EXCEPT ![o][p] = new]
    BY <1>1 DEF TypeOK, new
<1>4. read' \in [Users -> SUBSET Messages]
    <2>1. ids \subseteq Messages
        BY ThreadType
    <2> QED BY <1>1, <2>1 DEF TypeOK
<1>5. events' = [events EXCEPT ![o] = IF new = marks[o][p] THEN events[o] ELSE Append(events[o], ReadEvent(p, new))]
    BY <1>1 DEF new
<1>6. CASE new = marks[o][p]
    <2>1. marks' = marks /\ events' = events
        BY <1>3, <1>5, <1>6 DEF TypeOK
    <2> QED BY <1>1, <1>4, <2>1 DEF ReadStep, MarkMoves
<1>7. CASE new # marks[o][p]
    <2>1. events' = [events EXCEPT ![o] = Append(@, ReadEvent(p, new))]
        BY <1>5, <1>7
    <2>2. new.up_to >= marks[o][p].up_to
        BY <1>2, <1>7 DEF TypeOK, Marks
    <2> QED BY <1>1, <1>2, <1>3, <1>4, <1>7, <2>1, <2>2 DEF ReadStep, MarkMoves
<1> QED BY <1>6, <1>7

LEMMA ReadingStep ==
    ASSUME TypeOK, Reading
    PROVE  \E o, p \in Users : ReadStep(o, p)
<1>1. PICK r \in Readers : MarkRead(r[1], r[2]) \/ InboxMarkRead(r[1], r[2])
    BY DEF Reading
<1>2. r[1] \in Users /\ r[2] \in Users
    BY ClientsAssumption
<1> QED BY <1>1, <1>2, MarkReadMoves, InboxMarkReadMoves

LEMMA TypeReading ==
    ASSUME TypeOK, NEW o \in Users, NEW p \in Users, ReadStep(o, p)
    PROVE  TypeOK'
<1>1. CASE UNCHANGED <<marks, events>>
    BY <1>1 DEF ReadStep, TypeOK
<1>2. CASE ~UNCHANGED <<marks, events>>
    <2> DEFINE new == marks'[o][p]
    <2>1. /\ new \in Marks
          /\ marks' = [marks EXCEPT ![o][p] = new]
          /\ events' = [events EXCEPT ![o] = Append(@, ReadEvent(p, new))]
          /\ read' \in [Users -> SUBSET Messages]
          /\ UNCHANGED <<rows, thread, accepted, device, reader>>
        BY <1>2 DEF ReadStep, MarkMoves
    <2> HIDE DEF new
    <2>2. marks' \in [Users -> [Users -> Marks]]
        BY <2>1 DEF TypeOK
    <2>3. ReadEvent(p, new) \in Events
        BY <2>1 DEF ReadEvent, Events, Marks
    <2>4. events' \in [Users -> Seq(Events)]
        BY <2>1, <2>3 DEF TypeOK
    <2>5. \A x \in Users : device'[x].cursor <= Len(events'[x])
        <3> TAKE x \in Users
        <3>1. /\ device'[x].cursor = device[x].cursor /\ device[x].cursor \in Nat
              /\ device[x].cursor <= Len(events[x]) /\ events[x] \in Seq(Events)
            BY <2>1 DEF TypeOK, Devices
        <3>2. Len(events[x]) \in Nat
            BY <3>1
        <3>3. Len(events'[x]) \in {Len(events[x]), Len(events[x]) + 1}
            BY <2>1, <2>3, <3>1 DEF TypeOK
        <3> QED BY <3>1, <3>2, <3>3
    <2> QED BY <2>1, <2>2, <2>4, <2>5 DEF TypeOK
<1> QED BY <1>1, <1>2

LEMMA TypeFollowing ==
    ASSUME TypeOK, Following
    PROVE  TypeOK'
<1>1. ASSUME NEW o \in Followers, Delta(o) PROVE TypeOK'
    <2> DEFINE log == events[o]
               scanned == Scanned(log, device[o].cursor)
               next == NextCursor(log, device[o].cursor)
               known == device[o].known \cup {log[i].message : i \in {j \in scanned : log[j].kind = "message"}}
               held == [p \in Users |-> Reduced(device[o].marks[p], log, scanned, p)]
    <2>1. o \in Users /\ log \in Seq(Events) /\ device[o] \in Devices /\ device[o].cursor <= Len(log)
        BY ClientsAssumption DEF TypeOK
    <2>2. scanned \subseteq DOMAIN log
        BY DEF Scanned
    <2>3. next \in Nat /\ next <= Len(log)
        BY <2>1, ClientsAssumption DEF NextCursor, Devices
    <2>4. known \subseteq Messages
        <3>1. \A i \in scanned : log[i] \in Events
            BY <2>1, <2>2
        <3> QED BY <2>1, <3>1, EventTypes DEF Devices
    <2>5. held \in [Users -> Marks]
        <3> SUFFICES ASSUME NEW p \in Users PROVE Reduced(device[o].marks[p], log, scanned, p) \in Marks
            OBVIOUS
        <3> DEFINE mark == Reduced(device[o].marks[p], log, scanned, p)
        <3>1. CASE mark = device[o].marks[p]
            BY <2>1, <3>1 DEF Devices
        <3>2. CASE \E i \in scanned : HeldFrom(log, scanned, i, p, mark)
            <4>1. PICK i \in scanned : HeldFrom(log, scanned, i, p, mark)
                BY <3>2
            <4>2. log[i] \in Events
                BY <2>1, <2>2
            <4>3. log[i].up_to \in Nat /\ log[i].version \in Nat
                BY <4>1, <4>2, EventTypes DEF IsRead, HeldFrom
            <4> QED BY <4>1, <4>3 DEF Marks, HeldFrom
        <3>3. mark = device[o].marks[p] \/ \E i \in scanned : HeldFrom(log, scanned, i, p, mark)
            <4> HIDE DEF log, scanned
            <4> QED BY <2>1, <2>2, ReducedIsLast
        <3> QED BY <3>1, <3>2, <3>3
    <2>6. device' = [device EXCEPT ![o] = [cursor |-> next, known |-> known, marks |-> held]]
        BY <1>1 DEF Delta
    <2>7. UNCHANGED <<rows, read, marks, events, thread, accepted, reader>>
        BY <1>1 DEF Delta, store
    <2> HIDE DEF next, known, held
    <2>8. device' \in [Users -> Devices]
        BY <2>1, <2>3, <2>4, <2>5, <2>6 DEF TypeOK, Devices
    <2>9. \A x \in Users : device'[x].cursor <= Len(events[x])
        BY <2>1, <2>3, <2>6 DEF TypeOK
    <2> QED BY <2>7, <2>8, <2>9 DEF TypeOK
<1>2. ASSUME NEW o \in Users, NEW p \in Users, ThreadAfter(o, p) PROVE TypeOK'
    <2>1. PICK page \in SUBSET Thread(o, p) \ {{}} : \E last \in page :
              reader' = [reader EXCEPT ![o][p] = [after |-> SeqOf(o, last), known |-> @.known \cup page]]
        BY <1>2 DEF ThreadAfter
    <2>2. PICK last \in page :
              reader' = [reader EXCEPT ![o][p] = [after |-> SeqOf(o, last), known |-> @.known \cup page]]
        BY <2>1
    <2>3. SeqOf(o, last) \in Nat /\ page \subseteq Messages
        BY ThreadType
    <2>4. reader' \in [Users -> [Users -> [after : Nat, known : SUBSET Messages]]]
        BY <2>2, <2>3 DEF TypeOK
    <2> QED BY <1>2, <2>4 DEF ThreadAfter, TypeOK, store
<1>3. \A r \in Pagers : r[1] \in Users /\ r[2] \in Users
    BY ClientsAssumption
<1> QED BY <1>1, <1>2, <1>3 DEF Following

LEMMA InitType == Init => TypeOK /\ CallInv
<1> HAVE Init
<1>1. Unmarked \in Marks /\ Idle \in ThreadStates /\ Idle.phase = "idle" /\ Idle.callee = NoThread
    BY IdleType DEF Unmarked, Marks
<1>2. \A s \in Servers : rows[s] = <<>> /\ DOMAIN rows[s] = {}
    BY DEF Init
<1>3. DOMAIN rows = Servers
    BY DEF Init
<1>4. events \in [Users -> Seq(Events)] /\ \A o \in Users : Len(events[o]) = 0
    BY DEF Init
<1>5. device \in [Users -> Devices] /\ \A o \in Users : device[o].cursor = 0
    BY <1>1 DEF Init, Devices
<1>6. TypeOK
    <2>1. \A s \in Servers : DOMAIN rows[s] \subseteq Messages /\ \A m \in DOMAIN rows[s] : rows[s][m] \in Rows
        BY <1>2
    <2>2. /\ read \in [Users -> SUBSET Messages] /\ marks \in [Users -> [Users -> Marks]]
          /\ accepted \subseteq [request : Requests, seq : Nat]
        BY <1>1 DEF Init
    <2>3. /\ thread \in [Threads -> ThreadStates]
          /\ \A t \in Threads : thread[t].phase = "idle"
        BY <1>1 DEF Init
    <2>4. reader \in [Users -> [Users -> [after : Nat, known : SUBSET Messages]]]
        BY DEF Init
    <2>5. \A o \in Users : device[o].cursor <= Len(events[o])
        BY <1>4, <1>5
    <2> QED BY <1>3, <1>4, <1>5, <2>1, <2>2, <2>3, <2>4, <2>5 DEF TypeOK
<1>7. CallInv
    BY <1>1 DEF Init, CallInv, Busy
<1> QED BY <1>6, <1>7

LEMMA TypeStep ==
    ASSUME TypeOK, CallInv, [Next]_vars
    PROVE  TypeOK'
<1>1. CASE UNCHANGED vars
    BY <1>1 DEF TypeOK, vars, store
<1> QED BY <1>1, TypeSending, ReadingStep, TypeReading, TypeFollowing DEF Next

LEMMA BaseInv == Spec => [](TypeOK /\ CallInv)
<1>1. TypeOK /\ CallInv /\ [Next]_vars => (TypeOK /\ CallInv)'
    BY TypeStep, CallStep
<1> QED BY <1>1, InitType, PTL DEF Spec

\* Every reachable state is well-formed: tables, threads, logs and followers
\* keep their types, and no cursor of sync.delta runs ahead of its log.
THEOREM MessagesTypeCorrect == Spec => []TypeOK
BY BaseInv, PTL
-----------------------------------------------------------------------------
(* Stored messages. *)

\* The transaction of _store_direct_message commits.
Stores(t) ==
    LET q == thread[t].request
        s == Serves[t]
    IN  /\ t \in Threads /\ s \in Servers /\ q \in Requests
        /\ thread[t].phase = "insert"
        /\ Insertable(s, q)
        /\ rows' = [rows EXCEPT ![s] = WithRow(rows[s], q, thread[t].seq)]
        /\ events' = [o \in Users |->
               IF o \in Notified(s, q) THEN Append(events[o], MessageEvent(q.message))
               ELSE events[o]]
        /\ thread' = Answered(t)
        /\ accepted' = Told(t, thread[t].seq)
        /\ UNCHANGED <<read, marks, device, reader>>

\* Only that transaction writes messages, and only it and the read-state
\* handlers write sync events.
LEMMA WhoStores ==
    ASSUME TypeOK, CallInv, [Next]_vars
    PROVE  \/ \E t \in Threads : Stores(t)
           \/ UNCHANGED rows /\ \/ UNCHANGED <<marks, events>>
                                \/ \E o, p \in Users : ReadStep(o, p)
<1>1. CASE UNCHANGED vars
    BY <1>1 DEF vars, store
<1>2. CASE Reading
    BY <1>2, ReadingStep DEF ReadStep
<1>3. CASE Following
    BY <1>3 DEF Following, Delta, ThreadAfter, store
<1>4. ASSUME NEW t \in Threads, Insert(t) PROVE Stores(t) \/ UNCHANGED <<rows, marks, events>>
    BY <1>4, HomeAssumption DEF Insert, Stores, TypeOK
<1>5. CASE Sending
    BY <1>4, <1>5 DEF Sending, Send, SendAgain, Post, Check, Abandon, store
<1> QED BY <1>1, <1>2, <1>3, <1>5 DEF Next

\* A message that is stored stays as it is, and the new one is its request's.
LEMMA RowsGrow ==
    ASSUME TypeOK, NEW t, Stores(t)
    PROVE  LET q == thread[t].request
               s == Serves[t]
           IN  /\ q.message \notin DOMAIN rows[s]
               /\ DOMAIN rows'[s] = DOMAIN rows[s] \cup {q.message}
               /\ rows'[s][q.message] = Row(q, thread[t].seq)
               /\ \A m \in DOMAIN rows[s] : rows'[s][m] = rows[s][m]
               /\ \A x \in Servers \ {s} : rows'[x] = rows[x]
<1> DEFINE q == thread[t].request
           s == Serves[t]
<1>1. rows'[s] = WithRow(rows[s], q, thread[t].seq) /\ \A x \in Servers \ {s} : rows'[x] = rows[x]
    BY DEF Stores, TypeOK
<1>2. q.message \notin DOMAIN rows[s]
    BY DEF Stores, Insertable
<1> QED BY <1>1, <1>2 DEF WithRow

LEMMA OneRowStep ==
    ASSUME TypeOK, CallInv, OneRowPerOperation, [Next]_vars
    PROVE  OneRowPerOperation'
<1>1. CASE UNCHANGED rows
    BY <1>1 DEF OneRowPerOperation
<1>2. ASSUME NEW t \in Threads, Stores(t) PROVE OneRowPerOperation'
    <2> DEFINE q == thread[t].request
               s == Serves[t]
    <2>1. /\ q.message \notin DOMAIN rows[s]
          /\ DOMAIN rows'[s] = DOMAIN rows[s] \cup {q.message}
          /\ rows'[s][q.message] = Row(q, thread[t].seq)
          /\ \A m \in DOMAIN rows[s] : rows'[s][m] = rows[s][m]
          /\ \A x \in Servers \ {s} : rows'[x] = rows[x]
        BY <1>2, RowsGrow
    <2>2. \A m \in DOMAIN rows[s] : ~(q.op # NoOp /\ rows[s][m].sender = q.sender /\ rows[s][m].op = q.op)
        BY <1>2 DEF Stores, Insertable, OfOperation
    <2>3. rows'[s][q.message].op = q.op /\ rows'[s][q.message].sender = q.sender
        BY <2>1 DEF Row
    <2> SUFFICES ASSUME NEW z \in Servers, NEW m \in DOMAIN rows'[z], NEW x \in DOMAIN rows'[z],
                        rows'[z][m].op # NoOp, rows'[z][m].op = rows'[z][x].op,
                        rows'[z][m].sender = rows'[z][x].sender
                 PROVE  m = x
        BY DEF OneRowPerOperation
    <2>4. CASE z # s
        BY <2>1, <2>4 DEF OneRowPerOperation
    <2>5. CASE z = s
        BY <2>1, <2>2, <2>3, <2>5 DEF OneRowPerOperation
    <2> QED BY <2>4, <2>5
<1> QED BY <1>1, <1>2, WhoStores

\* For any servers, users, threads and requests: however the sends of one
\* operation race and are repeated, a server stores one message for it.
THEOREM OperationsStoredOnce == Spec => []OneRowPerOperation
<1>1. Init => OneRowPerOperation
    BY DEF Init, OneRowPerOperation
<1>2. TypeOK /\ CallInv /\ OneRowPerOperation /\ [Next]_vars => OneRowPerOperation'
    BY OneRowStep
<1> QED BY <1>1, <1>2, BaseInv, PTL DEF Spec
-----------------------------------------------------------------------------
(* Delivery to both ends. *)

\* A thread that stores the sender's copy does so once the recipient's server
\* carries the message.
Delivered(t) ==
    LET q == thread[t].request
    IN  thread[t].phase \in {"check", "insert"} /\ Serves[t] # Home[q.recipient]
            => Carries(Home[q.recipient], q)

\* SentIsDelivered with every column of the two copies.
CopiesAgree ==
    \A s \in Servers : \A m \in DOMAIN rows[s] :
        LET here == rows[s][m]
            there == Home[here.recipient]
        IN  /\ m \in DOMAIN rows[there]
            /\ rows[there][m].sender = here.sender
            /\ rows[there][m].recipient = here.recipient
            /\ rows[there][m].content = here.content
            /\ rows[there][m].op = here.op

DeliveryInv ==
    /\ \A t \in Threads : Delivered(t)
    /\ CopiesAgree
    /\ AcceptedIsStored

LEMMA CarriesStays ==
    ASSUME TypeOK, CallInv, [Next]_vars, NEW s \in Servers, NEW q
    PROVE  /\ Carries(s, q) => Carries(s, q)'
           /\ Carries(s, q) => rows'[s][q.message] = rows[s][q.message]
<1>1. CASE UNCHANGED rows
    BY <1>1 DEF Carries
<1>2. ASSUME NEW t \in Threads, Stores(t)
      PROVE  q.message \in DOMAIN rows[s] =>
                 q.message \in DOMAIN rows'[s] /\ rows'[s][q.message] = rows[s][q.message]
    BY <1>2, RowsGrow
<1> QED BY <1>1, <1>2, WhoStores DEF Carries

LEMMA SameRequestCarries ==
    ASSUME NEW s, NEW q, NEW m \in DOMAIN rows[s], SameRequest(m, rows[s][m], q)
    PROVE  Carries(s, q) /\ m = q.message
BY DEF SameRequest, Carries

\* The request q of a thread is named: q stays what it is when the thread goes on.
LEMMA StoresCarries ==
    ASSUME TypeOK, NEW t, Stores(t), NEW q, q = thread[t].request
    PROVE  /\ Carries(Serves[t], q)'
           /\ rows'[Serves[t]][q.message].seq = thread[t].seq
           /\ q \in Requests
<1> DEFINE s == Serves[t]
<1>1. rows'[s][q.message] = Row(q, thread[t].seq) /\ q.message \in DOMAIN rows'[s]
    BY RowsGrow
<1>2. /\ rows'[s][q.message].sender = q.sender /\ rows'[s][q.message].recipient = q.recipient
      /\ rows'[s][q.message].content = q.content /\ rows'[s][q.message].op = q.op
      /\ rows'[s][q.message].seq = thread[t].seq
    BY <1>1 DEF Row
<1>3. Carries(s, q)'
    BY <1>1, <1>2 DEF Carries
<1> QED BY <1>2, <1>3 DEF Stores

\* A thread that goes on to store the sender's copy was told so by a thread of
\* the recipient's server that found or stored the message.
LEMMA AnsweredDelivered ==
    ASSUME TypeOK, CallInv, [Next]_vars, NEW t \in Threads, thread' = Answered(t),
           NEW q, q = thread[t].request, Carries(Serves[t], q)',
           \A c \in Threads : Delivered(c)
    PROVE  \A c \in Threads : Delivered(c)'
<1> SUFFICES ASSUME NEW c \in Threads, NEW r, r = thread'[c].request,
                    thread'[c].phase \in {"check", "insert"}, Serves[c] # Home[r.recipient]
             PROVE  Carries(Home[r.recipient], r)'
    BY DEF Delivered
<1>1. c # t
    BY IdleType DEF Answered
<1>2. CASE thread[c].callee = t
    <2>1. Waits(c)
        BY <1>2, HomeAssumption DEF CallInv
    <2>2. thread'[c].request = thread[c].request
        BY <1>1, <1>2 DEF Answered, TypeOK, ThreadStates
    <2>3. r = q /\ Serves[t] = Home[r.recipient]
        BY <1>2, <2>1, <2>2 DEF Waits
    <2> QED BY <2>3
<1>3. CASE thread[c].callee # t
    <2>1. thread'[c] = thread[c]
        BY <1>1, <1>3 DEF Answered
    <2>2. Carries(Home[r.recipient], r)
        BY <2>1 DEF Delivered
    <2>3. Home[r.recipient] \in Servers
        BY <2>1, HomeAssumption, RequestsAssumption DEF TypeOK
    <2> QED BY <2>2, <2>3, CarriesStays
<1> QED BY <1>2, <1>3

\* The other steps start no storing at a sender's server but the local one.
LEMMA OthersDelivered ==
    ASSUME TypeOK, CallInv, [Next]_vars, \A c \in Threads : Delivered(c),
           \A c \in Threads :
               \/ thread'[c].phase \in {"idle", "post"}
               \/ Serves[c] = Home[thread'[c].request.recipient]
               \/ /\ thread'[c].request = thread[c].request
                  /\ thread[c].phase \in {"check", "insert"}
    PROVE  \A c \in Threads : Delivered(c)'
<1> SUFFICES ASSUME NEW c \in Threads, NEW r, r = thread'[c].request,
                    thread'[c].phase \in {"check", "insert"}, Serves[c] # Home[r.recipient]
             PROVE  Carries(Home[r.recipient], r)'
    BY DEF Delivered
<1>1. r = thread[c].request /\ thread[c].phase \in {"check", "insert"}
    OBVIOUS
<1>2. Carries(Home[r.recipient], r)
    BY <1>1 DEF Delivered
<1>3. Home[r.recipient] \in Servers
    BY <1>1, HomeAssumption, RequestsAssumption DEF TypeOK
<1> QED BY <1>2, <1>3, CarriesStays

\* An earlier attempt answers for this one only if it is the same request.
LEMMA EarlierCarries ==
    ASSUME TypeOK, NEW t \in Threads, thread[t].phase = "check", NEW q, q = thread[t].request,
           NEW m \in Earlier(Serves[t], q), SameRequest(m, rows[Serves[t]][m], q)
    PROVE  Carries(Serves[t], q) /\ m = q.message /\ q \in Requests /\ Serves[t] \in Servers
<1>1. m \in DOMAIN rows[Serves[t]]
    BY DEF Earlier, OfOperation
<1>2. q \in Requests /\ Serves[t] \in Servers
    BY HomeAssumption DEF TypeOK
<1> QED BY <1>1, <1>2, SameRequestCarries

LEMMA DeliveredStep ==
    ASSUME TypeOK, CallInv, [Next]_vars, \A c \in Threads : Delivered(c)
    PROVE  \A c \in Threads : Delivered(c)'
<1>1. \A c \in Threads : thread[c].phase \in {"idle", "check", "post", "insert"}
    BY DEF TypeOK, ThreadStates
<1>2. CASE UNCHANGED thread
    BY <1>1, <1>2, OthersDelivered
<1>3. ASSUME NEW t \in Threads, thread' = Failed(t) PROVE \A c \in Threads : Delivered(c)'
    <2>1. \A c \in Threads : thread'[c] = Idle \/ thread'[c] = thread[c]
        BY <1>3 DEF Failed
    <2> QED BY <1>1, <2>1, IdleType, OthersDelivered
<1>4. ASSUME NEW t \in Threads, NEW q \in Requests, Send(t, q) PROVE \A c \in Threads : Delivered(c)'
    <2> DEFINE ph == IF Home[q.recipient] = Home[q.sender] THEN "check" ELSE "post"
    <2>1. thread'[t] = Serving(q, ph) /\ \A c \in Threads \ {t} : thread'[c] = thread[c]
        BY <1>4 DEF Send, TypeOK
    <2>2. thread'[t].request = q /\ thread'[t].phase = ph
        <3> HIDE DEF ph
        <3> QED BY <2>1 DEF Serving
    <2>3. thread'[t].phase = "post" \/ Serves[t] = Home[thread'[t].request.recipient]
        BY <1>4, <2>2 DEF Send
    <2> QED BY <1>1, <2>1, <2>3, OthersDelivered
<1>5. ASSUME NEW t \in Threads, NEW u \in Threads, Post(t, u) PROVE \A c \in Threads : Delivered(c)'
    <2>1. t # u
        BY <1>5, IdleType DEF Post
    <2>2. /\ thread'[u] = Serving(thread[t].request, "check")
          /\ thread'[t].phase = "post"
          /\ \A c \in Threads \ {t, u} : thread'[c] = thread[c]
        BY <1>5, <2>1 DEF Post, TypeOK, ThreadStates
    <2>3. Serves[u] = Home[thread'[u].request.recipient]
        BY <1>5, <2>2 DEF Post, Serving
    <2> QED BY <1>1, <2>2, <2>3, OthersDelivered
<1>6. ASSUME NEW t \in Threads, Check(t) PROVE \A c \in Threads : Delivered(c)'
    <2>1. PICK q : q = thread[t].request
        OBVIOUS
    <2>2. ASSUME NEW m \in Earlier(Serves[t], q), SameRequest(m, rows[Serves[t]][m], q), thread' = Answered(t)
          PROVE  \A c \in Threads : Delivered(c)'
        <3>1. Carries(Serves[t], q) /\ Serves[t] \in Servers
            BY <1>6, <2>1, <2>2, EarlierCarries DEF Check
        <3>2. Carries(Serves[t], q)'
            BY <3>1, CarriesStays
        <3> QED BY <2>1, <2>2, <3>2, AnsweredDelivered
    <2>3. ASSUME thread' = [thread EXCEPT ![t].phase = "insert", ![t].seq = NextSeq(Serves[t])]
          PROVE  \A c \in Threads : Delivered(c)'
        <3>1. \A c \in Threads : thread'[c] = thread[c] \/ (thread'[c].request = thread[c].request /\ thread[c].phase = "check")
            BY <1>6, <2>3 DEF TypeOK, ThreadStates, Check
        <3> QED BY <1>1, <3>1, OthersDelivered
    <2> QED BY <1>3, <1>6, <2>1, <2>2, <2>3 DEF Check
<1>7. ASSUME NEW t \in Threads, Insert(t) PROVE \A c \in Threads : Delivered(c)'
    <2>1. PICK q : q = thread[t].request
        OBVIOUS
    <2>2. CASE Stores(t)
        <3>1. Carries(Serves[t], q)' /\ thread' = Answered(t)
            BY <2>1, <2>2, StoresCarries DEF Stores
        <3> QED BY <2>1, <3>1, AnsweredDelivered
    <2>3. CASE thread' = Failed(t)
        BY <1>3, <2>3
    <2>4. Stores(t) \/ thread' = Failed(t)
        BY <1>7, HomeAssumption DEF Insert, Stores, TypeOK
    <2> QED BY <2>2, <2>3, <2>4
<1>8. ASSUME NEW t \in Threads, Abandon(t) PROVE \A c \in Threads : Delivered(c)'
    BY <1>3, <1>8 DEF Abandon
<1>9. ASSUME NEW t \in Threads, NEW q \in Requests, SendAgain(t, q) PROVE UNCHANGED thread
    BY <1>9 DEF SendAgain
<1>10. CASE Sending
    BY <1>2, <1>4, <1>5, <1>6, <1>7, <1>8, <1>9, <1>10 DEF Sending
<1>11. CASE UNCHANGED vars \/ Reading \/ Following
    BY <1>2, <1>11 DEF vars, Reading, MarkRead, InboxMarkRead, Following, Delta, ThreadAfter
<1> QED BY <1>10, <1>11 DEF Next

LEMMA CopiesStep ==
    ASSUME TypeOK, CallInv, [Next]_vars, \A c \in Threads : Delivered(c), CopiesAgree
    PROVE  CopiesAgree'
<1>1. CASE UNCHANGED rows
    BY <1>1 DEF CopiesAgree
<1>2. ASSUME NEW t \in Threads, Stores(t) PROVE CopiesAgree'
    <2>1. PICK q : q = thread[t].request
        OBVIOUS
    <2> DEFINE s == Serves[t]
    <2>2. /\ q.message \notin DOMAIN rows[s]
          /\ DOMAIN rows'[s] = DOMAIN rows[s] \cup {q.message}
          /\ rows'[s][q.message] = Row(q, thread[t].seq)
          /\ \A m \in DOMAIN rows[s] : rows'[s][m] = rows[s][m]
          /\ \A x \in Servers \ {s} : rows'[x] = rows[x]
        BY <1>2, <2>1, RowsGrow
    <2>3. /\ q \in Requests /\ s \in Servers /\ s \in {Home[q.sender], Home[q.recipient]}
          /\ Home[q.recipient] \in Servers
        BY <1>2, <2>1, HomeAssumption, RequestsAssumption DEF Stores, CallInv, Busy
    <2>4. /\ rows'[s][q.message].sender = q.sender /\ rows'[s][q.message].recipient = q.recipient
          /\ rows'[s][q.message].content = q.content /\ rows'[s][q.message].op = q.op
        BY <2>2 DEF Row
    <2>5. \A z \in Servers : \A m \in DOMAIN rows[z] : m \in DOMAIN rows'[z] /\ rows'[z][m] = rows[z][m]
        BY <2>2
    <2> SUFFICES ASSUME NEW z \in Servers, NEW m \in DOMAIN rows'[z], NEW here, here = rows'[z][m]
                 PROVE  LET there == Home[here.recipient]
                        IN  /\ m \in DOMAIN rows'[there]
                            /\ rows'[there][m].sender = here.sender
                            /\ rows'[there][m].recipient = here.recipient
                            /\ rows'[there][m].content = here.content
                            /\ rows'[there][m].op = here.op
        BY DEF CopiesAgree
    <2>6. CASE z = s /\ m = q.message /\ s = Home[q.recipient]
        BY <2>2, <2>4, <2>6
    <2>7. CASE z = s /\ m = q.message /\ s # Home[q.recipient]
        <3>1. Carries(Home[q.recipient], q)
            BY <1>2, <2>1, <2>7 DEF Stores, Delivered
        <3>2. q.op # NoOp
            BY <2>3, <2>7, RequestsAssumption
        <3>3. /\ m \in DOMAIN rows[Home[q.recipient]]
              /\ rows[Home[q.recipient]][m].sender = q.sender /\ rows[Home[q.recipient]][m].recipient = q.recipient
              /\ rows[Home[q.recipient]][m].content = q.content /\ rows[Home[q.recipient]][m].op = q.op
            BY <2>7, <3>1, <3>2 DEF Carries
        <3> QED BY <2>3, <2>4, <2>5, <2>7, <3>3
    <2>8. CASE z # s \/ m # q.message
        <3>1. m \in DOMAIN rows[z] /\ here = rows[z][m]
            BY <2>2, <2>8
        <3>2. here.recipient \in Users
            BY <3>1 DEF TypeOK, Rows
        <3>3. Home[here.recipient] \in Servers
            BY <3>2, HomeAssumption
        <3> QED BY <2>5, <3>1, <3>3 DEF CopiesAgree
    <2> QED BY <2>6, <2>7, <2>8
<1> QED BY <1>1, <1>2, WhoStores

\* What AcceptedIsStored says of one answer.
Kept(a) ==
    LET q == a.request
    IN  /\ Carries(Home[q.sender], q) /\ Carries(Home[q.recipient], q)
        /\ rows[Home[q.sender]][q.message].seq = a.seq

LEMMA KeptStays ==
    ASSUME TypeOK, CallInv, [Next]_vars, NEW a, a.request \in Requests, Kept(a)
    PROVE  Kept(a)'
<1>1. PICK q : q = a.request
    OBVIOUS
<1>2. Home[q.sender] \in Servers /\ Home[q.recipient] \in Servers
    BY <1>1, HomeAssumption, RequestsAssumption
<1>3. Carries(Home[q.sender], q) /\ Carries(Home[q.recipient], q) /\ rows[Home[q.sender]][q.message].seq = a.seq
    BY <1>1 DEF Kept
<1>4. /\ Carries(Home[q.sender], q)' /\ Carries(Home[q.recipient], q)'
      /\ rows'[Home[q.sender]][q.message] = rows[Home[q.sender]][q.message]
    BY <1>2, <1>3, CarriesStays
<1> QED BY <1>1, <1>3, <1>4 DEF Kept

\* A thread of the sender's server that found or stored the message may answer.
LEMMA ToldKept ==
    ASSUME TypeOK, CallInv, [Next]_vars, NEW t \in Threads, thread[t].phase \in {"check", "insert"},
           Delivered(t), NEW q \in Requests, q = thread[t].request, NEW n,
           Carries(Serves[t], q)', rows'[Serves[t]][q.message].seq = n,
           Serves[t] = Home[q.sender], NEW a, a = [request |-> q, seq |-> n]
    PROVE  Kept(a)'
<1>1. Carries(Home[q.recipient], q)'
    <2>1. CASE Serves[t] = Home[q.recipient]
        BY <2>1
    <2>2. CASE Serves[t] # Home[q.recipient]
        <3>1. Carries(Home[q.recipient], q)
            BY <2>2 DEF Delivered
        <3>2. Home[q.recipient] \in Servers
            BY HomeAssumption, RequestsAssumption
        <3> QED BY <3>1, <3>2, CarriesStays
    <2> QED BY <2>1, <2>2
<1> QED BY <1>1 DEF Kept

LEMMA AcceptedStep ==
    ASSUME TypeOK, CallInv, [Next]_vars, DeliveryInv
    PROVE  AcceptedIsStored'
<1>1. \A a \in accepted : Kept(a) /\ a.request \in Requests
    BY DEF DeliveryInv, AcceptedIsStored, Kept, TypeOK
<1>2. \A a \in accepted : Kept(a)'
    BY <1>1, KeptStays
<1> SUFFICES ASSUME NEW a \in accepted', a \notin accepted PROVE Kept(a)'
    BY <1>2 DEF AcceptedIsStored, Kept
<1>3. ASSUME NEW t \in Threads, NEW q \in Requests, SendAgain(t, q) PROVE Kept(a)'
    <2> DEFINE s == Home[q.sender]
    <2>1. a = [request |-> q, seq |-> rows[s][q.message].seq] /\ UNCHANGED rows
        BY <1>3 DEF SendAgain, store
    <2>2. s \in Servers /\ q.message \in DOMAIN rows[s] /\ q.op # NoOp
        BY <1>3, HomeAssumption, RequestsAssumption DEF SendAgain
    <2>3. Carries(s, q) /\ rows[s][q.message].op = q.op /\ rows[s][q.message].recipient = q.recipient
        BY <1>3, <2>2, SameRequestCarries DEF SendAgain, SameRequest
    <2>4. Carries(Home[q.recipient], q)
        <3>1. /\ rows[s][q.message].sender = q.sender /\ rows[s][q.message].content = q.content
            BY <2>3 DEF Carries
        <3> QED BY <2>2, <2>3, <3>1, ZenonT(40) DEF DeliveryInv, CopiesAgree, Carries
    <2>5. Kept(a)
        BY <2>1, <2>3, <2>4 DEF Kept
    <2> QED BY <2>1, <2>5 DEF Kept, Carries
<1>4. ASSUME NEW t \in Threads, Check(t) PROVE Kept(a)'
    <2>1. PICK q : q = thread[t].request
        OBVIOUS
    <2>2. PICK m \in Earlier(Serves[t], q) :
              SameRequest(m, rows[Serves[t]][m], q) /\ accepted' = Told(t, rows[Serves[t]][m].seq)
        BY <1>4, <2>1 DEF Check
    <2>3. Carries(Serves[t], q) /\ m = q.message /\ q \in Requests /\ Serves[t] \in Servers
        BY <1>4, <2>1, <2>2, EarlierCarries DEF Check
    <2>4. Carries(Serves[t], q)' /\ rows'[Serves[t]][q.message].seq = rows[Serves[t]][m].seq
        BY <2>3, CarriesStays
    <2>5. Serves[t] = Home[q.sender] /\ a = [request |-> q, seq |-> rows[Serves[t]][m].seq]
        BY <2>1, <2>2 DEF Told
    <2>6. PICK n : n = rows[Serves[t]][m].seq
        OBVIOUS
    <2>7. thread[t].phase \in {"check", "insert"} /\ Delivered(t)
        BY <1>4 DEF Check, DeliveryInv
    <2> QED BY <2>1, <2>3, <2>4, <2>5, <2>6, <2>7, ToldKept
<1>5. ASSUME NEW t \in Threads, Stores(t) PROVE Kept(a)'
    <2>1. PICK q : q = thread[t].request
        OBVIOUS
    <2>2. PICK n : n = thread[t].seq
        OBVIOUS
    <2>3. Carries(Serves[t], q)' /\ rows'[Serves[t]][q.message].seq = n /\ q \in Requests
        BY <1>5, <2>1, <2>2, StoresCarries
    <2>4. Serves[t] = Home[q.sender] /\ a = [request |-> q, seq |-> n]
        BY <1>5, <2>1, <2>2 DEF Stores, Told
    <2>5. thread[t].phase \in {"check", "insert"} /\ Delivered(t)
        BY <1>5 DEF Stores, DeliveryInv
    <2> QED BY <2>1, <2>3, <2>4, <2>5, ToldKept
<1>6. ASSUME NEW t \in Threads, Insert(t) PROVE Kept(a)'
    BY <1>5, <1>6, HomeAssumption DEF Insert, Stores, TypeOK
<1>7. CASE Sending
    BY <1>3, <1>4, <1>6, <1>7 DEF Sending, Send, Post, Abandon
<1>8. CASE UNCHANGED vars \/ Reading \/ Following
    BY <1>8 DEF vars, Reading, MarkRead, InboxMarkRead, Following, Delta, ThreadAfter
<1> QED BY <1>7, <1>8 DEF Next

LEMMA DeliveryHolds == Spec => []DeliveryInv
<1>1. Init => DeliveryInv
    <2> HAVE Init
    <2>1. \A t \in Threads : thread[t].phase = "idle"
        BY IdleType DEF Init
    <2>2. \A s \in Servers : DOMAIN rows[s] = {}
        BY DEF Init
    <2>3. accepted = {}
        BY DEF Init
    <2> QED BY <2>1, <2>2, <2>3 DEF DeliveryInv, Delivered, CopiesAgree, AcceptedIsStored
<1>2. TypeOK /\ CallInv /\ DeliveryInv /\ [Next]_vars => DeliveryInv'
    BY DeliveredStep, CopiesStep, AcceptedStep DEF DeliveryInv
<1> QED BY <1>1, <1>2, BaseInv, PTL DEF Spec

\* For any servers, users, threads and requests: whatever calls, answers and
\* threads are lost between two servers, a message for another server is in
\* its sender's history only if the recipient's server has it.
THEOREM SentMessagesDelivered == Spec => []SentIsDelivered
<1>1. DeliveryInv => SentIsDelivered
    BY DEF DeliveryInv, CopiesAgree, SentIsDelivered
<1> QED BY <1>1, DeliveryHolds, PTL

\* For any servers, users, threads and requests: an accepted message is stored
\* at both ends as it was sent, under the sequence number of the answer.
THEOREM AcceptedMessagesStored == Spec => []AcceptedIsStored
<1>1. DeliveryInv => AcceptedIsStored
    BY DEF DeliveryInv
<1> QED BY <1>1, DeliveryHolds, PTL
-----------------------------------------------------------------------------
(* The sync log. *)

\* new is the log old with one more event, e.
OneMore(old, new, e) ==
    /\ DOMAIN new = DOMAIN old \cup {Len(old) + 1}
    /\ new[Len(old) + 1] = e
    /\ \A i \in DOMAIN old : new[i] = old[i] /\ i \in Nat /\ i < Len(old) + 1
    /\ Len(old) + 1 \in Nat /\ Len(new) = Len(old) + 1

LEMMA AppendOneMore ==
    ASSUME NEW old \in Seq(Events), NEW e \in Events
    PROVE  OneMore(old, Append(old, e), e)
<1>1. /\ DOMAIN old = 1..Len(old) /\ Len(old) \in Nat
      /\ DOMAIN Append(old, e) = 1..(Len(old) + 1)
      /\ Len(Append(old, e)) = Len(old) + 1
      /\ Append(old, e)[Len(old) + 1] = e
    OBVIOUS
<1>2. \A i \in 1..Len(old) : Append(old, e)[i] = old[i] /\ i \in Nat /\ i < Len(old) + 1
    BY <1>1
<1>3. 1..(Len(old) + 1) = 1..Len(old) \cup {Len(old) + 1}
    BY <1>1
<1> QED BY <1>1, <1>2, <1>3 DEF OneMore

\* A stored message is announced to its parties of that server, and a read
\* state to its owner; nothing else reaches a log.
LEMMA LogMoves ==
    ASSUME TypeOK, CallInv, [Next]_vars, NEW o \in Users
    PROVE  \/ /\ events'[o] = events[o] /\ marks'[o] = marks[o]
              /\ \/ UNCHANGED rows
                 \/ \E t \in Threads : Stores(t) /\ o \notin Notified(Serves[t], thread[t].request)
           \/ \E t \in Threads :
                  /\ Stores(t) /\ o \in Notified(Serves[t], thread[t].request)
                  /\ marks'[o] = marks[o]
                  /\ OneMore(events[o], events'[o], MessageEvent(thread[t].request.message))
           \/ \E p \in Users :
                  /\ UNCHANGED rows
                  /\ marks'[o][p] \in Marks
                  /\ marks'[o][p].version = marks[o][p].version + 1
                  /\ marks'[o][p].up_to >= marks[o][p].up_to
                  /\ \A x \in Users \ {p} : marks'[o][x] = marks[o][x]
                  /\ OneMore(events[o], events'[o], ReadEvent(p, marks'[o][p]))
<1>1. events[o] \in Seq(Events)
    BY DEF TypeOK
<1>2. ASSUME NEW t \in Threads, Stores(t), o \in Notified(Serves[t], thread[t].request)
      PROVE  /\ marks'[o] = marks[o]
             /\ OneMore(events[o], events'[o], MessageEvent(thread[t].request.message))
    <2>1. MessageEvent(thread[t].request.message) \in Events
        BY <1>2, RequestsAssumption DEF Stores, Events
    <2>2. events'[o] = Append(events[o], MessageEvent(thread[t].request.message)) /\ marks'[o] = marks[o]
        BY <1>2 DEF Stores
    <2> QED BY <1>1, <2>1, <2>2, AppendOneMore
<1>3. ASSUME NEW t \in Threads, Stores(t), o \notin Notified(Serves[t], thread[t].request)
      PROVE  events'[o] = events[o] /\ marks'[o] = marks[o]
    BY <1>3 DEF Stores
<1>4. ASSUME NEW x \in Users, NEW p \in Users, ReadStep(x, p), ~UNCHANGED <<marks, events>>, x = o
      PROVE  /\ UNCHANGED rows
             /\ marks'[o][p] \in Marks
             /\ marks'[o][p].version = marks[o][p].version + 1
             /\ marks'[o][p].up_to >= marks[o][p].up_to
             /\ \A y \in Users \ {p} : marks'[o][y] = marks[o][y]
             /\ OneMore(events[o], events'[o], ReadEvent(p, marks'[o][p]))
    <2> DEFINE new == marks'[o][p]
    <2>1. /\ new \in Marks
          /\ new.version = marks[o][p].version + 1
          /\ new.up_to >= marks[o][p].up_to
          /\ marks' = [marks EXCEPT ![o][p] = new]
          /\ events' = [events EXCEPT ![o] = Append(@, ReadEvent(p, new))]
          /\ UNCHANGED rows
        BY <1>4 DEF ReadStep, MarkMoves
    <2> HIDE DEF new
    <2>2. ReadEvent(p, new) \in Events
        BY <2>1 DEF ReadEvent, Events, Marks
    <2>3. events'[o] = Append(events[o], ReadEvent(p, new))
        BY <2>1 DEF TypeOK
    <2>4. OneMore(events[o], events'[o], ReadEvent(p, new))
        BY <1>1, <2>2, <2>3, AppendOneMore
    <2>5. \A y \in Users \ {p} : marks'[o][y] = marks[o][y]
        BY <2>1 DEF TypeOK
    <2> QED BY <2>1, <2>4, <2>5 DEF new
<1>5. ASSUME NEW x \in Users, NEW p \in Users, ReadStep(x, p), ~UNCHANGED <<marks, events>>, x # o
      PROVE  events'[o] = events[o] /\ marks'[o] = marks[o] /\ UNCHANGED rows
    BY <1>5 DEF ReadStep, MarkMoves, TypeOK
<1>6. CASE \E t \in Threads : Stores(t)
    BY <1>2, <1>3, <1>6
<1>7. CASE UNCHANGED rows /\ UNCHANGED <<marks, events>>
    BY <1>7
<1>8. CASE ~UNCHANGED <<marks, events>> /\ \E x, p \in Users : ReadStep(x, p)
    BY <1>4, <1>5, <1>8
<1> QED BY <1>6, <1>7, <1>8, WhoStores

LEMMA InboxIs ==
    ASSUME TypeOK, NEW o \in Users
    PROVE  Inbox(o) = {m \in DOMAIN rows[Home[o]] : o \in {rows[Home[o]][m].sender, rows[Home[o]][m].recipient}}
<1>1. \A m \in DOMAIN rows[Home[o]] : rows[Home[o]][m].sender \in Users /\ rows[Home[o]][m].recipient \in Users
    BY HomeAssumption DEF TypeOK, Rows
<1> QED BY <1>1 DEF Inbox, Thread

LEMMA InboxMoves ==
    ASSUME TypeOK, TypeOK', NEW t \in Threads, Stores(t), NEW o \in Users,
           NEW q, q = thread[t].request
    PROVE  /\ o \in Notified(Serves[t], q) => Inbox(o)' = Inbox(o) \cup {q.message} /\ q.message \notin Inbox(o)
           /\ o \notin Notified(Serves[t], q) => Inbox(o)' = Inbox(o)
<1> DEFINE s == Serves[t]
           h == Home[o]
<1>1. /\ q.message \notin DOMAIN rows[s]
      /\ DOMAIN rows'[s] = DOMAIN rows[s] \cup {q.message}
      /\ rows'[s][q.message].sender = q.sender /\ rows'[s][q.message].recipient = q.recipient
      /\ \A m \in DOMAIN rows[s] : rows'[s][m] = rows[s][m]
      /\ \A x \in Servers \ {s} : rows'[x] = rows[x]
    <2>1. /\ q.message \notin DOMAIN rows[s]
          /\ DOMAIN rows'[s] = DOMAIN rows[s] \cup {q.message}
          /\ rows'[s][q.message] = Row(q, thread[t].seq)
          /\ \A m \in DOMAIN rows[s] : rows'[s][m] = rows[s][m]
          /\ \A x \in Servers \ {s} : rows'[x] = rows[x]
        BY RowsGrow
    <2> QED BY <2>1 DEF Row
<1>2. h \in Servers
    BY HomeAssumption
<1>3. Inbox(o) = {m \in DOMAIN rows[h] : o \in {rows[h][m].sender, rows[h][m].recipient}}
    BY InboxIs
<1>4. Inbox(o)' = {m \in DOMAIN rows'[h] : o \in {rows'[h][m].sender, rows'[h][m].recipient}}
    <2>1. \A m \in DOMAIN rows'[h] : rows'[h][m].sender \in Users /\ rows'[h][m].recipient \in Users
        BY <1>2 DEF TypeOK, Rows
    <2> QED BY <2>1 DEF Inbox, Thread
<1>5. CASE h # s
    BY <1>1, <1>2, <1>3, <1>4, <1>5 DEF Notified
<1>6. CASE h = s
    <2>1. o \in Notified(s, q) <=> o \in {q.sender, q.recipient}
        BY <1>6 DEF Notified
    <2>2. q.message \notin Inbox(o)
        BY <1>1, <1>3, <1>6
    <2>3. \A m \in DOMAIN rows[s] : m \in Inbox(o)' <=> m \in Inbox(o)
        BY <1>1, <1>3, <1>4, <1>6
    <2>4. q.message \in Inbox(o)' <=> o \in {q.sender, q.recipient}
        BY <1>1, <1>4, <1>6
    <2>5. Inbox(o)' \subseteq DOMAIN rows[s] \cup {q.message} /\ Inbox(o) \subseteq DOMAIN rows[s]
        BY <1>1, <1>3, <1>4, <1>6
    <2> HIDE DEF s, h
    <2>6. CASE o \in {q.sender, q.recipient}
        <3>1. Inbox(o)' = Inbox(o) \cup {q.message}
            BY <2>3, <2>4, <2>5, <2>6
        <3> QED BY <2>1, <2>2, <2>6, <3>1 DEF s
    <2>7. CASE o \notin {q.sender, q.recipient}
        <3>1. Inbox(o)' = Inbox(o)
            BY <2>3, <2>4, <2>5, <2>7
        <3> QED BY <2>1, <2>7, <3>1 DEF s
    <2> QED BY <2>6, <2>7
<1> QED BY <1>5, <1>6

\* What LogAnnouncesThreads says of one log.
Announces(o) ==
    LET told == {i \in DOMAIN events[o] : events[o][i].kind = "message"}
    IN  /\ {events[o][i].message : i \in told} = Inbox(o)
        /\ \A i, j \in told : events[o][i].message = events[o][j].message => i = j

\* What LogCarriesMarks says of one thread; besides, no event is ahead of the
\* stored read state, and a thread without an event was never marked.
Carried(o, p) ==
    LET own == {i \in DOMAIN events[o] : IsRead(events[o][i], p)}
    IN  /\ \A i, j \in own :
               i < j => /\ events[o][i].version < events[o][j].version
                        /\ events[o][i].up_to <= events[o][j].up_to
        /\ \A i \in own : events[o][i].version <= marks[o][p].version /\ events[o][i].up_to <= marks[o][p].up_to
        /\ IF own = {} THEN marks[o][p] = Unmarked
           ELSE \E i \in own : /\ events[o][i].version = marks[o][p].version
                               /\ events[o][i].up_to = marks[o][p].up_to

LogInv ==
    \A o \in Users : Announces(o) /\ \A p \in Users : Carried(o, p)

LEMMA AnnouncesStep ==
    ASSUME TypeOK, TypeOK', CallInv, [Next]_vars, NEW o \in Users, Announces(o)
    PROVE  Announces(o)'
<1>1. CASE events'[o] = events[o] /\ Inbox(o)' = Inbox(o)
    BY <1>1 DEF Announces
<1>2. ASSUME UNCHANGED rows PROVE Inbox(o)' = Inbox(o)
    BY <1>2 DEF Inbox, Thread
<1>3. ASSUME NEW t \in Threads, Stores(t), o \notin Notified(Serves[t], thread[t].request), events'[o] = events[o]
      PROVE  Announces(o)'
    <2>1. PICK q : q = thread[t].request
        OBVIOUS
    <2>2. Inbox(o)' = Inbox(o)
        BY <1>3, <2>1, InboxMoves
    <2> QED BY <1>1, <1>3, <2>2
<1>4. ASSUME NEW t \in Threads, Stores(t), o \in Notified(Serves[t], thread[t].request),
             OneMore(events[o], events'[o], MessageEvent(thread[t].request.message))
      PROVE  Announces(o)'
    <2>1. PICK q : q = thread[t].request
        OBVIOUS
    <2>2. Inbox(o)' = Inbox(o) \cup {q.message} /\ q.message \notin Inbox(o)
        BY <1>4, <2>1, InboxMoves
    <2> DEFINE told == {i \in DOMAIN events[o] : events[o][i].kind = "message"}
               toldN == {i \in DOMAIN events'[o] : events'[o][i].kind = "message"}
               e == Len(events[o]) + 1
    <2>3. MessageEvent(q.message).kind = "message" /\ MessageEvent(q.message).message = q.message
        BY DEF MessageEvent
    <2>4. toldN = told \cup {e} /\ events'[o][e].message = q.message /\ \A i \in told : events'[o][i] = events[o][i]
        BY <1>4, <2>1, <2>3 DEF OneMore
    <2>5. {events[o][i].message : i \in told} = Inbox(o) /\ \A i, j \in told : events[o][i].message = events[o][j].message => i = j
        BY DEF Announces
    <2> HIDE DEF told, e
    <2>6. {events'[o][i].message : i \in toldN} = Inbox(o) \cup {q.message}
        BY <2>4, <2>5
    <2>7. \A i, j \in toldN : events'[o][i].message = events'[o][j].message => i = j
        BY <2>2, <2>4, <2>5
    <2> QED BY <2>2, <2>6, <2>7 DEF Announces
<1>5. ASSUME NEW p \in Users, UNCHANGED rows, OneMore(events[o], events'[o], ReadEvent(p, marks'[o][p]))
      PROVE  Announces(o)'
    <2>1. ReadEvent(p, marks'[o][p]).kind = "read"
        BY DEF ReadEvent
    <2>2. /\ {i \in DOMAIN events'[o] : events'[o][i].kind = "message"} = {i \in DOMAIN events[o] : events[o][i].kind = "message"}
          /\ \A i \in DOMAIN events[o] : events'[o][i] = events[o][i]
        BY <1>5, <2>1 DEF OneMore
    <2> QED BY <1>2, <1>5, <2>2 DEF Announces
<1> QED BY <1>1, <1>2, <1>3, <1>4, <1>5, LogMoves

LEMMA CarriedStep ==
    ASSUME TypeOK, CallInv, [Next]_vars, NEW o \in Users, NEW p \in Users, Carried(o, p)
    PROVE  Carried(o, p)'
<1> DEFINE own == {i \in DOMAIN events[o] : IsRead(events[o][i], p)}
           ownN == {i \in DOMAIN events'[o] : IsRead(events'[o][i], p)}
<1>1. CASE events'[o] = events[o] /\ marks'[o] = marks[o]
    BY <1>1 DEF Carried
<1>2. ASSUME NEW e, OneMore(events[o], events'[o], e), ~IsRead(e, p), marks'[o][p] = marks[o][p]
      PROVE  Carried(o, p)'
    <2>1. ownN = own /\ \A i \in own : events'[o][i] = events[o][i]
        BY <1>2 DEF OneMore
    <2> HIDE DEF own
    <2> QED BY <1>2, <2>1 DEF Carried, own
<1>3. ASSUME marks'[o][p] \in Marks,
             marks'[o][p].version = marks[o][p].version + 1, marks'[o][p].up_to >= marks[o][p].up_to,
             OneMore(events[o], events'[o], ReadEvent(p, marks'[o][p]))
      PROVE  Carried(o, p)'
    <2> DEFINE e == Len(events[o]) + 1
               v == marks'[o][p].version
               w == marks'[o][p].up_to
    <2>1. ReadEvent(p, marks'[o][p]).up_to = w /\ ReadEvent(p, marks'[o][p]).version = v /\ IsRead(ReadEvent(p, marks'[o][p]), p)
        BY DEF ReadEvent, IsRead
    <2>2. /\ ownN = own \cup {e} /\ \A i \in own : events'[o][i] = events[o][i] /\ i < e /\ i \in Nat
          /\ events'[o][e].up_to = w /\ events'[o][e].version = v /\ e \in Nat
        BY <1>3, <2>1 DEF OneMore
    <2>3. \A i \in own : events[o][i].version \in Nat /\ events[o][i].up_to \in Nat
        <3>1. \A i \in DOMAIN events[o] : events[o][i] \in Events
            BY DEF TypeOK
        <3> QED BY <3>1, EventTypes DEF IsRead
    <2>4. marks[o][p].version \in Nat /\ marks[o][p].up_to \in Nat /\ v \in Nat /\ w \in Nat
        BY <1>3 DEF TypeOK, Marks
    <2>5. \A i \in own : events[o][i].version <= marks[o][p].version /\ events[o][i].up_to <= marks[o][p].up_to
        BY DEF Carried
    <2>6. \A i, j \in own : i < j => events[o][i].version < events[o][j].version /\ events[o][i].up_to <= events[o][j].up_to
        BY DEF Carried
    <2>7. v = marks[o][p].version + 1 /\ w >= marks[o][p].up_to
        BY <1>3
    <2> HIDE DEF own, e, v, w
    <2>8. \A i \in own : events[o][i].version < v /\ events[o][i].up_to <= w
        BY <2>3, <2>4, <2>5, <2>7
    <2>9. \A i, j \in ownN : i < j => events'[o][i].version < events'[o][j].version /\ events'[o][i].up_to <= events'[o][j].up_to
        BY <2>2, <2>6, <2>8
    <2>10. \A i \in ownN : events'[o][i].version <= v /\ events'[o][i].up_to <= w
        BY <2>2, <2>3, <2>4, <2>8
    <2>11. e \in ownN /\ events'[o][e].version = v /\ events'[o][e].up_to = w
        BY <2>2
    <2> QED BY <2>9, <2>10, <2>11 DEF Carried, v, w
<1>4. \A m : ~IsRead(MessageEvent(m), p)
    BY DEF MessageEvent, IsRead
<1>5. \A x, mark : x # p => ~IsRead(ReadEvent(x, mark), p)
    BY DEF ReadEvent, IsRead
<1> QED BY <1>1, <1>2, <1>3, <1>4, <1>5, LogMoves

LEMMA LogHolds == Spec => []LogInv
<1>1. Init => LogInv
    <2> HAVE Init
    <2> SUFFICES ASSUME NEW o \in Users PROVE Announces(o) /\ \A p \in Users : Carried(o, p)
        BY DEF LogInv
    <2>1. DOMAIN events[o] = {} /\ DOMAIN rows[Home[o]] = {} /\ \A p \in Users : marks[o][p] = Unmarked
        BY HomeAssumption DEF Init
    <2>2. Inbox(o) = {}
        BY <2>1 DEF Inbox, Thread
    <2> QED BY <2>1, <2>2 DEF Announces, Carried
<1>2. TypeOK /\ TypeOK' /\ CallInv /\ LogInv /\ [Next]_vars => LogInv'
    BY AnnouncesStep, CarriedStep DEF LogInv
<1> QED BY <1>1, <1>2, BaseInv, PTL DEF Spec

\* For any servers, users and schedule of sends: the log of a user announces
\* exactly the messages of its threads, each of them once.
THEOREM MessagesAnnounced == Spec => []LogAnnouncesThreads
<1>1. LogInv => LogAnnouncesThreads
    BY DEF LogInv, Announces, LogAnnouncesThreads
<1> QED BY <1>1, LogHolds, PTL

\* For any interleaving of the two handlers that move a watermark: the log
\* tells every move in order, and last the stored read state.
THEOREM ReadStatesLogged == Spec => []LogCarriesMarks
<1>1. LogInv => LogCarriesMarks
    <2> SUFFICES ASSUME LogInv, NEW o \in Users, NEW p \in Users, Carried(o, p)
                 PROVE  LET own == {i \in DOMAIN events[o] : IsRead(events[o][i], p)}
                        IN  /\ \A i, j \in own :
                                   i < j => /\ events[o][i].version < events[o][j].version
                                            /\ events[o][i].up_to <= events[o][j].up_to
                            /\ IF own = {} THEN marks[o][p].version = 0
                               ELSE \E i \in own : /\ events[o][i].version = marks[o][p].version
                                                   /\ events[o][i].up_to = marks[o][p].up_to
        BY DEF LogInv, LogCarriesMarks
    <2>1. Unmarked.version = 0
        BY DEF Unmarked
    <2> QED BY <2>1 DEF Carried
<1> QED BY <1>1, LogHolds, PTL

\* Both together: for any schedule the sync log tells all that a device has to
\* know, messages and read states, and nothing that is not so.
THEOREM LogIsTrue == Spec => []LogTellsAll
<1>1. LogAnnouncesThreads /\ LogCarriesMarks => LogTellsAll
    BY DEF LogTellsAll
<1> QED BY <1>1, MessagesAnnounced, ReadStatesLogged, PTL
-----------------------------------------------------------------------------
(* A device that follows sync.delta. *)

\* A device holds what the events up to its cursor told.
Follows(o) ==
    LET seen == 1..device[o].cursor
    IN  /\ device[o].known = {events[o][i].message : i \in {j \in seen : events[o][j].kind = "message"}}
        /\ \A p \in Users :
               \/ /\ \A i \in seen : ~IsRead(events[o][i], p)
                  /\ device[o].marks[p] = Unmarked
               \/ \E i \in seen : HeldFrom(events[o], seen, i, p, device[o].marks[p])

LEMMA FollowsLog ==
    ASSUME TypeOK, NEW o \in Users, Follows(o), device'[o] = device[o],
           \A i \in DOMAIN events[o] : events'[o][i] = events[o][i]
    PROVE  Follows(o)'
<1> DEFINE seen == 1..device[o].cursor
<1>1. seen \subseteq DOMAIN events[o]
    <2>1. events[o] \in Seq(Events) /\ device[o].cursor \in Nat /\ device[o].cursor <= Len(events[o])
        BY DEF TypeOK, Devices
    <2> QED BY <2>1
<1>2. \A i \in seen : events'[o][i] = events[o][i]
    BY <1>1
<1>3. 1..device'[o].cursor = seen
    OBVIOUS
<1>4. device[o].known = {events'[o][i].message : i \in {j \in seen : events'[o][j].kind = "message"}}
    <2>1. device[o].known = {events[o][i].message : i \in {j \in seen : events[o][j].kind = "message"}}
        BY DEF Follows
    <2> HIDE DEF seen
    <2> QED BY <1>2, <2>1
<1>5. ASSUME NEW p \in Users
      PROVE  \/ /\ \A i \in seen : ~IsRead(events'[o][i], p)
                /\ device[o].marks[p] = Unmarked
             \/ \E i \in seen : HeldFrom(events'[o], seen, i, p, device[o].marks[p])
    <2>1. \/ /\ \A i \in seen : ~IsRead(events[o][i], p)
             /\ device[o].marks[p] = Unmarked
          \/ \E i \in seen : HeldFrom(events[o], seen, i, p, device[o].marks[p])
        BY DEF Follows
    <2>2. \A i \in seen : HeldFrom(events[o], seen, i, p, device[o].marks[p]) => HeldFrom(events'[o], seen, i, p, device[o].marks[p])
        <3> HIDE DEF seen
        <3> QED BY <1>2 DEF HeldFrom
    <2> HIDE DEF seen
    <2> QED BY <1>2, <2>1, <2>2
<1> HIDE DEF seen
<1> QED BY <1>3, <1>4, <1>5 DEF Follows

LEMMA FollowsDelta ==
    ASSUME TypeOK, NEW o \in Users, Follows(o), Delta(o)
    PROVE  Follows(o)'
<1> DEFINE log == events[o]
           at == device[o].cursor
           scanned == Scanned(log, at)
           next == NextCursor(log, at)
           seen == 1..at
<1>1. log \in Seq(Events) /\ at \in Nat /\ at <= Len(log) /\ Len(log) \in Nat /\ DOMAIN log = 1..Len(log)
    BY DEF TypeOK, Devices
<1>2. /\ next \in Nat /\ at <= next
      /\ 1..next = seen \cup scanned /\ \A i \in seen : \A j \in scanned : i <= j
    <2>1. PageLimit \in Nat /\ PageLimit > 0
        BY ClientsAssumption
    <2>2. next \in Nat /\ at <= next
        BY <1>1, <2>1 DEF NextCursor
    <2>3. scanned = {i \in 1..Len(log) : at < i /\ i <= at + PageLimit}
        BY <1>1 DEF Scanned
    <2>4. \A i \in Nat : i \in 1..next <=> i \in seen \/ i \in scanned
        BY <1>1, <2>1, <2>3 DEF NextCursor
    <2>5. scanned \subseteq Nat /\ seen \subseteq Nat /\ 1..next \subseteq Nat
        BY <1>1, <2>2, <2>3
    <2>6. 1..next = seen \cup scanned
        BY <2>4, <2>5
    <2>7. \A i \in seen : \A j \in scanned : i <= j
        BY <1>1, <2>3
    <2> QED BY <2>2, <2>6, <2>7
<1>3. /\ device'[o].cursor = next
      /\ device'[o].known = device[o].known \cup {log[i].message : i \in {j \in scanned : log[j].kind = "message"}}
      /\ \A p \in Users : device'[o].marks[p] = Reduced(device[o].marks[p], log, scanned, p)
      /\ events'[o] = log
    BY DEF Delta, TypeOK, Devices, store
<1>4. device'[o].known = {log[i].message : i \in {j \in 1..next : log[j].kind = "message"}}
    <2>1. device[o].known = {log[i].message : i \in {j \in seen : log[j].kind = "message"}}
        BY DEF Follows
    <2> HIDE DEF log, scanned, next, seen
    <2> QED BY <1>2, <1>3, <2>1
<1>5. ASSUME NEW p \in Users
      PROVE  \/ /\ \A i \in 1..next : ~IsRead(log[i], p)
                /\ device'[o].marks[p] = Unmarked
             \/ \E i \in 1..next : HeldFrom(log, 1..next, i, p, device'[o].marks[p])
    <2> DEFINE held == device[o].marks[p]
               mark == device'[o].marks[p]
    <2>1. \/ /\ \A i \in scanned : ~IsRead(log[i], p)
             /\ mark = held
          \/ \E i \in scanned : HeldFrom(log, scanned, i, p, mark)
        <3>1. scanned \subseteq DOMAIN log
            BY DEF Scanned
        <3>2. mark = Reduced(held, log, scanned, p)
            BY <1>3
        <3> HIDE DEF log, scanned, held, mark
        <3> QED BY <1>1, <3>1, <3>2, ReducedIsLast
    <2>2. \/ /\ \A i \in seen : ~IsRead(log[i], p)
             /\ held = Unmarked
          \/ \E i \in seen : HeldFrom(log, seen, i, p, held)
        BY DEF Follows
    <2> HIDE DEF log, scanned, next, seen, held, mark
    <2>3. CASE \E i \in scanned : HeldFrom(log, scanned, i, p, mark)
        <3>1. PICK i \in scanned : HeldFrom(log, scanned, i, p, mark)
            BY <2>3
        <3>2. HeldFrom(log, 1..next, i, p, mark) /\ i \in 1..next
            BY <1>2, <3>1 DEF HeldFrom
        <3> QED BY <3>2 DEF mark
    <2>4. CASE (\A i \in scanned : ~IsRead(log[i], p)) /\ mark = held
        BY <1>2, <2>2, <2>4 DEF HeldFrom, mark
    <2> QED BY <2>1, <2>3, <2>4
<1> HIDE DEF log, next
<1> QED BY <1>3, <1>4, <1>5, ZenonT(40) DEF Follows

LEMMA FollowsStep ==
    ASSUME TypeOK, CallInv, [Next]_vars, NEW o \in Users, Follows(o)
    PROVE  Follows(o)'
<1>1. CASE device'[o] = device[o]
    <2>1. \A i \in DOMAIN events[o] : events'[o][i] = events[o][i]
        BY LogMoves DEF OneMore
    <2> QED BY <1>1, <2>1, FollowsLog
<1>2. CASE Delta(o)
    BY <1>2, FollowsDelta
<1>3. ASSUME NEW x \in Followers, Delta(x), x # o PROVE device'[o] = device[o]
    BY <1>3 DEF Delta, TypeOK
<1>4. CASE Following
    BY <1>1, <1>2, <1>3, <1>4 DEF Following, ThreadAfter
<1>5. CASE UNCHANGED device
    BY <1>1, <1>5
<1>6. CASE Sending
    BY <1>5, <1>6 DEF Sending, Send, SendAgain, Post, Check, Insert, Abandon
<1>7. CASE Reading \/ UNCHANGED vars
    BY <1>5, <1>7 DEF Reading, MarkRead, InboxMarkRead, vars
<1> QED BY <1>4, <1>6, <1>7 DEF Next

LEMMA FollowersHold == Spec => [](\A o \in Users : Follows(o))
<1>1. Init => \A o \in Users : Follows(o)
    <2> SUFFICES ASSUME Init, NEW o \in Users PROVE Follows(o)
        OBVIOUS
    <2>1. device[o].cursor = 0 /\ device[o].known = {} /\ \A p \in Users : device[o].marks[p] = Unmarked
        BY DEF Init
    <2>2. 1..0 = {}
        OBVIOUS
    <2> QED BY <2>1, <2>2 DEF Follows
<1>2. TypeOK /\ CallInv /\ (\A o \in Users : Follows(o)) /\ [Next]_vars => (\A o \in Users : Follows(o))'
    BY FollowsStep
<1> QED BY <1>1, <1>2, BaseInv, PTL DEF Spec

\* For any page size and any commits between the pages: a device whose cursor
\* has reached the end of the log misses no message and no read state.
THEOREM FollowersComplete == Spec => []DeltaComplete
<1>1. TypeOK /\ LogInv /\ (\A o \in Users : Follows(o)) => DeltaComplete
    <2> SUFFICES ASSUME TypeOK, LogInv, NEW o \in Users, Follows(o), device[o].cursor = Len(events[o])
                 PROVE  /\ device[o].known = Inbox(o)
                        /\ \A p \in Users : /\ device[o].marks[p].up_to = marks[o][p].up_to
                                            /\ device[o].marks[p].version = marks[o][p].version
        BY DEF DeltaComplete
    <2>1. DOMAIN events[o] = 1..device[o].cursor /\ events[o] \in Seq(Events) /\ DOMAIN events[o] \subseteq Nat
        BY DEF TypeOK
    <2>2. device[o].known = Inbox(o)
        BY <2>1 DEF LogInv, Announces, Follows
    <2>3. ASSUME NEW p \in Users PROVE device[o].marks[p].up_to = marks[o][p].up_to /\ device[o].marks[p].version = marks[o][p].version
        <3> DEFINE own == {i \in DOMAIN events[o] : IsRead(events[o][i], p)}
        <3>1. CASE own = {}
            BY <2>1, <3>1 DEF LogInv, Carried, Follows, HeldFrom
        <3>2. CASE own # {}
            <4>1. PICK i \in own : events[o][i].version = marks[o][p].version /\ events[o][i].up_to = marks[o][p].up_to
                BY <3>2 DEF LogInv, Carried
            <4>2. PICK k \in DOMAIN events[o] : HeldFrom(events[o], DOMAIN events[o], k, p, device[o].marks[p])
                BY <2>1, <3>2 DEF Follows
            <4>3. k \in own /\ i <= k
                BY <4>1, <4>2 DEF HeldFrom
            <4>4. i = k
                <5>1. events[o][i].version \in Nat /\ events[o][k].version \in Nat
                    <6>1. events[o][i] \in Events /\ events[o][k] \in Events
                        BY <2>1, <4>3
                    <6> QED BY <4>1, <4>3, <6>1, EventTypes DEF IsRead
                <5>2. events[o][k].version <= marks[o][p].version
                    BY <4>3 DEF LogInv, Carried
                <5>3. i < k => events[o][i].version < events[o][k].version
                    BY <4>1, <4>3 DEF LogInv, Carried
                <5>4. i \in Nat /\ k \in Nat
                    BY <2>1
                <5> QED BY <4>1, <4>3, <5>1, <5>2, <5>3, <5>4
            <4> QED BY <4>1, <4>2, <4>4 DEF HeldFrom
        <3> QED BY <3>1, <3>2
    <2> QED BY <2>2, <2>3
<1> QED BY <1>1, BaseInv, LogHolds, FollowersHold, PTL
-----------------------------------------------------------------------------
(* Pages of a thread on a server that handles one request at a time.       *)

Serial(s) == \A t, u \in Threads : Serves[t] = s /\ Serves[u] = s => t = u

\* Numbers are used once, and the one a thread is about to use is above them.
Ordered(s) ==
    /\ \A m, x \in DOMAIN rows[s] : rows[s][m].seq = rows[s][x].seq => m = x
    /\ \A t \in Threads : Serves[t] = s /\ thread[t].phase = "insert" =>
           thread[t].seq > 0 /\ \A m \in DOMAIN rows[s] : rows[s][m].seq < thread[t].seq

\* A reader is at a message, or at none, and has all of its thread up to there.
Paged(o, p) ==
    /\ \A m \in Thread(o, p) : SeqOf(o, m) <= reader[o][p].after => m \in reader[o][p].known
    /\ reader[o][p].after = 0 \/ \E m \in DOMAIN rows[Home[o]] : SeqOf(o, m) = reader[o][p].after

SerialInv ==
    /\ \A s \in Servers : Serial(s) => Ordered(s)
    /\ \A o, p \in Users : Serial(Home[o]) => Paged(o, p)

\* A thread comes to its insert with the number it read, or is there already.
LEMMA InsertsNext ==
    ASSUME TypeOK, CallInv, [Next]_vars, NEW c \in Threads, thread'[c].phase = "insert"
    PROVE  thread'[c] = thread[c] \/ (UNCHANGED rows /\ thread'[c].seq = NextSeq(Serves[c]))
<1>1. \A q, ph : Serving(q, ph).phase = ph
    BY DEF Serving
<1>2. Idle.phase = "idle" /\ \A d \in Threads : thread[d] \in ThreadStates
    BY IdleType DEF TypeOK
<1>3. \A d \in Threads : [thread[d] EXCEPT !.phase = "check", !.callee = NoThread].phase = "check"
    BY <1>2 DEF ThreadStates
<1>4. ASSUME NEW t \in Threads, thread' \in {Answered(t), Failed(t)} PROVE thread'[c] = thread[c]
    BY <1>2, <1>3, <1>4 DEF Answered, Failed
<1>5. ASSUME NEW t \in Threads, NEW q \in Requests, Send(t, q) PROVE thread'[c] = thread[c]
    BY <1>1, <1>5 DEF Send, TypeOK
<1>6. ASSUME NEW t \in Threads, NEW u \in Threads, Post(t, u) PROVE thread'[c] = thread[c]
    <2> DEFINE new == Serving(thread[t].request, "check")
    <2>1. new.phase = "check" /\ thread[t].phase = "post" /\ thread[u].phase = "idle" /\ t # u
        BY <1>1, <1>2, <1>6 DEF Post
    <2>2. thread' = [thread EXCEPT ![t].callee = u, ![u] = new]
        BY <1>6 DEF Post
    <2> HIDE DEF new
    <2>3. thread'[u] = new /\ \A d \in Threads : d # t /\ d # u => thread'[d] = thread[d]
        BY <2>2 DEF TypeOK
    <2>4. thread'[t].phase = "post"
        <3>1. thread'[t] = [thread[t] EXCEPT !.callee = u]
            BY <2>1, <2>2 DEF TypeOK
        <3>2. [thread[t] EXCEPT !.callee = u].phase = thread[t].phase
            BY <1>2 DEF ThreadStates
        <3> QED BY <2>1, <3>1, <3>2
    <2> QED BY <2>1, <2>3, <2>4
<1>7. ASSUME NEW t \in Threads, Check(t) PROVE thread'[c] = thread[c] \/ (UNCHANGED rows /\ thread'[c].seq = NextSeq(Serves[c]))
    <2>1. CASE thread' \in {Answered(t), Failed(t)}
        BY <1>4, <2>1
    <2>2. CASE thread' = [thread EXCEPT ![t].phase = "insert", ![t].seq = NextSeq(Serves[t])]
        <3>1. UNCHANGED rows
            BY <1>7 DEF Check, store
        <3>2. CASE c # t
            BY <2>2, <3>2 DEF TypeOK
        <3>3. CASE c = t
            <4> PICK n : n = NextSeq(Serves[t])
                OBVIOUS
            <4>1. thread'[t] = [thread[t] EXCEPT !.phase = "insert", !.seq = n]
                BY <2>2 DEF TypeOK
            <4>2. [thread[t] EXCEPT !.phase = "insert", !.seq = n].seq = n
                BY <1>2 DEF ThreadStates
            <4> QED BY <3>1, <3>3, <4>1, <4>2
        <3> QED BY <3>2, <3>3
    <2> QED BY <1>7, <2>1, <2>2 DEF Check
<1>8. ASSUME NEW t \in Threads, Insert(t) \/ Abandon(t) PROVE thread'[c] = thread[c]
    BY <1>4, <1>8 DEF Insert, Abandon
<1>9. CASE Sending
    BY <1>5, <1>6, <1>7, <1>8, <1>9 DEF Sending, SendAgain
<1>10. CASE Reading \/ Following \/ UNCHANGED vars
    BY <1>10 DEF Reading, MarkRead, InboxMarkRead, Following, Delta, ThreadAfter, vars
<1> QED BY <1>9, <1>10 DEF Next

\* Server z stores message x with number n.
Adds(z, n, x) ==
    /\ x \notin DOMAIN rows[z] /\ DOMAIN rows'[z] = DOMAIN rows[z] \cup {x}
    /\ rows'[z][x].seq = n
    /\ \A m \in DOMAIN rows[z] : rows'[z][m] = rows[z][m]
    /\ \A y \in Servers \ {z} : rows'[y] = rows[y]

LEMMA StoresAdds ==
    ASSUME TypeOK, NEW t, Stores(t)
    PROVE  Adds(Serves[t], thread[t].seq, thread[t].request.message)
<1> DEFINE q == thread[t].request
           s == Serves[t]
<1>1. /\ q.message \notin DOMAIN rows[s]
      /\ DOMAIN rows'[s] = DOMAIN rows[s] \cup {q.message}
      /\ rows'[s][q.message] = Row(q, thread[t].seq)
      /\ \A m \in DOMAIN rows[s] : rows'[s][m] = rows[s][m]
      /\ \A y \in Servers \ {s} : rows'[y] = rows[y]
    BY RowsGrow
<1>2. rows'[s][q.message].seq = thread[t].seq
    BY <1>1 DEF Row
<1> QED BY <1>1, <1>2 DEF Adds

LEMMA OrderedStep ==
    ASSUME TypeOK, CallInv, [Next]_vars, NEW s \in Servers, Serial(s), Ordered(s)
    PROVE  Ordered(s)'
<1>1. CASE UNCHANGED rows
    <2> SUFFICES ASSUME NEW t \in Threads, Serves[t] = s, thread'[t].phase = "insert"
                 PROVE  thread'[t].seq > 0 /\ \A m \in DOMAIN rows[s] : rows[s][m].seq < thread'[t].seq
        BY <1>1 DEF Ordered
    <2>1. CASE thread'[t] = thread[t]
        BY <2>1 DEF Ordered
    <2>2. CASE thread'[t].seq = NextSeq(s)
        BY <2>2, NextSeqAbove
    <2> QED BY <2>1, <2>2, InsertsNext
<1>2. ASSUME NEW t \in Threads, Stores(t) PROVE Ordered(s)'
    <2> PICK z, n, x : z = Serves[t] /\ n = thread[t].seq /\ x = thread[t].request.message
        OBVIOUS
    <2>0. Adds(z, n, x)
        BY <1>2, StoresAdds
    <2>1. /\ x \notin DOMAIN rows[z] /\ DOMAIN rows'[z] = DOMAIN rows[z] \cup {x}
          /\ rows'[z][x].seq = n
          /\ \A m \in DOMAIN rows[z] : rows'[z][m] = rows[z][m]
          /\ \A y \in Servers \ {z} : rows'[y] = rows[y]
        BY <2>0 DEF Adds
    <2>2. thread[t].phase = "insert" /\ thread' = Answered(t) /\ z \in Servers
        BY <1>2 DEF Stores
    <2>3. ASSUME NEW c \in Threads, thread'[c].phase = "insert" PROVE thread'[c] = thread[c] /\ c # t
        <3>1. thread'[t].phase = "idle"
            BY <2>2, IdleType DEF Answered
        <3>2. rows' # rows
            BY <2>1
        <3> QED BY <2>3, <3>1, <3>2, InsertsNext
    <2>4. CASE z # s
        BY <2>1, <2>3, <2>4 DEF Ordered
    <2>5. CASE z = s
        <3>1. \A c \in Threads : Serves[c] = s => thread'[c].phase # "insert"
            BY <2>3, <2>5 DEF Serial
        <3>2. \A m \in DOMAIN rows[s] : rows[s][m].seq < n
            BY <2>2, <2>5 DEF Ordered
        <3>3. n \in Nat /\ \A m \in DOMAIN rows[s] : rows[s][m].seq \in Nat
            BY DEF TypeOK, ThreadStates, Rows
        <3>4. \A m \in DOMAIN rows[s] : rows[s][m].seq # n
            BY <3>2, <3>3
        <3>5. \A m, y \in DOMAIN rows'[s] : rows'[s][m].seq = rows'[s][y].seq => m = y
            BY <2>1, <2>5, <3>4 DEF Ordered
        <3> QED BY <3>1, <3>5 DEF Ordered
    <2> QED BY <2>4, <2>5
<1> QED BY <1>1, <1>2, WhoStores

LEMMA PagedStep ==
    ASSUME TypeOK, CallInv, [Next]_vars, NEW o \in Users, NEW p \in Users,
           Serial(Home[o]), Ordered(Home[o]), Paged(o, p)
    PROVE  Paged(o, p)'
<1> PICK s, table, r : s = Home[o] /\ table = rows[Home[o]] /\ r = reader[o][p]
    OBVIOUS
<1>0. /\ s \in Servers /\ r.after \in Nat
      /\ \A m \in DOMAIN table : table[m].seq \in Nat
    BY HomeAssumption DEF TypeOK, Rows
<1>1. CASE UNCHANGED <<rows, reader>>
    BY <1>1 DEF Paged, Thread, SeqOf
<1>2. ASSUME NEW t \in Threads, Stores(t) PROVE Paged(o, p)'
    <2> PICK z, n, x : z = Serves[t] /\ n = thread[t].seq /\ x = thread[t].request.message
        OBVIOUS
    <2>0. Adds(z, n, x)
        BY <1>2, StoresAdds
    <2>1. /\ x \notin DOMAIN rows[z] /\ DOMAIN rows'[z] = DOMAIN rows[z] \cup {x}
          /\ rows'[z][x].seq = n
          /\ \A m \in DOMAIN rows[z] : rows'[z][m] = rows[z][m]
          /\ \A y \in Servers \ {z} : rows'[y] = rows[y]
        BY <2>0 DEF Adds
    <2>2. thread[t].phase = "insert" /\ reader' = reader /\ z \in Servers
        BY <1>2 DEF Stores
    <2>3. CASE z # s
        <3>1. rows'[Home[o]] = rows[Home[o]]
            BY <1>0, <2>1, <2>3
        <3> QED BY <2>2, <3>1 DEF Paged, Thread, SeqOf
    <2>4. CASE z = s
        <3>1. n > 0 /\ n \in Nat /\ \A m \in DOMAIN table : table[m].seq < n
            BY <2>2, <2>4 DEF Ordered, TypeOK, ThreadStates
        <3>2. r.after < n
            BY <1>0, <3>1 DEF Paged, SeqOf
        <3>3. \A m \in Thread(o, p)' : m = x \/ m \in Thread(o, p)
            BY <2>1, <2>4 DEF Thread
        <3>4. ~(n <= r.after)
            BY <1>0, <3>1, <3>2
        <3>5. \A m \in DOMAIN table : rows'[Home[o]][m].seq = table[m].seq
            BY <2>1, <2>4
        <3>6. \A m \in Thread(o, p)' : SeqOf(o, m)' <= r.after => m \in r.known
            <4> SUFFICES ASSUME NEW m \in Thread(o, p)', SeqOf(o, m)' <= r.after PROVE m \in r.known
                OBVIOUS
            <4>1. m # x
                BY <2>1, <2>4, <3>4 DEF SeqOf
            <4>2. m \in Thread(o, p) /\ m \in DOMAIN table
                BY <3>3, <4>1 DEF Thread
            <4> QED BY <3>5, <4>2 DEF Paged, SeqOf
        <3>7. r.after = 0 \/ \E m \in DOMAIN rows'[Home[o]] : SeqOf(o, m)' = r.after
            BY <2>1, <2>4, <3>5 DEF Paged, SeqOf
        <3> QED BY <2>2, <3>6, <3>7 DEF Paged
    <2> QED BY <2>3, <2>4
<1>3. ASSUME NEW a \in Users, NEW b \in Users, ThreadAfter(a, b) PROVE Paged(o, p)'
    <2>0. UNCHANGED rows
        BY <1>3 DEF ThreadAfter, store
    <2>1. CASE <<a, b>> # <<o, p>>
        <3>1. reader'[o][p] = reader[o][p]
            BY <1>3, <2>1 DEF ThreadAfter, TypeOK
        <3> QED BY <2>0, <3>1 DEF Paged, Thread, SeqOf
    <2>2. CASE a = o /\ b = p
        <3>0. PICK page \in SUBSET Thread(o, p) \ {{}} : \E last \in page :
                /\ Page(o, p, r.after, page)
                /\ \A m \in page : SeqOf(o, m) <= SeqOf(o, last)
                /\ reader' = [reader EXCEPT ![o][p] = [after |-> SeqOf(o, last), known |-> @.known \cup page]]
            BY <1>3, <2>2 DEF ThreadAfter
        <3>1. PICK last \in page :
                /\ Page(o, p, r.after, page)
                /\ \A m \in page : SeqOf(o, m) <= SeqOf(o, last)
                /\ reader' = [reader EXCEPT ![o][p] = [after |-> SeqOf(o, last), known |-> @.known \cup page]]
            BY <3>0
        <3>2. reader'[o][p] = [after |-> SeqOf(o, last), known |-> r.known \cup page]
            BY <3>1 DEF TypeOK
        <3>3. Thread(o, p) \subseteq DOMAIN table
            BY DEF Thread
        <3>4. ASSUME NEW m \in Thread(o, p), SeqOf(o, m) <= SeqOf(o, last) PROVE m \in r.known \cup page
            <4>1. CASE SeqOf(o, m) <= r.after
                BY <4>1 DEF Paged
            <4>2. CASE ~(SeqOf(o, m) <= r.after) /\ m \notin page
                <5>1. SeqOf(o, m) \in Nat /\ SeqOf(o, last) \in Nat
                    BY <1>0, <3>1, <3>3 DEF SeqOf
                <5>2. SeqOf(o, m) > r.after
                    BY <1>0, <4>2, <5>1
                <5>3. SeqOf(o, last) <= SeqOf(o, m)
                    BY <3>1, <4>2, <5>2 DEF Page
                <5>4. SeqOf(o, m) = SeqOf(o, last)
                    BY <3>4, <5>1, <5>3
                <5>5. m = last
                    BY <3>1, <3>3, <5>4 DEF Ordered, SeqOf
                <5> QED BY <3>1, <4>2, <5>5
            <4> QED BY <4>1, <4>2
        <3>5. last \in DOMAIN rows[Home[o]]
            BY <3>1, <3>3
        <3> QED BY <2>0, <3>2, <3>4, <3>5 DEF Paged, Thread, SeqOf
    <2> QED BY <2>1, <2>2
<1>4. CASE Following
    <2>1. \A q \in Pagers : q[1] \in Users /\ q[2] \in Users
        BY ClientsAssumption
    <2> QED BY <1>1, <1>3, <1>4, <2>1 DEF Following, Delta, store
<1>5. CASE Reading \/ UNCHANGED vars
    BY <1>1, <1>5 DEF Reading, MarkRead, InboxMarkRead, vars, store
<1>6. CASE Sending
    <2>1. UNCHANGED reader
        BY <1>6 DEF Sending, Send, SendAgain, Post, Check, Insert, Abandon
    <2> QED BY <1>1, <1>2, <2>1, WhoStores
<1> QED BY <1>4, <1>5, <1>6 DEF Next

LEMMA SerialHolds == Spec => []SerialInv
<1>1. Init => SerialInv
    <2> SUFFICES ASSUME Init PROVE SerialInv
        OBVIOUS
    <2>1. \A s \in Servers : DOMAIN rows[s] = {}
        BY DEF Init
    <2>2. \A t \in Threads : thread[t].phase = "idle"
        BY IdleType DEF Init
    <2>3. \A o, p \in Users : reader[o][p].after = 0 /\ Home[o] \in Servers
        BY HomeAssumption DEF Init
    <2> QED BY <2>1, <2>2, <2>3 DEF SerialInv, Ordered, Paged, Thread
<1>2. TypeOK /\ CallInv /\ SerialInv /\ [Next]_vars => SerialInv'
    <2> SUFFICES ASSUME TypeOK, CallInv, SerialInv, [Next]_vars PROVE SerialInv'
        OBVIOUS
    <2>1. \A s \in Servers : Serial(s) => Ordered(s)'
        BY OrderedStep DEF SerialInv
    <2>2. \A o, p \in Users : Serial(Home[o]) => Paged(o, p)'
        BY PagedStep, HomeAssumption DEF SerialInv
    <2> QED BY <2>1, <2>2 DEF SerialInv, Serial
<1> QED BY <1>1, <1>2, BaseInv, PTL DEF Spec

\* For any page size and any messages that arrive between the pages: where a
\* server handles one request at a time, a client that follows
\* sync.thread_after misses no message of the thread.
THEOREM SerialPagesComplete == Spec => []PagesCompleteSerial
<1>1. SerialInv => PagesCompleteSerial
    BY DEF SerialInv, Serial, Paged, PagesCompleteSerial, MissedPages
<1> QED BY <1>1, SerialHolds, PTL
=============================================================================
