------------------------- MODULE Attachments_proofs -------------------------
(***************************************************************************)
(* Proofs about Attachments: its safety properties hold for any number of  *)
(* slots, threads, users and contents.                                     *)
(***************************************************************************)
EXTENDS Attachments, TLAPS

Statuses == {"none", "open", "uploaded", "committed", "aborted", "gone"}

LoopPhases == {"idle", "write", "mark"}

CommitPhases == {"read", "move", "store"}

ThreadPhases == CommitPhases \cup {"idle", "unlink", "abort", "sweep", "delete"}

Content == Bytes \cup {NoBytes}

Job == [phase : LoopPhases \cup ThreadPhases, slot : Slots \cup {NoSlot}, bytes : Content]

\* Rows, files and jobs have their types; a job that is under way has its
\* slot, which has been created, and from the check on its bytes.
TypeInv ==
    /\ status \in [Slots -> Statuses]
    /\ declared \in [Slots -> Content]
    /\ upload \in [Slots -> Content]
    /\ final \in [Slots -> Content]
    /\ object \in [Slots -> Content]
    /\ tickets \subseteq Slots \X Users
    /\ answered \subseteq Slots \X Bytes
    /\ worker \in [Workers -> Job]
    /\ worker[Loop].phase \in LoopPhases
    /\ \A t \in Threads : worker[t].phase \in ThreadPhases
    /\ \A w \in Workers : worker[w].phase # "idle" =>
            worker[w].slot \in Slots /\ status[worker[w].slot] # "none"
    /\ \A w \in Workers : worker[w].phase \in {"write", "mark", "move", "store"} => worker[w].bytes \in Bytes

\* The steps, one by one.
SlotStep(s) ==
    \/ \E digest \in Content : CreateSlot(s, digest)
    \/ Expire(s)
    \/ \E b \in Bytes : UploadCheck(s, b)
    \/ \E t \in Threads : CommitCheck(t, s) \/ AbortCheck(t, s) \/ CleanSelect(t, s)
    \/ Post(s)
    \/ \E u \in Users : Share(s, u) \/ Ticket(s, u)

ThreadStep(t) ==
    \/ CommitRead(t) \/ CommitMove(t) \/ CommitStore(t)
    \/ AbortUnlink(t) \/ AbortMark(t)
    \/ CleanUnlink(t) \/ CleanDelete(t)

OtherStep == UploadWrite \/ UploadMark \/ (\E u \in Users : Leave(u)) \/ Restart

LEMMA Steps ==
    ASSUME Next
    PROVE  (\E s \in Slots : SlotStep(s)) \/ (\E t \in Threads : ThreadStep(t)) \/ OtherStep
BY DEF Next, SlotStep, ThreadStep, OtherStep, Content

LEMMA TypeInit == Init => TypeInv
BY AttachmentsAssumption
   DEF Init, TypeInv, Idle, Doing, Job, Content, Statuses, LoopPhases, ThreadPhases, CommitPhases, Workers

LEMMA TypeSlotStep ==
    ASSUME TypeInv, NEW s \in Slots, SlotStep(s)
    PROVE  TypeInv'
<1> USE AttachmentsAssumption DEF TypeInv, rows, files, context, Job, Content, Workers, Row
<1>1. ASSUME NEW digest \in Content, CreateSlot(s, digest) PROVE TypeInv'
    BY <1>1 DEF CreateSlot, Statuses
<1>2. CASE Expire(s) \/ Post(s) \/ \E u \in Users : Share(s, u)
    BY <1>2 DEF Expire, Post, Share
<1>5. ASSUME NEW u \in Users, Ticket(s, u) PROVE TypeInv'
    BY <1>5 DEF Ticket
<1>3. ASSUME NEW b \in Bytes, UploadCheck(s, b) PROVE TypeInv'
    BY <1>3 DEF UploadCheck, Uploadable, Doing, LoopPhases
<1>4. ASSUME NEW t \in Threads, CommitCheck(t, s) \/ AbortCheck(t, s) \/ CleanSelect(t, s) PROVE TypeInv'
    BY <1>4 DEF CommitCheck, AbortCheck, CleanSelect, Doing, ThreadPhases, CommitPhases
<1> QED BY <1>1, <1>2, <1>3, <1>4, <1>5 DEF SlotStep

LEMMA TypeThreadStep ==
    ASSUME TypeInv, NEW t \in Threads, ThreadStep(t)
    PROVE  TypeInv'
<1> USE AttachmentsAssumption DEF TypeInv, rows, files, context, Job, Content, Workers, Row, Give, Idle, Doing, ThreadPhases
<1>1. CASE CommitRead(t)
    BY <1>1 DEF CommitRead, CommitPhases
<1>2. CASE CommitMove(t)
    BY <1>2 DEF CommitMove, CommitPhases
<1>3. CASE CommitStore(t)
    BY <1>3 DEF CommitStore, Statuses
<1>4. CASE AbortUnlink(t) \/ CleanUnlink(t)
    BY <1>4 DEF AbortUnlink, CleanUnlink, Unlink
<1>5. CASE AbortMark(t)
    BY <1>5 DEF AbortMark, Statuses
<1>6. CASE CleanDelete(t)
    BY <1>6 DEF CleanDelete, Statuses
<1> QED BY <1>1, <1>2, <1>3, <1>4, <1>5, <1>6 DEF ThreadStep

LEMMA TypeOtherStep ==
    ASSUME TypeInv, OtherStep
    PROVE  TypeInv'
<1> USE AttachmentsAssumption DEF TypeInv, rows, files, context, Job, Content, Workers, Row, Idle, Doing, LoopPhases, ThreadPhases
<1>1. CASE UploadWrite
    BY <1>1 DEF UploadWrite
<1>2. CASE UploadMark
    BY <1>2 DEF UploadMark, Statuses
<1>3. CASE \E u \in Users : Leave(u)
    BY <1>3 DEF Leave
<1>4. CASE Restart
    BY <1>4 DEF Restart
<1> QED BY <1>1, <1>2, <1>3, <1>4 DEF OtherStep

LEMMA TypeStep == TypeInv /\ [Next]_vars => TypeInv'
<1>1. ASSUME TypeInv, UNCHANGED vars PROVE TypeInv'
    BY <1>1 DEF TypeInv, vars, rows, files, context
<1> QED BY <1>1, Steps, TypeSlotStep, TypeThreadStep, TypeOtherStep

\* Type correctness: every row, file and job of attachments/core.py has its
\* type, and no job is about a slot without a row.
THEOREM AttachmentsTypeCorrect == Spec => []TypeInv
BY TypeInit, TypeStep, PTL DEF Spec
-----------------------------------------------------------------------------
(* Files and rows. *)

\* An object has a file, and so has one that is about to be recorded; a
\* ticket is for an object.
FileInv ==
    /\ \A k \in tickets : object[k[1]] # NoBytes
    /\ \A s \in Slots : object[s] # NoBytes => final[s] # NoBytes
    /\ \A t \in Threads : worker[t].phase = "store" => final[worker[t].slot] # NoBytes

LEMMA FileSlotStep ==
    ASSUME TypeInv, FileInv, AnswersStand, NEW s \in Slots, SlotStep(s)
    PROVE  FileInv' /\ AnswersStand'
<1> USE AttachmentsAssumption DEF FileInv, AnswersStand, TypeInv, rows, files, context, Job, Content, Workers
<1>1. ASSUME NEW digest \in Content, CreateSlot(s, digest) PROVE FileInv' /\ AnswersStand'
    BY <1>1 DEF CreateSlot
<1>2. CASE Expire(s) \/ Post(s) \/ \E u \in Users : Share(s, u)
    BY <1>2 DEF Expire, Post, Share
<1>3. ASSUME NEW u \in Users, Ticket(s, u) PROVE FileInv' /\ AnswersStand'
    BY <1>3 DEF Ticket
<1>4. ASSUME NEW b \in Bytes, UploadCheck(s, b) PROVE FileInv' /\ AnswersStand'
    BY <1>4 DEF UploadCheck, Doing
<1>5. ASSUME NEW t \in Threads, CommitCheck(t, s) \/ AbortCheck(t, s) \/ CleanSelect(t, s)
      PROVE  FileInv' /\ AnswersStand'
    BY <1>5 DEF CommitCheck, AbortCheck, CleanSelect, Doing
<1> QED BY <1>1, <1>2, <1>3, <1>4, <1>5 DEF SlotStep

LEMMA FileThreadStep ==
    ASSUME TypeInv, FileInv, AnswersStand, NEW t \in Threads, ThreadStep(t)
    PROVE  FileInv' /\ AnswersStand'
<1> USE AttachmentsAssumption
    DEF FileInv, AnswersStand, TypeInv, rows, files, context, Job, Content, Workers, Give, Idle, Doing
<1>1. CASE CommitRead(t)
    BY <1>1 DEF CommitRead
<1>2. CASE CommitMove(t)
    BY <1>2 DEF CommitMove
<1>3. CASE CommitStore(t)
    BY <1>3 DEF CommitStore
<1>4. CASE AbortUnlink(t) \/ CleanUnlink(t)
    BY <1>4 DEF AbortUnlink, CleanUnlink, Unlink
<1>5. CASE AbortMark(t)
    BY <1>5 DEF AbortMark
<1>6. CASE CleanDelete(t)
    BY <1>6 DEF CleanDelete
<1> QED BY <1>1, <1>2, <1>3, <1>4, <1>5, <1>6 DEF ThreadStep

LEMMA FileOtherStep ==
    ASSUME TypeInv, FileInv, AnswersStand, OtherStep
    PROVE  FileInv' /\ AnswersStand'
<1> USE AttachmentsAssumption
    DEF FileInv, AnswersStand, TypeInv, rows, files, context, Job, Content, Workers, Idle, Doing
<1>1. CASE UploadWrite \/ UploadMark
    BY <1>1 DEF UploadWrite, UploadMark
<1>2. CASE \E u \in Users : Leave(u)
    BY <1>2 DEF Leave
<1>3. CASE Restart
    BY <1>3 DEF Restart
<1> QED BY <1>1, <1>2, <1>3 DEF OtherStep

LEMMA FilesHold == Spec => [](TypeInv /\ FileInv /\ AnswersStand)
<1>1. Init => FileInv /\ AnswersStand
    BY DEF Init, FileInv, AnswersStand, Workers, Idle, Doing
<1>2. ASSUME TypeInv, FileInv, AnswersStand, UNCHANGED vars PROVE FileInv' /\ AnswersStand'
    BY <1>2 DEF FileInv, AnswersStand, vars, rows, files, context
<1>3. TypeInv /\ FileInv /\ AnswersStand /\ [Next]_vars => FileInv' /\ AnswersStand'
    BY <1>2, Steps, FileSlotStep, FileThreadStep, FileOtherStep
<1> QED BY <1>1, <1>3, AttachmentsTypeCorrect, PTL DEF Spec

\* What attachment.commit_object answers a client stays what the object's row
\* says: the primary key lets one of several commits through.
THEOREM CommitAnswersStand == Spec => []AnswersStand
BY FilesHold, PTL

\* attachment.get_download_ticket gives out tickets that work: clean-up, abort
\* and a crash between the move of the file and the insert of the row leave
\* no object without a file.
THEOREM TicketsFindFiles == Spec => []TicketsWork
<1>1. TypeInv /\ FileInv => TicketsWork
    BY AttachmentsAssumption DEF TypeInv, FileInv, TicketsWork, Served, Content
<1> QED BY <1>1, FilesHold, PTL
-----------------------------------------------------------------------------
(* Uploads that do not overlap a commit. *)

\* While no upload overlapped a commit of s: an upload under way has no commit
\* beside it; the bytes a commit checked are the ones it moves; once a commit
\* has moved them they are in place and nothing new is uploaded; and neither
\* is it after the object is recorded.
Apart(s) ==
    /\ \A t \in Threads :
        worker[t].slot = s /\ worker[t].phase \in CommitPhases =>
            ~(worker[Loop].slot = s /\ worker[Loop].phase # "idle")
    /\ \A t \in Threads :
        worker[t].slot = s /\ worker[t].phase = "move" => upload[s] \in {NoBytes, worker[t].bytes}
    /\ \A t \in Threads :
        worker[t].slot = s /\ worker[t].phase = "store" =>
            final[s] = worker[t].bytes /\ upload[s] = NoBytes
    /\ object[s] # NoBytes =>
        /\ final[s] = object[s] /\ upload[s] = NoBytes
        /\ status[s] \in {"committed", "aborted", "gone"}
        /\ ~(worker[Loop].slot = s /\ worker[Loop].phase # "idle")

ApartInv == \A s \in Slots : s \notin crossed => Apart(s)

LEMMA ApartSlotStep ==
    ASSUME TypeInv, ApartInv, NEW s \in Slots, SlotStep(s), NEW r \in Slots, r \notin crossed'
    PROVE  Apart(r)'
<1> USE AttachmentsAssumption DEF TypeInv, rows, files, context, Job, Content, Workers
<1>0. r \notin crossed => Apart(r)
    BY DEF ApartInv
<1>1. ASSUME NEW digest \in Content, CreateSlot(s, digest) PROVE Apart(r)'
    BY <1>0, <1>1 DEF CreateSlot, Apart
<1>2. CASE Expire(s) \/ Post(s) \/ \E u \in Users : Share(s, u)
    BY <1>0, <1>2 DEF Expire, Post, Share, Apart
<1>3. ASSUME NEW u \in Users, Ticket(s, u) PROVE Apart(r)'
    BY <1>0, <1>3 DEF Ticket, Apart
<1>4. ASSUME NEW b \in Bytes, UploadCheck(s, b) PROVE Apart(r)'
    <2>1. r = s => \A t \in Threads : ~(worker[t].slot = s /\ worker[t].phase \in CommitPhases)
        BY <1>4 DEF UploadCheck, Overlaps, CommitPhases
    <2>2. r \notin crossed
        BY <1>4 DEF UploadCheck
    <2> QED BY <1>0, <1>4, <2>1, <2>2 DEF UploadCheck, Uploadable, Doing, Apart, CommitPhases
<1>5. ASSUME NEW t \in Threads, CommitCheck(t, s) PROVE Apart(r)'
    <2>1. r = s => ~(worker[Loop].slot = s /\ worker[Loop].phase # "idle")
        BY <1>5 DEF CommitCheck, Overlaps, LoopPhases
    <2>2. r \notin crossed
        BY <1>5 DEF CommitCheck
    <2> QED BY <1>0, <1>5, <2>1, <2>2 DEF CommitCheck, Doing, Apart, CommitPhases
<1>6. ASSUME NEW t \in Threads, AbortCheck(t, s) \/ CleanSelect(t, s) PROVE Apart(r)'
    BY <1>0, <1>6 DEF AbortCheck, CleanSelect, Doing, Apart, CommitPhases
<1> QED BY <1>1, <1>2, <1>3, <1>4, <1>5, <1>6 DEF SlotStep

LEMMA ApartThreadStep ==
    ASSUME TypeInv, ApartInv, NEW t \in Threads, ThreadStep(t), NEW r \in Slots, r \notin crossed'
    PROVE  Apart(r)'
<1> USE AttachmentsAssumption DEF TypeInv, rows, files, context, Job, Content, Workers, Give, Idle, Doing
<1>1. Apart(r)
    BY DEF ApartInv, ThreadStep, CommitRead, CommitMove, CommitStore, AbortUnlink, AbortMark,
           CleanUnlink, CleanDelete, Unlink
<1>2. CASE CommitRead(t)
    BY <1>1, <1>2 DEF CommitRead, Apart, CommitPhases
<1>3. CASE CommitMove(t)
    BY <1>1, <1>3 DEF CommitMove, Apart, CommitPhases
<1>4. CASE CommitStore(t)
    BY <1>1, <1>4 DEF CommitStore, Apart, CommitPhases, Row, Statuses
<1>5. CASE AbortUnlink(t) \/ CleanUnlink(t)
    BY <1>1, <1>5 DEF AbortUnlink, CleanUnlink, Unlink, Apart, CommitPhases
<1>6. CASE AbortMark(t)
    BY <1>1, <1>6 DEF AbortMark, Apart, CommitPhases
<1>7. CASE CleanDelete(t)
    BY <1>1, <1>7 DEF CleanDelete, Apart, CommitPhases
<1> QED BY <1>2, <1>3, <1>4, <1>5, <1>6, <1>7 DEF ThreadStep

LEMMA ApartOtherStep ==
    ASSUME TypeInv, ApartInv, OtherStep, NEW r \in Slots, r \notin crossed'
    PROVE  Apart(r)'
<1> USE AttachmentsAssumption DEF TypeInv, rows, files, context, Job, Content, Workers, Idle, Doing
<1>1. Apart(r)
    BY DEF ApartInv, OtherStep, UploadWrite, UploadMark, Leave, Restart
<1>2. CASE UploadWrite
    BY <1>1, <1>2 DEF UploadWrite, Apart, CommitPhases
<1>3. CASE UploadMark
    BY <1>1, <1>3 DEF UploadMark, Apart, CommitPhases
<1>4. CASE \E u \in Users : Leave(u)
    BY <1>1, <1>4 DEF Leave, Apart
<1>5. CASE Restart
    BY <1>1, <1>5 DEF Restart, Apart, CommitPhases
<1> QED BY <1>2, <1>3, <1>4, <1>5 DEF OtherStep

\* Unless an upload overlapped its commit, an object's file holds the bytes
\* whose digest attachment.commit_object recorded, through late uploads,
\* aborts, clean-ups, further commits and restarts.
THEOREM ObjectsIntact == Spec => []IntactUnlessCrossed
<1>1. Init => ApartInv
    BY DEF Init, ApartInv, Apart, Workers, Idle, Doing, CommitPhases
<1>2. ASSUME ApartInv, UNCHANGED vars PROVE ApartInv'
    BY <1>2 DEF ApartInv, Apart, vars, rows, files, context
<1>3. TypeInv /\ ApartInv /\ [Next]_vars => ApartInv'
    <2>1. ASSUME TypeInv, ApartInv, Next, NEW r \in Slots, r \notin crossed' PROVE Apart(r)'
        BY <2>1, Steps, ApartSlotStep, ApartThreadStep, ApartOtherStep
    <2>2. ASSUME TypeInv, ApartInv, Next PROVE ApartInv'
        BY <2>1, <2>2 DEF ApartInv
    <2> QED BY <1>2, <2>2
<1>4. ApartInv => IntactUnlessCrossed
    BY AttachmentsAssumption DEF ApartInv, Apart, IntactUnlessCrossed, Served
<1> QED BY <1>1, <1>3, <1>4, AttachmentsTypeCorrect, PTL DEF Spec
=============================================================================
