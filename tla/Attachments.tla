---------------------------- MODULE Attachments -----------------------------
(***************************************************************************)
(* Attachments (attachments/core.py and the object routes): a slot is      *)
(* opened, bytes are uploaded to it, and commit checks them, moves the     *)
(* file to its final name and records the object; tickets let the owner,   *)
(* the receiver of a message that names the object and the members of a    *)
(* group it was posted to download it.                                     *)
(*                                                                         *)
(* No handler opens a transaction before its first write: it reads the     *)
(* row, works on the file, and writes the row at its end.  Each of these   *)
(* is a step, and another handler may run in between.  Uploads run on the  *)
(* event loop without awaiting, so one at a time; commit, abort and the    *)
(* clean-up run in threads.  A step that writes or renames a file is       *)
(* atomic.  The process may stop at any time.                              *)
(*                                                                         *)
(* A slot and its object have one name here: their ids are drawn together. *)
(* Bytes stand for their size and their digest.  Bytes over the size limit *)
(* and content types off the list are refused before anything is written.  *)
(***************************************************************************)
EXTENDS Integers, FiniteSets

CONSTANTS
    Slots,      \* slot ids, each with its object id
    Bytes,      \* what may be uploaded
    Threads,    \* threads that serve commit, abort and clean-up
    Loop,       \* the event loop, which serves uploads and downloads
    Users, Owner,
    NoBytes, NoSlot

ASSUME AttachmentsAssumption ==
    /\ Owner \in [Slots -> Users]
    /\ NoBytes \notin Bytes /\ "object_missing" \notin Bytes
    /\ NoSlot \notin Slots /\ Loop \notin Threads

VARIABLES
    status,     \* attachment_slots.status, "none" before and "gone" after the row
    declared,   \* expected_size and expected_sha256, or NoBytes
    late,       \* slots past expires_at
    upload,     \* the .upload file of each slot
    final,      \* the .bin file of each object
    object,     \* attachment_objects: the digest recorded for each object
    sent,       \* <<object, user>>: a direct message to the user names it
    posted,     \* objects a group message names
    members,    \* current members of the group
    tickets,    \* download_tickets: <<object, user>>
    worker,     \* what each thread and the event loop are doing
    answered,   \* <<object, bytes>>: commits a client was told of
    crossed     \* slots an upload and a commit of which overlapped

files == <<upload, final>>
rows == <<status, declared, object, tickets>>
context == <<sent, posted, members>>
vars == <<files, rows, late, context, worker, answered, crossed>>

Workers == Threads \cup {Loop}

Doing(phase, s, bytes) == [phase |-> phase, slot |-> s, bytes |-> bytes]

Idle == Doing("idle", NoSlot, NoBytes)

Row(s) == status[s] \notin {"none", "gone"}

\* The slots whose upload and commit are both under way once w takes up s.
Overlaps(w, s) ==
    {s} \cap {worker[v].slot : v \in IF w = Loop
                THEN {t \in Threads : worker[t].phase \in {"read", "move", "store"}}
                ELSE {v \in {Loop} : worker[v].phase \in {"write", "mark"}}}
-----------------------------------------------------------------------------
(* Slots and uploads. *)

\* attachment.create_slot
CreateSlot(s, digest) ==
    /\ status[s] = "none"
    /\ status' = [status EXCEPT ![s] = "open"]
    /\ declared' = [declared EXCEPT ![s] = digest]
    /\ UNCHANGED <<files, object, tickets, late, context, worker, answered, crossed>>

\* Time passes: 30 minutes for a slot.
Expire(s) ==
    /\ Row(s) /\ s \notin late
    /\ late' = late \cup {s}
    /\ UNCHANGED <<files, rows, context, worker, answered, crossed>>

\* An upload that is taken for a slot of any status.
UploadableRow(s) == Row(s) /\ s \notin late

\* upload_slot takes bytes for a slot until it is committed, aborted or late.
Uploadable(s) == status[s] \in {"open", "uploaded"} /\ s \notin late

UploadCheck(s, bytes) ==
    /\ worker[Loop] = Idle
    /\ Uploadable(s)
    /\ worker' = [worker EXCEPT ![Loop] = Doing("write", s, bytes)]
    /\ crossed' = crossed \cup Overlaps(Loop, s)
    /\ UNCHANGED <<files, rows, late, context, answered>>

UploadWrite ==
    /\ worker[Loop].phase = "write"
    /\ upload' = [upload EXCEPT ![worker[Loop].slot] = worker[Loop].bytes]
    /\ worker' = [worker EXCEPT ![Loop].phase = "mark"]
    /\ UNCHANGED <<final, rows, late, context, answered, crossed>>

\* The UPDATE does not look at the status again, and misses a row that is gone.
UploadMark ==
    LET s == worker[Loop].slot
    IN  /\ worker[Loop].phase = "mark"
        /\ status' = IF Row(s) THEN [status EXCEPT ![s] = "uploaded"] ELSE status
        /\ worker' = [worker EXCEPT ![Loop] = Idle]
        /\ UNCHANGED <<files, declared, object, tickets, late, context, answered, crossed>>
-----------------------------------------------------------------------------
(* Commit. *)

CommitCheck(t, s) ==
    /\ worker[t] = Idle
    /\ status[s] = "uploaded" /\ s \notin late
    /\ worker' = [worker EXCEPT ![t] = Doing("read", s, NoBytes)]
    /\ crossed' = crossed \cup Overlaps(t, s)
    /\ UNCHANGED <<files, rows, late, context, answered>>

Give(t) == worker' = [worker EXCEPT ![t] = Idle]

\* path.exists, read_bytes and the checks of size and digest.
CommitRead(t) ==
    LET s == worker[t].slot
    IN  /\ worker[t].phase = "read"
        /\ IF upload[s] # NoBytes /\ declared[s] \in {NoBytes, upload[s]}
           THEN worker' = [worker EXCEPT ![t] = Doing("move", s, upload[s])]
           ELSE Give(t)
        /\ UNCHANGED <<files, rows, late, context, answered, crossed>>

\* shutil.move, which fails when the file has gone.
CommitMove(t) ==
    LET s == worker[t].slot
    IN  /\ worker[t].phase = "move"
        /\ \/ /\ upload[s] = NoBytes
              /\ Give(t)
              /\ UNCHANGED files
           \/ /\ upload[s] # NoBytes
              /\ final' = [final EXCEPT ![s] = upload[s]]
              /\ upload' = [upload EXCEPT ![s] = NoBytes]
              /\ worker' = [worker EXCEPT ![t].phase = "store"]
        /\ UNCHANGED <<rows, late, context, answered, crossed>>

\* An insert that replaces the row of an earlier commit.
CommitStoreReplaces(t) ==
    LET s == worker[t].slot
    IN  /\ worker[t].phase = "store"
        /\ object' = [object EXCEPT ![s] = worker[t].bytes]
        /\ status' = IF Row(s) THEN [status EXCEPT ![s] = "committed"] ELSE status
        /\ answered' = answered \cup {<<s, worker[t].bytes>>}
        /\ Give(t)
        /\ UNCHANGED <<files, declared, tickets, late, context, crossed>>

\* INSERT of the object, whose id is the primary key, and UPDATE of the slot.
CommitStore(t) ==
    LET s == worker[t].slot
    IN  /\ worker[t].phase = "store"
        /\ \/ /\ object[s] # NoBytes
              /\ UNCHANGED <<object, status, answered>>
           \/ /\ object[s] = NoBytes
              /\ object' = [object EXCEPT ![s] = worker[t].bytes]
              /\ status' = IF Row(s) THEN [status EXCEPT ![s] = "committed"] ELSE status
              /\ answered' = answered \cup {<<s, worker[t].bytes>>}
        /\ Give(t)
        /\ UNCHANGED <<files, declared, tickets, late, context, crossed>>
-----------------------------------------------------------------------------
(* Abort and clean-up. *)

\* attachment.abort_object, of a slot of any status.
AbortCheck(t, s) ==
    /\ worker[t] = Idle
    /\ Row(s)
    /\ worker' = [worker EXCEPT ![t] = Doing("unlink", s, NoBytes)]
    /\ UNCHANGED <<files, rows, late, context, answered, crossed>>

\* The file that is removed is the object's once there is one.
UnlinkEither(t, next) ==
    LET s == worker[t].slot
    IN  /\ upload' = [upload EXCEPT ![s] = NoBytes]
        /\ final' = IF upload[s] = NoBytes THEN [final EXCEPT ![s] = NoBytes] ELSE final
        /\ worker' = [worker EXCEPT ![t].phase = next]
        /\ UNCHANGED <<rows, late, context, answered, crossed>>

\* The .upload file is removed if it is there.
Unlink(t, next) ==
    /\ upload' = [upload EXCEPT ![worker[t].slot] = NoBytes]
    /\ worker' = [worker EXCEPT ![t].phase = next]
    /\ UNCHANGED <<final, rows, late, context, answered, crossed>>

AbortUnlink(t) == worker[t].phase = "unlink" /\ Unlink(t, "abort")

AbortMark(t) ==
    LET s == worker[t].slot
    IN  /\ worker[t].phase = "abort"
        /\ status' = IF Row(s) THEN [status EXCEPT ![s] = "aborted"] ELSE status
        /\ Give(t)
        /\ UNCHANGED <<files, declared, object, tickets, late, context, answered, crossed>>

\* cleanup_expired_attachments, for one expired slot that is not committed.
CleanSelect(t, s) ==
    /\ worker[t] = Idle
    /\ Row(s) /\ s \in late /\ status[s] # "committed"
    /\ worker' = [worker EXCEPT ![t] = Doing("sweep", s, NoBytes)]
    /\ UNCHANGED <<files, rows, late, context, answered, crossed>>

CleanUnlink(t) == worker[t].phase = "sweep" /\ Unlink(t, "delete")

\* DELETE of the slot, and of the tickets that have expired meanwhile.
CleanDelete(t) ==
    LET s == worker[t].slot
    IN  /\ worker[t].phase = "delete"
        /\ status' = [status EXCEPT ![s] = "gone"]
        /\ \E expired \in SUBSET tickets : tickets' = tickets \ expired
        /\ Give(t)
        /\ UNCHANGED <<files, declared, object, late, context, answered, crossed>>

\* The process stops; what its handlers were doing stays half done.
Restart ==
    /\ \E w \in Workers : worker[w] # Idle
    /\ worker' = [w \in Workers |-> Idle]
    /\ UNCHANGED <<files, rows, late, context, answered, crossed>>
-----------------------------------------------------------------------------
(* Tickets. *)

\* A message that names the object, sent by its owner; group membership.
Share(s, u) ==
    /\ <<s, u>> \notin sent /\ u # Owner[s]
    /\ sent' = sent \cup {<<s, u>>}
    /\ UNCHANGED <<files, rows, late, posted, members, worker, answered, crossed>>

Post(s) ==
    /\ s \notin posted /\ Owner[s] \in members
    /\ posted' = posted \cup {s}
    /\ UNCHANGED <<files, rows, late, sent, members, worker, answered, crossed>>

Leave(u) ==
    /\ u \in members
    /\ members' = members \ {u}
    /\ UNCHANGED <<files, rows, late, sent, posted, worker, answered, crossed>>

\* _ensure_direct_attachment_context and _ensure_group_attachment_context
Granted(s, u) ==
    \/ u = Owner[s]
    \/ <<s, u>> \in sent
    \/ s \in posted /\ u \in members

\* attachment.get_download_ticket: one SELECT and one INSERT for an object
\* that is never changed or removed.
Ticket(s, u) ==
    /\ object[s] # NoBytes
    /\ Granted(s, u)
    /\ tickets' = tickets \cup {<<s, u>>}
    /\ UNCHANGED <<files, declared, status, object, late, context, worker, answered, crossed>>

\* What download_object answers a holder of a ticket.
Served(s) == IF final[s] = NoBytes THEN "object_missing" ELSE final[s]
-----------------------------------------------------------------------------
Init ==
    /\ status = [s \in Slots |-> "none"]
    /\ declared = [s \in Slots |-> NoBytes]
    /\ late = {}
    /\ upload = [s \in Slots |-> NoBytes]
    /\ final = [s \in Slots |-> NoBytes]
    /\ object = [s \in Slots |-> NoBytes]
    /\ sent = {} /\ posted = {} /\ members = Users
    /\ tickets = {}
    /\ worker = [w \in Workers |-> Idle]
    /\ answered = {}
    /\ crossed = {}

Next ==
    \/ \E s \in Slots :
        \/ \E digest \in Bytes \cup {NoBytes} : CreateSlot(s, digest)
        \/ Expire(s)
        \/ \E b \in Bytes : UploadCheck(s, b)
        \/ \E t \in Threads : CommitCheck(t, s) \/ AbortCheck(t, s) \/ CleanSelect(t, s)
        \/ Post(s)
        \/ \E u \in Users : Share(s, u) \/ Ticket(s, u)
    \/ UploadWrite
    \/ UploadMark
    \/ \E t \in Threads :
        \/ CommitRead(t) \/ CommitMove(t) \/ CommitStore(t)
        \/ AbortUnlink(t) \/ AbortMark(t)
        \/ CleanUnlink(t) \/ CleanDelete(t)
    \/ \E u \in Users : Leave(u)
    \/ Restart

Spec == Init /\ [][Next]_vars
-----------------------------------------------------------------------------
(* Properties. *)

\* A ticket can be used: the object it names is recorded and its file is
\* there, whatever aborts, clean-ups, second commits and crashes went before.
TicketsWork == \A k \in tickets : Served(k[1]) # "object_missing"

\* What a client was told its commit stored is what the object's row says:
\* no two commits of one slot are both accepted, and none is lost.
AnswersStand == \A a \in answered : object[a[1]] = a[2]

\* Unless an upload overlapped the commit, the file of an object is what the
\* row says: neither a late upload, nor an abort, nor a second commit changes
\* it.
IntactUnlessCrossed ==
    \A s \in Slots : object[s] # NoBytes /\ s \notin crossed => Served(s) = object[s]
=============================================================================
