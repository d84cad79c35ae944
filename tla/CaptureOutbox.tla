--------------------------- MODULE CaptureOutbox ---------------------------
(***************************************************************************)
(* The durable delivery ledger of qualified captures, src/capture_outbox.rs.*)
(* Several exporter processes share one directory: a SQLite ledger, and a   *)
(* spool of immutable objects beside it.  A process enqueues a capture,     *)
(* queues the deletion of a revision, or drains: it sends the deletions and *)
(* then the uploads that are pending, each under a leased, fenced right to  *)
(* talk to the store about that one revision, and finally unlinks the       *)
(* bodies no identity needs any more.                                       *)
(*                                                                         *)
(* A step is one SQLite statement or transaction, one file operation or one *)
(* network event.  A process may crash between any two of them.             *)
(***************************************************************************)
EXTENDS Integers, FiniteSets, Sequences

CONSTANTS
    Proc,               \* exporter processes; each opens the outbox as one owner
    Key,                \* storage keys: qualified identities
    Hash,               \* content hashes
    Object,             \* spool objects: the distinct envelope bytes captured
    HashOf,             \* the content hash of an object's envelope
    Capture,            \* the (identity, object) pairs that get enqueued
    Legacy,             \* the captures a schema version 2 ledger already holds
    DeletionRequests,   \* the revisions whose deletion may be requested here
    ExternalDeletions,  \* the revisions another client may delete at the store
    RevRank,            \* SQLite's order of (storage_key, content_hash)
    Limit,              \* drain's limit, 1..50 in the code
    Budget,             \* how often each kind of trouble may strike
    None

Rev == Key \X Hash
RevOf(r) == <<r[1], HashOf[r[2]]>>
Trouble == {"failure", "crash", "stall", "damage"}

ASSUME CaptureAssumption ==
    /\ IsFiniteSet(Key) /\ IsFiniteSet(Hash) /\ IsFiniteSet(Object)
    /\ HashOf \in [Object -> Hash]
    /\ Capture \subseteq Key \X Object
    /\ Legacy \subseteq Capture
    /\ DeletionRequests \subseteq Rev
    /\ ExternalDeletions \subseteq Rev
    /\ RevRank \in [Rev -> Nat]
    /\ \A v, w \in Rev : RevRank[v] = RevRank[w] => v = w
    /\ Limit \in Nat \ {0}
    /\ Budget \in [Trouble -> Nat]
    /\ None \notin Proc

VARIABLES
    \* the deliveries table: a row is a capture with a sequence number
    seq, attempts,      \* sequence (0: no such row) and attempts
    delivered,          \* rows whose receipt is recorded
    cancelled, withdrawn, quarantined, erased,
    hashed,             \* rows whose content_hash is recorded
    \* the other tables
    tomb,               \* capture_deletions: none, queued or acked
    lease,              \* revision_leases
    writer,             \* the process holding SQLite's write lock, or None
    \* the spool's objects directory
    spool,              \* each object's file: absent, intact or altered
    \* the store and the requests travelling to it
    held, gone,         \* revisions it serves; revisions it has a tombstone for
    wire,
    \* each process
    pc,
    todo,               \* the jobs selected and not finished, current one first
    room,               \* limit - attempted
    token,              \* the current lease grant's token, 0 without one
    reply,              \* what the current request came back with
    batch, unlinked,    \* cleanup: objects still to unlink, and unlinked
    \* history
    recorded,           \* the token under which a result was last recorded
    spent               \* how often each kind of trouble struck

rows   == <<seq, attempts, delivered, cancelled, withdrawn, quarantined, erased, hashed>>
store  == <<held, gone>>
locals == <<pc, todo, room, token, reply, batch, unlinked>>
vars   == <<rows, tomb, lease, writer, spool, store, wire, locals, recorded, spent>>

-----------------------------------------------------------------------------
(* Data *)

DeleteJob(v) == [kind |-> "delete", rev |-> v]
UploadJob(r) == [kind |-> "upload", rev |-> RevOf(r), row |-> r]
Jobs == {DeleteJob(v) : v \in Rev} \cup {UploadJob(r) : r \in Capture}

Request == [kind : {"upload", "delete"}, rev : Rev, token : Nat]

NoLease == [owner |-> None, live |-> FALSE, token |-> 0]

Steps == {"idle", "publish", "deletions", "uploads", "prepared", "unusable",
          "leased", "checked", "cleared", "sent", "release", "cleanup", "erase"}

(* Type correctness.  That room stays in 0 .. Limit says that limit -       *)
(* attempted, a subtraction of unsigned integers, never wraps.              *)
TypeOK ==
    /\ seq \in [Capture -> Nat]
    /\ attempts \in [Capture -> Nat]
    /\ delivered \subseteq Capture
    /\ cancelled \subseteq Capture
    /\ withdrawn \subseteq Capture
    /\ quarantined \subseteq Capture
    /\ erased \subseteq Capture
    /\ hashed \subseteq Capture
    /\ tomb \in [Rev -> {"none", "queued", "acked"}]
    /\ lease \in [Rev -> [owner : Proc \cup {None}, live : BOOLEAN, token : Nat]]
    /\ writer \in Proc \cup {None}
    /\ spool \in [Object -> {"absent", "intact", "altered"}]
    /\ held \subseteq Rev
    /\ gone \subseteq Rev
    /\ wire \subseteq Request
    /\ pc \in [Proc -> Steps]
    /\ todo \in [Proc -> Seq(Jobs)]
    /\ room \in [Proc -> 0 .. Limit]
    /\ token \in [Proc -> Nat]
    /\ reply \in [Proc -> {"none", "ok", "gone", "error"}]
    /\ batch \in [Proc -> SUBSET Object]
    /\ unlinked \in [Proc -> SUBSET Object]
    /\ recorded \in [Rev -> Nat]
    /\ spent \in [Trouble -> Nat]

Job(p) == Head(todo[p])

Queued == {r \in Capture : seq[r] > 0}
Pending == Queued \ (delivered \cup cancelled \cup quarantined)
RowsOf(o) == {r \in Queued : r[2] = o}
Tombstoned(r) == tomb[RevOf(r)] # "none"

(* ORDER BY storage_key,content_hash and ORDER BY attempts,sequence: the    *)
(* pairs of which the first comes before the second.                        *)
RevOrder == {e \in Rev \X Rev : RevRank[e[1]] < RevRank[e[2]]}
RowOrder ==
    {e \in Capture \X Capture :
        \/ attempts[e[1]] < attempts[e[2]]
        \/ attempts[e[1]] = attempts[e[2]] /\ seq[e[1]] < seq[e[2]]}

LowerOf(m, n) == IF m < n THEN m ELSE n

(* SELECT ... FROM S ORDER BY order LIMIT n: the one sequence it returns. *)
FirstOf(S, n, order) ==
    {q \in [1 .. LowerOf(n, Cardinality(S)) -> S] :
        /\ \A i, j \in DOMAIN q : i < j => <<q[i], q[j]>> \in order
        /\ \A x \in S : \A i \in DOMAIN q :
              <<q[i], x>> \in order \/ \E j \in DOMAIN q : q[j] = x}

(* SELECT ... FROM S LIMIT n, in no stated order: any n of them. *)
AnyOf(S, n) == {T \in SUBSET S : Cardinality(T) = LowerOf(n, Cardinality(S))}

(* Slip: a holder believes in its grant without asking the ledger. *)
HoldsUnfenced(p) == token[p] > 0

(* The row of revision_leases still carries exactly this process's grant. *)
Holds(p) ==
    /\ token[p] > 0
    /\ lease[Job(p).rev].owner = p
    /\ lease[Job(p).rev].token = token[p]

Holder(p, v) == token[p] > 0 /\ Job(p).rev = v /\ Holds(p)

(* Slip: the identities sharing the object are not asked. *)
ErasableUnshared ==
    {o \in Object : \E d \in RowsOf(o) : /\ d \in hashed /\ Tombstoned(d)
                                          /\ d \notin erased \cup quarantined}

(* Slip: only deletions that still wait for the store count. *)
ErasableWhileQueued ==
    {o \in Object :
        /\ \E d \in RowsOf(o) : /\ d \in hashed /\ tomb[RevOf(d)] = "queued"
                                /\ d \notin erased \cup quarantined
        /\ \A r \in RowsOf(o) : \/ r \in delivered \cup quarantined
                                \/ r \in hashed /\ Tombstoned(r)}

(* No undelivered identity needs the object's bytes, and a deleted one has  *)
(* them still.                                                              *)
Erasable ==
    {o \in Object :
        /\ \E d \in RowsOf(o) : /\ d \in hashed /\ Tombstoned(d)
                                /\ d \notin erased \cup quarantined
        /\ \A r \in RowsOf(o) : \/ r \in delivered \cup quarantined
                                \/ r \in hashed /\ Tombstoned(r)}

(* receipt: the revision's recorded acknowledgement, unless it was deleted. *)
Receipt(v) == tomb[v] = "none" /\ \E r \in delivered : RevOf(r) = v

Spend(t) ==
    /\ spent[t] < Budget[t]
    /\ spent' = [spent EXCEPT ![t] = @ + 1]

-----------------------------------------------------------------------------
(* Locals *)

Goto(p, step) == pc' = [pc EXCEPT ![p] = step]

(* Done with the current job: the next turn of the loop it belongs to. *)
NextJob(p) ==
    /\ Goto(p, IF Job(p).kind = "delete" THEN "deletions" ELSE "uploads")
    /\ todo' = [todo EXCEPT ![p] = Tail(@)]
    /\ token' = [token EXCEPT ![p] = 0]
    /\ reply' = [reply EXCEPT ![p] = "none"]
    /\ UNCHANGED <<room, batch, unlinked>>

(* The process is out of the library call, normally or not. *)
Stop(p) ==
    /\ Goto(p, "idle")
    /\ todo' = [todo EXCEPT ![p] = <<>>]
    /\ room' = [room EXCEPT ![p] = 0]
    /\ token' = [token EXCEPT ![p] = 0]
    /\ reply' = [reply EXCEPT ![p] = "none"]
    /\ batch' = [batch EXCEPT ![p] = {}]
    /\ unlinked' = [unlinked EXCEPT ![p] = {}]

Init ==
    /\ seq \in {s \in [Capture -> 0 .. Cardinality(Legacy)] :
                  \A r \in Capture : /\ s[r] = 0 <=> r \notin Legacy
                                     /\ \A q \in Legacy : s[r] = s[q] => r = q}
    /\ attempts = [r \in Capture |-> 0]
    /\ delivered \in SUBSET Legacy
    /\ cancelled = {} /\ withdrawn = {}
    /\ quarantined = {} /\ erased = {} /\ hashed = {}
    /\ tomb = [v \in Rev |-> "none"]
    /\ lease = [v \in Rev |-> NoLease]
    /\ writer = None
    /\ spool = [o \in Object |-> IF \E r \in Legacy : r[2] = o THEN "intact" ELSE "absent"]
    /\ held = {RevOf(r) : r \in delivered} /\ gone = {} /\ wire = {}
    /\ pc = [p \in Proc |-> "idle"]
    /\ todo = [p \in Proc |-> <<>>]
    /\ room = [p \in Proc |-> 0]
    /\ token = [p \in Proc |-> 0]
    /\ reply = [p \in Proc |-> "none"]
    /\ batch = [p \in Proc |-> {}]
    /\ unlinked = [p \in Proc |-> {}]
    /\ recorded = [v \in Rev |-> 0]
    /\ spent = [t \in Trouble |-> 0]

-----------------------------------------------------------------------------
(* Enqueueing *)

(* enqueue, first half: take the write lock, refuse a deleted revision,     *)
(* and publish the object.  An altered object under that name is an error.  *)
BeginEnqueue(p, r) ==
    /\ pc[p] = "idle" /\ writer = None
    /\ ~Tombstoned(r)
    /\ spool[r[2]] # "altered"
    /\ spool' = [spool EXCEPT ![r[2]] = "intact"]
    /\ writer' = p
    /\ Goto(p, "publish")
    /\ todo' = [todo EXCEPT ![p] = <<UploadJob(r)>>]
    /\ UNCHANGED <<rows, tomb, lease, store, wire, room, token, reply, batch,
                   unlinked, recorded, spent>>

(* Slip: the rows sharing the object stay marked as erased. *)
CommitEnqueueStillErased(p) ==
    /\ pc[p] = "publish"
    /\ LET r == Job(p).row IN
        IF r \in Queued
        THEN UNCHANGED <<seq, hashed>>
        ELSE /\ seq' = [seq EXCEPT ![r] = Cardinality(Queued) + 1]
             /\ hashed' = hashed \cup {r}
    /\ writer' = None
    /\ Stop(p)
    /\ UNCHANGED <<attempts, delivered, cancelled, withdrawn, quarantined, erased,
                   tomb, lease, spool, store, wire, recorded, spent>>

(* enqueue, second half: the row, unless it is there already, and commit. *)
CommitEnqueue(p) ==
    /\ pc[p] = "publish"
    /\ LET r == Job(p).row IN
        /\ IF r \in Queued
           THEN UNCHANGED <<seq, hashed>>
           ELSE /\ seq' = [seq EXCEPT ![r] = Cardinality(Queued) + 1]
                /\ hashed' = hashed \cup {r}
        /\ erased' = erased \ RowsOf(r[2])
    /\ writer' = None
    /\ Stop(p)
    /\ UNCHANGED <<attempts, delivered, cancelled, withdrawn, quarantined, tomb,
                   lease, spool, store, wire, recorded, spent>>

(* enqueue_deletion: one INSERT OR IGNORE, from any process. *)
EnqueueDeletion(v) ==
    /\ writer = None
    /\ tomb[v] = "none"
    /\ tomb' = [tomb EXCEPT ![v] = "queued"]
    /\ UNCHANGED <<rows, lease, writer, spool, store, wire, locals, recorded, spent>>

-----------------------------------------------------------------------------
(* Draining: selecting the jobs *)

(* drain begins with the deletions the store has not confirmed. *)
BeginDrain(p) ==
    /\ pc[p] = "idle"
    /\ \E q \in FirstOf({v \in Rev : tomb[v] = "queued"}, Limit, RevOrder) :
          todo' = [todo EXCEPT ![p] = [i \in DOMAIN q |-> DeleteJob(q[i])]]
    /\ room' = [room EXCEPT ![p] = Limit]
    /\ Goto(p, "deletions")
    /\ UNCHANGED <<rows, tomb, lease, writer, spool, store, wire, token, reply,
                   batch, unlinked, recorded, spent>>

(* The deletions sent count against the limit of the uploads selected. *)
SelectUploads(p) ==
    /\ pc[p] = "deletions" /\ todo[p] = <<>>
    /\ \E q \in FirstOf(Pending, room[p], RowOrder) :
          todo' = [todo EXCEPT ![p] = [i \in DOMAIN q |-> UploadJob(q[i])]]
    /\ Goto(p, "uploads")
    /\ UNCHANGED <<rows, tomb, lease, writer, spool, store, wire, room, token,
                   reply, batch, unlinked, recorded, spent>>

(* prepare: the row's object, read and decoded before any lease is taken;   *)
(* it may be missing, or not the bytes its name promises.  The read takes   *)
(* no lock, and nothing is asked again before the row is set aside for it.  *)
Prepare(p) ==
    /\ pc[p] = "uploads" /\ todo[p] # <<>>
    /\ Goto(p, IF spool[Job(p).row[2]] = "intact" THEN "prepared" ELSE "unusable")
    /\ UNCHANGED <<rows, tomb, lease, writer, spool, store, wire, todo, room,
                   token, reply, batch, unlinked, recorded, spent>>

(* set_delivery: the row is set aside. *)
SetAside(p) ==
    /\ pc[p] = "unusable" /\ writer = None
    /\ quarantined' = quarantined \cup {Job(p).row}
    /\ NextJob(p)
    /\ UNCHANGED <<seq, attempts, delivered, cancelled, withdrawn, erased, hashed,
                   tomb, lease, writer, spool, store, wire, recorded, spent>>

(* The spool as a whole failed: the row goes to the back of the queue. *)
PutOff(p) ==
    /\ pc[p] = "uploads" /\ todo[p] # <<>> /\ writer = None
    /\ Spend("failure")
    /\ attempts' = [attempts EXCEPT ![Job(p).row] = @ + 1]
    /\ NextJob(p)
    /\ UNCHANGED <<seq, delivered, cancelled, withdrawn, quarantined, erased,
                   hashed, tomb, lease, writer, spool, store, wire, recorded>>

-----------------------------------------------------------------------------
(* Draining: one request, under the lease of its revision *)

WantsLease(p) ==
    /\ \/ pc[p] = "deletions" /\ todo[p] # <<>>
       \/ pc[p] = "prepared"
    /\ writer = None

(* Slip: INSERT OR IGNORE, so that only the first grant ever succeeds. *)
GrantLeaseOnce(p) ==
    /\ WantsLease(p)
    /\ LET v == Job(p).rev IN
        /\ lease[v].token = 0
        /\ lease' = [lease EXCEPT ![v] = [owner |-> p, live |-> TRUE, token |-> 1]]
        /\ token' = [token EXCEPT ![p] = 1]
    /\ IF Job(p).kind = "delete"
       THEN room' = [room EXCEPT ![p] = @ - 1] /\ Goto(p, "checked")
       ELSE UNCHANGED room /\ Goto(p, "leased")
    /\ UNCHANGED <<rows, tomb, writer, spool, store, wire, todo, reply, batch,
                   unlinked, recorded, spent>>

(* Slip: another holder's lease is taken over before it expires. *)
GrantLeaseAlways(p) ==
    /\ WantsLease(p)
    /\ LET v == Job(p).rev IN
        /\ lease' = [lease EXCEPT ![v] =
              [owner |-> p, live |-> TRUE, token |-> @.token + 1]]
        /\ token' = [token EXCEPT ![p] = lease[v].token + 1]
    /\ IF Job(p).kind = "delete"
       THEN room' = [room EXCEPT ![p] = @ - 1] /\ Goto(p, "checked")
       ELSE UNCHANGED room /\ Goto(p, "leased")
    /\ UNCHANGED <<rows, tomb, writer, spool, store, wire, todo, reply, batch,
                   unlinked, recorded, spent>>

(* lease: the revision's row is absent or expired, so this process gets the *)
(* next token.  A deletion counts as attempted from here on.                *)
GrantLease(p) ==
    /\ WantsLease(p)
    /\ LET v == Job(p).rev IN
        /\ ~lease[v].live
        /\ lease' = [lease EXCEPT ![v] =
              [owner |-> p, live |-> TRUE, token |-> @.token + 1]]
        /\ token' = [token EXCEPT ![p] = lease[v].token + 1]
    /\ IF Job(p).kind = "delete"
       THEN room' = [room EXCEPT ![p] = @ - 1] /\ Goto(p, "checked")
       ELSE UNCHANGED room /\ Goto(p, "leased")
    /\ UNCHANGED <<rows, tomb, writer, spool, store, wire, todo, reply, batch,
                   unlinked, recorded, spent>>

(* lease: another holder's is live, so the job is skipped in this pass. *)
SkipBusy(p) ==
    /\ WantsLease(p)
    /\ lease[Job(p).rev].live
    /\ NextJob(p)
    /\ UNCHANGED <<rows, tomb, lease, writer, spool, store, wire, recorded, spent>>

(* Slip: the check is not repeated under the lease. *)
CheckTombstoneSkipped(p) ==
    /\ pc[p] = "leased" /\ writer = None
    /\ attempts' = [attempts EXCEPT ![Job(p).row] = @ + 1]
    /\ Goto(p, "checked")
    /\ UNCHANGED <<seq, delivered, cancelled, withdrawn, quarantined, erased,
                   hashed, tomb, lease, writer, spool, store, wire, todo, room,
                   token, reply, batch, unlinked, recorded, spent>>

(* The tombstone check of an upload, made only while the lease is held. *)
CheckTombstone(p) ==
    /\ pc[p] = "leased" /\ writer = None
    /\ LET r == Job(p).row IN
        /\ attempts' = [attempts EXCEPT ![r] = @ + 1]
        /\ IF Tombstoned(r)
           THEN cancelled' = cancelled \cup {r} /\ Goto(p, "release")
           ELSE UNCHANGED cancelled /\ Goto(p, "checked")
    /\ UNCHANGED <<seq, delivered, withdrawn, quarantined, erased, hashed, tomb,
                   lease, writer, spool, store, wire, todo, room, token, reply,
                   batch, unlinked, recorded, spent>>

(* Lease::renew: this exact grant is still the current one; extend it. *)
Renew(p) ==
    /\ pc[p] = "checked" /\ writer = None
    /\ Holds(p)
    /\ lease' = [lease EXCEPT ![Job(p).rev].live = TRUE]
    /\ Goto(p, "cleared")
    /\ UNCHANGED <<rows, tomb, writer, spool, store, wire, todo, room, token,
                   reply, batch, unlinked, recorded, spent>>

Send(p) ==
    /\ pc[p] = "cleared"
    /\ wire' = wire \cup
          {[kind |-> Job(p).kind, rev |-> Job(p).rev, token |-> token[p]]}
    /\ Goto(p, "sent")
    /\ UNCHANGED <<rows, tomb, lease, writer, spool, store, todo, room, token,
                   reply, batch, unlinked, recorded, spent>>

(* Slip: any answer counts as success. *)
RecordAnyAnswer(p) ==
    /\ pc[p] = "sent" /\ reply[p] # "none" /\ writer = None
    /\ Holds(p)
    /\ LET job == Job(p) IN
        /\ tomb' = IF job.kind = "delete" THEN [tomb EXCEPT ![job.rev] = "acked"] ELSE tomb
        /\ delivered' = IF job.kind = "upload"
                        THEN delivered \cup {job.row} ELSE delivered
        /\ recorded' = [recorded EXCEPT ![job.rev] = token[p]]
    /\ Goto(p, "release")
    /\ UNCHANGED <<seq, attempts, cancelled, withdrawn, quarantined, erased,
                   hashed, lease, writer, spool, store, wire, todo, room, token,
                   reply, batch, unlinked, spent>>

(* Lease::commit and the writes of its transaction: a receipt, a 410 turned *)
(* into a local tombstone (withdraw), a confirmed deletion, or nothing for   *)
(* any other failure.                                                        *)
Record(p) ==
    /\ pc[p] = "sent" /\ reply[p] # "none" /\ writer = None
    /\ Holds(p)
    /\ LET job == Job(p)
           confirmed == \/ job.kind = "delete" /\ reply[p] = "ok"
                        \/ job.kind = "upload" /\ reply[p] = "gone"
       IN
        /\ tomb' = IF confirmed THEN [tomb EXCEPT ![job.rev] = "acked"] ELSE tomb
        /\ delivered' = IF job.kind = "upload" /\ reply[p] = "ok"
                        THEN delivered \cup {job.row} ELSE delivered
        /\ IF job.kind = "upload" /\ reply[p] = "gone"
           THEN /\ cancelled' = cancelled \cup {job.row}
                /\ withdrawn' = withdrawn \cup {job.row}
           ELSE UNCHANGED <<cancelled, withdrawn>>
        /\ recorded' = [recorded EXCEPT ![job.rev] = token[p]]
    /\ Goto(p, "release")
    /\ UNCHANGED <<seq, attempts, quarantined, erased, hashed, lease, writer,
                   spool, store, wire, todo, room, token, reply, batch, unlinked,
                   spent>>

(* The grant was superseded: nothing is sent, or nothing is recorded. *)
Fenced(p) ==
    /\ \/ pc[p] = "checked"
       \/ pc[p] = "sent" /\ reply[p] # "none"
    /\ writer = None
    /\ ~Holds(p)
    /\ NextJob(p)
    /\ UNCHANGED <<rows, tomb, lease, writer, spool, store, wire, recorded, spent>>

(* Lease::drop: expire this grant, if it is still the current one. *)
Released(p) ==
    IF Holds(p) THEN [lease EXCEPT ![Job(p).rev].live = FALSE] ELSE lease

Release(p) ==
    /\ pc[p] = "release" /\ writer = None
    /\ lease' = Released(p)
    /\ NextJob(p)
    /\ UNCHANGED <<rows, tomb, writer, spool, store, wire, recorded, spent>>

-----------------------------------------------------------------------------
(* Draining: the cleanup that ends it *)

(* cleanup, first transaction: record the content hash of legacy rows while *)
(* their bytes are there, and set aside those whose bytes are not.  Rows    *)
(* whose object could not be read just now are left for a later pass.       *)
Backfill(p) ==
    /\ pc[p] = "uploads" /\ todo[p] = <<>> /\ writer = None
    /\ \E S \in AnyOf(Queued \ (hashed \cup quarantined), Limit), unread \in SUBSET Queued :
        /\ unread \subseteq S
        /\ IF unread = {} THEN UNCHANGED spent ELSE Spend("failure")
        /\ hashed' = hashed \cup {r \in S \ unread : spool[r[2]] = "intact"}
        /\ quarantined' = quarantined \cup {r \in S \ unread : spool[r[2]] # "intact"}
    /\ Goto(p, "cleanup")
    /\ UNCHANGED <<seq, attempts, delivered, cancelled, withdrawn, erased, tomb,
                   lease, writer, spool, store, wire, todo, room, token, reply,
                   batch, unlinked, recorded>>

(* cleanup, second transaction: the objects to unlink, under the write lock. *)
SelectErasable(p) ==
    /\ pc[p] = "cleanup" /\ writer = None
    /\ writer' = p
    /\ \E T \in AnyOf(Erasable, Limit) : batch' = [batch EXCEPT ![p] = T]
    /\ Goto(p, "erase")
    /\ UNCHANGED <<rows, tomb, lease, spool, store, wire, todo, room, token,
                   reply, unlinked, recorded, spent>>

(* LocalSpool::discard_body: the file is gone at once, before any commit. *)
Unlink(p, o) ==
    /\ pc[p] = "erase" /\ o \in batch[p]
    /\ spool' = [spool EXCEPT ![o] = "absent"]
    /\ batch' = [batch EXCEPT ![p] = @ \ {o}]
    /\ unlinked' = [unlinked EXCEPT ![p] = @ \cup {o}]
    /\ UNCHANGED <<rows, tomb, lease, writer, store, wire, pc, todo, room, token,
                   reply, recorded, spent>>

(* The object directory failed: this object is left for a later pass. *)
SkipUnlink(p, o) ==
    /\ pc[p] = "erase" /\ o \in batch[p]
    /\ Spend("failure")
    /\ batch' = [batch EXCEPT ![p] = @ \ {o}]
    /\ UNCHANGED <<rows, tomb, lease, writer, spool, store, wire, pc, todo, room,
                   token, reply, unlinked, recorded>>

(* The transaction ends: the rows of the objects unlinked are marked as     *)
(* erased, and those not delivered are given up.                            *)
CommitErasures(p) ==
    /\ pc[p] = "erase" /\ batch[p] = {}
    /\ LET done == {r \in Queued : r[2] \in unlinked[p]} IN
        /\ erased' = erased \cup done
        /\ cancelled' = cancelled \cup (done \ delivered)
    /\ writer' = None
    /\ Stop(p)
    /\ UNCHANGED <<seq, attempts, delivered, withdrawn, quarantined, hashed, tomb,
                   lease, spool, store, wire, recorded, spent>>

-----------------------------------------------------------------------------
(* The store *)

Awaits(p, m) ==
    /\ pc[p] = "sent" /\ reply[p] = "none"
    /\ Job(p).rev = m.rev /\ token[p] = m.token

Answer(m, what) ==
    /\ wire' = wire \ {m}
    /\ reply' = [p \in Proc |-> IF Awaits(p, m) THEN what ELSE reply[p]]
    /\ UNCHANGED <<rows, tomb, lease, writer, spool, pc, todo, room, token, batch,
                   unlinked, recorded>>

(* POST: stored and acknowledged, or 410 for a revision with a tombstone. *)
StoreUpload(m) ==
    /\ m.kind = "upload"
    /\ IF m.rev \in gone
       THEN UNCHANGED held /\ Answer(m, "gone")
       ELSE held' = held \cup {m.rev} /\ Answer(m, "ok")
    /\ UNCHANGED <<gone, spent>>

(* DELETE: the body goes, the tombstone stays, 204. *)
StoreDelete(m) ==
    /\ m.kind = "delete"
    /\ held' = held \ {m.rev}
    /\ gone' = gone \cup {m.rev}
    /\ Answer(m, "ok")
    /\ UNCHANGED spent

(* The request is lost or refused (5xx, revoked token) without effect. *)
StoreFails(m) ==
    /\ Spend("failure")
    /\ Answer(m, "error")
    /\ UNCHANGED store

(* Another client has the store delete the revision. *)
ExternalDelete(v) ==
    /\ v \notin gone
    /\ held' = held \ {v}
    /\ gone' = gone \cup {v}
    /\ UNCHANGED <<rows, tomb, lease, writer, spool, wire, locals, recorded, spent>>

-----------------------------------------------------------------------------
(* Trouble *)

(* The client's 30 second timeout, or an answer lost or unusable (a receipt *)
(* that does not validate).  The request itself may still be on the wire.   *)
Timeout(p) ==
    /\ pc[p] = "sent" /\ reply[p] # "error"
    /\ Spend("failure")
    /\ reply' = [reply EXCEPT ![p] = "error"]
    /\ UNCHANGED <<rows, tomb, lease, writer, spool, store, wire, pc, todo, room,
                   token, batch, unlinked, recorded>>

(* The process dies: its transaction rolls back, its lease stays. *)
Crash(p) ==
    /\ pc[p] # "idle"
    /\ Spend("crash")
    /\ writer' = IF writer = p THEN None ELSE writer
    /\ Stop(p)
    /\ UNCHANGED <<rows, tomb, lease, spool, store, wire, recorded>>

(* A statement of its own fails: the call returns an error, its transaction *)
(* rolls back and the lease it holds is dropped.                            *)
StorageError(p) ==
    /\ pc[p] # "idle"
    /\ pc[p] = "sent" => reply[p] # "none"
    /\ Spend("crash")
    /\ lease' = Released(p)
    /\ writer' = IF writer = p THEN None ELSE writer
    /\ Stop(p)
    /\ UNCHANGED <<rows, tomb, spool, store, wire, recorded>>

(* The five minutes of a lease nobody holds any more have passed. *)
ExpireAbandoned(v) ==
    /\ lease[v].live
    /\ \A p \in Proc : ~Holder(p, v)
    /\ lease' = [lease EXCEPT ![v].live = FALSE]
    /\ UNCHANGED <<rows, tomb, writer, spool, store, wire, locals, recorded, spent>>

(* The holder was suspended, or the clock jumped, past the lease's expiry. *)
Stall(v) ==
    /\ lease[v].live
    /\ \E p \in Proc : Holder(p, v)
    /\ Spend("stall")
    /\ lease' = [lease EXCEPT ![v].live = FALSE]
    /\ UNCHANGED <<rows, tomb, writer, spool, store, wire, locals, recorded>>

(* An object's file is lost or altered by something else than the exporter. *)
Damage(o) ==
    /\ spool[o] = "intact"
    /\ Spend("damage")
    /\ \E what \in {"absent", "altered"} : spool' = [spool EXCEPT ![o] = what]
    /\ UNCHANGED <<rows, tomb, lease, writer, store, wire, locals, recorded>>

-----------------------------------------------------------------------------

(* What a process does once it is in a drain or in an enqueue. *)
Proceed(p) ==
    \/ CommitEnqueue(p) \/ SelectUploads(p)
    \/ Prepare(p) \/ SetAside(p)
    \/ GrantLease(p) \/ SkipBusy(p) \/ CheckTombstone(p) \/ Renew(p) \/ Send(p)
    \/ Record(p) \/ Fenced(p) \/ Release(p)
    \/ Backfill(p) \/ SelectErasable(p) \/ CommitErasures(p)
    \/ \E o \in Object : Unlink(p, o)

StoreAnswers(v) == \E m \in wire : m.rev = v /\ (StoreUpload(m) \/ StoreDelete(m))

Troubles ==
    \/ \E p \in Proc : PutOff(p) \/ Timeout(p) \/ Crash(p) \/ StorageError(p)
    \/ \E p \in Proc, o \in Object : SkipUnlink(p, o)
    \/ \E m \in wire : StoreFails(m)
    \/ \E v \in Rev : Stall(v)
    \/ \E o \in Object : Damage(o)

Next ==
    \/ \E p \in Proc, r \in Capture : BeginEnqueue(p, r)
    \/ \E v \in DeletionRequests : EnqueueDeletion(v)
    \/ \E v \in ExternalDeletions : ExternalDelete(v)
    \/ \E p \in Proc : BeginDrain(p) \/ Proceed(p)
    \/ \E v \in Rev : StoreAnswers(v) \/ ExpireAbandoned(v)
    \/ Troubles

Spec == Init /\ [][Next]_vars

(* A drain is run again and again, and a process that is in a call gets on   *)
(* with it although others keep taking the write lock (SQLite's busy        *)
(* timeout); the store answers; an abandoned lease runs out.                *)
Fairness ==
    /\ \A p \in Proc : SF_vars(BeginDrain(p)) /\ SF_vars(Proceed(p))
    /\ \A v \in Rev : WF_vars(StoreAnswers(v)) /\ WF_vars(ExpireAbandoned(v))

FairSpec == Spec /\ Fairness

-----------------------------------------------------------------------------
(* Properties *)

(* A deletion recorded as acknowledged is final: the store has a tombstone  *)
(* for the revision and serves no body of it, whatever uploads were under   *)
(* way, repeated or late.                                                   *)
AcknowledgedDeletionHolds ==
    \A v \in Rev : tomb[v] = "acked" => v \in gone /\ v \notin held

(* A receipt that receipt() reports is backed by the store: it serves the   *)
(* revision, unless another client had it deleted.                          *)
ReceiptIsHonest ==
    \A v \in Rev : Receipt(v) => v \in held \cup (gone \cap ExternalDeletions)

(* Cleanup never takes the bytes of a capture that still has to be sent:    *)
(* without damage from outside, a pending row nobody asked to delete finds  *)
(* its object intact, whichever other identities shared it.                 *)
NeededBodyIsKept ==
    spent["damage"] = 0 =>
        \A r \in Pending : Tombstoned(r) \/ spool[r[2]] = "intact"

(* A row is given up (cancelled) only for a deletion of its revision, or     *)
(* when it was set aside already: no capture is dropped in silence.         *)
NoSilentCancel ==
    \A r \in cancelled : Tombstoned(r) \/ r \in quarantined

(* Results are recorded in the order of the grants: a holder that was       *)
(* overtaken never writes over the result of a later grant.                 *)
RecordsFollowGrants ==
    [][\A v \in Rev : recorded'[v] >= recorded[v]]_vars

(* As long as no holder outlives its lease, two processes never both have a *)
(* request out for one revision.                                            *)
RequestsNeverOverlap ==
    spent["stall"] = 0 =>
        \A p, q \in Proc :
            /\ p # q
            /\ pc[p] \in {"cleared", "sent"} /\ pc[q] \in {"cleared", "sent"}
            => Job(p).rev # Job(q).rev

(* Nor does any upload of a revision go out once its deletion is            *)
(* acknowledged.                                                            *)
NoUploadAfterDeletion ==
    [][spent["stall"] = 0 =>
          \A m \in wire' \ wire : m.kind = "upload" => tomb[m.rev] # "acked"]_vars

(* Only damage from outside sets aside a capture that was still to be sent: *)
(* whatever is set aside without it, after an interrupted cleanup or as a   *)
(* row of an older ledger, had its deletion requested or its receipt        *)
(* recorded.                                                                *)
OnlyDamageIsSetAside ==
    spent["damage"] = 0 =>
        \A r \in quarantined : Tombstoned(r) \/ r \in delivered

(* Cleanup repeats safely after an interruption: it sets nothing aside.     *)
InterruptionIsHarmless ==
    spent["damage"] = 0 => quarantined = {}

(* A row is marked erased only while its object is gone from the spool,     *)
(* unless an enqueue was interrupted; the mark is what keeps cleanup from   *)
(* looking at it again.                                                     *)
ErasedMeansGone ==
    writer = None /\ spent["crash"] = 0 => \A r \in erased : spool[r[2]] = "absent"

(* Every queued upload is eventually delivered, withdrawn, cancelled or set  *)
(* aside, and every requested deletion is confirmed, once trouble has       *)
(* stopped striking.                                                        *)
EverythingSettles ==
    /\ \A r \in Capture : r \in Pending ~> r \notin Pending
    /\ \A v \in Rev : tomb[v] = "queued" ~> tomb[v] = "acked"

(* Once every identity that captured an object has had its deletion         *)
(* confirmed, the object's bytes leave the spool, as long as there is a row  *)
(* of it that cleanup looks at: one that is not marked erased, and none that *)
(* was set aside.  (An enqueue interrupted between publishing and commit     *)
(* leaves bytes that nothing but rows marked before, or no row at all,       *)
(* refers to; cleanup does not see those.)                                   *)
DeletedBodiesLeave ==
    \A o \in Object :
        /\ RowsOf(o) \ erased # {}
        /\ \A r \in Capture : r[2] = o => tomb[RevOf(r)] = "acked"
        ~> spool[o] = "absent" \/ RowsOf(o) \cap quarantined # {}

(* The outbox keeps the contract of CaptureContract: all that its processes *)
(* do, leases, retries, crashes and late requests included, amounts to the  *)
(* contract's steps.                                                        *)
Contract ==
    INSTANCE CaptureContract WITH
        accepted <- Queued, dropped <- cancelled, aside <- quarantined,
        deletion <- tomb

ImplementsContract == Contract!Spec

=============================================================================
