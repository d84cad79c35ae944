---------------------------- MODULE CursorThreads ---------------------------
(***************************************************************************)
(* The Cursor source, src/cursor.rs: a first pass streams the composer rows *)
(* and holds a bounded number of candidates, a second fetches them newest   *)
(* first and assembles each with its bubbles, while Cursor, whose database  *)
(* is read without a lock or a transaction, edits and deletes threads.      *)
(*                                                                         *)
(* Of a thread's text only a revision is kept, of its bubbles their number, *)
(* of a thread's rows their size in bytes.                                  *)
(***************************************************************************)
EXTENDS Integers, FiniteSets, Sequences

CONSTANTS
    Thread,
    Order,          \* the order in which the query returns the threads
    MaxThreads,     \* candidates to keep
    PruneAt,        \* candidates at which the surplus is dropped
    MaxBytes,       \* bytes of rows to read for one thread
    ThreadLimit,    \* --cursor-limit
    Initially,      \* threads to begin with
    MaxEdits,       \* bound: edits by Cursor
    Gone

(* A composer row: NULL, one that is not JSON, or a thread; createdAt and   *)
(* lastUpdatedAt are 0 when missing; bubbles lie inline or in their rows.   *)
ThreadRow == [kind : {"null", "junk", "inline", "rows"}, created : Nat, updated : Nat,
              bubbles : Nat, revision : Nat, bytes : Nat, bubblebytes : Nat]

ASSUME CursorAssumption ==
    /\ IsFiniteSet(Thread)
    /\ Order \in Seq(Thread) /\ \A i, j \in DOMAIN Order : Order[i] = Order[j] => i = j
    /\ MaxThreads \in Nat /\ PruneAt \in Nat /\ MaxThreads < PruneAt
    /\ MaxBytes \in Nat /\ ThreadLimit \in Nat /\ MaxEdits \in Nat
    /\ Initially \subseteq [Thread -> ThreadRow]
    /\ Gone \notin ThreadRow

VARIABLES
    db,             \* each thread's row, or Gone
    phase,          \* "scan", "emit", "done", "failed"
    next,           \* the position of the scan
    candidates,     \* [time, seq, thread, over]: what the first pass holds
    overflow,       \* candidates dropped
    seen,           \* history: every candidate of this scan
    emitted,        \* the items handed to the visitor, in their order
    edits

threads == <<db, phase, next, candidates, overflow, seen, emitted, edits>>

Candidate == [time : Nat, seq : Nat, thread : Thread, over : BOOLEAN]

(* Slip: the time of the last update alone. *)
PrintOfTime(r) == <<IF r.updated > 0 THEN r.updated ELSE r.created, 0>>

(* lastUpdatedAt:message_count, or createdAt if there is no update. *)
Fingerprint(r) == <<IF r.updated > 0 THEN r.updated ELSE r.created, r.bubbles>>

(* Type correctness; the first pass never holds as many as PruneAt. *)
ThreadsTypeOK ==
    /\ db \in [Thread -> ThreadRow \cup {Gone}]
    /\ phase \in {"scan", "emit", "done", "failed"}
    /\ next \in 1 .. Len(Order) + 1
    /\ candidates \subseteq Candidate /\ Cardinality(candidates) < PruneAt
    /\ overflow \in Nat
    /\ seen \subseteq Candidate
    /\ \A i \in DOMAIN emitted : emitted[i].candidate \in seen
    /\ edits \in Nat

ThreadsInit(d) ==
    /\ db = d
    /\ phase = "scan" /\ next = 1
    /\ candidates = {} /\ overflow = 0 /\ seen = {} /\ emitted = <<>>
    /\ edits = 0

-----------------------------------------------------------------------------
(* The first pass *)

(* The order of the sort: Reverse(createdAt), then the row's place. *)
Newer(a, b) == a.time > b.time \/ (a.time = b.time /\ a.seq < b.seq)

Newest(S, n) == {c \in S : Cardinality({d \in S : Newer(d, c)}) < n}

Dropped(S) == IF Cardinality(S) > MaxThreads THEN Cardinality(S) - MaxThreads ELSE 0

(* What the row of thread k becomes: nothing if it is NULL, or no JSON.  A  *)
(* row over the byte bound is not parsed, and so counts as the oldest.      *)
AsCandidate(k, r) ==
    IF r = Gone THEN {} ELSE IF r.kind = "null" THEN {}
    ELSE IF r.bytes > MaxBytes
    THEN {[time |-> 0, seq |-> next, thread |-> k, over |-> TRUE]}
    ELSE IF r.kind = "junk" THEN {}
    ELSE {[time |-> r.created, seq |-> next, thread |-> k, over |-> FALSE]}

(* Slip: what is dropped on the way is not counted. *)
HoldUncounted(c) ==
    /\ candidates' = IF Cardinality(candidates \cup c) >= PruneAt
                     THEN Newest(candidates \cup c, MaxThreads) ELSE candidates \cup c
    /\ UNCHANGED overflow

Hold(c) ==
    LET held == candidates \cup c IN
    \/ /\ Cardinality(held) < PruneAt
       /\ candidates' = held
       /\ UNCHANGED overflow
    \/ /\ Cardinality(held) >= PruneAt
       /\ candidates' = Newest(held, MaxThreads)
       /\ overflow' = overflow + Dropped(held)

Scan ==
    /\ phase = "scan" /\ next <= Len(Order)
    /\ LET c == AsCandidate(Order[next], db[Order[next]])
       IN Hold(c) /\ seen' = seen \cup c
    /\ next' = next + 1
    /\ UNCHANGED <<db, phase, emitted, edits>>

(* The last pruning; the visitor is told of the overflow, if there is any.  *)
EndScan ==
    /\ phase = "scan" /\ next > Len(Order)
    /\ candidates' = Newest(candidates, MaxThreads)
    /\ overflow' = overflow + Dropped(candidates)
    /\ phase' = "emit"
    /\ UNCHANGED <<db, next, seen, emitted, edits>>

-----------------------------------------------------------------------------
(* The second pass *)

(* load_bubble_rows: the bubbles' rows exceed what the composer row left of *)
(* the bound.  Bubbles that lie inline are not counted.                     *)
OverBudget(r) == r.kind = "rows" /\ r.bytes + r.bubblebytes > MaxBytes

(* reconstruct: such a thread is oversize, one without bubbles passed over. *)
Item(c, r) ==
    IF c.over THEN {"oversize"}
    ELSE IF r.kind \in {"null", "junk"} THEN {}
    ELSE IF OverBudget(r) THEN {"oversize"}
    ELSE IF r.bubbles = 0 THEN {} ELSE {"thread"}

(* The newest candidate left.  The limit counts what is emitted, oversize   *)
(* threads too; a row that has gone since the first pass fails the scan.    *)
Emit ==
    /\ phase = "emit" /\ candidates # {} /\ Len(emitted) < ThreadLimit
    /\ \E c \in candidates :
          /\ \A d \in candidates \ {c} : Newer(c, d)
          /\ LET r == db[c.thread] IN
             \/ /\ ~c.over /\ r = Gone
                /\ phase' = "failed"
                /\ UNCHANGED <<candidates, emitted>>
             \/ /\ c.over \/ r # Gone
                /\ candidates' = candidates \ {c}
                /\ emitted' = emitted \o
                      (IF Item(c, r) = {} THEN <<>>
                       ELSE <<[item |-> CHOOSE i \in Item(c, r) : TRUE, candidate |-> c,
                               row |-> r]>>)
                /\ UNCHANGED phase
    /\ UNCHANGED <<db, next, overflow, seen, edits>>

Finish ==
    /\ phase = "emit" /\ (candidates = {} \/ Len(emitted) >= ThreadLimit)
    /\ phase' = "done"
    /\ UNCHANGED <<db, next, candidates, overflow, seen, emitted, edits>>

-----------------------------------------------------------------------------
(* Cursor *)

Cursor(k, r) ==
    /\ edits < MaxEdits /\ edits' = edits + 1
    /\ db[k] # Gone
    /\ db' = [db EXCEPT ![k] = r]
    /\ UNCHANGED <<phase, next, candidates, overflow, seen, emitted>>

Delete(k) == Cursor(k, Gone)

Dated(r) == IF r.updated > 0 THEN r.updated + 1 ELSE 0

(* A message is added, and the time noted if the thread has one. *)
Reply(k) ==
    /\ db[k] # Gone
    /\ Cursor(k, [db[k] EXCEPT !.bubbles = @ + 1, !.revision = @ + 1,
                               !.bubblebytes = IF db[k].kind = "rows" THEN @ + 1 ELSE @,
                               !.updated = Dated(db[k])])

(* A message is rewritten in place, as while an answer streams in. *)
Revise(k) ==
    /\ db[k] # Gone
    /\ db[k].bubbles > 0
    /\ Cursor(k, [db[k] EXCEPT !.revision = @ + 1, !.updated = Dated(db[k])])

ThreadsNext ==
    \/ Scan \/ EndScan \/ Emit \/ Finish
    \/ \E k \in Thread : Delete(k) \/ Reply(k) \/ Revise(k)

ThreadsSpec == (\E d \in Initially : ThreadsInit(d)) /\ [][ThreadsNext]_threads

-----------------------------------------------------------------------------
(* Properties *)

(* Pruning on the way loses nothing that the end would keep: the candidates *)
(* are always among them the newest of everything scanned, and what is not  *)
(* among them was counted.                                                  *)
PruningKeepsTheNewest ==
    phase = "scan" =>
        /\ Newest(seen, MaxThreads) \subseteq candidates
        /\ overflow + Cardinality(candidates) = Cardinality(seen)

(* A thread that was edited after it was emitted has another fingerprint, so *)
(* that the next sweep sends it again ("an edited thread re-uploads"); the   *)
(* code can tell no edit that leaves a thread without lastUpdatedAt as long  *)
(* as it was.                                                               *)
EditsAreNoticed ==
    \A i \in DOMAIN emitted :
        LET was == emitted[i].row
            is  == db[emitted[i].candidate.thread]
        IN was # Gone /\ is # Gone =>
            (/\ was.revision # is.revision
             /\ was.updated > 0 \/ was.bubbles # is.bubbles
             => Fingerprint(was) # Fingerprint(is))
=============================================================================
