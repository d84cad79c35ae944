---------------------------- MODULE DrainSchedule ---------------------------
(***************************************************************************)
(* Which rows the passes of CaptureOutbox::drain come to, src/              *)
(* capture_outbox.rs, when requests fail for ever and there are more rows   *)
(* than the limit.  Processes drain one after the other and may die over a  *)
(* row; what they do to one another is the matter of CaptureOutbox.         *)
(*                                                                         *)
(* Uploads and deletions are of different revisions.  Only the differences  *)
(* between attempts matter to the order, so they are kept above the lowest  *)
(* of the rows still queued; rows enqueued late begin below the others.     *)
(***************************************************************************)
EXTENDS Integers, FiniteSets, Sequences, FiniteSetsExt

CONSTANTS
    Upload, Deletion,   \* the rows of deliveries and of capture_deletions
    Sequence, KeyOrder, \* their places by sequence and by storage key
    Hopeless,           \* those the store never accepts
    Unreadable,         \* uploads whose object cannot be read for now
    Limit,              \* of a pass, 1..50 in the code
    MaxGap,             \* bound: attempts ahead of others, and see BeginDrain
    MaxTrouble          \* bound: other failures, and deaths

ASSUME ScheduleAssumption ==
    /\ IsFiniteSet(Upload) /\ IsFiniteSet(Deletion) /\ Upload \cap Deletion = {}
    /\ Sequence \in [Upload -> Nat] /\ KeyOrder \in [Deletion -> Nat]
    /\ \A u, v \in Upload : Sequence[u] = Sequence[v] => u = v
    /\ \A d, e \in Deletion : KeyOrder[d] = KeyOrder[e] => d = e
    /\ Unreadable \subseteq Upload
    /\ Limit \in Nat \ {0} /\ MaxGap \in Nat /\ MaxTrouble \in Nat

VARIABLES
    queued, attempts,   \* uploads without a receipt, and how often tried
    requested, acked,   \* deletions
    leased,             \* revisions whose lease a dead process left behind
    pc, todo, room,     \* the pass: its step, its rows, what the limit leaves
    trouble

vars == <<queued, attempts, requested, acked, leased, pc, todo, room, trouble>>

(* Type correctness; the limit is never exceeded. *)
TypeOK ==
    /\ queued \subseteq Upload /\ attempts \in [Upload -> Nat]
    /\ requested \subseteq Deletion /\ acked \subseteq requested
    /\ leased \subseteq Upload \cup Deletion
    /\ pc \in {"idle", "deletions", "uploads"}
    /\ todo \in Seq(Upload) \cup Seq(Deletion)
    /\ room \in 0 .. Limit /\ trouble \in 0 .. MaxTrouble
    /\ Len(todo) <= room

Init ==
    /\ queued = Upload
    /\ attempts \in [Upload -> 0 .. MaxGap]
    /\ requested \in SUBSET Deletion /\ acked = {} /\ leased = {}
    /\ pc = "idle" /\ todo = <<>> /\ room = 0 /\ trouble = 0

-----------------------------------------------------------------------------
(* ORDER BY attempts, sequence. *)
Before ==
    {e \in Upload \X Upload :
        \/ attempts[e[1]] < attempts[e[2]]
        \/ attempts[e[1]] = attempts[e[2]] /\ Sequence[e[1]] < Sequence[e[2]]}

(* ORDER BY storage_key,content_hash. *)
KeyBefore == {e \in Deletion \X Deletion : KeyOrder[e[1]] < KeyOrder[e[2]]}

(* The first n elements of S in an order, a set of pairs. *)
FirstOf(S, n, order) ==
    LET Rank(x) == 1 + Cardinality({y \in S : <<y, x>> \in order})
        size    == IF n < Cardinality(S) THEN n ELSE Cardinality(S)
    IN [i \in 1 .. size |-> CHOOSE x \in S : Rank(x) = i]

(* Slip: no LIMIT. *)
AllDeletions == FirstOf(requested \ acked, Cardinality(Deletion), KeyBefore)

PendingDeletions == FirstOf(requested \ acked, Limit, KeyBefore)

(* Attempts, above the lowest of those in S. *)
Above(a, S) ==
    [u \in Upload |-> IF u \in S THEN a[u] - Min({a[v] : v \in S}) ELSE 0]

(* Slip: attempts are not counted. *)
Uncounted(u, S) == attempts' = Above(attempts, S)

Counted(u, S) == attempts' = Above([attempts EXCEPT ![u] = @ + 1], S)

Strike == trouble < MaxTrouble /\ trouble' = trouble + 1

Done == todo' = Tail(todo)

-----------------------------------------------------------------------------
(* A pass *)

(* A lease that was left behind runs out before the passes it is in the way *)
(* of have tried other rows more than MaxGap times.                         *)
BeginDrain ==
    /\ pc = "idle"
    /\ leased = {} \/ \A u \in queued : attempts[u] <= MaxGap
    /\ todo' = PendingDeletions
    /\ room' = Limit
    /\ pc' = "deletions"
    /\ UNCHANGED <<queued, attempts, requested, acked, leased, trouble>>

(* A deletion that is sent counts against the limit, one that is leased     *)
(* does not.  No attempts are counted.                                      *)
TryDeletion ==
    /\ pc = "deletions" /\ todo # <<>>
    /\ \/ /\ Head(todo) \in leased
          /\ UNCHANGED <<acked, room, trouble>>
       \/ /\ Head(todo) \notin leased
          /\ room' = room - 1
          /\ \/ /\ Head(todo) \notin Hopeless
                /\ acked' = acked \cup {Head(todo)}
                /\ UNCHANGED trouble
             \/ /\ Head(todo) \in Hopeless
                /\ UNCHANGED <<acked, trouble>>
             \/ Strike /\ UNCHANGED acked
    /\ Done
    /\ UNCHANGED <<queued, attempts, requested, leased, pc>>

SelectUploads ==
    /\ pc = "deletions" /\ todo = <<>>
    /\ todo' = FirstOf(queued, room, Before)
    /\ pc' = "uploads"
    /\ UNCHANGED <<queued, attempts, requested, acked, leased, room, trouble>>

(* A row that cannot be read counts an attempt, one that is leased does     *)
(* not; of the others the attempt is counted before the request goes out.   *)
TryUpload ==
    /\ pc = "uploads" /\ todo # <<>>
    /\ LET u == Head(todo) IN
       \/ /\ u \in Unreadable
          /\ Counted(u, queued)
          /\ UNCHANGED <<queued, trouble>>
       \/ /\ u \in leased \ Unreadable
          /\ UNCHANGED <<queued, attempts, trouble>>
       \/ /\ u \notin leased \cup Unreadable \cup Hopeless
          /\ queued' = queued \ {u}
          /\ Counted(u, queued')
          /\ UNCHANGED trouble
       \/ /\ u \notin leased \cup Unreadable
          /\ \/ u \in Hopeless /\ UNCHANGED trouble
             \/ Strike
          /\ Counted(u, queued)
          /\ UNCHANGED queued
    /\ Done
    /\ UNCHANGED <<requested, acked, leased, pc, room>>

EndDrain ==
    /\ pc = "uploads" /\ todo = <<>>
    /\ pc' = "idle" /\ room' = 0
    /\ UNCHANGED <<queued, attempts, requested, acked, leased, todo, trouble>>

Drain == BeginDrain \/ TryDeletion \/ SelectUploads \/ TryUpload \/ EndDrain

-----------------------------------------------------------------------------
(* Around it *)

RequestDeletion(d) ==
    /\ d \notin requested
    /\ requested' = requested \cup {d}
    /\ UNCHANGED <<queued, attempts, acked, leased, pc, todo, room, trouble>>

(* The process dies, with a lease or without, before the attempt is counted *)
(* or after.                                                                *)
Die ==
    /\ pc # "idle"
    /\ Strike
    /\ \/ UNCHANGED <<leased, attempts>>
       \/ /\ todo # <<>> /\ Head(todo) \notin leased \cup Unreadable
          /\ leased' = leased \cup {Head(todo)}
          /\ \/ UNCHANGED attempts
             \/ pc = "uploads" /\ Counted(Head(todo), queued)
    /\ pc' = "idle" /\ todo' = <<>> /\ room' = 0
    /\ UNCHANGED <<queued, requested, acked>>

Expire(x) ==
    /\ x \in leased
    /\ leased' = leased \ {x}
    /\ UNCHANGED <<queued, attempts, requested, acked, pc, todo, room, trouble>>

Next ==
    \/ Drain \/ Die
    \/ \E d \in Deletion : RequestDeletion(d)
    \/ \E x \in Upload \cup Deletion : Expire(x)

Spec == Init /\ [][Next]_vars

(* The drain is run again and again, and a lease runs out. *)
FairSpec ==
    Spec /\ WF_vars(Drain) /\ \A x \in Upload \cup Deletion : WF_vars(Expire(x))

-----------------------------------------------------------------------------
(* Properties *)

(* It is the turn of an upload that nobody holds. *)
Turn(u) == pc = "uploads" /\ todo # <<>> /\ Head(todo) = u /\ u \notin leased

(* Nothing is starved while fewer deletions fail for ever than the limit is: *)
(* every upload gets its turn again and again until it is delivered,        *)
(* whatever becomes of the others, as the attempts rotate the rows; and     *)
(* every deletion the store accepts is confirmed, although deletions are    *)
(* not rotated.                                                             *)
EveryRowGetsItsTurn ==
    Cardinality(Hopeless \cap Deletion) < Limit =>
        /\ \A u \in Upload : []<>(u \notin queued \/ Turn(u))
        /\ \A d \in Deletion \ Hopeless : d \in requested ~> d \in acked

=============
