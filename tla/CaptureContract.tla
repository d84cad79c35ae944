--------------------------- MODULE CaptureContract --------------------------
(***************************************************************************)
(* What the capture outbox and the store together promise a caller, without *)
(* processes, leases, requests, files or crashes (src/docs/qualified-       *)
(* capture.md states it in prose; src/src/capture_outbox.rs implements it). *)
(* A caller sees which captures were accepted, which have a receipt, which  *)
(* were given up or set aside, what became of each deletion request, and    *)
(* what the store serves.                                                   *)
(***************************************************************************)
CONSTANTS
    Capture,            \* what may be enqueued
    Rev,                \* revisions: a storage key and a content hash
    RevOf(_),           \* the revision of a capture
    ExternalDeletions   \* revisions another client may delete at the store

VARIABLES
    accepted,           \* captures durably enqueued
    delivered,          \* captures with a receipt
    dropped,            \* captures given up because they were deleted
    aside,              \* captures set aside for integrity
    deletion,           \* of each revision: none, queued or acked
    held, gone          \* revisions the store serves, and has deleted

contract == <<accepted, delivered, dropped, aside, deletion, held, gone>>

Deleting(v) == deletion[v] # "none"

Init ==
    /\ accepted \subseteq Capture
    /\ delivered \subseteq accepted
    /\ dropped = {} /\ aside = {}
    /\ deletion = [v \in Rev |-> "none"]
    /\ held = {RevOf(r) : r \in delivered}
    /\ gone = {}

(* A deleted revision is never accepted again. *)
Accept(r) ==
    /\ r \notin accepted
    /\ ~Deleting(RevOf(r))
    /\ accepted' = accepted \cup {r}
    /\ UNCHANGED <<delivered, dropped, aside, deletion, held, gone>>

RequestDeletion(v) ==
    /\ ~Deleting(v)
    /\ deletion' = [deletion EXCEPT ![v] = "queued"]
    /\ UNCHANGED <<accepted, delivered, dropped, aside, held, gone>>

(* The store takes only what was accepted, and never what it deleted. *)
Hold(v) ==
    /\ \E r \in accepted : RevOf(r) = v
    /\ v \notin gone
    /\ held' = held \cup {v}
    /\ UNCHANGED <<accepted, delivered, dropped, aside, deletion, gone>>

(* It deletes only what a client asked it to delete. *)
Erase(v) ==
    /\ Deleting(v) \/ v \in ExternalDeletions
    /\ held' = held \ {v}
    /\ gone' = gone \cup {v}
    /\ UNCHANGED <<accepted, delivered, dropped, aside, deletion>>

(* A receipt is given only for what the store took. *)
Deliver(r) ==
    /\ r \in accepted
    /\ RevOf(r) \in held \cup gone
    /\ delivered' = delivered \cup {r}
    /\ UNCHANGED <<accepted, dropped, aside, deletion, held, gone>>

(* A deletion is confirmed only after the store carried it out. *)
Confirm(v) ==
    /\ Deleting(v) /\ v \in gone
    /\ deletion' = [deletion EXCEPT ![v] = "acked"]
    /\ UNCHANGED <<accepted, delivered, dropped, aside, held, gone>>

(* The store had the deletion already: it is adopted, the capture given up. *)
Withdraw(r) ==
    /\ r \in accepted
    /\ RevOf(r) \in gone
    /\ deletion' = [deletion EXCEPT ![RevOf(r)] = "acked"]
    /\ dropped' = dropped \cup {r}
    /\ UNCHANGED <<accepted, delivered, aside, held, gone>>

(* Captures are given up only if deleted, or set aside before. *)
Drop(S) ==
    /\ S \subseteq accepted
    /\ \A r \in S : Deleting(RevOf(r)) \/ r \in aside
    /\ dropped' = dropped \cup S
    /\ UNCHANGED <<accepted, delivered, aside, deletion, held, gone>>

SetAside(S) ==
    /\ S \subseteq accepted
    /\ aside' = aside \cup S
    /\ UNCHANGED <<accepted, delivered, dropped, deletion, held, gone>>

Next ==
    \/ \E r \in Capture : Accept(r) \/ Deliver(r) \/ Withdraw(r)
    \/ \E v \in Rev : RequestDeletion(v) \/ Hold(v) \/ Erase(v) \/ Confirm(v)
    \/ \E S \in SUBSET Capture : Drop(S) \/ SetAside(S)

Spec == Init /\ [][Next]_contract
=============================================================================
