--------------------------- MODULE InventoryOutbox --------------------------
(***************************************************************************)
(* The inventory outbox, src/inventory_outbox.rs over src/inventory.rs.     *)
(* Producers enqueue immutable operations of a workflow revision; drains,   *)
(* which take no lease and may overlap, send a bounded number of them each  *)
(* and mark what the store accepted.  A publication is answered "pending"   *)
(* until the evidence of its revision has arrived, and stays queued.        *)
(*                                                                         *)
(* A step is one SQLite statement or one request with its answer; processes *)
(* crash between any two.                                                   *)
(***************************************************************************)
EXTENDS Integers, FiniteSets, Sequences

CONSTANTS
    Process,        \* exporters sharing the outbox directory
    Operation,      \* operation identities: record, stage, manifest, publish
    Publication,    \* those that publish a revision
    Content,        \* payloads a producer may give for an identity
    Destination,    \* store URLs an exporter may be configured with
    Limit,          \* operations of one drain, 1..500 in the code
    MaxAttempts,    \* bound: attempts are counted up to here
    MaxTrouble,     \* bound: lost requests and answers, crashes, damaged rows
    None

ASSUME InventoryAssumption ==
    /\ IsFiniteSet(Operation)
    /\ Publication \subseteq Operation
    /\ Limit \in Nat \ {0}
    /\ MaxAttempts \in Nat
    /\ MaxTrouble \in Nat
    /\ None \notin Content \cup Destination \cup Operation

VARIABLES
    bound,          \* the destination row, None before the first open
    queue,          \* the operations in the order of their sequence numbers
    payload,        \* the content in each row; damaged rows do not decode
    damaged,
    attempts,
    acknowledged, quarantined,
    client,         \* each process: the destination it is configured for
    pc, todo, reply,\* each process: its step, the ids it selected, the answer
    remote,         \* each destination: the content it has accepted
    first,          \* history: the content first accepted into the outbox
    trouble

table  == <<bound, queue, payload, damaged, attempts, acknowledged, quarantined>>
locals == <<client, pc, todo, reply>>
vars   == <<table, locals, remote, first, trouble>>

Queued == {queue[i] : i \in DOMAIN queue}

(* Type correctness. *)
TypeOK ==
    /\ bound \in Destination \cup {None}
    /\ queue \in Seq(Operation)
    /\ \A i, j \in DOMAIN queue : queue[i] = queue[j] => i = j
    /\ payload \in [Operation -> Content \cup {None}]
    /\ \A o \in Operation : o \in Queued <=> payload[o] # None
    /\ damaged \subseteq Queued
    /\ attempts \in [Operation -> Nat]
    /\ acknowledged \subseteq Queued
    /\ quarantined \subseteq Queued
    /\ client \in [Process -> Destination \cup {None}]
    /\ pc \in [Process -> {"closed", "open", "next", "send", "answered"}]
    /\ todo \in [Process -> Seq(Operation)]
    /\ reply \in [Process -> {"none", "true", "false", "error"}]
    /\ remote \in [Destination -> [Operation -> Content \cup {None}]]
    /\ first \in [Operation -> Content \cup {None}]
    /\ trouble \in Nat

Init ==
    /\ bound = None /\ queue = <<>>
    /\ payload = [o \in Operation |-> None]
    /\ damaged = {} /\ acknowledged = {} /\ quarantined = {}
    /\ attempts = [o \in Operation |-> 0]
    /\ client = [p \in Process |-> None]
    /\ pc = [p \in Process |-> "closed"]
    /\ todo = [p \in Process |-> <<>>]
    /\ reply = [p \in Process |-> "none"]
    /\ remote = [d \in Destination |-> [o \in Operation |-> None]]
    /\ first = [o \in Operation |-> None]
    /\ trouble = 0

-----------------------------------------------------------------------------
(* Opening and enqueueing *)

(* Slip: the destination is noted but not compared. *)
OpenAnywhere(p, d) ==
    /\ pc[p] = "closed"
    /\ bound' = IF bound = None THEN d ELSE bound
    /\ client' = [client EXCEPT ![p] = d]
    /\ pc' = [pc EXCEPT ![p] = "open"]
    /\ UNCHANGED <<queue, payload, damaged, attempts, acknowledged, quarantined,
                   todo, reply, remote, first, trouble>>

(* The first open binds the outbox to its destination; a later one that is  *)
(* configured for another store is refused.                                 *)
Open(p, d) ==
    /\ pc[p] = "closed"
    /\ bound \in {None, d}
    /\ bound' = d
    /\ client' = [client EXCEPT ![p] = d]
    /\ pc' = [pc EXCEPT ![p] = "open"]
    /\ UNCHANGED <<queue, payload, damaged, attempts, acknowledged, quarantined,
                   todo, reply, remote, first, trouble>>

(* Slip: identities are not UNIQUE. *)
EnqueueAgain(p, o, c) ==
    /\ pc[p] = "open"
    /\ queue' = Append(queue, o)
    /\ payload' = [payload EXCEPT ![o] = c]
    /\ first' = [first EXCEPT ![o] = c]
    /\ UNCHANGED <<bound, damaged, attempts, acknowledged, quarantined, locals,
                   remote, trouble>>

(* INSERT OR IGNORE: an identity keeps its first payload; the same payload  *)
(* again is a retry and another one a conflict, neither changes anything.   *)
Enqueue(p, o, c) ==
    /\ pc[p] = "open"
    /\ o \notin Queued
    /\ queue' = Append(queue, o)
    /\ payload' = [payload EXCEPT ![o] = c]
    /\ first' = [first EXCEPT ![o] = c]
    /\ UNCHANGED <<bound, damaged, attempts, acknowledged, quarantined, locals,
                   remote, trouble>>

-----------------------------------------------------------------------------
(* A drain *)

Min(a, b) == IF a < b THEN a ELSE b

Position(o) == CHOOSE i \in DOMAIN queue : queue[i] = o

Pending == Queued \ (acknowledged \cup quarantined)

(* Slip: ORDER BY sequence alone. *)
BeforeBySequence(o, q) == Position(o) < Position(q)

(* ORDER BY attempts, sequence. *)
Before(o, q) ==
    \/ attempts[o] < attempts[q]
    \/ attempts[o] = attempts[q] /\ Position(o) < Position(q)

Rank(o) == 1 + Cardinality({q \in Pending : Before(q, o)})

(* The drain compares the store of the client it is given with the one the  *)
(* outbox was opened for, and selects.                                      *)
Select(p, d) ==
    /\ pc[p] = "open"
    /\ d = client[p]
    /\ client' = [client EXCEPT ![p] = d]
    /\ todo' = [todo EXCEPT ![p] = [i \in 1 .. Min(Limit, Cardinality(Pending)) |->
                                        CHOOSE o \in Pending : Rank(o) = i]]
    /\ pc' = [pc EXCEPT ![p] = "next"]
    /\ UNCHANGED <<table, reply, remote, first, trouble>>

(* The row is read again.  One that does not decode is set aside and the    *)
(* pass goes on; otherwise the attempt is counted before anything is sent.  *)
Take(p) ==
    /\ pc[p] = "next" /\ todo[p] # <<>>
    /\ Head(todo[p]) \in Queued
    /\ LET o == Head(todo[p]) IN
       \/ /\ o \in damaged
          /\ quarantined' = quarantined \cup {o}
          /\ todo' = [todo EXCEPT ![p] = Tail(@)]
          /\ UNCHANGED <<pc, attempts>>
       \/ /\ o \notin damaged
          /\ attempts' = [attempts EXCEPT ![o] = Min(@ + 1, MaxAttempts)]
          /\ pc' = [pc EXCEPT ![p] = "send"]
          /\ UNCHANGED <<todo, quarantined>>
    /\ UNCHANGED <<bound, queue, payload, damaged, acknowledged,
                   client, reply, remote, first, trouble>>

(* The store: identities are immutable, so it refuses other content for one *)
(* it has; a publication counts once everything else has arrived.           *)
Evidence(d) == \A o \in Operation \ Publication : remote[d][o] # None

Acceptable(d, o, c) ==
    /\ remote[d][o] \in {None, c}
    /\ o \in Publication => Evidence(d)

(* A request with its answer.  A lost request, an error status, a redirect, *)
(* a timeout, a response too long or malformed: all are failures of the     *)
(* attempt, whether or not the store acted on the request.                  *)
Send(p) ==
    /\ pc[p] = "send"
    /\ LET o == Head(todo[p])
           d == client[p]
           acts == Acceptable(d, o, payload[o])
       IN /\ \/ /\ acts
                /\ remote' = [remote EXCEPT ![d][o] = payload[o]]
             \/ /\ ~acts \/ trouble < MaxTrouble
                /\ UNCHANGED remote
          /\ \/ /\ acts /\ remote'[d][o] = payload[o]
                /\ reply' = [reply EXCEPT ![p] = "true"]
                /\ UNCHANGED trouble
             \/ /\ ~acts
                /\ reply' = [reply EXCEPT ![p] =
                                IF o \in Publication
                                THEN "false" ELSE "error"]
                /\ UNCHANGED trouble
             \/ /\ trouble < MaxTrouble
                /\ reply' = [reply EXCEPT ![p] = "error"]
                /\ trouble' = trouble + 1
    /\ pc' = [pc EXCEPT ![p] = "answered"]
    /\ UNCHANGED <<table, client, todo, first>>

(* Slip: a pending publication counts as sent. *)
RecordPending(p) ==
    /\ pc[p] = "answered"
    /\ acknowledged' = IF reply[p] \in {"true", "false"}
                       THEN acknowledged \cup {Head(todo[p])} ELSE acknowledged
    /\ todo' = [todo EXCEPT ![p] = Tail(@)]
    /\ reply' = [reply EXCEPT ![p] = "none"]
    /\ pc' = [pc EXCEPT ![p] = "next"]
    /\ UNCHANGED <<bound, queue, payload, damaged, attempts, quarantined,
                   client, remote, first, trouble>>

(* Only Ok(true) marks the row. *)
Record(p) ==
    /\ pc[p] = "answered"
    /\ acknowledged' = IF reply[p] = "true"
                       THEN acknowledged \cup {Head(todo[p])} ELSE acknowledged
    /\ todo' = [todo EXCEPT ![p] = Tail(@)]
    /\ reply' = [reply EXCEPT ![p] = "none"]
    /\ pc' = [pc EXCEPT ![p] = "next"]
    /\ UNCHANGED <<bound, queue, payload, damaged, attempts, quarantined,
                   client, remote, first, trouble>>

(* The command ends after its one pass. *)
Finish(p) ==
    /\ pc[p] = "next" /\ todo[p] = <<>>
    /\ pc' = [pc EXCEPT ![p] = "closed"]
    /\ client' = [client EXCEPT ![p] = None]
    /\ UNCHANGED <<table, todo, reply, remote, first, trouble>>

Drain(p) ==
    \/ \E d \in Destination : Select(p, d)
    \/ Take(p) \/ Send(p) \/ Record(p) \/ Finish(p)

-----------------------------------------------------------------------------
(* Trouble *)

Crash(p) ==
    /\ trouble < MaxTrouble
    /\ pc[p] \notin {"closed", "open"}
    /\ pc' = [pc EXCEPT ![p] = "closed"]
    /\ client' = [client EXCEPT ![p] = None]
    /\ todo' = [todo EXCEPT ![p] = <<>>]
    /\ reply' = [reply EXCEPT ![p] = "none"]
    /\ trouble' = trouble + 1
    /\ UNCHANGED <<table, remote, first>>

(* A stored payload stops decoding: a damaged file, or another version of   *)
(* the standard's types.                                                    *)
Damage(o) ==
    /\ trouble < MaxTrouble
    /\ o \in Queued \ damaged
    /\ damaged' = damaged \cup {o}
    /\ trouble' = trouble + 1
    /\ UNCHANGED <<bound, queue, payload, attempts, acknowledged, quarantined,
                   locals, remote, first>>

Next ==
    \/ \E p \in Process :
          \/ Drain(p) \/ Crash(p)
          \/ \E d \in Destination : Open(p, d)
          \/ \E o \in Operation, c \in Content : Enqueue(p, o, c)
    \/ \E o \in Operation : Damage(o)

Spec == Init /\ [][Next]_vars

(* The scheduler runs the drain command again and again, configured for the *)
(* store the outbox belongs to.                                             *)
FairSpec ==
    Spec /\ \A p \in Process :
                WF_vars(Drain(p)) /\ WF_vars(\E d \in Destination : Open(p, d))

-----------------------------------------------------------------------------
(* Properties *)

(* An operation marked as acknowledged is at the outbox's own store, with   *)
(* the very content the producer was promised: overlapping drains, repeated *)
(* and lost answers, crashes and later payloads included.                   *)
AcknowledgedIsRemote ==
    \A o \in acknowledged : remote[bound][o] = first[o] /\ payload[o] = first[o]

(* Nothing queued for one store ever reaches another. *)
NothingReachesAnotherStore ==
    \A d \in Destination \ {bound}, o \in Operation : remote[d][o] = None

(* Evidence the store takes is acknowledged in the end, or set aside because *)
(* its row was damaged, although a publication keeps waiting for it ("a      *)
(* waiting publication cannot prevent later evidence from uploading").      *)
EvidenceSettles ==
    \A o \in Operation \ Publication :
        o \in Queued ~> o \in acknowledged \cup quarantined

Contract == INSTANCE DeliveryQueue WITH
    NoContent <- None,
    accepted  <- payload,
    delivered <- acknowledged,
    aside     <- quarantined,
    taken     <- [o \in Operation |-> IF bound = None THEN None ELSE remote[bound][o]]

(* All of it is a queue that loses and replaces nothing. *)
ImplementsQueue == Contract!Spec
=============================================================================
