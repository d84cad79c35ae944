---------------------------- MODULE DeliveryQueue ---------------------------
(***************************************************************************)
(* What the inventory outbox promises a producer, without processes,        *)
(* requests or crashes (src/docs/inventory-replication.md): an operation,   *)
(* once accepted, keeps its content and leaves the queue only when the      *)
(* store has taken that content, or is set aside where it can be seen.      *)
(***************************************************************************)
CONSTANTS Operation, Content, NoContent

VARIABLES
    accepted,           \* the content accepted for each operation
    delivered,          \* operations reported as acknowledged
    aside,              \* operations set aside
    taken               \* the content the store has taken of each

queue == <<accepted, delivered, aside, taken>>

Init ==
    /\ accepted = [o \in Operation |-> NoContent]
    /\ delivered = {} /\ aside = {}
    /\ taken = [o \in Operation |-> NoContent]

Accept(o, c) ==
    /\ accepted[o] = NoContent
    /\ accepted' = [accepted EXCEPT ![o] = c]
    /\ UNCHANGED <<delivered, aside, taken>>

Take(o) ==
    /\ accepted[o] # NoContent
    /\ taken' = [taken EXCEPT ![o] = accepted[o]]
    /\ UNCHANGED <<accepted, delivered, aside>>

Deliver(o) ==
    /\ accepted[o] # NoContent /\ taken[o] = accepted[o]
    /\ delivered' = delivered \cup {o}
    /\ UNCHANGED <<accepted, aside, taken>>

SetAside(o) ==
    /\ accepted[o] # NoContent
    /\ aside' = aside \cup {o}
    /\ UNCHANGED <<accepted, delivered, taken>>

Next == \E o \in Operation :
    Take(o) \/ Deliver(o) \/ SetAside(o) \/ \E c \in Content : Accept(o, c)

Spec == Init /\ [][Next]_queue
=============================================================================
