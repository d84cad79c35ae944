---------------------------- MODULE InventoryProofs --------------------------
(* What the inventory outbox promises, for every number of processes,       *)
(* operations, destinations and failures: an acknowledged operation is at   *)
(* the outbox's own store with the content first accepted, nothing reaches  *)
(* another store, and all of it implements the queue of DeliveryQueue.      *)
EXTENDS InventoryOutbox, OrderLemmas, SequenceTheorems

-----------------------------------------------------------------------------
(* The invariant *)

Held    == Content \cup {None}
Steps   == {"closed", "open", "next", "send", "answered"}
Replies == {"none", "true", "false", "error"}

(* The selections are typed as far as the properties need it. *)
Typed ==
    /\ bound \in Destination \cup {None}
    /\ queue \in Seq(Operation)
    /\ payload \in [Operation -> Held]
    /\ client \in [Process -> Destination \cup {None}]
    /\ pc \in [Process -> Steps]
    /\ DOMAIN todo = Process
    /\ reply \in [Process -> Replies]
    /\ remote \in [Destination -> [Operation -> Held]]

(* A row is there with the content first accepted, and never replaced. *)
Rows ==
    /\ payload = first
    /\ \A o \in Operation : o \in Queued <=> payload[o] # None
    /\ acknowledged \subseteq Queued

(* Every process at work is configured for the store the outbox belongs to. *)
Bound ==
    /\ \A p \in Process : pc[p] # "closed" => bound # None /\ client[p] = bound
    /\ bound = None => acknowledged = {}

(* A request is about a row, and the answer to it is true. *)
Answers ==
    \A p \in Process :
        /\ pc[p] \in {"send", "answered"} => Head(todo[p]) \in Queued
        /\ reply[p] = "true" =>
              /\ pc[p] = "answered"
              /\ remote[bound][Head(todo[p])] = payload[Head(todo[p])]

Faithful ==
    /\ Typed /\ Rows /\ Bound /\ Answers
    /\ AcknowledgedIsRemote /\ NothingReachesAnotherStore

LEMMA QueuedRows == ASSUME Typed PROVE Queued \subseteq Operation
  BY DEF Typed, Queued

-----------------------------------------------------------------------------
(* The steps *)

LEMMA InitFaithful == ASSUME InventoryAssumption, Init PROVE Faithful
<1>1. Queued = {}
  BY DEF Init, Queued
<1>2. Typed /\ Bound
  BY DEF Init, Typed, Bound, Held, Steps, Replies
<1>3. Rows
  BY <1>1 DEF Init, Rows
<1>4. Answers
  BY DEF Init, Answers
<1>5. AcknowledgedIsRemote /\ NothingReachesAnotherStore
  BY DEF Init, AcknowledgedIsRemote, NothingReachesAnotherStore
<1> QED  BY <1>2, <1>3, <1>4, <1>5 DEF Faithful

(* The first open binds; before it no store has anything. *)
LEMMA OpenFaithful ==
    ASSUME InventoryAssumption, Faithful, NEW p \in Process, NEW d \in Destination, Open(p, d)
    PROVE  Faithful'
<1>1. /\ pc[p] = "closed" /\ bound \in {None, d} /\ bound' = d
      /\ client' = [client EXCEPT ![p] = d] /\ pc' = [pc EXCEPT ![p] = "open"]
      /\ UNCHANGED <<queue, payload, acknowledged, todo, reply, remote, first>>
  BY DEF Open
<1>2. d # None /\ Queued' = Queued
  BY <1>1 DEF InventoryAssumption, Queued
<1>3. Typed' /\ Rows'
  BY <1>1, <1>2 DEF Faithful, Typed, Rows, Steps
<1>4. Bound'
  BY <1>1, <1>2 DEF Faithful, Typed, Bound
<1>5. bound # d => acknowledged = {} /\ \A q \in Process : pc[q] = "closed"
  BY <1>1 DEF Faithful, Bound
<1>6. Answers'
  BY <1>1, <1>2, <1>5 DEF Faithful, Answers, Typed
<1>7. AcknowledgedIsRemote' /\ NothingReachesAnotherStore'
  BY <1>1, <1>2, <1>5 DEF Faithful, AcknowledgedIsRemote, NothingReachesAnotherStore
<1> QED  BY <1>3, <1>4, <1>6, <1>7 DEF Faithful

(* A new row: nothing that was said of the others is touched. *)
LEMMA EnqueueFaithful ==
    ASSUME InventoryAssumption, Faithful, NEW p \in Process, NEW o \in Operation,
           NEW c \in Content, Enqueue(p, o, c)
    PROVE  Faithful'
<1>1. /\ pc[p] = "open" /\ o \notin Queued /\ queue' = Append(queue, o)
      /\ payload' = [payload EXCEPT ![o] = c] /\ first' = [first EXCEPT ![o] = c]
      /\ UNCHANGED <<bound, acknowledged, client, pc, todo, reply, remote>>
  BY DEF Enqueue, locals
<1>2. queue \in Seq(Operation) /\ payload \in [Operation -> Held] /\ c # None /\ c \in Held
  BY DEF Faithful, Typed, InventoryAssumption, Held
<1>3. queue' \in Seq(Operation) /\ Queued' = Queued \cup {o}
  <2>1. /\ Len(queue) \in Nat /\ DOMAIN queue = 1 .. Len(queue)
        /\ DOMAIN Append(queue, o) = 1 .. Len(queue) + 1
        /\ \A i \in 1 .. Len(queue) : Append(queue, o)[i] = queue[i]
        /\ Append(queue, o)[Len(queue) + 1] = o
        /\ Append(queue, o) \in Seq(Operation)
    BY <1>2
  <2> QED  BY <1>1, <2>1 DEF Queued
<1>4. \A q \in Operation : payload'[q] = IF q = o THEN c ELSE payload[q]
  BY <1>1, <1>2
<1>5. Typed' /\ Rows'
  BY <1>1, <1>2, <1>3, <1>4 DEF Faithful, Typed, Rows
<1>6. Bound'
  BY <1>1 DEF Faithful, Bound
<1>7. Answers'
  <2>1. SUFFICES ASSUME NEW q \in Process
                 PROVE  /\ pc[q] \in {"send", "answered"} => Head(todo[q]) \in Queued'
                        /\ reply[q] = "true" =>
                              /\ pc[q] = "answered"
                              /\ remote[bound][Head(todo[q])] = payload'[Head(todo[q])]
    BY <1>1 DEF Answers
  <2>2. Head(todo[q]) \in Queued => payload'[Head(todo[q])] = payload[Head(todo[q])]
    BY <1>1, <1>4, QueuedRows DEF Faithful
  <2> QED  BY <1>3, <2>2 DEF Faithful, Answers
<1>8. AcknowledgedIsRemote'
  <2>1. SUFFICES ASSUME NEW q \in acknowledged
                 PROVE  remote[bound][q] = first'[q] /\ payload'[q] = first'[q]
    BY <1>1 DEF AcknowledgedIsRemote
  <2>2. q \in Operation /\ q # o
    BY <1>1, QueuedRows DEF Faithful, Rows
  <2> QED  BY <1>1, <1>4, <2>2 DEF Faithful, Rows, AcknowledgedIsRemote
<1>9. NothingReachesAnotherStore'
  BY <1>1 DEF Faithful, NothingReachesAnotherStore
<1> QED  BY <1>5, <1>6, <1>7, <1>8, <1>9 DEF Faithful

LEMMA SelectFaithful ==
    ASSUME Faithful, NEW p \in Process, NEW d \in Destination, Select(p, d) PROVE Faithful'
<1>1. /\ pc[p] = "open" /\ pc' = [pc EXCEPT ![p] = "next"]
      /\ DOMAIN todo' = Process /\ \A q \in Process : q # p => todo'[q] = todo[q]
      /\ UNCHANGED <<bound, queue, payload, acknowledged, client, reply, remote, first>>
  BY DEF Select, table, Faithful, Typed
<1>2. Queued' = Queued
  BY <1>1 DEF Queued
<1>3. reply[p] # "true"
  BY <1>1 DEF Faithful, Answers
<1> QED  BY <1>1, <1>2, <1>3 DEF Faithful, Typed, Steps, Rows, Bound, Answers,
                                AcknowledgedIsRemote, NothingReachesAnotherStore

LEMMA TakeFaithful ==
    ASSUME Faithful, NEW p \in Process, Take(p) PROVE Faithful'
<1>1. /\ pc[p] = "next" /\ Head(todo[p]) \in Queued
      /\ UNCHANGED <<bound, queue, payload, acknowledged, client, reply, remote, first>>
      /\ DOMAIN todo' = Process /\ \A q \in Process : q # p => todo'[q] = todo[q]
      /\ pc' = pc \/ (pc' = [pc EXCEPT ![p] = "send"] /\ todo' = todo)
  <2>1. DOMAIN todo = Process
    BY DEF Faithful, Typed
  <2> QED  BY <2>1 DEF Take
<1>2. Queued' = Queued
  BY <1>1 DEF Queued
<1>3. reply[p] # "true"
  BY <1>1 DEF Faithful, Answers
<1>4. /\ \A q \in Process : pc'[q] = pc[q] \/ (q = p /\ pc'[q] = "send" /\ todo' = todo)
      /\ pc' \in [Process -> Steps]
  <2>1. pc \in [Process -> Steps]
    BY DEF Faithful, Typed
  <2>2. CASE pc' = pc
    BY <2>1, <2>2
  <2>3. CASE pc' = [pc EXCEPT ![p] = "send"] /\ todo' = todo
    BY <2>1, <2>3 DEF Steps
  <2> QED  BY <1>1, <2>2, <2>3
<1>5. Answers'
  BY <1>1, <1>2, <1>3, <1>4 DEF Faithful, Answers
<1>6. Bound'
  BY <1>1, <1>4 DEF Faithful, Bound
<1> QED  BY <1>1, <1>2, <1>4, <1>5, <1>6 DEF Faithful, Typed, Rows,
            AcknowledgedIsRemote, NothingReachesAnotherStore

(* The store takes the content or keeps what it has; it says "true" of what *)
(* it has.                                                                  *)
LEMMA SendEffect ==
    ASSUME Faithful, NEW p \in Process, Send(p)
    PROVE  LET o == Head(todo[p]) IN
           /\ pc[p] = "send" /\ o \in Operation /\ o \in Queued /\ client[p] = bound
           /\ bound \in Destination
           /\ pc' = [pc EXCEPT ![p] = "answered"]
           /\ reply' \in [Process -> Replies]
           /\ \A q \in Process : q # p => reply'[q] = reply[q]
           /\ reply'[p] = "true" => remote'[bound][o] = payload[o]
           /\ \/ remote' = remote
              \/ /\ remote[bound][o] \in {None, payload[o]}
                 /\ remote' = [remote EXCEPT ![bound] = [@ EXCEPT ![o] = payload[o]]]
           /\ UNCHANGED <<bound, queue, payload, acknowledged, quarantined, client, todo, first>>
<1> DEFINE o == Head(todo[p])
           acts == Acceptable(client[p], o, payload[o])
<1>1. /\ pc[p] = "send" /\ pc' = [pc EXCEPT ![p] = "answered"]
      /\ UNCHANGED <<bound, queue, payload, acknowledged, quarantined, client, todo, first>>
  BY DEF Send, table
<1>2. o \in Queued /\ o \in Operation /\ client[p] = bound /\ bound \in Destination
  BY <1>1, QueuedRows DEF Faithful, Typed, Answers, Bound
<1>3. acts => remote[bound][o] \in {None, payload[o]}
  BY <1>2 DEF Acceptable
<1>4. \/ /\ acts
         /\ remote' = [remote EXCEPT ![client[p]][o] = payload[o]]
      \/ remote' = remote
  BY DEF Send
<1>5. \/ acts /\ remote'[client[p]][o] = payload[o] /\ reply' = [reply EXCEPT ![p] = "true"]
      \/ reply' = [reply EXCEPT ![p] = "false"]
      \/ reply' = [reply EXCEPT ![p] = "error"]
  BY DEF Send
<1> HIDE DEF o, acts
<1>6. /\ reply' \in [Process -> Replies]
      /\ \A q \in Process : q # p => reply'[q] = reply[q]
      /\ reply'[p] = "true" => remote'[bound][o] = payload[o]
  BY <1>2, <1>5 DEF Faithful, Typed, Replies
<1> QED  BY <1>1, <1>2, <1>3, <1>4, <1>6 DEF o

LEMMA SendFaithful ==
    ASSUME Faithful, NEW p \in Process, Send(p) PROVE Faithful'
<1> DEFINE o == Head(todo[p])
<1>1. /\ pc[p] = "send" /\ o \in Operation /\ o \in Queued /\ client[p] = bound
      /\ bound \in Destination
      /\ pc' = [pc EXCEPT ![p] = "answered"]
      /\ reply' \in [Process -> Replies]
      /\ \A q \in Process : q # p => reply'[q] = reply[q]
      /\ reply'[p] = "true" => remote'[bound][o] = payload[o]
      /\ \/ remote' = remote
         \/ /\ remote[bound][o] \in {None, payload[o]}
            /\ remote' = [remote EXCEPT ![bound] = [@ EXCEPT ![o] = payload[o]]]
      /\ UNCHANGED <<bound, queue, payload, acknowledged, client, todo, first>>
  BY SendEffect
<1> HIDE DEF o
<1>2. Queued' = Queued
  BY <1>1 DEF Queued
<1>3. /\ remote' \in [Destination -> [Operation -> Held]]
      /\ \A d \in Destination, q \in Operation :
            \/ remote'[d][q] = remote[d][q]
            \/ d = bound /\ q = o /\ remote'[d][q] = payload[q]
  <2>1. /\ remote \in [Destination -> [Operation -> Held]] /\ payload[o] \in Held
    BY <1>1 DEF Faithful, Typed
  <2>2. ASSUME NEW r, r = [remote[bound] EXCEPT ![o] = payload[o]]
        PROVE  /\ r \in [Operation -> Held]
               /\ \A q \in Operation : r[q] = IF q = o THEN payload[o] ELSE remote[bound][q]
    BY <1>1, <2>1, <2>2
  <2> QED  BY <1>1, <2>1, <2>2
<1>4. Typed' /\ Rows'
  BY <1>1, <1>2, <1>3 DEF Faithful, Typed, Rows, Steps
<1>5. Bound'
  BY <1>1 DEF Faithful, Bound, Typed
<1>6. Answers'
  <2>1. SUFFICES ASSUME NEW q \in Process
                 PROVE  /\ pc'[q] \in {"send", "answered"} => Head(todo[q]) \in Queued
                        /\ reply'[q] = "true" =>
                              /\ pc'[q] = "answered"
                              /\ remote'[bound][Head(todo[q])] = payload[Head(todo[q])]
    BY <1>1, <1>2 DEF Answers
  <2>2. CASE q = p
    BY <1>1, <2>2 DEF Faithful, Typed, o
  <2>3. CASE q # p
    <3>1. pc'[q] = pc[q] /\ reply'[q] = reply[q]
      BY <1>1, <2>3 DEF Faithful, Typed
    <3>2. reply[q] = "true" => Head(todo[q]) \in Operation
      BY QueuedRows DEF Faithful, Answers
    <3> QED  BY <1>1, <1>3, <3>1, <3>2 DEF Faithful, Answers
  <2> QED  BY <2>2, <2>3
<1>7. AcknowledgedIsRemote'
  <2>1. SUFFICES ASSUME NEW q \in acknowledged
                 PROVE  remote'[bound][q] = first[q] /\ payload[q] = first[q]
    BY <1>1 DEF AcknowledgedIsRemote
  <2>2. q \in Operation
    BY QueuedRows DEF Faithful, Rows
  <2> QED  BY <1>1, <1>3, <2>2 DEF Faithful, AcknowledgedIsRemote
<1>8. NothingReachesAnotherStore'
  BY <1>1, <1>3 DEF Faithful, NothingReachesAnotherStore
<1> QED  BY <1>4, <1>5, <1>6, <1>7, <1>8 DEF Faithful

(* What is marked was answered with "true". *)
LEMMA RecordFaithful ==
    ASSUME Faithful, NEW p \in Process, Record(p) PROVE Faithful'
<1>1. /\ pc[p] = "answered" /\ pc' = [pc EXCEPT ![p] = "next"]
      /\ acknowledged' = IF reply[p] = "true" THEN acknowledged \cup {Head(todo[p])}
                                              ELSE acknowledged
      /\ reply' = [reply EXCEPT ![p] = "none"]
      /\ DOMAIN todo' = Process /\ \A q \in Process : q # p => todo'[q] = todo[q]
      /\ UNCHANGED <<bound, queue, payload, client, remote, first>>
  BY DEF Record, Faithful, Typed
<1>2. Queued' = Queued
  BY <1>1 DEF Queued
<1>3. /\ Head(todo[p]) \in Queued /\ bound # None
      /\ reply[p] = "true" => remote[bound][Head(todo[p])] = payload[Head(todo[p])]
  BY <1>1 DEF Faithful, Answers, Bound
<1>4. Typed' /\ Rows'
  BY <1>1, <1>2, <1>3 DEF Faithful, Typed, Rows, Steps, Replies
<1>5. Bound' /\ Answers'
  BY <1>1, <1>2, <1>3 DEF Faithful, Typed, Bound, Answers
<1>6. AcknowledgedIsRemote' /\ NothingReachesAnotherStore'
  BY <1>1, <1>3 DEF Faithful, Rows, AcknowledgedIsRemote, NothingReachesAnotherStore
<1> QED  BY <1>4, <1>5, <1>6 DEF Faithful

(* A process that ends, or dies, leaves the table alone. *)
LEMMA EndFaithful ==
    ASSUME Faithful, NEW p \in Process, Finish(p) \/ Crash(p) PROVE Faithful'
<1>1. /\ pc' = [pc EXCEPT ![p] = "closed"] /\ client' = [client EXCEPT ![p] = None]
      /\ DOMAIN todo' = Process /\ \A q \in Process : q # p => todo'[q] = todo[q]
      /\ reply' \in [Process -> Replies] /\ \A q \in Process : q # p => reply'[q] = reply[q]
      /\ UNCHANGED <<bound, queue, payload, acknowledged, remote, first>>
  BY DEF Finish, Crash, table, Faithful, Typed, Replies
<1>2. reply'[p] # "true"
  <2>1. CASE Finish(p)
    BY <2>1 DEF Finish, Faithful, Answers
  <2>2. CASE Crash(p)
    BY <2>2 DEF Crash, Faithful, Typed
  <2> QED  BY <2>1, <2>2
<1>3. Queued' = Queued
  BY <1>1 DEF Queued
<1>4. Typed' /\ Rows'
  BY <1>1, <1>3 DEF Faithful, Typed, Rows, Steps
<1>5. Bound' /\ Answers'
  BY <1>1, <1>2, <1>3 DEF Faithful, Typed, Bound, Answers
<1>6. AcknowledgedIsRemote' /\ NothingReachesAnotherStore'
  BY <1>1 DEF Faithful, AcknowledgedIsRemote, NothingReachesAnotherStore
<1> QED  BY <1>4, <1>5, <1>6 DEF Faithful

LEMMA DamageFaithful ==
    ASSUME Faithful, UNCHANGED <<bound, queue, payload, acknowledged, locals, remote, first>>
    PROVE  Faithful'
<1>1. UNCHANGED <<bound, queue, payload, acknowledged, client, pc, todo, reply, remote, first>>
  BY DEF locals
<1>2. Queued' = Queued
  BY <1>1 DEF Queued
<1> QED  BY <1>1, <1>2 DEF Faithful, Typed, Rows, Bound, Answers,
                           AcknowledgedIsRemote, NothingReachesAnotherStore

LEMMA NextFaithful ==
    ASSUME InventoryAssumption, Faithful, [Next]_vars PROVE Faithful'
<1>1. ASSUME NEW p \in Process, Drain(p) \/ Crash(p) PROVE Faithful'
  BY <1>1, SelectFaithful, TakeFaithful, SendFaithful, RecordFaithful, EndFaithful DEF Drain
<1>2. ASSUME NEW p \in Process, NEW d \in Destination, Open(p, d) PROVE Faithful'
  BY <1>2, OpenFaithful
<1>3. ASSUME NEW p \in Process, NEW o \in Operation, NEW c \in Content, Enqueue(p, o, c)
      PROVE  Faithful'
  BY <1>3, EnqueueFaithful
<1>4. ASSUME NEW o \in Operation, Damage(o) PROVE Faithful'
  BY <1>4, DamageFaithful DEF Damage
<1>5. CASE UNCHANGED vars
  BY <1>5, DamageFaithful DEF vars, table
<1> QED  BY <1>1, <1>2, <1>3, <1>4, <1>5 DEF Next

-----------------------------------------------------------------------------
(* Theorems *)

(* The outbox keeps its rows, its binding and its acknowledgements straight *)
(* at every step.                                                           *)
THEOREM InventoryIsFaithful == Spec => []Faithful
<1>1. Init => Faithful
  BY InventoryAssumption, InitFaithful
<1>2. Faithful /\ [Next]_vars => Faithful'
  BY InventoryAssumption, NextFaithful
<1> QED  BY <1>1, <1>2, PTL DEF Spec

(* An acknowledged operation is at the outbox's own store with the content  *)
(* its producer was promised, whatever drains overlap and answers are lost. *)
THEOREM AcknowledgementsHold == Spec => []AcknowledgedIsRemote
<1>1. Faithful => AcknowledgedIsRemote
  BY DEF Faithful
<1> QED  BY <1>1, InventoryIsFaithful, PTL

(* What is queued for one store never reaches another, however the          *)
(* exporters that share the outbox are configured.                          *)
THEOREM OneStoreOnly == Spec => []NothingReachesAnotherStore
<1>1. Faithful => NothingReachesAnotherStore
  BY DEF Faithful
<1> QED  BY <1>1, InventoryIsFaithful, PTL

-----------------------------------------------------------------------------
(* Refinement *)

(* What the queue of DeliveryQueue sees of the stores. *)
Taken == [o \in Operation |-> IF bound = None THEN None ELSE remote[bound][o]]

Unseen == UNCHANGED <<payload, acknowledged, quarantined, Taken>>

LEMMA OpenIsUnseen ==
    ASSUME InventoryAssumption, Faithful, NEW p \in Process, NEW d \in Destination, Open(p, d)
    PROVE  Unseen
<1>1. /\ bound \in {None, d} /\ bound' = d /\ d # None
      /\ UNCHANGED <<payload, acknowledged, quarantined, remote>>
  BY DEF Open, InventoryAssumption
<1>2. ASSUME NEW o \in Operation
      PROVE  (IF bound = None THEN None ELSE remote[bound][o])
                = (IF bound' = None THEN None ELSE remote'[bound'][o])
  BY <1>1 DEF Faithful, NothingReachesAnotherStore
<1> QED  BY <1>1, <1>2 DEF Unseen, Taken

LEMMA EnqueueAccepts ==
    ASSUME InventoryAssumption, Faithful, NEW p \in Process, NEW o \in Operation,
           NEW c \in Content, Enqueue(p, o, c)
    PROVE  Contract!Next
<1>1. /\ o \notin Queued /\ payload' = [payload EXCEPT ![o] = c]
      /\ UNCHANGED <<bound, acknowledged, quarantined, remote>>
  BY DEF Enqueue
<1>2. payload[o] = None
  BY <1>1 DEF Faithful, Rows
<1>3. Contract!Accept(o, c)
  BY <1>1, <1>2 DEF Contract!Accept
<1> QED  BY <1>3 DEF Contract!Next

LEMMA TakeSetsAside ==
    ASSUME Faithful, NEW p \in Process, Take(p) PROVE Contract!Next \/ Unseen
<1>1. /\ UNCHANGED <<bound, payload, acknowledged, remote>>
      /\ quarantined' = quarantined \/ quarantined' = quarantined \cup {Head(todo[p])}
      /\ Head(todo[p]) \in Queued
  BY DEF Take
<1>2. CASE quarantined' = quarantined
  BY <1>1, <1>2 DEF Unseen, Taken
<1>3. CASE quarantined' = quarantined \cup {Head(todo[p])}
  <2>1. Head(todo[p]) \in Operation /\ payload[Head(todo[p])] # None
    BY <1>1, QueuedRows DEF Faithful, Rows
  <2>2. Contract!SetAside(Head(todo[p]))
    BY <1>1, <1>3, <2>1 DEF Contract!SetAside
  <2> QED  BY <2>1, <2>2 DEF Contract!Next
<1> QED  BY <1>1, <1>2, <1>3

LEMMA SendTakes ==
    ASSUME InventoryAssumption, Faithful, NEW p \in Process, Send(p)
    PROVE  Contract!Next \/ Unseen
<1> DEFINE o == Head(todo[p])
<1>1. /\ o \in Operation /\ o \in Queued /\ bound \in Destination /\ bound # None
      /\ \/ remote' = remote
         \/ remote' = [remote EXCEPT ![bound] = [@ EXCEPT ![o] = payload[o]]]
      /\ UNCHANGED <<bound, payload, acknowledged, quarantined>>
  BY SendEffect DEF InventoryAssumption
<1> HIDE DEF o
<1>2. payload[o] # None
  BY <1>1 DEF Faithful, Rows
<1>3. CASE remote' = remote
  BY <1>1, <1>3 DEF Unseen, Taken
<1>4. CASE remote' = [remote EXCEPT ![bound] = [@ EXCEPT ![o] = payload[o]]]
  <2>1. remote[bound] \in [Operation -> Held] /\ DOMAIN remote = Destination
    BY <1>1 DEF Faithful, Typed
  <2>2. remote'[bound] = [remote[bound] EXCEPT ![o] = payload[o]]
    BY <1>1, <1>4, <2>1
  <2>3. Taken' = [Taken EXCEPT ![o] = payload[o]]
    BY <1>1, <2>1, <2>2 DEF Taken
  <2>4. \E q \in Operation : Contract!Take(q)
    BY <1>1, <1>2, <2>3 DEF Contract!Take, Taken
  <2> QED  BY <2>4 DEF Contract!Next
<1> QED  BY <1>1, <1>3, <1>4

LEMMA RecordDelivers ==
    ASSUME Faithful, NEW p \in Process, Record(p) PROVE Contract!Next \/ Unseen
<1> DEFINE o == Head(todo[p])
<1>1. /\ pc[p] = "answered"
      /\ acknowledged' = IF reply[p] = "true" THEN acknowledged \cup {o} ELSE acknowledged
      /\ UNCHANGED <<bound, payload, quarantined, remote>>
  BY DEF Record
<1>2. CASE reply[p] # "true"
  BY <1>1, <1>2 DEF Unseen, Taken
<1>3. CASE reply[p] = "true"
  <2>1. o \in Queued /\ o \in Operation /\ bound # None /\ remote[bound][o] = payload[o]
    BY <1>1, <1>3, QueuedRows DEF Faithful, Answers, Bound
  <2>2. payload[o] # None
    BY <2>1 DEF Faithful, Rows
  <2> HIDE DEF o
  <2>3. Contract!Deliver(o)
    BY <1>1, <1>3, <2>1, <2>2 DEF Contract!Deliver
  <2> QED  BY <2>1, <2>3 DEF Contract!Next
<1> QED  BY <1>2, <1>3

LEMMA StepIsQueueStep ==
    ASSUME InventoryAssumption, Faithful, [Next]_vars PROVE Contract!Next \/ Unseen
<1>1. ASSUME NEW p \in Process,
             (\E d \in Destination : Select(p, d)) \/ Finish(p) \/ Crash(p)
      PROVE  Unseen
  BY <1>1 DEF Select, Finish, Crash, table, Unseen, Taken
<1>2. ASSUME NEW o \in Operation, Damage(o) PROVE Unseen
  BY <1>2 DEF Damage, Unseen, Taken
<1>3. CASE UNCHANGED vars
  BY <1>3 DEF vars, table, Unseen, Taken
<1>4. ASSUME NEW p \in Process, Drain(p) \/ Crash(p) PROVE Contract!Next \/ Unseen
  BY <1>1, <1>4, TakeSetsAside, SendTakes, RecordDelivers DEF Drain
<1>5. ASSUME NEW p \in Process, NEW d \in Destination, Open(p, d) PROVE Unseen
  BY <1>5, OpenIsUnseen
<1>6. ASSUME NEW p \in Process, NEW o \in Operation, NEW c \in Content, Enqueue(p, o, c)
      PROVE  Contract!Next
  BY <1>6, EnqueueAccepts
<1> QED  BY <1>2, <1>3, <1>4, <1>5, <1>6 DEF Next

(* The outbox, with its processes, overlapping drains, lost answers and     *)
(* crashes, is a queue that loses and replaces nothing.                     *)
THEOREM InventoryImplementsQueue == Spec => ImplementsQueue
<1>1. Init => Contract!Init
  BY DEF Init, Contract!Init
<1>2. Faithful /\ [Next]_vars => [Contract!Next]_(Contract!queue)
  <2>1. Unseen => UNCHANGED Contract!queue
    BY DEF Unseen, Taken, Contract!queue
  <2> QED  BY <2>1, InventoryAssumption, StepIsQueueStep
<1> QED  BY <1>1, <1>2, InventoryIsFaithful, PTL DEF Spec, ImplementsQueue, Contract!Spec

-----------------------------------------------------------------------------
(* Selections *)

(* A drain's list is made of operations, and one that it is busy with is at  *)
(* the list's head.                                                         *)
Listed ==
    /\ todo \in [Process -> Seq(Operation)]
    /\ \A p \in Process : pc[p] \in {"send", "answered"} => todo[p] # <<>>

(* What the other properties leave open: attempts are counted for rows, only *)
(* rows are damaged and set aside, and an identity has one row.             *)
Counted ==
    /\ attempts \in [Operation -> Nat]
    /\ damaged \subseteq Queued /\ quarantined \subseteq Queued
    /\ \A i, j \in DOMAIN queue : queue[i] = queue[j] => i = j
    /\ first \in [Operation -> Held]
    /\ trouble \in Nat

LEMMA PositionFacts ==
    ASSUME Typed, Counted
    PROVE  \A o \in Queued : Position(o) \in Nat /\ queue[Position(o)] = o
<1>1. \A o \in Queued : \E i \in DOMAIN queue : queue[i] = o
  BY DEF Queued
<1>2. \A o \in Queued : Position(o) \in DOMAIN queue /\ queue[Position(o)] = o
  BY <1>1 DEF Position
<1>3. DOMAIN queue \subseteq Nat
  BY LenProperties DEF Typed
<1> QED  BY <1>2, <1>3

InTurn == {e \in Pending \X Pending : Before(e[1], e[2])}

(* ORDER BY attempts, sequence leaves no ties: no row has another's place.   *)
LEMMA TurnsAreOrdered ==
    ASSUME Typed, Counted PROVE Orders(InTurn, Pending)
<1> DEFINE n(o) == attempts[o]
           k(o) == Position(o)
<1>1. \A o \in Pending : o \in Queued /\ o \in Operation
  BY QueuedRows DEF Pending
<1>2. \A o \in Pending : n(o) \in Nat /\ k(o) \in Nat /\ queue[k(o)] = o
  BY <1>1, PositionFacts DEF Counted
<1>3. \A o, q \in Pending : <<o, q>> \in InTurn <=>
         n(o) < n(q) \/ (n(o) = n(q) /\ k(o) < k(q))
  BY DEF InTurn, Before
<1>4. \A o, q \in Pending : o # q => k(o) # k(q)
  BY <1>2
<1> HIDE DEF n, k
<1>5. \A o \in Pending : <<o, o>> \notin InTurn
  BY <1>2, <1>3
<1>6. \A o, q \in Pending : o # q => <<o, q>> \in InTurn \/ <<q, o>> \in InTurn
  BY <1>2, <1>3, <1>4
<1>7. \A o, q, r \in Pending :
         <<o, q>> \in InTurn /\ <<q, r>> \in InTurn => <<o, r>> \in InTurn
  BY <1>2, <1>3
<1> QED  BY <1>5, <1>6, <1>7 DEF Orders

LEMMA EveryTurnIsSomebodys ==
    ASSUME NEW S, IsFiniteSet(S), Orders(InTurn, S)
    PROVE  \A k \in 0 .. Cardinality(S) - 1 :
              \E o \in S : Cardinality(Ahead(InTurn, S, o)) = k
  BY EveryRankIsTaken

(* The operations a drain selects are the first in turn, each at its place.  *)
LEMMA SelectsTheFirst ==
    ASSUME InventoryAssumption, Typed, Counted
    PROVE  /\ IsFiniteSet(Pending) /\ Cardinality(Pending) \in Nat
           /\ \A i \in 1 .. Cardinality(Pending) : \E o \in Pending : Rank(o) = i
<1>1. IsFiniteSet(Pending)
  <2>1. Pending \subseteq Operation
    BY QueuedRows DEF Pending
  <2> QED  BY <2>1, FS_Subset DEF InventoryAssumption
<1>2. Cardinality(Pending) \in Nat
  BY <1>1, FS_CardinalityType
<1>3. \A o \in Pending : Rank(o) = 1 + Cardinality(Ahead(InTurn, Pending, o))
  <2> SUFFICES ASSUME NEW o \in Pending
               PROVE  Rank(o) = 1 + Cardinality(Ahead(InTurn, Pending, o))
    OBVIOUS
  <2>1. {q \in Pending : Before(q, o)} = Ahead(InTurn, Pending, o)
    BY DEF Ahead, InTurn
  <2> QED  BY <2>1 DEF Rank
<1>4. \A k \in 0 .. Cardinality(Pending) - 1 :
         \E o \in Pending : Cardinality(Ahead(InTurn, Pending, o)) = k
  BY <1>1, TurnsAreOrdered, EveryTurnIsSomebodys
<1>5. ASSUME NEW i \in 1 .. Cardinality(Pending) PROVE \E o \in Pending : Rank(o) = i
  <2>1. i - 1 \in 0 .. Cardinality(Pending) - 1
    BY <1>2
  <2>2. PICK o \in Pending : Cardinality(Ahead(InTurn, Pending, o)) = i - 1
    BY <1>4, <2>1
  <2>3. Rank(o) = 1 + (i - 1)
    BY <1>3, <2>2
  <2>4. 1 + (i - 1) = i
    BY <1>2
  <2> QED  BY <2>3, <2>4
<1> QED  BY <1>1, <1>2, <1>5

LEMMA SelectLists ==
    ASSUME InventoryAssumption, Typed, Counted, Listed,
           NEW p \in Process, NEW d \in Destination, Select(p, d)
    PROVE  Listed'
<1> DEFINE m == Min(Limit, Cardinality(Pending))
           turn(i) == CHOOSE o \in Pending : Rank(o) = i
           list == [i \in 1 .. m |-> turn(i)]
<1>1. m \in Nat /\ m <= Cardinality(Pending) /\ Cardinality(Pending) \in Nat
  BY SelectsTheFirst DEF Min, InventoryAssumption
<1>2. \A i \in 1 .. m : turn(i) \in Operation
  <2>1. \A i \in 1 .. m : i \in 1 .. Cardinality(Pending)
    BY <1>1
  <2>2. \A i \in 1 .. m : turn(i) \in Pending
    BY <2>1, SelectsTheFirst
  <2> QED  BY <2>2, QueuedRows DEF Pending
<1>3. todo' = [todo EXCEPT ![p] = list] /\ pc' = [pc EXCEPT ![p] = "next"]
  BY DEF Select
<1> HIDE DEF turn, m
<1>4. list \in [1 .. m -> Operation]
  BY <1>2
<1>5. list \in Seq(Operation)
  BY <1>1, <1>4, SeqDef
<1> HIDE DEF list
<1> QED  BY <1>3, <1>5 DEF Typed, Listed

LEMMA SelectCounted ==
    ASSUME Counted, UNCHANGED <<queue, attempts, damaged, quarantined, first, trouble>>
    PROVE  Counted'
  BY DEF Counted, Queued

(* Only what is at the head is dropped. *)
LEMMA DropsTheHead ==
    ASSUME Listed, NEW p \in Process, todo[p] # <<>>,
           todo' = [todo EXCEPT ![p] = Tail(@)], pc'[p] = "next",
           \A q \in Process : q # p => pc'[q] = pc[q]
    PROVE  Listed'
<1>1. todo[p] \in Seq(Operation)
  BY DEF Listed
<1>2. Tail(todo[p]) \in Seq(Operation)
  BY <1>1, HeadTailProperties
<1> QED  BY <1>2 DEF Listed

LEMMA TakeListed ==
    ASSUME Typed, Counted, Listed, NEW p \in Process, Take(p)
    PROVE  Listed' /\ Counted'
<1> DEFINE o == Head(todo[p])
<1>1. /\ pc[p] = "next" /\ todo[p] # <<>> /\ o \in Queued
      /\ UNCHANGED <<queue, damaged, first, trouble>>
  BY DEF Take
<1>2. o \in Operation
  BY <1>1, QueuedRows
<1>3. CASE o \in damaged
  <2>1. /\ todo' = [todo EXCEPT ![p] = Tail(@)] /\ pc' = pc
        /\ attempts' = attempts /\ quarantined' = quarantined \cup {o}
    BY <1>3 DEF Take
  <2>2. Listed'
    BY <1>1, <2>1, DropsTheHead
  <2> QED  BY <1>1, <2>1, <2>2 DEF Counted, Queued
<1>4. CASE o \notin damaged
  <2>1. /\ attempts' = [attempts EXCEPT ![o] = Min(@ + 1, MaxAttempts)]
        /\ pc' = [pc EXCEPT ![p] = "send"] /\ todo' = todo
        /\ quarantined' = quarantined
    BY <1>4 DEF Take
  <2>2. Listed'
    BY <1>1, <2>1 DEF Typed, Listed
  <2>3. Min(attempts[o] + 1, MaxAttempts) \in Nat
    BY <1>2, InventoryAssumption DEF Counted, Min
  <2>4. attempts' \in [Operation -> Nat]
    BY <1>2, <2>1, <2>3 DEF Counted
  <2> QED  BY <1>1, <2>1, <2>2, <2>4 DEF Counted, Queued
<1> QED  BY <1>3, <1>4

LEMMA EnqueueListed ==
    ASSUME Typed, Counted, Listed, NEW p \in Process, NEW o \in Operation, NEW c \in Content,
           Enqueue(p, o, c)
    PROVE  Listed' /\ Counted'
<1>1. /\ o \notin Queued /\ queue' = Append(queue, o)
      /\ first' = [first EXCEPT ![o] = c]
      /\ UNCHANGED <<attempts, damaged, quarantined, pc, todo, trouble>>
  BY DEF Enqueue, locals
<1>2. /\ queue \in Seq(Operation) /\ Len(queue) \in Nat /\ DOMAIN queue = 1 .. Len(queue)
  BY LenProperties DEF Typed
<1>3. /\ DOMAIN queue' = 1 .. (Len(queue) + 1)
      /\ \A i \in 1 .. Len(queue) : queue'[i] = queue[i]
      /\ queue'[Len(queue) + 1] = o
  <2>1. /\ Len(queue') = Len(queue) + 1
        /\ \A i \in 1 .. Len(queue) : queue'[i] = queue[i]
        /\ queue'[Len(queue) + 1] = o /\ queue' \in Seq(Operation)
    BY <1>1, <1>2, AppendProperties
  <2> QED  BY <2>1, LenProperties
<1>4. \A i \in 1 .. Len(queue) : queue[i] # o /\ queue[i] \in Queued
  BY <1>1, <1>2 DEF Queued
<1>5. Queued \subseteq Queued'
  <2> SUFFICES ASSUME NEW q \in Queued PROVE q \in Queued'
    OBVIOUS
  <2>1. PICK i \in 1 .. Len(queue) : queue[i] = q
    BY <1>2 DEF Queued
  <2>2. i \in DOMAIN queue' /\ queue'[i] = q
    BY <1>2, <1>3, <2>1
  <2> QED  BY <2>2 DEF Queued
<1>6. \A i, j \in DOMAIN queue' : queue'[i] = queue'[j] => i = j
  <2> SUFFICES ASSUME NEW i \in DOMAIN queue', NEW j \in DOMAIN queue',
                      queue'[i] = queue'[j], i # j
               PROVE  FALSE
    OBVIOUS
  <2>1. /\ i \in 1 .. Len(queue) \/ i = Len(queue) + 1
        /\ j \in 1 .. Len(queue) \/ j = Len(queue) + 1
    BY <1>2, <1>3
  <2> QED  BY <1>2, <1>3, <1>4, <2>1 DEF Counted
<1>7. first' \in [Operation -> Held]
  BY <1>1 DEF Counted, Held
<1> QED  BY <1>1, <1>5, <1>6, <1>7 DEF Listed, Counted

LEMMA SendListed ==
    ASSUME Typed, Counted, Listed, NEW p \in Process, Send(p)
    PROVE  Listed' /\ Counted'
<1>1. /\ pc[p] = "send" /\ pc' = [pc EXCEPT ![p] = "answered"] /\ todo' = todo
      /\ UNCHANGED <<queue, attempts, damaged, quarantined, first>>
  BY DEF Send, table
<1>2. trouble' = trouble \/ trouble' = trouble + 1
  BY DEF Send
<1>3. trouble' \in Nat
  BY <1>2 DEF Counted
<1> QED  BY <1>1, <1>3 DEF Typed, Counted, Listed, Queued

LEMMA RecordListed ==
    ASSUME Typed, Counted, Listed, NEW p \in Process, Record(p)
    PROVE  Listed' /\ Counted'
<1>1. /\ pc[p] = "answered" /\ pc' = [pc EXCEPT ![p] = "next"]
      /\ todo' = [todo EXCEPT ![p] = Tail(@)]
      /\ UNCHANGED <<queue, attempts, damaged, quarantined, first, trouble>>
  BY DEF Record
<1>2. todo[p] # <<>>
  BY <1>1 DEF Listed
<1>3. Listed'
  BY <1>1, <1>2, DropsTheHead DEF Typed
<1> QED  BY <1>1, <1>3, SelectCounted

LEMMA EndListed ==
    ASSUME Typed, Counted, Listed, NEW p \in Process, Finish(p) \/ Crash(p)
    PROVE  Listed' /\ Counted'
<1>1. /\ pc' = [pc EXCEPT ![p] = "closed"]
      /\ todo' = todo \/ todo' = [todo EXCEPT ![p] = <<>>]
      /\ UNCHANGED <<queue, attempts, damaged, quarantined, first>>
      /\ trouble' = trouble \/ trouble' = trouble + 1
  BY DEF Finish, Crash, table
<1>2. Listed'
  BY <1>1, EmptySeq DEF Typed, Listed
<1>3. trouble' \in Nat
  BY <1>1 DEF Counted
<1> QED  BY <1>1, <1>2, <1>3 DEF Counted, Queued

LEMMA NextListed == Faithful /\ Counted /\ Listed /\ [Next]_vars => Counted' /\ Listed'
<1> SUFFICES ASSUME Faithful, Counted, Listed, [Next]_vars PROVE Counted' /\ Listed'
  OBVIOUS
<1>0. Typed
  BY DEF Faithful
<1>1. ASSUME NEW p \in Process, NEW d \in Destination, Select(p, d) PROVE Counted' /\ Listed'
  BY <1>0, <1>1, InventoryAssumption, SelectLists, SelectCounted DEF Select, table
<1>2. ASSUME NEW p \in Process, Drain(p) \/ Crash(p) PROVE Counted' /\ Listed'
  BY <1>0, <1>1, <1>2, TakeListed, SendListed, RecordListed, EndListed DEF Drain
<1>3. ASSUME NEW p \in Process, NEW d \in Destination, Open(p, d) PROVE Counted' /\ Listed'
  BY <1>0, <1>3, SelectCounted DEF Open, Typed, Listed
<1>4. ASSUME NEW p \in Process, NEW o \in Operation, NEW c \in Content, Enqueue(p, o, c)
      PROVE  Counted' /\ Listed'
  BY <1>0, <1>4, EnqueueListed
<1>5. ASSUME NEW o \in Operation, Damage(o) PROVE Counted' /\ Listed'
  <2>1. /\ o \in Queued /\ damaged' = damaged \cup {o} /\ trouble' = trouble + 1
        /\ UNCHANGED <<queue, attempts, quarantined, first, pc, todo>>
    BY <1>5 DEF Damage, locals
  <2> QED  BY <2>1 DEF Counted, Listed, Queued
<1>6. CASE UNCHANGED vars
  BY <1>6, SelectCounted DEF vars, table, locals, Listed
<1> QED  BY <1>2, <1>3, <1>4, <1>5, <1>6 DEF Next

(* Every variable keeps its type: an identity has one row, whose attempts    *)
(* are counted, and only rows are acknowledged, damaged or set aside.        *)
THEOREM InventoryIsTyped == Spec => []TypeOK
<1>1. Init => Counted /\ Listed
  BY EmptySeq DEF Init, Counted, Listed, Queued, Held
<1>2. Faithful /\ Counted /\ Listed => TypeOK
  BY DEF Faithful, Typed, Rows, Counted, Listed, Held, Steps, Replies, TypeOK
<1> QED  BY <1>1, <1>2, NextListed, InventoryIsFaithful, PTL DEF Spec
=============================================================================
