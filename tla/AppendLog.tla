------------------------------ MODULE AppendLog -----------------------------
(***************************************************************************)
(* What the local spool promises whoever reads it, without processes, files *)
(* or crashes (src/docs/local-spool.md): numbered revisions that only grow, *)
(* each distinct envelope once, and never one whose bytes are missing.      *)
(***************************************************************************)
EXTENDS Integers

CONSTANT
    Envelope            \* the distinct serialized envelopes

VARIABLES
    rows,               \* the revisions published: sequence and digest
    bodies              \* the envelopes whose bytes can be read back

log == <<rows, bodies>>

Published == {r.digest : r \in rows}

Init == rows = {} /\ bodies = {}

(* Bytes may arrive ahead of their reference, *)
Place(e) ==
    /\ bodies' = bodies \cup {e}
    /\ UNCHANGED rows

(* and be lost again as long as nothing refers to them. *)
Lose(S) ==
    /\ S \cap Published = {}
    /\ bodies' = bodies \ S
    /\ UNCHANGED rows

(* A reference follows its bytes, once, under a number past all others. *)
Append(e) ==
    /\ e \in bodies \ Published
    /\ \E r \in rows' :
          /\ r.digest = e
          /\ \A q \in rows : q.sequence < r.sequence
          /\ rows' = rows \cup {r}
    /\ UNCHANGED bodies

Next ==
    \/ \E e \in Envelope : Place(e) \/ Append(e)
    \/ \E S \in SUBSET Envelope : Lose(S)

Spec == Init /\ [][Next]_log
=============================================================================
