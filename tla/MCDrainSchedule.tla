-------------------------- MODULE MCDrainSchedule ---------------------------
(* Four uploads, of which two never succeed and one cannot be read, and     *)
(* three deletions, the first of which never succeeds, in passes of two.    *)
EXTENDS DrainSchedule

CONSTANTS u1, u2, u3, u4, d1, d2, d3

MCSequence == [u \in Upload |-> CASE u = u1 -> 1 [] u = u2 -> 2 [] u = u3 -> 3
                                  [] OTHER -> 4]
MCKeyOrder == [d \in Deletion |-> CASE d = d1 -> 1 [] d = d2 -> 2 [] OTHER -> 3]
=============================================================================
