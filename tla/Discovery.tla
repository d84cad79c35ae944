------------------------------ MODULE Discovery -----------------------------
(***************************************************************************)
(* src/lib.rs discover_all and visit_all: every source is visited in turn.  *)
(* The sources share nothing but the visitor, so a behaviour looks at the   *)
(* files or at Cursor's threads.                                            *)
(***************************************************************************)
EXTENDS Transcripts, CursorThreads

VARIABLE source

vars == <<source, files, threads>>

Init ==
    /\ FilesInit
    /\ \/ source = "files" /\ ThreadsInit([k \in Thread |-> Gone])
       \/ source = "threads" /\ \E d \in Initially : ThreadsInit(d)

Next ==
    /\ \/ source = "files" /\ FilesNext /\ UNCHANGED threads
       \/ source = "threads" /\ ThreadsNext /\ UNCHANGED files
    /\ UNCHANGED source

Spec == Init /\ [][Next]_vars

(* Type correctness, with the bounds on what either source holds in memory. *)
TypeOK == source \in {"files", "threads"} /\ FilesTypeOK /\ ThreadsTypeOK
=============================================================================
