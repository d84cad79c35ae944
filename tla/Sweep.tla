-------------------------------- MODULE Sweep -------------------------------
(***************************************************************************)
(* The upload sweep, src/lib.rs run over src/state.rs and src/upload.rs.    *)
(* Exporters (the daemon, and one-shot commands beside it) fingerprint and  *)
(* read the transcripts, skip those their state file calls current, send    *)
(* the rest in planned batches, mark what the store confirmed, and save     *)
(* the state after every batch.                                             *)
(*                                                                         *)
(* A transcript only grows: its version is its length, its fingerprint the  *)
(* length that was there when it was taken.  A configuration is what       *)
(* stamp_digest hashes, the store's URL and the tags; held is what that     *)
(* store holds of each transcript with that stamp.                          *)
(***************************************************************************)
EXTENDS Integers, FiniteSets, Sequences, FiniteSetsExt

CONSTANTS
    Exporter, Path, Config,
    Session, SessionOf,     \* the session id a transcript's name gives it
    Place,                  \* where discovery, which sorts by path, puts it
    Poison,                 \* transcripts whose requests may fail every time
    Longest,                \* bound: transcripts grow up to here
    MaxEnvelope, BatchSize, Budget,
    MaxTrouble,             \* bound: bad answers, crashes, reconfigurations
    Torn                    \* a state file that does not parse

ASSUME SweepAssumption ==
    /\ IsFiniteSet(Path) /\ Poison \subseteq Path
    /\ SessionOf \in [Path -> Session]
    /\ Place \in [Path -> Nat] /\ \A p, q \in Path : Place[p] = Place[q] => p = q
    /\ MaxEnvelope \in Nat /\ BatchSize \in Nat \ {0} /\ Budget \in Nat
    /\ Longest \in [Path -> Nat \ {0}] /\ MaxTrouble \in Nat
    /\ Torn \notin [config : Config, seen : [Path -> Nat]]

VARIABLES
    version,                \* each transcript on disk
    file,                   \* the state file
    forged,                 \* history: somebody else wrote the state file
    held,                   \* what the stores hold, 0 for nothing
    pc,
    config, ignoring,       \* each exporter: its configuration, --ignore-state
    print, content,         \* what its discovery fingerprinted, and then read
    seen,                   \* its state in memory
    todo, solo,             \* its pending envelopes, and those retried alone
    faults,                 \* the failure counters of its summary that count
    trouble

disk   == <<version, file, forged>>
task   == <<config, ignoring>>
found  == <<print, content>>
vars   == <<disk, held, pc, task, found, seen, todo, solo, faults, trouble>>

Nothing  == [p \in Path |-> 0]
Saved    == [config : Config, seen : [Path -> Nat]]
Fault    == {"failed", "rejected", "oversize", "unconfirmed"}
PathsOf(s) == {s[i] : i \in DOMAIN s}

(* Type correctness; no transcript is at hand twice, and none is left over  *)
(* when a sweep ends.                                                       *)
TypeOK ==
    /\ version \in [Path -> Nat]
    /\ file \in Saved \cup {Torn}
    /\ forged \in BOOLEAN
    /\ held \in [Config -> [Path -> Nat]]
    /\ pc \in [Exporter -> {"idle", "read", "load", "send", "solo", "save",
                            "write", "done"}]
    /\ config \in [Exporter -> Config]
    /\ ignoring \in [Exporter -> BOOLEAN]
    /\ print \in [Exporter -> [Path -> Nat]]
    /\ content \in [Exporter -> [Path -> Nat]]
    /\ seen \in [Exporter -> [Path -> Nat]]
    /\ todo \in [Exporter -> Seq(Path)]
    /\ solo \in [Exporter -> Seq(Path)]
    /\ faults \in [Exporter -> SUBSET Fault]
    /\ trouble \in Nat
    /\ \A e \in Exporter :
          /\ PathsOf(todo[e]) \cap PathsOf(solo[e]) = {}
          /\ pc[e] \in {"idle", "read", "load", "done"} => todo[e] = <<>>
          /\ pc[e] # "solo" => solo[e] = <<>>

Init ==
    /\ version = [p \in Path |-> 1]
    /\ file = Torn /\ forged = FALSE        \* a missing file reads the same
    /\ held = [c \in Config |-> Nothing]
    /\ pc = [e \in Exporter |-> "idle"]
    /\ config \in [Exporter -> Config]
    /\ ignoring = [e \in Exporter |-> FALSE]
    /\ print = [e \in Exporter |-> Nothing]
    /\ content = [e \in Exporter |-> Nothing]
    /\ seen = [e \in Exporter |-> Nothing]
    /\ todo = [e \in Exporter |-> <<>>]
    /\ solo = [e \in Exporter |-> <<>>]
    /\ faults = [e \in Exporter |-> {}]
    /\ trouble = 0

-----------------------------------------------------------------------------
(* Discovery *)

(* The store answers its health probe; the files are fingerprinted ...      *)
Start(e, b) ==
    /\ pc[e] = "idle"
    /\ ignoring' = [ignoring EXCEPT ![e] = b]
    /\ print' = [print EXCEPT ![e] = version]
    /\ faults' = [faults EXCEPT ![e] = {}]
    /\ pc' = [pc EXCEPT ![e] = "read"]
    /\ UNCHANGED <<disk, held, config, content, seen, todo, solo, trouble>>

(* ... and read, by when they may have grown.  Each file is read on its own *)
(* after its fingerprint; nothing compares two of them.                     *)
Read(e) ==
    /\ pc[e] = "read"
    /\ content' = [content EXCEPT ![e] = version]
    /\ pc' = [pc EXCEPT ![e] = "load"]
    /\ UNCHANGED <<disk, held, task, print, seen, todo, solo, faults, trouble>>

(* Slip: --ignore-state is ignored. *)
LoadedAnyway(e) ==
    IF file = Torn THEN Nothing
    ELSE IF file.config # config[e] THEN Nothing ELSE file.seen

(* A file that is absent, torn or of another configuration is no state. *)
Loaded(e) ==
    IF ignoring[e] \/ file = Torn THEN Nothing
    ELSE IF file.config # config[e] THEN Nothing ELSE file.seen

(* discover_all sorts what it found by path. *)
Orders(S) == {s \in [1 .. Cardinality(S) -> S] :
                 \A i, j \in 1 .. Cardinality(S) : i < j => Place[s[i]] < Place[s[j]]}

(* partition_pending: what is current is skipped, what is too large is      *)
(* skipped and counted, the rest is pending.                                *)
Load(e) ==
    /\ pc[e] = "load"
    /\ LET stale == {p \in Path : Loaded(e)[p] # print[e][p]}
           large == {p \in stale : content[e][p] > MaxEnvelope}
       IN /\ \E o \in Orders(stale \ large) : todo' = [todo EXCEPT ![e] = o]
          /\ faults' = [faults EXCEPT ![e] = IF large = {} THEN {} ELSE {"oversize"}]
          /\ pc' = [pc EXCEPT ![e] = IF stale = large THEN "done" ELSE "send"]
    /\ seen' = [seen EXCEPT ![e] = Loaded(e)]
    /\ UNCHANGED <<disk, held, task, found, solo, trouble>>

-----------------------------------------------------------------------------
(* Uploading *)

(* plan_batches: as many items as the two limits allow, one at the least. *)
Bytes(e, n) == MapThenSumSet(LAMBDA i : content[e][todo[e][i]], 1 .. n)
Fits(e, n) == n = 1 \/ (n <= BatchSize /\ Bytes(e, n) <= Budget)
Cuts(e) == {n \in 1 .. Len(todo[e]) :
               Fits(e, n) /\ (n = Len(todo[e]) \/ ~Fits(e, n + 1))}

(* The batch, and what is left of the plan. *)
Slice(e, n) == SubSeq(todo[e], 1, n)

Rest(e, n) == SubSeq(todo[e], n + 1, Len(todo[e]))

(* Of the items of s, those in S with the session of the i-th. *)
Alike(s, i, S) == {j \in S : SessionOf[s[j]] = SessionOf[s[i]]}

(* Slip: a batch that was answered is marked as a whole. *)
MarkedAll(s, ok) == DOMAIN s

(* The results are matched by session id, each used once, first item first. *)
Marked(s, ok) ==
    {i \in DOMAIN s : Cardinality(Alike(s, i, 1 .. i - 1)) < Cardinality(Alike(s, i, ok))}

(* Items neither marked nor covered by a rejection of their session. *)
Unanswered(s, ok, no) ==
    LET left == DOMAIN s \ Marked(s, ok)
    IN {i \in left : Cardinality(Alike(s, i, {j \in left : j < i}))
                         >= Cardinality(Alike(s, i, no))}

(* What the store keeps of the items `kept` of a request. *)
Keep(e, s, kept) ==
    held' = [held EXCEPT ![config[e]] = [p \in Path |->
        IF \E i \in kept : s[i] = p /\ content[e][p] > @[p] THEN content[e][p] ELSE @[p]]]

(* What is marked is marked with the fingerprint of the discovery. *)
Mark(e, s, I) ==
    seen' = [seen EXCEPT ![e] = [p \in Path |->
        IF \E i \in I : s[i] = p THEN print[e][p] ELSE @[p]]]

(* The store's answers to a request s: what it keeps, and which of that it  *)
(* confirms and which items it rejects; the rest is not mentioned.  A store *)
(* in good order keeps and confirms everything.                             *)
Answered(e, s, ok, no) ==
    /\ \/ ok = DOMAIN s /\ no = {} /\ UNCHANGED trouble
       \/ trouble < MaxTrouble /\ trouble' = trouble + 1
    /\ \E kept \in SUBSET (DOMAIN s \ no) : ok \subseteq kept /\ Keep(e, s, kept)

(* No usable answer: the request, or the answer to it, was lost, or the     *)
(* store refused the request as a whole.                                    *)
Unheard(e, s) ==
    \/ /\ \E i \in DOMAIN s : s[i] \in Poison
       /\ UNCHANGED <<held, trouble>>
    \/ /\ trouble < MaxTrouble /\ trouble' = trouble + 1
       /\ \E kept \in SUBSET DOMAIN s : Keep(e, s, kept)

(* A batch s that was answered: its items are marked by the answer. *)
SendAnswered(e, s) ==
    \E ok, no \in SUBSET DOMAIN s :
        /\ ok \cap no = {}
        /\ Answered(e, s, ok, no)
        /\ Mark(e, s, Marked(s, ok))
        /\ faults' = [faults EXCEPT ![e] = @
              \cup (IF no = {} THEN {} ELSE {"rejected"})
              \cup (IF Unanswered(s, ok, no) = {} THEN {} ELSE {"unconfirmed"})]
        /\ pc' = [pc EXCEPT ![e] = "save"]
        /\ UNCHANGED solo

(* Slip: a batch that failed is counted as failed, and that is all. *)
SendWhole(e, s) ==
    /\ Unheard(e, s)
    /\ faults' = [faults EXCEPT ![e] = @ \cup {"failed"}]
    /\ pc' = [pc EXCEPT ![e] = "save"]
    /\ UNCHANGED <<seen, solo>>

(* A batch that failed: its items are retried one at a time. *)
SendUnheard(e, s) ==
    /\ Unheard(e, s)
    /\ solo' = [solo EXCEPT ![e] = s]
    /\ pc' = [pc EXCEPT ![e] = "solo"]
    /\ UNCHANGED <<seen, faults>>

Send(e) ==
    /\ pc[e] = "send"
    /\ \E n \in Cuts(e) :
          /\ SendAnswered(e, Slice(e, n)) \/ SendUnheard(e, Slice(e, n))
          /\ todo' = [todo EXCEPT ![e] = Rest(e, n)]
    /\ UNCHANGED <<disk, task, found>>

(* upload_one_resilient *)
Solo(e) ==
    /\ pc[e] = "solo"
    /\ LET one == <<Head(solo[e])>> IN
       \/ \E ok, no \in SUBSET {1} :
             /\ ok \cap no = {}
             /\ Answered(e, one, ok, no)
             /\ Mark(e, one, ok)
             /\ faults' = [faults EXCEPT ![e] = @
                   \cup (IF no = {} THEN {} ELSE {"rejected"})
                   \cup (IF ok \cup no = {} THEN {"unconfirmed"} ELSE {})]
       \/ /\ Unheard(e, one)
          /\ faults' = [faults EXCEPT ![e] = @ \cup {"failed"}]
          /\ UNCHANGED seen
    /\ solo' = [solo EXCEPT ![e] = Tail(@)]
    /\ pc' = [pc EXCEPT ![e] = IF Len(solo[e]) = 1 THEN "save" ELSE "solo"]
    /\ UNCHANGED <<disk, task, found, todo>>

-----------------------------------------------------------------------------
(* Saving *)

After(e) == IF todo[e] = <<>> THEN "done" ELSE "send"

(* The file is truncated and then written.  A save that fails is logged.    *)
Save(e) ==
    /\ pc[e] = "save"
    /\ \/ /\ ignoring[e]
          /\ pc' = [pc EXCEPT ![e] = After(e)]
          /\ UNCHANGED <<file, trouble>>
       \/ /\ ~ignoring[e]
          /\ file' = Torn
          /\ pc' = [pc EXCEPT ![e] = "write"]
          /\ UNCHANGED trouble
       \/ /\ ~ignoring[e]
          /\ trouble < MaxTrouble /\ trouble' = trouble + 1
          /\ pc' = [pc EXCEPT ![e] = After(e)]
          /\ UNCHANGED file
    /\ UNCHANGED <<version, forged, held, task, found, seen, todo, solo, faults>>

(* If another exporter has written in between, the longer text's tail may   *)
(* be left behind the shorter.                                              *)
Write(e) ==
    /\ pc[e] = "write"
    /\ \/ file' = [config |-> config[e], seen |-> seen[e]]
       \/ file # Torn /\ file' = Torn
    /\ pc' = [pc EXCEPT ![e] = After(e)]
    /\ UNCHANGED <<version, forged, held, task, found, seen, todo, solo, faults,
                   trouble>>

(* The verdict of main: captured_everything. *)
CapturedEverything(e) == faults[e] = {}

Forget(e) ==
    /\ pc' = [pc EXCEPT ![e] = "idle"]
    /\ print' = [print EXCEPT ![e] = Nothing]
    /\ content' = [content EXCEPT ![e] = Nothing]
    /\ seen' = [seen EXCEPT ![e] = Nothing]
    /\ faults' = [faults EXCEPT ![e] = {}]

(* The command ends, or the daemon sleeps until its next sweep. *)
Finish(e) ==
    /\ pc[e] = "done"
    /\ Forget(e)
    /\ UNCHANGED <<disk, held, task, todo, solo, trouble>>

Sweeping(e) == Read(e) \/ Load(e) \/ Send(e) \/ Solo(e) \/ Save(e) \/ Write(e) \/ Finish(e)

-----------------------------------------------------------------------------
(* Around it *)

Append1(p) ==
    /\ version[p] < Longest[p]
    /\ version' = [version EXCEPT ![p] = @ + 1]
    /\ UNCHANGED <<file, forged, held, pc, task, found, seen, todo, solo, faults, trouble>>

(* Death, also in the middle of a save; the file stays as it is. *)
Crash(e) ==
    /\ trouble < MaxTrouble /\ trouble' = trouble + 1
    /\ pc[e] # "idle"
    /\ Forget(e)
    /\ todo' = [todo EXCEPT ![e] = <<>>]
    /\ solo' = [solo EXCEPT ![e] = <<>>]
    /\ UNCHANGED <<disk, held, task>>

(* An exporter is started again with another store or other tags. *)
Reconfigure(e, c) ==
    /\ trouble < MaxTrouble /\ trouble' = trouble + 1
    /\ pc[e] = "idle" /\ config[e] # c
    /\ config' = [config EXCEPT ![e] = c]
    /\ UNCHANGED <<disk, held, pc, ignoring, found, seen, todo, solo, faults>>

(* The audited process writes the file: everything has been sent. *)
Forge(c) ==
    /\ ~forged
    /\ forged' = TRUE
    /\ file' = [config |-> c, seen |-> version]
    /\ UNCHANGED <<version, held, pc, task, found, seen, todo, solo, faults, trouble>>

Next ==
    \/ \E e \in Exporter :
          \/ Sweeping(e) \/ Crash(e)
          \/ \E b \in BOOLEAN : Start(e, b)
          \/ \E c \in Config : Reconfigure(e, c)
    \/ \E p \in Path : Append1(p)
    \/ \E c \in Config : Forge(c)

Spec == Init /\ [][Next]_vars

(* The daemon sweeps again and again.  Nothing forces a transcript to grow  *)
(* or a request to fail.                                                    *)
FairSpec ==
    Spec /\ \A e \in Exporter : WF_vars(Sweeping(e) \/ \E b \in BOOLEAN : Start(e, b))

-----------------------------------------------------------------------------
(* Properties *)

(* The state file is never ahead of the store it speaks of: a transcript it *)
(* calls current is held by that store, with those tags, at least as long   *)
(* as it was when it was fingerprinted.  Transcripts that grow between      *)
(* fingerprint and read, lost answers, partial and refused batches,         *)
(* overlapping exporters, torn files and reconfigurations included.         *)
RecordedIsHeld ==
    file # Torn /\ ~forged =>
        \A p \in Path : file.seen[p] <= held[file.config][p]

(* A sweep that reports that it captured everything has: whatever it found  *)
(* is held by its store, which with --ignore-state is true even of a state  *)
(* file somebody else wrote.                                                *)
CleanSweepIsHeld ==
    \A e \in Exporter :
        pc[e] = "done" /\ CapturedEverything(e) /\ (ignoring[e] \/ ~forged) =>
            \A p \in Path : print[e][p] <= held[config[e]][p]

(* Every transcript the store takes gets there, whatever its neighbours in  *)
(* the batch, unless the state file was forged or it is too large.          *)
Lengths  == UNION {1 .. Longest[p] : p \in Path}
EverythingIsHeld ==
    \A e \in Exporter, p \in Path \ Poison, n \in Lengths :
        version[p] = n ~>
            held[config[e]][p] >= n \/ forged \/ version[p] > MaxEnvelope
=============================================================================
