-------------------------------- MODULE Spool -------------------------------
(***************************************************************************)
(* The local spool, src/spool.rs with the file operations it takes from     *)
(* src/secure_fs.rs.  Processes sweep the transcripts into a directory of   *)
(* immutable objects named by the digest of their bytes, and publish each   *)
(* in an SQLite index; a reader pages through the index meanwhile.          *)
(*                                                                         *)
(* A step is one file operation or one transaction.  A process may fail or  *)
(* be killed between any two, and the machine may lose power: then what no  *)
(* fsync made durable may be gone, or torn.                                 *)
(***************************************************************************)
EXTENDS Integers, FiniteSets, Sequences

CONSTANTS
    Process,        \* exporters sharing the spool directory
    Envelope,       \* the envelopes a sweep finds, by their digests
    Large,          \* those longer than max_envelope_bytes
    PageSize,       \* the limit of a page, at most 500 in the code
    MaxSequence,    \* bound: sequence numbers the index may use up
    MaxTrouble,     \* bound: failures and power losses
    None

ASSUME SpoolAssumption ==
    /\ IsFiniteSet(Envelope)
    /\ Large \subseteq Envelope
    /\ PageSize \in Nat \ {0}
    /\ MaxSequence \in Nat
    /\ MaxTrouble \in Nat
    /\ None \notin Envelope

VARIABLES
    object,         \* the file under each digest: absent, whole or torn
    stable,         \* the objects whose bytes an fsync has made durable
    settled,        \* the objects whose name an fsync has made durable
    schema,         \* the database's user_version
    rows,           \* the table envelope_revisions
    last,           \* the number AUTOINCREMENT used last
    pc, item, left, \* each process: its step, the envelope, what is unvisited
    synced,         \* each process: its temporary file is synced
    summary,        \* each process: what the sweep counted, by envelope
    reader,         \* the consumer following --spool-list
    assured,        \* history: what a sweep that ended did not leave out
    trouble

files == <<object, stable, settled>>
index == <<schema, rows, last>>
sweep == <<pc, item, left, synced, summary>>
vars  == <<files, index, sweep, reader, assured, trouble>>

NoSummary == [stored |-> {}, duplicate |-> {}, oversize |-> {}]

Rows == [sequence : Nat, digest : Envelope]

Indexed == {r.digest : r \in rows}

(* Type correctness; sequence is the table's key and never runs ahead of    *)
(* the number AUTOINCREMENT remembers.                                      *)
TypeOK ==
    /\ object \in [Envelope -> {"absent", "whole", "torn"}]
    /\ stable \subseteq Envelope
    /\ settled \subseteq Envelope
    /\ schema \in {0, 1}
    /\ rows \subseteq Rows
    /\ \A r \in rows : r.sequence \in 1 .. last
    /\ \A r, s \in rows : r.sequence = s.sequence => r = s
    /\ last \in Nat
    /\ pc \in [Process -> {"idle", "visit", "written", "flushed", "linked",
                           "settled", "done"}]
    /\ item \in [Process -> Envelope \cup {None}]
    /\ left \in [Process -> SUBSET Envelope]
    /\ synced \in [Process -> BOOLEAN]
    /\ summary \in [Process -> [stored : SUBSET Envelope,
                                duplicate : SUBSET Envelope,
                                oversize : SUBSET Envelope]]
    /\ reader \in [start : Nat, after : Nat, through : Nat, got : Seq(Nat),
                   refused : BOOLEAN]
    /\ assured \subseteq Envelope
    /\ trouble \in Nat

Init ==
    /\ object = [e \in Envelope |-> "absent"]
    /\ stable = {} /\ settled = {}
    /\ schema = 0 /\ rows = {} /\ last = 0
    /\ pc = [p \in Process |-> "idle"]
    /\ item = [p \in Process |-> None]
    /\ left = [p \in Process |-> {}]
    /\ synced = [p \in Process |-> FALSE]
    /\ summary = [p \in Process |-> NoSummary]
    /\ reader = [start |-> 0, after |-> 0, through |-> 0, got |-> <<>>,
                 refused |-> FALSE]
    /\ assured = {} /\ trouble = 0

-----------------------------------------------------------------------------
(* capture_local *)

(* The spool is opened, its table created if need be, and the walk begun. *)
Open(p) ==
    /\ pc[p] \in {"idle", "done"}
    /\ schema' = 1
    /\ pc' = [pc EXCEPT ![p] = "visit"]
    /\ left' = [left EXCEPT ![p] = Envelope]
    /\ summary' = [summary EXCEPT ![p] = NoSummary]
    /\ item' = [item EXCEPT ![p] = None]
    /\ synced' = [synced EXCEPT ![p] = FALSE]
    /\ UNCHANGED <<files, rows, last, reader, assured, trouble>>

(* Slip: an envelope past the bound is dropped without being counted. *)
WriteUncounted(p, e) ==
    /\ pc[p] = "visit" /\ e \in left[p]
    /\ left' = [left EXCEPT ![p] = @ \ {e}]
    /\ IF e \in Large
       THEN UNCHANGED <<pc, item>>
       ELSE /\ item' = [item EXCEPT ![p] = e]
            /\ pc' = [pc EXCEPT ![p] = "written"]
    /\ UNCHANGED <<files, index, synced, summary, reader, assured, trouble>>

(* One source is serialized straight to a private temporary file, hashed on *)
(* the way; past the bound the writer refuses and the file is dropped.      *)
Write(p, e) ==
    /\ pc[p] = "visit" /\ e \in left[p]
    /\ left' = [left EXCEPT ![p] = @ \ {e}]
    /\ \/ /\ e \in Large
          /\ summary' = [summary EXCEPT ![p].oversize = @ \cup {e}]
          /\ UNCHANGED <<pc, item>>
       \/ /\ e \notin Large
          /\ item' = [item EXCEPT ![p] = e]
          /\ pc' = [pc EXCEPT ![p] = "written"]
          /\ UNCHANGED summary
    /\ UNCHANGED <<files, index, synced, reader, assured, trouble>>

Flush(p) ==
    /\ pc[p] = "written"
    /\ synced' = [synced EXCEPT ![p] = TRUE]
    /\ pc' = [pc EXCEPT ![p] = "flushed"]
    /\ UNCHANGED <<files, index, item, left, summary, reader, assured, trouble>>

(* Slip: a file that is already there is an error. *)
PublishOnce(p) ==
    /\ pc[p] = "flushed"
    /\ \/ /\ object[item[p]] = "absent"
          /\ object' = [object EXCEPT ![item[p]] = "whole"]
          /\ stable' = IF synced[p] THEN stable \cup {item[p]} ELSE stable
          /\ pc' = [pc EXCEPT ![p] = "linked"]
       \/ /\ object[item[p]] # "absent"
          /\ pc' = [pc EXCEPT ![p] = "idle"]
          /\ UNCHANGED <<object, stable>>
    /\ UNCHANGED <<settled, index, item, left, synced, summary, reader, assured, trouble>>

(* The temporary file is linked under its digest unless a file is there     *)
(* already, left by an earlier capture or by one that was interrupted; that *)
(* one is hashed and adopted, or the sweep fails its integrity check.       *)
Publish(p) ==
    /\ pc[p] = "flushed"
    /\ \/ /\ object[item[p]] = "absent"
          /\ object' = [object EXCEPT ![item[p]] = "whole"]
          /\ stable' = IF synced[p] THEN stable \cup {item[p]} ELSE stable
          /\ pc' = [pc EXCEPT ![p] = "linked"]
       \/ /\ object[item[p]] = "whole"
          /\ pc' = [pc EXCEPT ![p] = "linked"]
          /\ UNCHANGED <<object, stable>>
       \/ /\ object[item[p]] = "torn"
          /\ pc' = [pc EXCEPT ![p] = "idle"]
          /\ UNCHANGED <<object, stable>>
    /\ UNCHANGED <<settled, index, item, left, synced, summary, reader, assured, trouble>>

(* Slip: the directory is not synced. *)
SettleNothing(p) ==
    /\ pc[p] = "linked"
    /\ pc' = [pc EXCEPT ![p] = "settled"]
    /\ UNCHANGED <<files, index, item, left, synced, summary, reader, assured, trouble>>

(* The temporary name is removed and the objects directory synced: every    *)
(* name in it is durable, whoever linked it.                                *)
Settle(p) ==
    /\ pc[p] = "linked"
    /\ settled' = {e \in Envelope : object[e] # "absent"}
    /\ pc' = [pc EXCEPT ![p] = "settled"]
    /\ UNCHANGED <<object, stable, index, item, left, synced, summary, reader, assured, trouble>>

(* Slip: the digest is not UNIQUE. *)
PublishRowAgain(p) ==
    /\ pc[p] = "settled" /\ last < MaxSequence
    /\ rows' = rows \cup {[sequence |-> last + 1, digest |-> item[p]]}
    /\ last' = last + 1
    /\ summary' = [summary EXCEPT ![p].stored = @ \cup {item[p]}]
    /\ pc' = [pc EXCEPT ![p] = "visit"]
    /\ item' = [item EXCEPT ![p] = None]
    /\ synced' = [synced EXCEPT ![p] = FALSE]
    /\ UNCHANGED <<files, schema, left, reader, assured, trouble>>

(* Slip: the number is not remembered. *)
PublishRowUnnumbered(p) ==
    /\ pc[p] = "settled" /\ item[p] \notin Indexed
    /\ rows' = rows \cup {[sequence |-> last + 1, digest |-> item[p]]}
    /\ summary' = [summary EXCEPT ![p].stored = @ \cup {item[p]}]
    /\ pc' = [pc EXCEPT ![p] = "visit"]
    /\ item' = [item EXCEPT ![p] = None]
    /\ synced' = [synced EXCEPT ![p] = FALSE]
    /\ UNCHANGED <<files, schema, last, left, reader, assured, trouble>>

(* The transaction that publishes the reference.  A digest already there    *)
(* inserts nothing, though SQLite may have used up a number for the try.    *)
PublishRow(p) ==
    /\ pc[p] = "settled"
    /\ \/ /\ item[p] \notin Indexed
          /\ rows' = rows \cup {[sequence |-> last + 1, digest |-> item[p]]}
          /\ last' = last + 1
          /\ summary' = [summary EXCEPT ![p].stored = @ \cup {item[p]}]
       \/ /\ item[p] \in Indexed
          /\ last' \in {last, last + 1}
          /\ last' > last => last' + Cardinality(Envelope) <= MaxSequence
          /\ summary' = [summary EXCEPT ![p].duplicate = @ \cup {item[p]}]
          /\ UNCHANGED rows
    /\ pc' = [pc EXCEPT ![p] = "visit"]
    /\ item' = [item EXCEPT ![p] = None]
    /\ synced' = [synced EXCEPT ![p] = FALSE]
    /\ UNCHANGED <<files, schema, left, reader, assured, trouble>>

Finish(p) ==
    /\ pc[p] = "visit" /\ left[p] = {}
    /\ pc' = [pc EXCEPT ![p] = "done"]
    /\ assured' = assured \cup (Envelope \ summary[p].oversize)
    /\ UNCHANGED <<files, index, item, left, synced, summary, reader, trouble>>

Step(p) ==
    \/ Open(p) \/ Flush(p) \/ Publish(p) \/ Settle(p) \/ PublishRow(p) \/ Finish(p)
    \/ \E e \in Envelope : Write(p, e)

-----------------------------------------------------------------------------
(* Trouble *)

(* An I/O error or a kill.  A temporary file may stay behind; no name that  *)
(* the spool ever reads.                                                    *)
Fail(p) ==
    /\ trouble < MaxTrouble
    /\ pc[p] \notin {"idle", "done"}
    /\ pc' = [pc EXCEPT ![p] = "idle"]
    /\ item' = [item EXCEPT ![p] = None]
    /\ left' = [left EXCEPT ![p] = {}]
    /\ synced' = [synced EXCEPT ![p] = FALSE]
    /\ summary' = [summary EXCEPT ![p] = NoSummary]
    /\ trouble' = trouble + 1
    /\ UNCHANGED <<files, index, reader, assured>>

(* Names the directory was not synced with may be gone, and bytes that were *)
(* not synced are torn.  SQLite (synchronous=FULL) keeps what it committed. *)
PowerLoss ==
    /\ trouble < MaxTrouble
    /\ \E lost \in SUBSET {e \in Envelope \ settled : object[e] # "absent"} :
          object' = [e \in Envelope |->
                        CASE e \in lost -> "absent"
                          [] e \notin lost /\ object[e] = "whole" /\ e \notin stable -> "torn"
                          [] OTHER -> object[e]]
    /\ stable' = {e \in stable : object'[e] # "absent"}
    /\ settled' = {e \in Envelope : object'[e] # "absent"}
    /\ pc' = [p \in Process |-> "idle"]
    /\ item' = [p \in Process |-> None]
    /\ left' = [p \in Process |-> {}]
    /\ synced' = [p \in Process |-> FALSE]
    /\ summary' = [p \in Process |-> NoSummary]
    /\ trouble' = trouble + 1
    /\ UNCHANGED <<index, reader, assured>>

-----------------------------------------------------------------------------
(* Reading *)

Watermark == IF rows = {} THEN 0
             ELSE CHOOSE n \in {r.sequence : r \in rows} : \A r \in rows : r.sequence <= n

(* What page refuses with Bounds. *)
InBounds(after, through) == after <= through /\ through <= Watermark

(* Slip: the upper bound is left out of the query. *)
EntriesUnbounded(after, through) == {r.sequence : r \in {q \in rows : q.sequence > after}}

(* The sequence numbers the query selects. *)
Entries(after, through) ==
    {n \in {r.sequence : r \in rows} : after < n /\ n <= through}

Ascending(S) == CHOOSE s \in [1 .. Cardinality(S) -> S] :
                    \A i, j \in DOMAIN s : i < j => s[i] < s[j]

(* One page: limit + 1 entries are fetched to learn whether there are more. *)
(* The watermark is read by a statement of its own; rows that arrive before *)
(* the query have larger numbers.                                           *)
Page(after, through) ==
    /\ schema = 1
    /\ IF InBounds(after, through)
       THEN LET all  == Ascending(Entries(after, through))
                page == SubSeq(all, 1, IF Len(all) > PageSize THEN PageSize ELSE Len(all))
            IN IF Len(all) > PageSize
               THEN reader' = [reader EXCEPT !.after = page[Len(page)], !.through = through,
                                             !.got = @ \o page]
               ELSE reader' = [reader EXCEPT !.start = through, !.after = through,
                                             !.through = 0, !.got = @ \o page]
       ELSE reader' = [reader EXCEPT !.refused = TRUE]
    /\ UNCHANGED <<files, index, sweep, assured, trouble>>

(* A traversal starts after the watermark of the one before, and goes on    *)
(* with next_after under the first page's watermark.                        *)
Read ==
    \/ reader.through = 0 /\ Watermark > reader.start /\ Page(reader.start, Watermark)
    \/ reader.through # 0 /\ Page(reader.after, reader.through)

(* --spool-read: the row, then the object's size and digest. *)
Readable(digest) == object[digest] = "whole"

Next == (\E p \in Process : Step(p) \/ Fail(p)) \/ PowerLoss \/ Read

Spec == Init /\ [][Next]_vars

(* A sweep that started goes on, and the scheduler starts another one after *)
(* a sweep ended or failed.                                                 *)
FairSpec == Spec /\ \A p \in Process : WF_vars(Step(p))

-----------------------------------------------------------------------------
(* Properties *)

(* A reference is published only once its object's bytes and name are       *)
(* durable: whatever fails afterwards, every indexed revision can be read   *)
(* back (spool.rs:3-6).                                                     *)
IndexedBodiesAreReadable == \A r \in rows : Readable(r.digest)

(* A sweep that ends has every envelope it found in the index and readable, *)
(* or says that it left it out: the exit status 0, nothing left out, is an  *)
(* assurance about all of them, and it is kept whatever sweeps fail and     *)
(* however often the power is lost afterwards.                              *)
FinishedSweepIsIndexed ==
    \A e \in assured : e \in Indexed /\ Readable(e)

(* Traversals neither skip nor repeat a revision while sweeps append, and   *)
(* resuming one is never refused.                                           *)
TraversalIsExact ==
    /\ ~reader.refused
    /\ \A i, j \in DOMAIN reader.got : i < j => reader.got[i] < reader.got[j]
    /\ reader.through = 0 =>
          {reader.got[i] : i \in DOMAIN reader.got} = Entries(0, reader.start)

(* An interrupted capture never stands in the way of a later one: every     *)
(* envelope within the bound ends up in the index.                          *)
EveryEnvelopeIsIndexed == <>[](\A e \in Envelope \ Large : e \in Indexed)

Contract == INSTANCE AppendLog WITH
    rows   <- rows,
    bodies <- {e \in Envelope : object[e] = "whole"}

(* All of it is an append-only log of distinct envelopes. *)
ImplementsLog == Contract!Spec
=============================================================================
