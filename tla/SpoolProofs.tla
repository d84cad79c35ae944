----------------------------- MODULE SpoolProofs ----------------------------
(* What the local spool promises, for every number of exporters, envelopes  *)
(* and troubles: whatever is indexed can be read back, a finished sweep is   *)
(* indexed, a traversal is exact, and the whole is the append-only log of    *)
(* AppendLog.                                                               *)
EXTENDS Spool, OrderLemmas, SequenceTheorems

-----------------------------------------------------------------------------
(* The inductive invariant *)

Steps == {"idle", "visit", "written", "flushed", "linked", "settled", "done"}

Summary == [stored : SUBSET Envelope, duplicate : SUBSET Envelope, oversize : SUBSET Envelope]

Typed ==
    /\ object \in [Envelope -> {"absent", "whole", "torn"}]
    /\ stable \subseteq Envelope /\ settled \subseteq Envelope
    /\ rows \subseteq Rows /\ last \in Nat
    /\ \A r \in rows : r.sequence <= last
    /\ pc \in [Process -> Steps]
    /\ item \in [Process -> Envelope \cup {None}]
    /\ left \in [Process -> SUBSET Envelope]
    /\ synced \in [Process -> BOOLEAN]
    /\ summary \in [Process -> Summary]

(* What is in the objects directory was synced before it was linked, so     *)
(* that nothing there is ever torn; a name the directory was synced with is *)
(* there.                                                                   *)
Durable ==
    /\ \A e \in Envelope : object[e] # "absent" => object[e] = "whole" /\ e \in stable
    /\ \A e \in settled : object[e] = "whole"

(* How far a process has come with its envelope. *)
Handled(p) ==
    /\ pc[p] \in {"written", "flushed", "linked", "settled"} => item[p] \in Envelope
    /\ pc[p] \in {"idle", "visit", "done"} => item[p] = None
    /\ pc[p] = "flushed" => synced[p]
    /\ pc[p] = "linked" => object[item[p]] = "whole"
    /\ pc[p] = "settled" => item[p] \in settled

(* What a sweep has behind it is indexed, unless it was too large. *)
Swept(p) ==
    pc[p] # "idle" =>
        \A e \in Envelope : e \in left[p] \/ e = item[p] \/ e \in summary[p].oversize
                                          \/ e \in Indexed

Sound ==
    /\ Typed /\ Durable
    /\ \A p \in Process : Handled(p) /\ Swept(p)
    /\ \A r \in rows : r.digest \in settled

-----------------------------------------------------------------------------
(* Every step preserves it *)

(* A process counts one more envelope. *)
LEMMA CountingOversize ==
    ASSUME Typed, NEW p \in Process, NEW e \in Envelope,
           summary' = [summary EXCEPT ![p].oversize = @ \cup {e}]
    PROVE  /\ summary' \in [Process -> Summary]
           /\ \A q \in Process :
                 summary'[q].oversize = IF q = p THEN summary[q].oversize \cup {e}
                                                 ELSE summary[q].oversize
<1>1. summary \in [Process -> Summary] /\ summary[p] \in Summary
  BY DEF Typed
<1>2. summary' = [summary EXCEPT ![p] = [summary[p] EXCEPT !.oversize = @ \cup {e}]]
  OBVIOUS
<1>3. /\ [summary[p] EXCEPT !.oversize = @ \cup {e}] \in Summary
      /\ [summary[p] EXCEPT !.oversize = @ \cup {e}].oversize = summary[p].oversize \cup {e}
  BY <1>1 DEF Summary
<1> QED  BY <1>1, <1>2, <1>3

LEMMA CountingRow ==
    ASSUME Typed, NEW p \in Process, NEW e \in Envelope,
           \/ summary' = [summary EXCEPT ![p].stored = @ \cup {e}]
           \/ summary' = [summary EXCEPT ![p].duplicate = @ \cup {e}]
    PROVE  /\ summary' \in [Process -> Summary]
           /\ \A q \in Process : summary'[q].oversize = summary[q].oversize
<1>1. summary \in [Process -> Summary] /\ summary[p] \in Summary
  BY DEF Typed
<1>2. \/ summary' = [summary EXCEPT ![p] = [summary[p] EXCEPT !.stored = @ \cup {e}]]
      \/ summary' = [summary EXCEPT ![p] = [summary[p] EXCEPT !.duplicate = @ \cup {e}]]
  OBVIOUS
<1>3. /\ [summary[p] EXCEPT !.stored = @ \cup {e}] \in Summary
      /\ [summary[p] EXCEPT !.stored = @ \cup {e}].oversize = summary[p].oversize
      /\ [summary[p] EXCEPT !.duplicate = @ \cup {e}] \in Summary
      /\ [summary[p] EXCEPT !.duplicate = @ \cup {e}].oversize = summary[p].oversize
  BY <1>1 DEF Summary
<1> QED  BY <1>1, <1>2, <1>3

LEMMA InitSound == Init => Sound
<1>1. Init => Typed
  BY DEF Init, Typed, Steps, NoSummary, Summary
<1>2. Init => Durable
  BY DEF Init, Durable
<1>3. Init => \A p \in Process : Handled(p) /\ Swept(p)
  BY DEF Init, Handled, Swept
<1>4. Init => \A r \in rows : r.digest \in settled
  BY DEF Init
<1> QED  BY <1>1, <1>2, <1>3, <1>4 DEF Sound

LEMMA OpenSound == ASSUME Sound, NEW p \in Process, Open(p) PROVE Sound'
<1>1. Typed'
  BY DEF Sound, Typed, Open, NoSummary, Summary, Steps, files
<1>2. Durable'
  BY DEF Sound, Typed, Durable, Open, files
<1>3. \A q \in Process : Handled(q)' /\ Swept(q)'
  BY SpoolAssumption DEF Sound, Typed, Handled, Swept, Indexed, Open, files
<1>4. \A r \in rows' : r.digest \in settled'
  BY DEF Sound, Open, files
<1> QED  BY <1>1, <1>2, <1>3, <1>4 DEF Sound

LEMMA WriteSound ==
    ASSUME Sound, NEW p \in Process, NEW e \in Envelope, Write(p, e) PROVE Sound'
<1>1. Typed'
  <2>1. summary' \in [Process -> Summary]
    <3>1. CASE e \in Large
      BY <3>1, CountingOversize DEF Sound, Write
    <3>2. CASE e \notin Large
      BY <3>2 DEF Sound, Typed, Write
    <3> QED  BY <3>1, <3>2
  <2> QED  BY <2>1 DEF Sound, Typed, Write, Steps, files, index
<1>2. Durable'
  BY DEF Sound, Typed, Durable, Write, files
<1>3. ASSUME NEW q \in Process PROVE Handled(q)'
  BY SpoolAssumption DEF Sound, Typed, Handled, Write, files
<1>4. ASSUME NEW q \in Process PROVE Swept(q)'
  <2>1. /\ pc[p] = "visit" /\ item[p] = None
        /\ pc'[q] # "idle" => pc[q] # "idle"
    BY DEF Sound, Typed, Handled, Write
  <2>2. Indexed' = Indexed /\ left' = [left EXCEPT ![p] = @ \ {e}]
    BY DEF Write, index, Indexed
  <2>3. CASE e \in Large
    <3>1. summary' = [summary EXCEPT ![p].oversize = @ \cup {e}] /\ item' = item
      BY <2>3 DEF Write
    <3>2. summary'[q].oversize
            = IF q = p THEN summary[q].oversize \cup {e} ELSE summary[q].oversize
      BY <3>1, CountingOversize DEF Sound
    <3> QED  BY <2>1, <2>2, <3>1, <3>2 DEF Sound, Typed, Swept
  <2>4. CASE e \notin Large
    <3>1. summary' = summary /\ item' = [item EXCEPT ![p] = e]
      BY <2>4 DEF Write
    <3> QED  BY SpoolAssumption, <2>1, <2>2, <3>1 DEF Sound, Typed, Swept
  <2> QED  BY <2>3, <2>4
<1>5. \A r \in rows' : r.digest \in settled'
  BY DEF Sound, Write, files, index
<1> QED  BY <1>1, <1>2, <1>3, <1>4, <1>5 DEF Sound

LEMMA FlushSound == ASSUME Sound, NEW p \in Process, Flush(p) PROVE Sound'
<1>1. Typed'
  BY DEF Sound, Typed, Flush, Steps, files, index
<1>2. Durable'
  BY DEF Sound, Typed, Durable, Flush, files
<1>3. \A q \in Process : Handled(q)' /\ Swept(q)'
  BY DEF Sound, Typed, Handled, Swept, Indexed, Flush, files, index
<1>4. \A r \in rows' : r.digest \in settled'
  BY DEF Sound, Flush, files, index
<1> QED  BY <1>1, <1>2, <1>3, <1>4 DEF Sound

(* Whoever links a name that is new has synced its bytes; one that is there *)
(* is whole.                                                                *)
LEMMA PublishSound == ASSUME Sound, NEW p \in Process, Publish(p) PROVE Sound'
<1>0. /\ item[p] \in Envelope /\ synced[p]
      /\ pc[p] = "flushed"
  BY DEF Sound, Handled, Publish
<1>1. Typed'
  BY <1>0 DEF Sound, Typed, Publish, Steps, index
<1>2. Durable'
  BY <1>0 DEF Sound, Typed, Durable, Publish, index
<1>3. object'[item[p]] = "whole" /\ pc' = [pc EXCEPT ![p] = "linked"]
  BY <1>0 DEF Sound, Typed, Durable, Publish
<1>4. \A e \in Envelope : object[e] = "whole" => object'[e] = "whole"
  BY <1>0 DEF Sound, Typed, Publish
<1>5. \A q \in Process : Handled(q)' /\ Swept(q)'
  BY <1>0, <1>3, <1>4 DEF Sound, Typed, Handled, Swept, Indexed, Publish, index
<1>6. \A r \in rows' : r.digest \in settled'
  BY DEF Sound, Publish, index
<1> QED  BY <1>1, <1>2, <1>5, <1>6 DEF Sound

(* A synced directory keeps every name it had. *)
LEMMA SettleSound == ASSUME Sound, NEW p \in Process, Settle(p) PROVE Sound'
<1>0. /\ settled \subseteq settled' /\ item[p] \in settled'
      /\ \A e \in settled' : e \in Envelope /\ object[e] = "whole"
  BY DEF Sound, Typed, Durable, Handled, Settle
<1>1. Typed'
  BY <1>0 DEF Sound, Typed, Settle, Steps, index
<1>2. Durable'
  BY <1>0 DEF Sound, Typed, Durable, Settle, index
<1>3. \A q \in Process : Handled(q)' /\ Swept(q)'
  BY <1>0 DEF Sound, Typed, Handled, Swept, Indexed, Settle, index
<1>4. \A r \in rows' : r.digest \in settled'
  BY <1>0 DEF Sound, Settle, index
<1> QED  BY <1>1, <1>2, <1>3, <1>4 DEF Sound

LEMMA PublishRowSound == ASSUME Sound, NEW p \in Process, PublishRow(p) PROVE Sound'
<1>0. /\ pc[p] = "settled" /\ item[p] \in Envelope /\ item[p] \in settled
  BY DEF Sound, Handled, PublishRow
<1>1. /\ rows \subseteq rows' /\ last' \in Nat /\ last <= last'
      /\ \E r \in rows' : r.digest = item[p]
      /\ \A r \in rows' : r \in rows \/ r = [sequence |-> last', digest |-> item[p]]
  <2>1. CASE item[p] \notin Indexed
    <3> DEFINE new == [sequence |-> last + 1, digest |-> item[p]]
    <3>1. rows' = rows \cup {new} /\ last' = last + 1
      BY <2>1 DEF PublishRow
    <3>2. last \in Nat /\ last' \in Nat /\ last <= last'
      BY <3>1 DEF Sound, Typed
    <3>3. new \in rows' /\ new.digest = item[p]
      BY <3>1
    <3>4. \A r \in rows' : r \in rows \/ r = [sequence |-> last', digest |-> item[p]]
      BY <3>1
    <3>5. rows \subseteq rows'
      BY <3>1
    <3> HIDE DEF new
    <3> QED  BY <3>2, <3>3, <3>4, <3>5
  <2>2. CASE item[p] \in Indexed
    BY <2>2 DEF Sound, Typed, PublishRow, Indexed
  <2> QED  BY <2>1, <2>2
<1>2. Typed'
  <2>1. rows' \subseteq Rows /\ \A r \in rows' : r.sequence <= last'
    BY <1>0, <1>1 DEF Sound, Typed, Rows
  <2>2. summary' \in [Process -> Summary]
    BY <1>0, CountingRow DEF Sound, PublishRow
  <2>3. /\ pc' \in [Process -> Steps] /\ item' \in [Process -> Envelope \cup {None}]
        /\ synced' \in [Process -> BOOLEAN] /\ left' = left
        /\ object' = object /\ stable' = stable /\ settled' = settled
    BY DEF Sound, Typed, PublishRow, Steps, files
  <2> QED  BY <1>1, <2>1, <2>2, <2>3 DEF Sound, Typed
<1>3. Durable'
  BY DEF Sound, Typed, Durable, PublishRow, files
<1>4. ASSUME NEW q \in Process PROVE Handled(q)'
  BY SpoolAssumption DEF Sound, Typed, Handled, PublishRow, files
<1>5. ASSUME NEW q \in Process PROVE Swept(q)'
  <2>1. Indexed \subseteq Indexed' /\ item[p] \in Indexed'
    BY <1>1 DEF Indexed
  <2>2. summary'[q].oversize = summary[q].oversize /\ left'[q] = left[q]
    BY <1>0, CountingRow DEF Sound, PublishRow
  <2>3. CASE q = p
    BY <2>1, <2>2, <2>3, <1>0 DEF Sound, Typed, Swept, PublishRow
  <2>4. CASE q # p
    BY <2>1, <2>2, <2>4 DEF Sound, Typed, Swept, PublishRow
  <2> QED  BY <2>3, <2>4
<1>6. \A r \in rows' : r.digest \in settled'
  BY <1>0, <1>1 DEF Sound, PublishRow, files
<1> QED  BY <1>2, <1>3, <1>4, <1>5, <1>6 DEF Sound

LEMMA FinishSound == ASSUME Sound, NEW p \in Process, Finish(p) PROVE Sound'
<1>1. Typed'
  BY DEF Sound, Typed, Finish, Steps, files, index
<1>2. Durable'
  BY DEF Sound, Typed, Durable, Finish, files
<1>3. \A q \in Process : Handled(q)' /\ Swept(q)'
  BY DEF Sound, Typed, Handled, Swept, Indexed, Finish, files, index
<1>4. \A r \in rows' : r.digest \in settled'
  BY DEF Sound, Finish, files, index
<1> QED  BY <1>1, <1>2, <1>3, <1>4 DEF Sound

LEMMA FailSound == ASSUME Sound, NEW p \in Process, Fail(p) PROVE Sound'
<1>1. Typed'
  BY DEF Sound, Typed, Fail, NoSummary, Summary, Steps, files, index
<1>2. Durable'
  BY DEF Sound, Typed, Durable, Fail, files
<1>3. \A q \in Process : Handled(q)' /\ Swept(q)'
  BY SpoolAssumption DEF Sound, Typed, Handled, Swept, Indexed, Fail, files, index
<1>4. \A r \in rows' : r.digest \in settled'
  BY DEF Sound, Fail, files, index
<1> QED  BY <1>1, <1>2, <1>3, <1>4 DEF Sound

(* A power loss takes names that no row refers to, and tears nothing. *)
LEMMA PowerLossKeeps ==
    ASSUME Sound, PowerLoss
    PROVE  /\ object' \in [Envelope -> {"absent", "whole", "torn"}]
           /\ \A e \in Envelope : object'[e] # "absent" => object'[e] = "whole" /\ e \in stable'
           /\ \A e \in settled : e \in settled'
           /\ \A e \in settled' : e \in Envelope /\ object'[e] = "whole"
           /\ \A e \in Envelope : object'[e] = object[e] \/ (object'[e] = "absent" /\ e \notin settled)
<1>1. PICK lost \in SUBSET {e \in Envelope \ settled : object[e] # "absent"} :
          object' = [e \in Envelope |->
                        CASE e \in lost -> "absent"
                          [] e \notin lost /\ object[e] = "whole" /\ e \notin stable -> "torn"
                          [] OTHER -> object[e]]
  BY DEF PowerLoss
<1>2. ASSUME NEW e \in Envelope
      PROVE  /\ object'[e] \in {"absent", "whole", "torn"}
             /\ object'[e] = (IF e \in lost THEN "absent" ELSE object[e])
  <2>1. ~(object[e] = "whole" /\ e \notin stable)
    BY DEF Sound, Durable
  <2> QED  BY <1>1, <2>1 DEF Sound, Typed
<1>3. object' \in [Envelope -> {"absent", "whole", "torn"}]
  BY <1>1, <1>2
<1>4. stable' = {e \in stable : object'[e] # "absent"}
      /\ settled' = {e \in Envelope : object'[e] # "absent"}
  BY DEF PowerLoss
<1>5. \A e \in settled : e \notin lost /\ e \in Envelope /\ object[e] = "whole"
  BY <1>1 DEF Sound, Typed, Durable
<1>6. \A e \in Envelope : object[e] # "absent" => object[e] = "whole" /\ e \in stable
  BY DEF Sound, Durable
<1> QED  BY <1>2, <1>3, <1>4, <1>5, <1>6

LEMMA PowerLossSound == ASSUME Sound, PowerLoss PROVE Sound'
<1>1. Typed'
  <2>1. /\ stable' \subseteq Envelope /\ settled' \subseteq Envelope
        /\ rows' = rows /\ last' = last
        /\ pc' \in [Process -> Steps] /\ item' \in [Process -> Envelope \cup {None}]
        /\ left' \in [Process -> SUBSET Envelope] /\ synced' \in [Process -> BOOLEAN]
        /\ summary' \in [Process -> Summary]
    BY DEF Sound, Typed, PowerLoss, Steps, NoSummary, Summary, index
  <2> QED  BY <2>1, PowerLossKeeps DEF Sound, Typed
<1>2. Durable'
  BY PowerLossKeeps DEF Durable
<1>3. \A q \in Process : Handled(q)' /\ Swept(q)'
  BY DEF PowerLoss, Handled, Swept
<1>4. \A r \in rows' : r.digest \in settled'
  BY PowerLossKeeps DEF Sound, PowerLoss, index
<1> QED  BY <1>1, <1>2, <1>3, <1>4 DEF Sound

(* What a reader or a stutter leaves alone. *)
LEMMA UnchangedSound == ASSUME Sound, UNCHANGED <<files, index, sweep>> PROVE Sound'
<1>1. /\ object' = object /\ stable' = stable /\ settled' = settled
      /\ rows' = rows /\ last' = last /\ pc' = pc /\ item' = item /\ left' = left
      /\ synced' = synced /\ summary' = summary
  BY DEF files, index, sweep
<1> QED  BY <1>1 DEF Sound, Typed, Durable, Handled, Swept, Indexed

LEMMA ReadKeeps == Read => UNCHANGED <<files, index, sweep>>
  BY DEF Read, Page

LEMMA NextSound == Sound /\ [Next]_vars => Sound'
<1> SUFFICES ASSUME Sound, [Next]_vars PROVE Sound'
  OBVIOUS
<1>1. ASSUME NEW p \in Process, Step(p) PROVE Sound'
  BY <1>1, OpenSound, WriteSound, FlushSound, PublishSound, SettleSound,
     PublishRowSound, FinishSound DEF Step
<1>2. CASE PowerLoss
  BY <1>2, PowerLossSound
<1>3. CASE Read
  BY <1>3, ReadKeeps, UnchangedSound
<1>4. CASE UNCHANGED vars
  BY <1>4, UnchangedSound DEF vars
<1> QED  BY <1>1, <1>2, <1>3, <1>4, FailSound DEF Next

(* The invariant holds throughout. *)
THEOREM SpoolIsSound == Spec => []Sound
  BY InitSound, NextSound, PTL DEF Spec

(* Whatever is indexed can be read back, at any time and after any trouble. *)
THEOREM IndexedIsReadable == Spec => []IndexedBodiesAreReadable
<1>1. Sound => IndexedBodiesAreReadable
  BY DEF Sound, Durable, IndexedBodiesAreReadable, Readable
<1> QED  BY <1>1, SpoolIsSound, PTL

(* What a sweep that ended did not report as too large is indexed. *)
Assured == assured \subseteq Envelope /\ assured \subseteq Indexed

(* No step, not even a power loss, takes a row away. *)
LEMMA RowsStay == ASSUME [Next]_vars PROVE rows \subseteq rows'
<1>1. ASSUME NEW p \in Process, Step(p) PROVE rows \subseteq rows'
  BY <1>1 DEF Step, Open, Write, Flush, Publish, Settle, PublishRow, Finish, index
<1>2. ASSUME NEW p \in Process, Fail(p) PROVE rows \subseteq rows'
  BY <1>2 DEF Fail, index
<1>3. CASE PowerLoss \/ Read \/ UNCHANGED vars
  BY <1>3 DEF PowerLoss, Read, Page, vars, index
<1> QED  BY <1>1, <1>2, <1>3 DEF Next

(* Only a sweep that ends gives an assurance. *)
LEMMA AssuredChanges ==
    ASSUME [Next]_vars PROVE assured' = assured \/ \E p \in Process : Finish(p)
<1>1. ASSUME NEW p \in Process, Step(p) PROVE assured' = assured \/ Finish(p)
  BY <1>1 DEF Step, Open, Write, Flush, Publish, Settle, PublishRow
<1>2. ASSUME NEW p \in Process, Fail(p) PROVE assured' = assured
  BY <1>2 DEF Fail
<1>3. CASE PowerLoss \/ Read \/ UNCHANGED vars
  BY <1>3 DEF PowerLoss, Read, Page, vars
<1> QED  BY <1>1, <1>2, <1>3 DEF Next

LEMMA NextAssured == ASSUME Sound, Assured, [Next]_vars PROVE Assured'
<1>1. Indexed \subseteq Indexed'
  BY RowsStay DEF Indexed
<1>2. ASSUME NEW p \in Process, Finish(p) PROVE Assured'
  <2>1. item[p] = None /\ left[p] = {} /\ Swept(p) /\ pc[p] = "visit"
    BY <1>2 DEF Sound, Handled, Finish
  <2>2. Envelope \ summary[p].oversize \subseteq Indexed
    BY <2>1, SpoolAssumption DEF Swept
  <2> QED  BY <1>1, <1>2, <2>2 DEF Assured, Finish
<1>3. CASE assured' = assured
  BY <1>1, <1>3 DEF Assured
<1> QED  BY <1>2, <1>3, AssuredChanges

LEMMA AssuredAlways == Spec => [](Sound /\ Assured)
<1>1. Init => Assured
  BY DEF Init, Assured
<1> QED  BY <1>1, NextAssured, SpoolIsSound, PTL DEF Spec

(* What a sweep that ended did not report as too large is indexed and       *)
(* readable from then on, however many sweeps fail and however often the    *)
(* power is lost.                                                           *)
THEOREM FinishedIsIndexed == Spec => []FinishedSweepIsIndexed
<1>1. ASSUME Sound, Assured, NEW e \in assured PROVE e \in Indexed /\ Readable(e)
  <2>1. e \in Indexed
    BY <1>1 DEF Assured
  <2>2. object[e] = "whole"
    BY <1>1, <2>1 DEF Sound, Durable, Indexed
  <2> QED  BY <2>1, <2>2 DEF Readable
<1>2. Sound /\ Assured => FinishedSweepIsIndexed
  BY <1>1 DEF FinishedSweepIsIndexed
<1> QED  BY <1>2, AssuredAlways, PTL

-----------------------------------------------------------------------------
(* The refinement *)

Bodies == {e \in Envelope : object[e] = "whole"}

LEMMA InitIsInit == Init => Contract!Init
  BY DEF Init, Contract!Init

LEMMA PublishIsPlace ==
    ASSUME Sound, NEW p \in Process, Publish(p) PROVE Contract!Place(item[p])
<1>0. item[p] \in Envelope /\ object \in [Envelope -> {"absent", "whole", "torn"}]
  BY DEF Sound, Typed, Handled, Publish
<1>1. Bodies' = Bodies \cup {item[p]}
  <2>1. CASE object[item[p]] = "absent"
    BY <1>0, <2>1 DEF Publish, Bodies
  <2>2. CASE object[item[p]] = "whole"
    BY <1>0, <2>2 DEF Publish, Bodies
  <2> QED  BY <1>0, <2>1, <2>2 DEF Sound, Durable
<1>2. rows' = rows
  BY DEF Publish, index
<1> QED  BY <1>1, <1>2 DEF Contract!Place, Bodies

LEMMA PublishRowIsAppend ==
    ASSUME Sound, NEW p \in Process, PublishRow(p)
    PROVE  Contract!Append(item[p]) \/ UNCHANGED Contract!log
<1>0. Bodies' = Bodies
  BY DEF PublishRow, files, Bodies
<1>1. CASE item[p] \in Indexed
  BY <1>0, <1>1 DEF PublishRow, Contract!log, Bodies
<1>2. CASE item[p] \notin Indexed
  <2> DEFINE new == [sequence |-> last + 1, digest |-> item[p]]
  <2>1. rows' = rows \cup {new}
    BY <1>2 DEF PublishRow
  <2>2. item[p] \in Bodies
    BY DEF Sound, Typed, Durable, Handled, PublishRow, Bodies
  <2>3. \A q \in rows : q.sequence < last + 1
    BY DEF Sound, Typed, Rows
  <2>4. item[p] \notin Contract!Published
    BY <1>2 DEF Contract!Published, Indexed
  <2> QED  BY <1>0, <2>1, <2>2, <2>3, <2>4 DEF Contract!Append, Bodies
<1> QED  BY <1>1, <1>2

LEMMA PowerLossIsLose ==
    ASSUME Sound, PowerLoss PROVE \E S \in SUBSET Envelope : Contract!Lose(S)
<1> DEFINE S == {e \in Envelope : object'[e] # object[e]}
<1>1. S \cap Contract!Published = {}
  BY PowerLossKeeps DEF Sound, Contract!Published
<1>2. Bodies' = Bodies \ S
  BY PowerLossKeeps DEF Bodies
<1>3. rows' = rows
  BY DEF PowerLoss, index
<1>4. S \in SUBSET Envelope
  OBVIOUS
<1> HIDE DEF S
<1> QED  BY <1>1, <1>2, <1>3, <1>4 DEF Contract!Lose, Bodies

LEMMA StepImplements ==
    ASSUME Sound, [Next]_vars PROVE Contract!Next \/ UNCHANGED Contract!log
<1>1. ASSUME UNCHANGED object, UNCHANGED rows PROVE UNCHANGED Contract!log
  BY <1>1 DEF Contract!log
<1>2. ASSUME NEW p \in Process, Step(p)
      PROVE  Contract!Next \/ UNCHANGED Contract!log
  <2>1. CASE Publish(p)
    <3>1. item[p] \in Envelope
      BY <2>1 DEF Sound, Handled, Publish
    <3> QED  BY <2>1, <3>1, PublishIsPlace DEF Contract!Next, Contract!Place
  <2>2. CASE PublishRow(p)
    <3>1. item[p] \in Envelope
      BY <2>2 DEF Sound, Handled, PublishRow
    <3> QED  BY <2>2, <3>1, PublishRowIsAppend DEF Contract!Next, Contract!Append
  <2>3. CASE Open(p) \/ Flush(p) \/ Settle(p) \/ Finish(p) \/ \E e \in Envelope : Write(p, e)
    BY <1>1, <2>3 DEF Open, Flush, Settle, Finish, Write, files, index
  <2> QED  BY <1>2, <2>1, <2>2, <2>3 DEF Step
<1>3. ASSUME NEW p \in Process, Fail(p) PROVE UNCHANGED Contract!log
  BY <1>1, <1>3 DEF Fail, files, index
<1>4. CASE PowerLoss
  BY <1>4, PowerLossIsLose DEF Contract!Next
<1>5. CASE Read \/ UNCHANGED vars
  BY <1>1, <1>5, ReadKeeps DEF vars, files, index
<1> QED  BY <1>2, <1>3, <1>4, <1>5 DEF Next

(* The spool is an append-only log of distinct envelopes. *)
THEOREM SpoolImplementsLog == Spec => ImplementsLog
<1>1. Sound /\ [Next]_vars => [Contract!Next]_(Contract!log)
  BY StepImplements
<1> QED  BY <1>1, InitIsInit, SpoolIsSound, PTL DEF Spec, ImplementsLog, Contract!Spec

-----------------------------------------------------------------------------
(* Paging *)

Numbers == {r.sequence : r \in rows}

Numbered ==
    /\ rows \subseteq Rows /\ last \in Nat
    /\ \A r \in rows : r.sequence \in 1 .. last
    /\ \A r, s \in rows : r.sequence = s.sequence => r = s

(* All the rows' numbers after a and up to c, in order. *)
Holds(page, a, c) ==
    /\ page \in Seq(Nat)
    /\ \A i, j \in 1 .. Len(page) : i < j => page[i] < page[j]
    /\ {page[i] : i \in 1 .. Len(page)} = Entries(a, c)

(* How far the consumer has read. *)
Reached == IF reader.through = 0 THEN reader.start ELSE reader.after

Reader == [start : Nat, after : Nat, through : Nat, got : Seq(Nat), refused : {FALSE}]

Got ==
    /\ reader \in Reader
    /\ Holds(reader.got, 0, Reached)

(* It has everything up to there, in order, and what it asks for next is not *)
(* beyond the last row.                                                     *)
Paged ==
    /\ Numbered
    /\ Got
    /\ reader.through = 0 => reader.start <= Watermark
    /\ reader.through # 0 => reader.after <= reader.through /\ reader.through <= Watermark

LEMMA WatermarkFacts ==
    ASSUME Numbered
    PROVE  /\ Watermark \in Nat /\ Watermark <= last
           /\ \A n \in Numbers : n \in Nat /\ n <= Watermark /\ n > 0
           /\ rows # {} => Watermark \in Numbers
<1>1. \A n \in Numbers : n \in 1 .. last
  BY DEF Numbered, Numbers
<1>2. last \in Nat
  BY DEF Numbered
<1>3. CASE rows = {}
  BY <1>2, <1>3 DEF Watermark, Numbers
<1>4. CASE rows # {}
  <2>1. Numbers \in SUBSET Nat /\ Numbers # {} /\ \A n \in Numbers : n <= last
    BY <1>1, <1>2, <1>4 DEF Numbers
  <2>2. \E n \in Numbers : \A m \in Numbers : n >= m
    BY <1>2, <2>1, GreatestNatural
  <2>3. \E n \in Numbers : \A r \in rows : r.sequence <= n
    <3>1. PICK n \in Numbers : \A m \in Numbers : n >= m
      BY <2>2
    <3>2. \A r \in rows : r.sequence \in Numbers
      BY DEF Numbers
    <3>3. \A m \in Numbers : m <= n
      BY <2>1, <3>1
    <3> QED  BY <3>2, <3>3
  <2>4. Watermark = CHOOSE n \in Numbers : \A r \in rows : r.sequence <= n
    BY <1>4 DEF Watermark, Numbers
  <2>5. Watermark \in Numbers /\ \A r \in rows : r.sequence <= Watermark
    BY <2>3, <2>4
  <2>6. \A n \in Numbers : n <= Watermark
    BY <2>5 DEF Numbers
  <2> QED  BY <1>1, <2>1, <2>5, <2>6
<1> QED  BY <1>3, <1>4

LEMMA EntriesAre ==
    ASSUME NEW a, NEW b PROVE Entries(a, b) = {n \in Numbers : a < n /\ n <= b}
  BY DEF Entries, Numbers

Below(S) == {e \in S \X S : e[1] < e[2]}

LEMMA EveryPlaceIsTaken ==
    ASSUME NEW S, IsFiniteSet(S), Orders(Below(S), S)
    PROVE  \A k \in 0 .. Cardinality(S) - 1 :
              \E x \in S : Cardinality(Ahead(Below(S), S, x)) = k
  BY EveryRankIsTaken

(* A set of numbers in its order. *)
LEMMA AscendingFacts ==
    ASSUME NEW S, S \in SUBSET Nat, IsFiniteSet(S)
    PROVE  /\ Cardinality(S) \in Nat
           /\ Ascending(S) \in [1 .. Cardinality(S) -> S]
           /\ \A i, j \in 1 .. Cardinality(S) : i < j => Ascending(S)[i] < Ascending(S)[j]
           /\ \A x \in S : \E i \in 1 .. Cardinality(S) : Ascending(S)[i] = x
<1> DEFINE R == Below(S)
           n == Cardinality(S)
           at(i) == CHOOSE x \in S : Cardinality(Ahead(R, S, x)) = i - 1
           row == [i \in 1 .. n |-> at(i)]
<1>1. n \in Nat
  BY FS_CardinalityType
<1>2. Orders(R, S)
  <2>1. \A x, y \in S : <<x, y>> \in R <=> x < y
    BY DEF Below
  <2>2. \A x, y, z \in S : /\ ~(x < x)
                           /\ x # y => x < y \/ y < x
                           /\ x < y /\ y < z => x < z
    OBVIOUS
  <2> HIDE DEF R
  <2> QED  BY <2>1, <2>2 DEF Orders
<1>3. \A x, y \in S : <<x, y>> \in R <=> x < y
  BY DEF Below
<1>0. \A k \in 0 .. Cardinality(S) - 1 : \E x \in S : Cardinality(Ahead(R, S, x)) = k
  BY <1>2, EveryPlaceIsTaken
<1> HIDE DEF R
<1>4. \A i \in 1 .. n : at(i) \in S /\ Cardinality(Ahead(R, S, at(i))) = i - 1
  <2> SUFFICES ASSUME NEW i \in 1 .. n
               PROVE  at(i) \in S /\ Cardinality(Ahead(R, S, at(i))) = i - 1
    OBVIOUS
  <2>1. i - 1 \in 0 .. Cardinality(S) - 1
    BY <1>1
  <2>2. \E x \in S : Cardinality(Ahead(R, S, x)) = i - 1
    BY <1>0, <2>1
  <2> QED  BY <2>2
<1> HIDE DEF at, n
<1>5. row \in [1 .. n -> S] /\ \A i \in 1 .. n : row[i] = at(i)
  BY <1>4
<1>6. \A i, j \in 1 .. n : i < j => row[i] < row[j]
  <2> SUFFICES ASSUME NEW i \in 1 .. n, NEW j \in 1 .. n, i < j PROVE row[i] < row[j]
    OBVIOUS
  <2>1. at(i) \in S /\ at(j) \in S /\ at(i) # at(j)
    BY <1>1, <1>4
  <2>2. ~(at(j) < at(i))
    <3>1. CASE <<at(j), at(i)>> \in R
      <4>1. Cardinality(Ahead(R, S, at(j))) < Cardinality(Ahead(R, S, at(i)))
        BY <1>2, <2>1, <3>1, RankFacts
      <4> QED  BY <1>1, <1>4, <4>1
    <3> QED  BY <1>3, <2>1, <3>1
  <2>3. at(i) \in Nat /\ at(j) \in Nat
    BY <2>1
  <2> QED  BY <1>5, <2>1, <2>2, <2>3
<1> HIDE DEF row
<1> DEFINE ordered(s) == \A i, j \in DOMAIN s : i < j => s[i] < s[j]
<1>7. \E s \in [1 .. n -> S] : ordered(s)
  BY <1>5, <1>6
<1> DEFINE a == Ascending(S)
<1>8. a = CHOOSE s \in [1 .. n -> S] : ordered(s)
  BY DEF Ascending, n
<1> HIDE DEF ordered, a
<1>9. a \in [1 .. n -> S] /\ ordered(a)
  BY <1>7, <1>8
<1>10. \A i, j \in 1 .. n : i < j => a[i] < a[j]
  BY <1>9 DEF ordered
<1>11. \A x \in S : \E i \in 1 .. n : a[i] = x
  <2>1. IsFiniteSet(1 .. n) /\ Cardinality(1 .. n) = n
    <3>1. 1 \in Int /\ n \in Int
      BY <1>1
    <3>2. /\ IsFiniteSet(1 .. n)
          /\ Cardinality(1 .. n) = IF 1 > n THEN 0 ELSE n - 1 + 1
      BY <3>1, FS_Interval
    <3> QED  BY <1>1, <3>2
  <2>2. \A i, j \in 1 .. n : a[i] = a[j] => i = j
    <3> SUFFICES ASSUME NEW i \in 1 .. n, NEW j \in 1 .. n, a[i] = a[j], i # j PROVE FALSE
      OBVIOUS
    <3>1. i < j \/ j < i
      BY <1>1
    <3>2. a[i] \in Nat
      BY <1>9
    <3> QED  BY <1>10, <3>1, <3>2
  <2>3. a \in Injection(1 .. n, S)
    BY <1>9, <2>2 DEF Injection, IsInjective
  <2>4. Cardinality(1 .. n) = Cardinality(S) <=> a \in Surjection(1 .. n, S)
    BY <2>1, <2>3, FS_Injection
  <2> QED  BY <2>1, <2>4 DEF Surjection, n
<1> QED  BY <1>1, <1>9, <1>10, <1>11 DEF a, n

LEMMA AscendingIsASequence ==
    ASSUME NEW S \in SUBSET Nat, IsFiniteSet(S)
    PROVE  Ascending(S) \in Seq(Nat) /\ Len(Ascending(S)) = Cardinality(S)
<1> DEFINE a == Ascending(S)
           n == Cardinality(S)
<1>1. n \in Nat /\ a \in [1 .. n -> S]
  BY AscendingFacts
<1> HIDE DEF a, n
<1>2. a \in [1 .. n -> Nat]
  BY <1>1
<1>3. a \in Seq(Nat)
  BY <1>1, <1>2, SeqDef
<1>4. Len(a) \in Nat /\ DOMAIN a = 1 .. Len(a)
  BY <1>3, LenProperties
<1>5. 1 .. Len(a) = 1 .. n
  BY <1>2, <1>4
<1>6. Len(a) = n
  BY <1>1, <1>4, <1>5
<1> QED  BY <1>3, <1>6 DEF a, n

LEMMA EntriesAreFinite ==
    ASSUME Numbered, NEW a \in Nat, NEW b \in Nat
    PROVE  Entries(a, b) \in SUBSET Nat /\ IsFiniteSet(Entries(a, b))
<1>1. Entries(a, b) \subseteq 1 .. last
  BY EntriesAre DEF Numbered, Numbers
<1>2. IsFiniteSet(1 .. last)
  BY FS_Interval DEF Numbered
<1>3. IsFiniteSet(Entries(a, b))
  BY <1>1, <1>2, FS_Subset
<1> QED  BY <1>1, <1>3 DEF Numbered

LEMMA FirstOfEntries ==
    ASSUME Numbered, NEW a \in Nat, NEW b \in Nat,
           NEW k \in 1 .. Len(Ascending(Entries(a, b)))
    PROVE  LET all == Ascending(Entries(a, b))
           IN  /\ Holds(SubSeq(all, 1, k), a, all[k])
               /\ Len(SubSeq(all, 1, k)) = k /\ SubSeq(all, 1, k)[k] = all[k]
               /\ all[k] \in Nat /\ a < all[k] /\ all[k] <= b
<1> DEFINE S == Entries(a, b)
           all == Ascending(S)
           page == SubSeq(all, 1, k)
<1>0. S \in SUBSET Nat /\ IsFiniteSet(S)
  BY EntriesAreFinite
<1>1. S = {n \in Numbers : a < n /\ n <= b}
  BY EntriesAre
<1> HIDE DEF S
<1>2. Len(all) = Cardinality(S) /\ Len(all) \in Nat
  BY <1>0, AscendingFacts, AscendingIsASequence
<1>3. /\ all \in [1 .. Len(all) -> S]
      /\ \A i, j \in 1 .. Len(all) : i < j => all[i] < all[j]
      /\ \A x \in S : \E i \in 1 .. Len(all) : all[i] = x
  BY <1>0, <1>2, AscendingFacts
<1>4. k \in 1 .. Len(all) /\ k \in Nat /\ k <= Len(all)
  BY <1>2 DEF S
<1> HIDE DEF all
<1>5. \A i \in 1 .. k : all[i] \in S /\ all[i] \in Nat /\ i \in 1 .. Len(all)
  <2>1. \A i \in 1 .. k : i \in 1 .. Len(all)
    BY <1>2, <1>4
  <2>2. \A i \in 1 .. k : all[i] \in S
    BY <1>3, <2>1
  <2> QED  BY <1>0, <2>1, <2>2
<1>6. /\ page \in Seq(Nat) /\ Len(page) = k
      /\ \A i \in 1 .. k : page[i] = all[i]
  <2>1. /\ page \in Seq(Nat)
        /\ Len(page) = IF 1 <= k THEN k - 1 + 1 ELSE 0
        /\ \A i \in 1 .. k - 1 + 1 : page[i] = all[1 + i - 1]
    BY <1>4, <1>5, SubSeqProperties
  <2> HIDE DEF page
  <2> QED  BY <1>4, <2>1
<1> HIDE DEF page
<1>7. \A i, j \in 1 .. Len(page) : i < j => page[i] < page[j]
  BY <1>3, <1>5, <1>6
<1>8. \A i \in 1 .. k : all[i] <= all[k]
  BY <1>3, <1>4, <1>5
<1>9. all[k] \in S /\ all[k] \in Nat /\ a < all[k] /\ all[k] <= b
  BY <1>1, <1>4, <1>5
<1>10. {page[i] : i \in 1 .. Len(page)} = Entries(a, all[k])
  <2>1. Entries(a, all[k]) = {n \in Numbers : a < n /\ n <= all[k]}
    BY EntriesAre
  <2>2. ASSUME NEW i \in 1 .. k PROVE page[i] \in Entries(a, all[k])
    BY <1>1, <1>5, <1>6, <1>8, <2>1
  <2>3. ASSUME NEW x \in Entries(a, all[k]) PROVE \E i \in 1 .. k : page[i] = x
    <3>1. x \in Numbers /\ x \in Nat /\ a < x /\ x <= all[k]
      BY <2>1, WatermarkFacts
    <3>2. x \in S
      BY <1>1, <1>9, <3>1
    <3>3. PICK i \in 1 .. Len(all) : all[i] = x
      BY <1>3, <3>2
    <3>4. i <= k
      BY <1>2, <1>3, <1>4, <1>9, <3>1, <3>3
    <3> QED  BY <1>2, <1>4, <1>6, <3>3, <3>4
  <2> QED  BY <1>6, <2>2, <2>3
<1> QED  BY <1>6, <1>7, <1>9, <1>10 DEF Holds, page, all, S

LEMMA AllOfEntries ==
    ASSUME Numbered, NEW a \in Nat, NEW b \in Nat
    PROVE  LET all == Ascending(Entries(a, b))
           IN  Holds(SubSeq(all, 1, Len(all)), a, b)
<1> DEFINE S == Entries(a, b)
           all == Ascending(S)
<1>0. S \in SUBSET Nat /\ IsFiniteSet(S)
  BY EntriesAreFinite
<1> HIDE DEF S
<1>1. all \in Seq(Nat) /\ Len(all) = Cardinality(S) /\ Len(all) \in Nat
  BY <1>0, AscendingFacts, AscendingIsASequence
<1>2. /\ all \in [1 .. Len(all) -> S]
      /\ \A i, j \in 1 .. Len(all) : i < j => all[i] < all[j]
      /\ \A x \in S : \E i \in 1 .. Len(all) : all[i] = x
  BY <1>0, <1>1, AscendingFacts
<1>3. SubSeq(all, 1, Len(all)) = all
  BY <1>1, SubSeqFull
<1> HIDE DEF all
<1>4. {all[i] : i \in 1 .. Len(all)} = S
  BY <1>2
<1> QED  BY <1>1, <1>2, <1>3, <1>4 DEF Holds, all, S

(* A page goes on where what was read so far ends. *)
LEMMA PagesJoin ==
    ASSUME Numbered, NEW a \in Nat, NEW c \in Nat, a <= c,
           NEW got \in Seq(Nat), NEW page, Holds(page, a, c), Holds(got, 0, a)
    PROVE  Holds(got \o page, 0, c)
<1> DEFINE both == got \o page
<1>1. page \in Seq(Nat) /\ Len(got) \in Nat /\ Len(page) \in Nat
  BY LenProperties DEF Holds
<1>2. /\ both \in Seq(Nat) /\ Len(both) = Len(got) + Len(page)
      /\ \A i \in 1 .. Len(got) + Len(page) :
            both[i] = IF i <= Len(got) THEN got[i] ELSE page[i - Len(got)]
  BY <1>1, ConcatProperties
<1> HIDE DEF both
<1>3. \A i \in 1 .. Len(got) : got[i] \in Entries(0, a)
  BY DEF Holds
<1>4. \A i \in 1 .. Len(page) : page[i] \in Entries(a, c)
  BY DEF Holds
<1>5. \A x \in Numbers : x \in Nat /\ x > 0
  BY WatermarkFacts
<1>6. \A x \in Entries(0, a) : x \in Nat /\ x <= a /\ x \in Entries(0, c)
  BY <1>5, EntriesAre
<1>7. \A x \in Entries(a, c) : x \in Nat /\ a < x /\ x \in Entries(0, c)
  BY <1>5, EntriesAre
<1>8. \A x \in Entries(0, c) : x \in Entries(0, a) \/ x \in Entries(a, c)
  BY <1>5, EntriesAre
<1>9. ASSUME NEW i \in 1 .. Len(both)
      PROVE  /\ i \in Nat
             /\ i <= Len(got) => i \in 1 .. Len(got) /\ both[i] = got[i]
             /\ ~(i <= Len(got)) => /\ i - Len(got) \in 1 .. Len(page)
                                    /\ both[i] = page[i - Len(got)]
  <2>1. i \in 1 .. Len(got) + Len(page)
    BY <1>2
  <2>2. both[i] = IF i <= Len(got) THEN got[i] ELSE page[i - Len(got)]
    BY <1>2, <2>1
  <2>3. i \in Nat /\ (i <= Len(got) => i \in 1 .. Len(got))
    BY <1>1, <2>1
  <2>4. ~(i <= Len(got)) => i - Len(got) \in 1 .. Len(page)
    BY <1>1, <2>1
  <2> QED  BY <2>2, <2>3, <2>4
<1>10. ASSUME NEW i \in 1 .. Len(both), NEW j \in 1 .. Len(both), i < j
       PROVE  both[i] < both[j]
  <2> i \in Nat /\ j \in Nat
    BY <1>9
  <2>1. CASE j <= Len(got)
    <3>1. i <= Len(got)
      BY <1>1, <1>10, <2>1
    <3>2. i \in 1 .. Len(got) /\ both[i] = got[i]
      BY <1>9, <3>1
    <3>3. j \in 1 .. Len(got) /\ both[j] = got[j]
      BY <1>9, <2>1
    <3> QED  BY <1>10, <3>2, <3>3 DEF Holds
  <2>2. CASE i <= Len(got) /\ ~(j <= Len(got))
    <3>1. i \in 1 .. Len(got) /\ both[i] = got[i]
      BY <1>9, <2>2
    <3>2. j - Len(got) \in 1 .. Len(page) /\ both[j] = page[j - Len(got)]
      BY <1>9, <2>2
    <3>3. both[i] \in Nat /\ both[i] <= a
      BY <1>3, <1>6, <3>1
    <3>4. both[j] \in Nat /\ a < both[j]
      BY <1>4, <1>7, <3>2
    <3> QED  BY <3>3, <3>4
  <2>3. CASE ~(i <= Len(got))
    <3>1. i - Len(got) \in 1 .. Len(page) /\ both[i] = page[i - Len(got)]
      BY <1>9, <2>3
    <3>2. ~(j <= Len(got)) /\ i - Len(got) < j - Len(got)
      BY <1>1, <1>10, <2>3
    <3>3. j - Len(got) \in 1 .. Len(page) /\ both[j] = page[j - Len(got)]
      BY <1>9, <3>2
    <3> QED  BY <3>1, <3>2, <3>3 DEF Holds
  <2> QED  BY <2>1, <2>2, <2>3
<1>11. ASSUME NEW i \in 1 .. Len(both) PROVE both[i] \in Entries(0, c)
  <2>1. CASE i <= Len(got)
    BY <1>3, <1>6, <1>9, <2>1
  <2>2. CASE ~(i <= Len(got))
    BY <1>4, <1>7, <1>9, <2>2
  <2> QED  BY <2>1, <2>2
<1>12. ASSUME NEW x \in Entries(0, c) PROVE \E i \in 1 .. Len(both) : both[i] = x
  <2>1. CASE x \in Entries(0, a)
    <3>1. PICK i \in 1 .. Len(got) : got[i] = x
      BY <2>1 DEF Holds
    <3>2. i \in 1 .. Len(both) /\ i <= Len(got)
      BY <1>1, <1>2
    <3>3. both[i] = got[i]
      BY <1>9, <3>2
    <3> QED  BY <3>1, <3>2, <3>3
  <2>2. CASE x \in Entries(a, c)
    <3>1. PICK i \in 1 .. Len(page) : page[i] = x
      BY <2>2 DEF Holds
    <3>2. i + Len(got) \in 1 .. Len(both) /\ ~(i + Len(got) <= Len(got))
      BY <1>1, <1>2
    <3>3. both[i + Len(got)] = page[(i + Len(got)) - Len(got)]
      BY <1>9, <3>2
    <3>4. (i + Len(got)) - Len(got) = i
      BY <1>1
    <3> QED  BY <3>1, <3>2, <3>3, <3>4
  <2> QED  BY <1>8, <2>1, <2>2
<1>13. {both[i] : i \in 1 .. Len(both)} = Entries(0, c)
  BY <1>11, <1>12
<1> QED  BY <1>2, <1>10, <1>13 DEF Holds, both

LEMMA ReachedFacts ==
    ASSUME Paged
    PROVE  /\ Reached \in Nat /\ Reached <= Watermark /\ Watermark \in Nat
           /\ reader.start \in Nat /\ reader.after \in Nat /\ reader.through \in Nat
           /\ reader.got \in Seq(Nat) /\ reader.refused = FALSE
<1>1. /\ reader.start \in Nat /\ reader.after \in Nat /\ reader.through \in Nat
      /\ reader.got \in Seq(Nat) /\ reader.refused = FALSE
  BY DEF Paged, Got, Reader
<1>2. Watermark \in Nat
  BY WatermarkFacts DEF Paged
<1>3. Reached \in Nat /\ Reached <= Watermark
  BY <1>1, <1>2 DEF Paged, Reached
<1> QED  BY <1>1, <1>2, <1>3

(* A page of a request in bounds leaves the consumer where Paged says. *)
LEMMA PageKeepsPaged ==
    ASSUME Paged, NEW b \in Nat, b # 0, Reached <= b, b <= Watermark, Page(Reached, b)
    PROVE  Paged'
<1> DEFINE a == Reached
           all == Ascending(Entries(a, b))
           k == IF Len(all) > PageSize THEN PageSize ELSE Len(all)
           page == SubSeq(all, 1, k)
<1>0. rows' = rows /\ last' = last /\ Watermark' = Watermark
  BY DEF Page, files, index, Watermark
<1>1. a \in Nat /\ Numbered /\ InBounds(a, b)
  BY ReachedFacts DEF Paged, InBounds
<1>2. Numbered'
  BY <1>0, <1>1 DEF Numbered
<1>3. /\ Len(all) > PageSize =>
            reader' = [reader EXCEPT !.after = page[Len(page)], !.through = b,
                                     !.got = @ \o page]
      /\ ~(Len(all) > PageSize) =>
            reader' = [reader EXCEPT !.start = b, !.after = b, !.through = 0,
                                     !.got = @ \o page]
  BY <1>1 DEF Page
<1>4. Len(all) \in Nat /\ PageSize \in Nat \ {0}
  BY <1>1, EntriesAreFinite, AscendingFacts, AscendingIsASequence, SpoolAssumption
<1>5. Holds(reader.got, 0, a) /\ reader.got \in Seq(Nat)
  BY ReachedFacts DEF Paged, Got
<1>6. \A s, c : Holds(s, 0, c)' <=> Holds(s, 0, c)
  BY <1>0 DEF Holds, Entries
<1> HIDE DEF a
<1>7. CASE Len(all) > PageSize
  <2> DEFINE c == all[PageSize]
  <2>1. k = PageSize /\ PageSize \in 1 .. Len(all)
    BY <1>4, <1>7
  <2>2. /\ Holds(page, a, c) /\ Len(page) = PageSize /\ page[PageSize] = c
        /\ c \in Nat /\ a < c /\ c <= b
    <3> HIDE DEF k
    <3> QED  BY <1>1, <2>1, FirstOfEntries
  <2> HIDE DEF c, page, k, all
  <2>3. Holds(reader.got \o page, 0, c)
    BY <1>1, <1>5, <2>2, PagesJoin
  <2>4. reader' = [reader EXCEPT !.after = c, !.through = b, !.got = @ \o page]
    BY <1>3, <1>7, <2>2
  <2>5. /\ reader'.start = reader.start /\ reader'.after = c /\ reader'.through = b
        /\ reader'.got = reader.got \o page /\ reader' \in Reader
    <3>1. reader.got \o page \in Seq(Nat)
      BY <2>3 DEF Holds
    <3>2. reader \in Reader
      BY DEF Paged, Got
    <3> HIDE DEF Got
    <3> QED  BY <2>2, <2>4, <3>1, <3>2 DEF Reader
  <2>6. Reached' = c
    BY <2>5 DEF Reached
  <2>7. Got'
    BY <1>6, <2>3, <2>5, <2>6 DEF Got
  <2> QED  BY <1>0, <1>2, <2>2, <2>5, <2>7 DEF Paged
<1>8. CASE ~(Len(all) > PageSize)
  <2>1. k = Len(all)
    BY <1>4, <1>8
  <2>2. Holds(page, a, b)
    <3> HIDE DEF k
    <3> QED  BY <1>1, <2>1, AllOfEntries
  <2> HIDE DEF page, k, all
  <2>3. Holds(reader.got \o page, 0, b)
    <3>1. a <= b
      BY DEF a
    <3> QED  BY <1>1, <1>5, <2>2, <3>1, PagesJoin
  <2>4. reader' = [reader EXCEPT !.start = b, !.after = b, !.through = 0, !.got = @ \o page]
    BY <1>3, <1>8
  <2>5. /\ reader'.start = b /\ reader'.through = 0
        /\ reader'.got = reader.got \o page /\ reader' \in Reader
    <3>1. reader.got \o page \in Seq(Nat)
      BY <2>3 DEF Holds
    <3>2. reader \in Reader
      BY DEF Paged, Got
    <3> QED  BY <2>4, <3>1, <3>2 DEF Reader
  <2>6. Reached' = b
    BY <2>5 DEF Reached
  <2>7. Got'
    BY <1>6, <2>3, <2>5, <2>6 DEF Got
  <2> QED  BY <1>0, <1>2, <2>5, <2>7 DEF Paged
<1> QED  BY <1>7, <1>8

LEMMA ReadPaged == ASSUME Paged, Read PROVE Paged'
<1>1. CASE reader.through = 0 /\ Watermark > reader.start /\ Page(reader.start, Watermark)
  <2>1. Reached = reader.start
    BY <1>1 DEF Reached
  <2>2. Watermark \in Nat /\ Watermark # 0 /\ Reached <= Watermark
    BY <1>1, <2>1, ReachedFacts
  <2> QED  BY <1>1, <2>1, <2>2, PageKeepsPaged
<1>2. CASE reader.through # 0 /\ Page(reader.after, reader.through)
  <2>1. Reached = reader.after
    BY <1>2 DEF Reached
  <2>2. /\ reader.through \in Nat /\ Reached <= reader.through
        /\ reader.through <= Watermark
    BY <1>2, <2>1, ReachedFacts DEF Paged
  <2> QED  BY <1>2, <2>1, <2>2, PageKeepsPaged
<1> QED  BY <1>1, <1>2 DEF Read

Highest == Watermark \in Nat /\ \A n \in Numbers : n <= Watermark

LEMMA WatermarkIsHighest == Numbered => Highest
  BY WatermarkFacts DEF Highest

(* Rows that arrive have numbers the consumer has not been told of. *)
LEMMA RowsArrive ==
    ASSUME Paged, UNCHANGED reader, Numbered', rows \subseteq rows',
           \A r \in rows' : r \in rows \/ r.sequence = last + 1
    PROVE  Paged'
<1>1. Reached' = Reached /\ Reached \in Nat /\ Watermark \in Nat /\ Reached <= Watermark
  BY ReachedFacts DEF Reached
<1>2. /\ Numbered /\ last \in Nat /\ Watermark <= last
      /\ rows # {} => Watermark \in Numbers
  BY WatermarkFacts DEF Paged, Numbered
<1>3. Numbers \subseteq Numbers' /\ \A n \in Numbers' : n \in Numbers \/ n = last + 1
  BY DEF Numbers
<1>4. Watermark' \in Nat /\ \A n \in Numbers' : n <= Watermark'
  <2>1. Highest'
    BY WatermarkIsHighest, PTL
  <2> QED  BY <2>1 DEF Highest
<1>5. Watermark <= Watermark'
  <2>1. CASE rows = {}
    BY <1>4, <2>1 DEF Watermark
  <2>2. CASE rows # {}
    BY <1>2, <1>3, <1>4, <2>2
  <2> QED  BY <2>1, <2>2
<1>6. Entries(0, Reached)' = Entries(0, Reached)
  <2>1. Entries(0, Reached)' = {n \in Numbers' : 0 < n /\ n <= Reached}
    BY <1>1 DEF Entries, Numbers
  <2>2. Entries(0, Reached) = {n \in Numbers : 0 < n /\ n <= Reached}
    BY EntriesAre
  <2>3. ~(last + 1 <= Reached)
    BY <1>1, <1>2
  <2> QED  BY <1>3, <2>1, <2>2, <2>3
<1>7. Got'
  BY <1>1, <1>6 DEF Paged, Got, Holds
<1>8. /\ reader.through = 0 => reader.start <= Watermark'
      /\ reader.through # 0 => reader.after <= reader.through /\ reader.through <= Watermark'
  <2>1. /\ reader.start \in Nat /\ reader.after \in Nat /\ reader.through \in Nat
        /\ reader.through = 0 => reader.start <= Watermark
        /\ reader.through # 0 => reader.after <= reader.through /\ reader.through <= Watermark
    BY ReachedFacts DEF Paged
  <2> QED  BY <1>1, <1>4, <1>5, <2>1
<1> QED  BY <1>7, <1>8 DEF Paged

LEMMA PagedUnchanged ==
    ASSUME Paged, UNCHANGED <<rows, last, reader>> PROVE Paged'
<1>1. rows' = rows /\ last' = last /\ reader' = reader
  OBVIOUS
<1>2. Watermark' = Watermark /\ Reached' = Reached
  BY <1>1 DEF Watermark, Reached
<1>3. Entries(0, Reached)' = Entries(0, Reached)
  BY <1>1, <1>2 DEF Entries
<1>4. Numbered'
  BY <1>1 DEF Paged, Numbered
<1>5. Got'
  BY <1>1, <1>2, <1>3 DEF Paged, Got, Holds
<1> QED  BY <1>1, <1>2, <1>4, <1>5 DEF Paged

LEMMA PublishRowPaged == ASSUME Paged, Sound, NEW p \in Process, PublishRow(p) PROVE Paged'
<1>0. reader' = reader /\ item[p] \in Envelope /\ Numbered /\ last \in Nat
  BY DEF PublishRow, Sound, Handled, Paged, Numbered
<1>1. CASE item[p] \in Indexed
  <2>1. rows' = rows /\ last' \in {last, last + 1}
    BY <1>1 DEF PublishRow
  <2>2. Numbered'
    <3>1. last' \in Nat /\ last <= last'
      BY <1>0, <2>1
    <3>2. \A r \in rows' : r.sequence \in 1 .. last'
      BY <1>0, <2>1, <3>1 DEF Numbered
    <3> QED  BY <1>0, <2>1, <3>1, <3>2 DEF Numbered
  <2> QED  BY <1>0, <2>1, <2>2, RowsArrive
<1>2. CASE item[p] \notin Indexed
  <2> DEFINE new == [sequence |-> last + 1, digest |-> item[p]]
  <2>1. rows' = rows \cup {new} /\ last' = last + 1
    BY <1>2 DEF PublishRow
  <2>2. new \in Rows /\ new.sequence = last + 1
    BY <1>0 DEF Rows
  <2> HIDE DEF new
  <2>3. Numbered'
    <3>1. \A r \in rows' : r.sequence \in 1 .. last'
      BY <1>0, <2>1, <2>2 DEF Numbered
    <3>2. \A r \in rows : r.sequence # new.sequence
      BY <1>0, <2>2 DEF Numbered
    <3>3. \A r, s \in rows' : r.sequence = s.sequence => r = s
      BY <1>0, <2>1, <3>2 DEF Numbered
    <3> QED  BY <1>0, <2>1, <2>2, <3>1, <3>3 DEF Numbered
  <2> QED  BY <1>0, <2>1, <2>2, <2>3, RowsArrive
<1> QED  BY <1>1, <1>2

LEMMA NextPaged == Sound /\ Paged /\ [Next]_vars => Paged'
<1> SUFFICES ASSUME Sound, Paged, [Next]_vars PROVE Paged'
  OBVIOUS
<1>1. ASSUME NEW p \in Process, Step(p) PROVE Paged'
  <2>1. CASE PublishRow(p)
    BY <2>1, PublishRowPaged
  <2>2. CASE \/ Open(p) \/ Flush(p) \/ Publish(p) \/ Settle(p) \/ Finish(p)
             \/ \E e \in Envelope : Write(p, e)
    BY <2>2, PagedUnchanged DEF Open, Flush, Publish, Settle, Finish, Write, index
  <2> QED  BY <1>1, <2>1, <2>2 DEF Step
<1>2. ASSUME NEW p \in Process, Fail(p) PROVE Paged'
  BY <1>2, PagedUnchanged DEF Fail, index
<1>3. CASE PowerLoss
  BY <1>3, PagedUnchanged DEF PowerLoss, index
<1>4. CASE Read
  BY <1>4, ReadPaged
<1>5. CASE UNCHANGED vars
  BY <1>5, PagedUnchanged DEF vars, index
<1> QED  BY <1>1, <1>2, <1>3, <1>4, <1>5 DEF Next

LEMMA InitPaged == Init => Paged
<1> SUFFICES ASSUME Init PROVE Paged
  OBVIOUS
<1>1. Numbered /\ Watermark = 0
  BY DEF Init, Numbered, Watermark
<1>2. reader \in Reader /\ reader.through = 0 /\ reader.start = 0 /\ reader.got = <<>>
  BY EmptySeq DEF Init, Reader
<1>3. Reached = 0 /\ Entries(0, 0) = {}
  BY <1>2 DEF Reached, Entries, Init
<1>4. Holds(<<>>, 0, 0)
  BY <1>3, EmptySeq DEF Holds
<1> QED  BY <1>1, <1>2, <1>3, <1>4 DEF Paged, Got

(* Whoever follows --spool-list with the watermark of the page before gets   *)
(* every revision once and in order, however many sweeps append meanwhile,   *)
(* and is never refused with Bounds.                                        *)
THEOREM TraversalsAreExact == Spec => []TraversalIsExact
<1>1. Paged => TraversalIsExact
  <2> SUFFICES ASSUME Paged PROVE TraversalIsExact
    OBVIOUS
  <2>1. reader.got \in Seq(Nat) /\ ~reader.refused
    BY ReachedFacts
  <2>2. DOMAIN reader.got = 1 .. Len(reader.got)
    BY <2>1, LenProperties
  <2>3. Holds(reader.got, 0, Reached)
    BY DEF Paged, Got
  <2>4. reader.through = 0 => Reached = reader.start
    BY DEF Reached
  <2> QED  BY <2>1, <2>2, <2>3, <2>4 DEF TraversalIsExact, Holds
<1> QED  BY <1>1, InitPaged, NextPaged, SpoolIsSound, PTL DEF Spec

(* The rest of the spool's type: the version and the bound on troubles. *)
Versioned == schema \in {0, 1} /\ trouble \in Nat

LEMMA NextVersioned == Versioned /\ [Next]_vars => Versioned'
<1> SUFFICES ASSUME Versioned, [Next]_vars PROVE Versioned'
  OBVIOUS
<1>1. ASSUME NEW p \in Process, Step(p) PROVE Versioned'
  BY <1>1 DEF Step, Open, Flush, Publish, Settle, PublishRow, Finish, Write, index, Versioned
<1>2. ASSUME NEW p \in Process, Fail(p) PROVE Versioned'
  BY <1>2 DEF Fail, index, Versioned
<1>3. CASE PowerLoss
  BY <1>3 DEF PowerLoss, index, Versioned
<1>4. CASE Read \/ UNCHANGED vars
  BY <1>4 DEF Read, Page, vars, index, Versioned
<1> QED  BY <1>1, <1>2, <1>3, <1>4 DEF Next

(* Every variable keeps its type; a sequence number is a row's own and never *)
(* beyond the last that AUTOINCREMENT used.                                  *)
THEOREM SpoolIsTyped == Spec => []TypeOK
<1>1. Init => Versioned
  BY DEF Init, Versioned
<1>2. Sound /\ Assured /\ Paged /\ Versioned => TypeOK
  <2> SUFFICES ASSUME Sound, Assured, Paged, Versioned PROVE TypeOK
    OBVIOUS
  <2>1. reader \in [start : Nat, after : Nat, through : Nat, got : Seq(Nat), refused : BOOLEAN]
    BY DEF Paged, Got, Reader
  <2>2. /\ rows \subseteq Rows /\ last \in Nat
        /\ \A r \in rows : r.sequence \in 1 .. last
        /\ \A r, s \in rows : r.sequence = s.sequence => r = s
    BY DEF Paged, Numbered
  <2> QED  BY <2>1, <2>2 DEF Sound, Typed, Assured, Steps, Summary, Versioned, TypeOK
<1> QED  BY <1>1, <1>2, InitPaged, NextPaged, NextVersioned, AssuredAlways, PTL DEF Spec
=============================================================================
