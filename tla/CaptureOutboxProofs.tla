------------------------- MODULE CaptureOutboxProofs -------------------------
(* Theorems about CaptureOutbox, for every value of its constants: its types; *)
(* what fencing and deletion promise; that it implements CaptureContract; and *)
(* what its locks protect: the lease of a revision, as long as no holder      *)
(* outlives it, and the database's write lock, under which objects are        *)
(* published and erased.                                                     *)
EXTENDS CaptureOutbox, FiniteSetTheorems, SequenceTheorems, TLAPS

-----------------------------------------------------------------------------
(* Type correctness *)

(* The tables, the spool, the store and the wire. *)
SharedOK ==
    /\ seq \in [Capture -> Nat]
    /\ attempts \in [Capture -> Nat]
    /\ delivered \subseteq Capture
    /\ cancelled \subseteq Capture
    /\ withdrawn \subseteq Capture
    /\ quarantined \subseteq Capture
    /\ erased \subseteq Capture
    /\ hashed \subseteq Capture
    /\ tomb \in [Rev -> {"none", "queued", "acked"}]
    /\ lease \in [Rev -> [owner : Proc \cup {None}, live : BOOLEAN, token : Nat]]
    /\ writer \in Proc \cup {None}
    /\ spool \in [Object -> {"absent", "intact", "altered"}]
    /\ held \subseteq Rev
    /\ gone \subseteq Rev
    /\ wire \subseteq Request
    /\ recorded \in [Rev -> Nat]
    /\ spent \in [Trouble -> Nat]

LocalsOK ==
    /\ pc \in [Proc -> Steps]
    /\ todo \in [Proc -> Seq(Jobs)]
    /\ room \in [Proc -> 0 .. Limit]
    /\ token \in [Proc -> Nat]
    /\ reply \in [Proc -> {"none", "ok", "gone", "error"}]
    /\ batch \in [Proc -> SUBSET Object]
    /\ unlinked \in [Proc -> SUBSET Object]

(* The steps taken with a lease, and those that work on the current job. *)
LeaseSteps == {"leased", "checked", "cleared", "sent", "release"}
JobSteps == LeaseSteps \cup {"publish", "prepared", "unusable"}

(* What each step finds in the list of jobs: a pass works on jobs of one    *)
(* kind at a time, and there is room left for every deletion still listed.  *)
Fits(p) ==
    /\ pc[p] \in JobSteps => todo[p] # <<>>
    /\ token[p] > 0 <=> pc[p] \in LeaseSteps
    /\ pc[p] = "deletions" => \A i \in DOMAIN todo[p] : todo[p][i].kind = "delete"
    /\ pc[p] \in {"publish", "uploads", "prepared", "unusable", "leased"} =>
          \A i \in DOMAIN todo[p] : todo[p][i].kind = "upload"
    /\ \A i, j \in DOMAIN todo[p] : todo[p][i].kind = todo[p][j].kind
    /\ (todo[p] # <<>> /\ todo[p][1].kind = "delete") =>
          IF pc[p] = "deletions" THEN Len(todo[p]) <= room[p]
                                 ELSE Len(todo[p]) <= room[p] + 1

JobsFit == \A p \in Proc : Fits(p)

TypeInv == SharedOK /\ LocalsOK /\ JobsFit

LEMMA TypeInvImpliesTypeOK == TypeInv => TypeOK
  BY DEF TypeInv, SharedOK, LocalsOK, TypeOK

(* What is known of a job. *)
LEMMA JobFacts ==
    ASSUME NEW j \in Jobs
    PROVE  /\ j.kind \in {"delete", "upload"}
           /\ j.rev \in Rev
           /\ j.kind = "upload" => j.row \in Capture /\ j.rev = RevOf(j.row)
  BY CaptureAssumption DEF Jobs, DeleteJob, UploadJob, RevOf, Rev

LEMMA CurrentJob ==
    ASSUME LocalsOK, NEW p \in Proc, todo[p] # <<>>
    PROVE  /\ Job(p) \in Jobs /\ Job(p) = todo[p][1]
           /\ 1 \in DOMAIN todo[p]
           /\ Tail(todo[p]) \in Seq(Jobs)
           /\ Len(Tail(todo[p])) = Len(todo[p]) - 1
           /\ DOMAIN Tail(todo[p]) = 1 .. Len(todo[p]) - 1
           /\ \A i \in DOMAIN Tail(todo[p]) :
                 Tail(todo[p])[i] = todo[p][i + 1] /\ i + 1 \in DOMAIN todo[p]
  BY DEF LocalsOK, Job

(* What Fits(p) says depends on p's own locals only. *)
LEMMA FitsLocally ==
    ASSUME NEW p \in Proc, Fits(p),
           pc'[p] = pc[p], todo'[p] = todo[p], room'[p] = room[p], token'[p] = token[p]
    PROVE  Fits(p)'
  BY DEF Fits

(* Going on to the next job keeps the locals in order. *)
LEMMA NextJobKeepsLocals ==
    ASSUME LocalsOK, JobsFit, NEW p \in Proc, todo[p] # <<>>,
           NextJob(p)
    PROVE  LocalsOK' /\ JobsFit'
<1>1. LocalsOK'
  BY CurrentJob DEF LocalsOK, NextJob, Goto, Steps
<1>2. ASSUME NEW q \in Proc, q # p PROVE Fits(q)'
  <2>1. /\ pc'[q] = pc[q] /\ todo'[q] = todo[q] /\ room'[q] = room[q]
        /\ token'[q] = token[q]
    BY <1>2 DEF LocalsOK, NextJob, Goto
  <2> QED
    BY <1>2, <2>1, FitsLocally DEF JobsFit
<1>3. Fits(p)'
  <2>1. /\ pc'[p] = IF Job(p).kind = "delete" THEN "deletions" ELSE "uploads"
        /\ todo'[p] = Tail(todo[p]) /\ room'[p] = room[p] /\ token'[p] = 0
    BY DEF LocalsOK, NextJob, Goto
  <2>2. Fits(p) /\ room[p] \in Nat /\ todo[p] \in Seq(Jobs)
    BY CaptureAssumption DEF JobsFit, LocalsOK
  <2>3. Job(p).kind \in {"delete", "upload"}
    BY CurrentJob, JobFacts
  <2> QED
    BY <2>1, <2>2, <2>3, CurrentJob DEF Fits, JobSteps, LeaseSteps
<1> QED
  BY <1>1, <1>2, <1>3 DEF JobsFit

(* If only p's locals change and p still fits, everyone does. *)
LEMMA FitOneByOne ==
    ASSUME JobsFit, NEW p \in Proc, Fits(p)',
           \A q \in Proc : q # p => /\ pc'[q] = pc[q] /\ todo'[q] = todo[q]
                                    /\ room'[q] = room[q] /\ token'[q] = token[q]
    PROVE  JobsFit'
<1>1. ASSUME NEW q \in Proc, q # p PROVE Fits(q)'
  BY <1>1, FitsLocally DEF JobsFit
<1> QED
  BY <1>1 DEF JobsFit

(* A process that stops has nothing left in its locals. *)
LEMMA StopKeepsLocals ==
    ASSUME LocalsOK, JobsFit, NEW p \in Proc, Stop(p)
    PROVE  LocalsOK' /\ JobsFit'
<1>1. LocalsOK'
  BY CaptureAssumption DEF LocalsOK, Stop, Goto, Steps
<1>2. Fits(p)'
  BY DEF Fits, LocalsOK, Stop, Goto, JobSteps, LeaseSteps
<1> QED
  BY <1>1, <1>2, FitOneByOne DEF LocalsOK, Stop, Goto

(* A process that only moves on to another step. *)
LEMMA GotoKeepsLocals ==
    ASSUME LocalsOK, JobsFit, NEW p \in Proc, NEW step \in Steps, Goto(p, step),
           UNCHANGED <<todo, room, token, reply, batch, unlinked>>,
           step \in JobSteps => todo[p] # <<>>,
           step \in LeaseSteps <=> pc[p] \in LeaseSteps,
           step # "deletions", pc[p] # "deletions",
           step \in {"publish", "uploads", "prepared", "unusable", "leased"} =>
              pc[p] \in {"publish", "uploads", "prepared", "unusable", "leased"}
    PROVE  LocalsOK' /\ JobsFit'
<1>1. LocalsOK'
  BY DEF LocalsOK, Goto
<1>2. Fits(p)'
  <2>1. pc'[p] = step /\ todo'[p] = todo[p] /\ room'[p] = room[p] /\ token'[p] = token[p]
    BY DEF LocalsOK, Goto
  <2>2. Fits(p)
    BY DEF JobsFit
  <2> QED
    BY <2>1, <2>2 DEF Fits
<1> QED
  BY <1>1, <1>2, FitOneByOne DEF LocalsOK, Goto

LEMMA SameLocals ==
    ASSUME LocalsOK, JobsFit, UNCHANGED locals
    PROVE  LocalsOK' /\ JobsFit'
  BY DEF LocalsOK, JobsFit, Fits, locals

LEMMA FiniteData ==
    /\ IsFiniteSet(Rev) /\ IsFiniteSet(Capture)
<1>1. IsFiniteSet(Key \X Hash) /\ IsFiniteSet(Key \X Object)
  BY CaptureAssumption, FS_Product
<1> QED
  BY <1>1, CaptureAssumption, FS_Subset DEF Rev

LEMMA LowerOfNat ==
    ASSUME NEW S, IsFiniteSet(S), NEW n \in Nat
    PROVE  LowerOf(n, Cardinality(S)) \in Nat /\ LowerOf(n, Cardinality(S)) <= n
  BY FS_CardinalityType DEF LowerOf

(* The lists of jobs that the two SELECTs return. *)
LEMMA SelectedDeletions ==
    ASSUME NEW S \in SUBSET Rev, NEW n \in Nat,
           NEW q \in [1 .. LowerOf(n, Cardinality(S)) -> S],
           NEW jobs, jobs = [i \in DOMAIN q |-> DeleteJob(q[i])]
    PROVE  /\ jobs \in Seq(Jobs) /\ Len(jobs) <= n
           /\ \A i \in DOMAIN jobs : jobs[i].kind = "delete"
<1>1. LowerOf(n, Cardinality(S)) \in Nat /\ LowerOf(n, Cardinality(S)) <= n
  BY LowerOfNat, FiniteData, FS_Subset
<1>2. \A i \in DOMAIN q : DeleteJob(q[i]) \in Jobs /\ DeleteJob(q[i]).kind = "delete"
  BY DEF Jobs, DeleteJob
<1> QED
  BY <1>1, <1>2

LEMMA SelectedUploads ==
    ASSUME NEW S \in SUBSET Capture, NEW n \in Nat,
           NEW q \in [1 .. LowerOf(n, Cardinality(S)) -> S],
           NEW jobs, jobs = [i \in DOMAIN q |-> UploadJob(q[i])]
    PROVE  /\ jobs \in Seq(Jobs) /\ Len(jobs) <= n
           /\ \A i \in DOMAIN jobs : jobs[i].kind = "upload"
<1>1. LowerOf(n, Cardinality(S)) \in Nat /\ LowerOf(n, Cardinality(S)) <= n
  BY LowerOfNat, FiniteData, FS_Subset
<1>2. \A i \in DOMAIN q : UploadJob(q[i]) \in Jobs /\ UploadJob(q[i]).kind = "upload"
  BY DEF Jobs, UploadJob
<1> QED
  BY <1>1, <1>2

LEMMA InitTypeInv == Init => TypeInv
<1> SUFFICES ASSUME Init PROVE TypeInv
  OBVIOUS
<1>1. SharedOK
  <2>1. \A r \in Capture : RevOf(r) \in Rev
    BY CaptureAssumption DEF RevOf, Rev
  <2>2. Cardinality(Legacy) \in Nat
    BY FiniteData, FS_Subset, FS_CardinalityType, CaptureAssumption
  <2> QED
    BY <2>1, <2>2, CaptureAssumption DEF Init, SharedOK, NoLease
<1>2. LocalsOK
  BY CaptureAssumption DEF Init, LocalsOK, Steps
<1>3. JobsFit
  BY DEF Init, JobsFit, Fits, JobSteps, LeaseSteps
<1> QED
  BY <1>1, <1>2, <1>3 DEF TypeInv

(* Enqueueing. *)
LEMMA BeginEnqueueType ==
    ASSUME TypeInv, NEW p \in Proc, NEW r \in Capture, BeginEnqueue(p, r)
    PROVE  TypeInv'
<1> USE DEF TypeInv
<1>0. UploadJob(r) \in Jobs /\ UploadJob(r).kind = "upload" /\ r[2] \in Object
  BY CaptureAssumption DEF Jobs, UploadJob
<1>1. SharedOK'
  BY <1>0 DEF SharedOK, BeginEnqueue, rows, store
<1>2. LocalsOK'
  BY <1>0 DEF LocalsOK, BeginEnqueue, Goto, Steps
<1>3. Fits(p)'
  <2>1. pc'[p] = "publish" /\ todo'[p] = <<UploadJob(r)>> /\ token'[p] = token[p]
        /\ pc[p] = "idle" /\ Fits(p)
    BY DEF LocalsOK, BeginEnqueue, Goto, JobsFit
  <2> QED
    BY <2>1, <1>0 DEF Fits, JobSteps, LeaseSteps
<1>4. JobsFit'
  BY <1>3, FitOneByOne DEF LocalsOK, BeginEnqueue, Goto
<1> QED
  BY <1>1, <1>2, <1>4

LEMMA CommitEnqueueType ==
    ASSUME TypeInv, NEW p \in Proc, CommitEnqueue(p)
    PROVE  TypeInv'
<1> USE DEF TypeInv
<1>1. todo[p] # <<>> /\ Job(p).kind = "upload"
  BY CurrentJob DEF CommitEnqueue, JobsFit, Fits, JobSteps
<1>2. Job(p).row \in Capture
  BY <1>1, CurrentJob, JobFacts
<1>3. Cardinality(Queued) \in Nat
  BY FiniteData, FS_Subset, FS_CardinalityType DEF Queued
<1>4. SharedOK'
  BY <1>2, <1>3 DEF SharedOK, CommitEnqueue, store, RowsOf, Queued
<1> QED
  BY <1>4, StopKeepsLocals DEF CommitEnqueue

LEMMA EnqueueDeletionType ==
    ASSUME TypeInv, NEW v \in DeletionRequests, EnqueueDeletion(v)
    PROVE  TypeInv'
<1> USE DEF TypeInv
<1>1. SharedOK'
  BY CaptureAssumption DEF SharedOK, EnqueueDeletion, rows, store
<1> QED
  BY <1>1, SameLocals DEF EnqueueDeletion

(* Selecting the jobs. *)
LEMMA BeginDrainType ==
    ASSUME TypeInv, NEW p \in Proc, BeginDrain(p)
    PROVE  TypeInv'
<1> USE DEF TypeInv
<1>1. SharedOK'
  BY DEF SharedOK, BeginDrain, rows, store
<1> DEFINE S == {v \in Rev : tomb[v] = "queued"}
<1>2. PICK q \in [1 .. LowerOf(Limit, Cardinality(S)) -> S] :
         todo' = [todo EXCEPT ![p] = [i \in DOMAIN q |-> DeleteJob(q[i])]]
  BY DEF BeginDrain, FirstOf
<1>3. /\ todo'[p] \in Seq(Jobs) /\ Len(todo'[p]) <= Limit
      /\ \A i \in DOMAIN todo'[p] : todo'[p][i].kind = "delete"
  <2>1. todo'[p] = [i \in DOMAIN q |-> DeleteJob(q[i])]
    BY <1>2 DEF LocalsOK
  <2>2. S \in SUBSET Rev /\ Limit \in Nat
    BY CaptureAssumption
  <2> HIDE DEF S
  <2>3. ASSUME NEW jobs, jobs = [i \in DOMAIN q |-> DeleteJob(q[i])]
        PROVE  /\ jobs \in Seq(Jobs) /\ Len(jobs) <= Limit
               /\ \A i \in DOMAIN jobs : jobs[i].kind = "delete"
    BY <2>2, <2>3, SelectedDeletions
  <2> QED
    BY <2>1, <2>3
<1>4. LocalsOK'
  BY <1>2, <1>3, CaptureAssumption DEF LocalsOK, BeginDrain, Goto, Steps
<1>5. Fits(p)'
  <2>1. pc'[p] = "deletions" /\ room'[p] = Limit /\ token'[p] = token[p]
        /\ pc[p] = "idle" /\ Fits(p)
    BY DEF LocalsOK, BeginDrain, Goto, JobsFit
  <2> QED
    BY <2>1, <1>3 DEF Fits, JobSteps, LeaseSteps
<1>6. JobsFit'
  BY <1>2, <1>5, FitOneByOne DEF LocalsOK, BeginDrain, Goto
<1> QED
  BY <1>1, <1>4, <1>6

LEMMA SelectUploadsType ==
    ASSUME TypeInv, NEW p \in Proc, SelectUploads(p)
    PROVE  TypeInv'
<1> USE DEF TypeInv
<1>1. SharedOK'
  BY DEF SharedOK, SelectUploads, rows, store
<1>2. PICK q \in [1 .. LowerOf(room[p], Cardinality(Pending)) -> Pending] :
         todo' = [todo EXCEPT ![p] = [i \in DOMAIN q |-> UploadJob(q[i])]]
  BY DEF SelectUploads, FirstOf
<1>3. /\ todo'[p] \in Seq(Jobs)
      /\ \A i \in DOMAIN todo'[p] : todo'[p][i].kind = "upload"
  <2>1. todo'[p] = [i \in DOMAIN q |-> UploadJob(q[i])]
    BY <1>2 DEF LocalsOK
  <2>2. Pending \in SUBSET Capture /\ room[p] \in Nat
    BY CaptureAssumption DEF Pending, Queued, LocalsOK
  <2>3. ASSUME NEW jobs, jobs = [i \in DOMAIN q |-> UploadJob(q[i])]
        PROVE  /\ jobs \in Seq(Jobs) /\ Len(jobs) <= room[p]
               /\ \A i \in DOMAIN jobs : jobs[i].kind = "upload"
    BY <2>2, <2>3, SelectedUploads
  <2> QED
    BY <2>1, <2>3
<1>4. LocalsOK'
  BY <1>2, <1>3 DEF LocalsOK, SelectUploads, Goto, Steps
<1>5. Fits(p)'
  <2>1. pc'[p] = "uploads" /\ token'[p] = token[p]
        /\ pc[p] = "deletions" /\ Fits(p)
    BY DEF LocalsOK, SelectUploads, Goto, JobsFit
  <2> QED
    BY <2>1, <1>3 DEF Fits, JobSteps, LeaseSteps
<1>6. JobsFit'
  BY <1>2, <1>5, FitOneByOne DEF LocalsOK, SelectUploads, Goto
<1> QED
  BY <1>1, <1>4, <1>6

(* What a process at work knows of its job. *)
LEMMA AtWork ==
    ASSUME TypeInv, NEW p \in Proc,
           pc[p] \in JobSteps \/ todo[p] # <<>>
    PROVE  /\ todo[p] # <<>>
           /\ Job(p).kind \in {"delete", "upload"} /\ Job(p).rev \in Rev
           /\ Job(p).kind = "upload" =>
                 /\ Job(p).row \in Capture /\ Job(p).row[2] \in Object
                 /\ Job(p).rev = RevOf(Job(p).row)
           /\ pc[p] \in {"publish", "uploads", "prepared", "unusable", "leased"} =>
                 Job(p).kind = "upload"
           /\ pc[p] = "deletions" => Job(p).kind = "delete"
<1>1. todo[p] # <<>>
  BY DEF TypeInv, JobsFit, Fits
<1>2. Job(p) \in Jobs /\ Job(p) = todo[p][1] /\ 1 \in DOMAIN todo[p]
  BY <1>1, CurrentJob DEF TypeInv
<1> QED
  BY <1>1, <1>2, JobFacts, CaptureAssumption DEF TypeInv, JobsFit, Fits

LEMMA SpendType ==
    ASSUME SharedOK, NEW t \in Trouble, Spend(t)
    PROVE  spent' \in [Trouble -> Nat]
  BY DEF SharedOK, Spend

LEMMA TroubleTypes == \A t \in {"failure", "crash", "stall", "damage"} : t \in Trouble
  BY DEF Trouble

LEMMA PrepareType ==
    ASSUME TypeInv, NEW p \in Proc, Prepare(p)
    PROVE  TypeInv'
<1> USE DEF TypeInv
<1>1. SharedOK'
  BY DEF SharedOK, Prepare, rows, store
<1>2. PICK step \in {"prepared", "unusable"} : Goto(p, step)
  BY DEF Prepare
<1> QED
  BY <1>1, <1>2, GotoKeepsLocals DEF Prepare, Steps, JobSteps, LeaseSteps

LEMMA SetAsideType ==
    ASSUME TypeInv, NEW p \in Proc, SetAside(p)
    PROVE  TypeInv'
<1> USE DEF TypeInv
<1>1. Job(p).row \in Capture /\ todo[p] # <<>>
  BY AtWork DEF SetAside, JobSteps
<1>2. SharedOK'
  BY <1>1 DEF SharedOK, SetAside, store
<1> QED
  BY <1>1, <1>2, NextJobKeepsLocals DEF SetAside

LEMMA PutOffType ==
    ASSUME TypeInv, NEW p \in Proc, PutOff(p)
    PROVE  TypeInv'
<1> USE DEF TypeInv
<1>1. Job(p).row \in Capture
  BY AtWork DEF PutOff
<1>2. attempts' \in [Capture -> Nat]
  BY <1>1 DEF SharedOK, PutOff
<1>3. spent' \in [Trouble -> Nat]
  BY SpendType, TroubleTypes DEF PutOff
<1>4. SharedOK'
  BY <1>2, <1>3 DEF SharedOK, PutOff, store
<1> QED
  BY <1>4, NextJobKeepsLocals DEF PutOff

(* The request of one job. *)
LEMMA GrantLeaseType ==
    ASSUME TypeInv, NEW p \in Proc, GrantLease(p)
    PROVE  TypeInv'
<1> USE DEF TypeInv
<1>1. Job(p).rev \in Rev /\ todo[p] # <<>> /\ Job(p).kind \in {"delete", "upload"}
  BY AtWork DEF GrantLease, WantsLease, JobSteps
<1>2. lease[Job(p).rev].token \in Nat
  BY <1>1 DEF SharedOK
<1>a. token' \in [Proc -> Nat]
  BY <1>2 DEF LocalsOK, GrantLease
<1>3. SharedOK'
  BY <1>1, <1>2 DEF SharedOK, GrantLease, rows, store
<1>4. CASE Job(p).kind = "delete"
  <2>1. pc[p] = "deletions" /\ Len(todo[p]) <= room[p] /\ Len(todo[p]) > 0 /\ Fits(p)
    <3>1. pc[p] = "deletions"
      BY <1>4, AtWork DEF GrantLease, WantsLease, JobSteps
    <3> QED
      BY <3>1, <1>1, <1>4, CurrentJob DEF JobsFit, Fits, LocalsOK
  <2>2. room[p] \in Nat /\ room[p] <= Limit /\ Limit \in Nat
    BY CaptureAssumption DEF LocalsOK
  <2>3. room[p] - 1 \in 0 .. Limit
    BY <2>1, <2>2 DEF LocalsOK
  <2>4. LocalsOK'
    BY <1>a, <1>4, <2>3 DEF LocalsOK, GrantLease, Goto, Steps
  <2>5. Fits(p)'
    <3>1. /\ pc'[p] = "checked" /\ room'[p] = room[p] - 1
          /\ todo'[p] = todo[p] /\ token'[p] > 0
      BY <1>2, <1>4 DEF LocalsOK, GrantLease, Goto
    <3> QED
      BY <3>1, <2>1, <2>2 DEF Fits, JobSteps, LeaseSteps, LocalsOK
  <2> QED
    BY <1>3, <2>4, <2>5, <1>4, FitOneByOne DEF LocalsOK, GrantLease, Goto
<1>5. CASE Job(p).kind = "upload"
  <2>1. pc[p] = "prepared" /\ Fits(p)
    BY <1>5, AtWork DEF GrantLease, WantsLease, JobSteps, JobsFit
  <2>2. LocalsOK'
    BY <1>a, <1>5 DEF LocalsOK, GrantLease, Goto, Steps
  <2>3. Fits(p)'
    <3>1. /\ pc'[p] = "leased" /\ room'[p] = room[p]
          /\ todo'[p] = todo[p] /\ token'[p] > 0
      BY <1>2, <1>5 DEF LocalsOK, GrantLease, Goto
    <3> QED
      BY <3>1, <2>1, <1>1 DEF Fits, JobSteps, LeaseSteps, LocalsOK
  <2> QED
    BY <1>3, <2>2, <2>3, <1>5, FitOneByOne DEF LocalsOK, GrantLease, Goto
<1> QED
  BY <1>1, <1>4, <1>5

LEMMA SkipBusyType ==
    ASSUME TypeInv, NEW p \in Proc, SkipBusy(p)
    PROVE  TypeInv'
<1> USE DEF TypeInv
<1>1. SharedOK'
  BY DEF SharedOK, SkipBusy, rows, store
<1>2. todo[p] # <<>>
  BY AtWork DEF SkipBusy, WantsLease, JobSteps
<1> QED
  BY <1>1, <1>2, NextJobKeepsLocals DEF SkipBusy

LEMMA CheckTombstoneType ==
    ASSUME TypeInv, NEW p \in Proc, CheckTombstone(p)
    PROVE  TypeInv'
<1> USE DEF TypeInv
<1>1. Job(p).row \in Capture /\ todo[p] # <<>> /\ pc[p] = "leased"
  BY AtWork DEF CheckTombstone, JobSteps, LeaseSteps
<1>2. SharedOK'
  BY <1>1 DEF SharedOK, CheckTombstone, store
<1>3. \E step \in {"release", "checked"} : Goto(p, step)
  BY DEF CheckTombstone
<1> QED
  BY <1>1, <1>2, <1>3, GotoKeepsLocals DEF CheckTombstone, Steps, JobSteps, LeaseSteps

LEMMA RenewType ==
    ASSUME TypeInv, NEW p \in Proc, Renew(p)
    PROVE  TypeInv'
<1> USE DEF TypeInv
<1>1. Job(p).rev \in Rev /\ todo[p] # <<>> /\ pc[p] = "checked"
  BY AtWork DEF Renew, JobSteps, LeaseSteps
<1>2. SharedOK'
  BY <1>1 DEF SharedOK, Renew, rows, store
<1> QED
  BY <1>1, <1>2, GotoKeepsLocals DEF Renew, Steps, JobSteps, LeaseSteps

LEMMA SendType ==
    ASSUME TypeInv, NEW p \in Proc, Send(p)
    PROVE  TypeInv'
<1> USE DEF TypeInv
<1>1. /\ Job(p).rev \in Rev /\ Job(p).kind \in {"delete", "upload"}
      /\ todo[p] # <<>> /\ pc[p] = "cleared"
  BY AtWork DEF Send, JobSteps, LeaseSteps
<1>2. [kind |-> Job(p).kind, rev |-> Job(p).rev, token |-> token[p]] \in Request
  BY <1>1 DEF Request, LocalsOK
<1>3. SharedOK'
  BY <1>2 DEF SharedOK, Send, rows, store
<1> QED
  BY <1>1, <1>3, GotoKeepsLocals DEF Send, Steps, JobSteps, LeaseSteps

LEMMA RecordType ==
    ASSUME TypeInv, NEW p \in Proc, Record(p)
    PROVE  TypeInv'
<1> USE DEF TypeInv
<1>1. /\ Job(p).rev \in Rev /\ todo[p] # <<>> /\ pc[p] = "sent"
      /\ Job(p).kind = "upload" => Job(p).row \in Capture
  BY AtWork DEF Record, JobSteps, LeaseSteps
<1>2. SharedOK'
  <2>1. tomb' \in [Rev -> {"none", "queued", "acked"}]
    BY <1>1 DEF SharedOK, Record
  <2>2. delivered' \subseteq Capture /\ cancelled' \subseteq Capture /\ withdrawn' \subseteq Capture
    BY <1>1 DEF SharedOK, Record
  <2>3. recorded' \in [Rev -> Nat]
    BY <1>1 DEF SharedOK, LocalsOK, Record
  <2> QED
    BY <2>1, <2>2, <2>3 DEF SharedOK, Record, store
<1> QED
  BY <1>1, <1>2, GotoKeepsLocals DEF Record, Steps, JobSteps, LeaseSteps

LEMMA FencedType ==
    ASSUME TypeInv, NEW p \in Proc, Fenced(p)
    PROVE  TypeInv'
<1> USE DEF TypeInv
<1>1. SharedOK'
  BY DEF SharedOK, Fenced, rows, store
<1>2. todo[p] # <<>>
  BY AtWork DEF Fenced, JobSteps, LeaseSteps
<1> QED
  BY <1>1, <1>2, NextJobKeepsLocals DEF Fenced

(* Dropping a lease keeps the table of leases in order. *)
LEMMA ReleasedType ==
    ASSUME TypeInv, NEW p \in Proc
    PROVE  Released(p) \in [Rev -> [owner : Proc \cup {None}, live : BOOLEAN, token : Nat]]
<1>1. CASE Holds(p)
  <2>1. pc[p] \in LeaseSteps
    BY <1>1 DEF Holds, TypeInv, JobsFit, Fits
  <2>2. Job(p).rev \in Rev
    BY <2>1, AtWork DEF JobSteps
  <2> QED
    BY <2>2 DEF Released, TypeInv, SharedOK
<1>2. CASE ~Holds(p)
  BY <1>2 DEF Released, TypeInv, SharedOK
<1> QED
  BY <1>1, <1>2

LEMMA ReleaseType ==
    ASSUME TypeInv, NEW p \in Proc, Release(p)
    PROVE  TypeInv'
<1>1. SharedOK'
  BY ReleasedType DEF TypeInv, SharedOK, Release, rows, store
<1>2. todo[p] # <<>>
  BY AtWork DEF Release, JobSteps, LeaseSteps
<1> QED
  BY <1>1, <1>2, NextJobKeepsLocals DEF TypeInv, Release

(* Cleanup. *)
LEMMA BackfillType ==
    ASSUME TypeInv, NEW p \in Proc, Backfill(p)
    PROVE  TypeInv'
<1> USE DEF TypeInv
<1>1. PICK S \in SUBSET (Queued \ (hashed \cup quarantined)), unread \in SUBSET Queued :
        /\ hashed' = hashed \cup {r \in S \ unread : spool[r[2]] = "intact"}
        /\ quarantined' = quarantined \cup {r \in S \ unread : spool[r[2]] # "intact"}
        /\ spent' = spent \/ Spend("failure")
  BY DEF Backfill, AnyOf
<1>2. hashed' \subseteq Capture /\ quarantined' \subseteq Capture
  BY <1>1 DEF SharedOK, Queued
<1>3. SharedOK'
  <2>1. spent' \in [Trouble -> Nat]
    BY <1>1, SpendType, TroubleTypes DEF SharedOK
  <2> QED
    BY <1>2, <2>1 DEF SharedOK, Backfill, store
<1>4. Goto(p, "cleanup") /\ pc[p] = "uploads"
  BY DEF Backfill
<1> QED
  BY <1>3, <1>4, GotoKeepsLocals DEF Backfill, Steps, JobSteps, LeaseSteps

LEMMA SelectErasableType ==
    ASSUME TypeInv, NEW p \in Proc, SelectErasable(p)
    PROVE  TypeInv'
<1> USE DEF TypeInv
<1>1. SharedOK'
  BY DEF SharedOK, SelectErasable, rows, store
<1>2. batch' \in [Proc -> SUBSET Object]
  <2>1. PICK T \in SUBSET Erasable : batch' = [batch EXCEPT ![p] = T]
    BY DEF SelectErasable, AnyOf
  <2>2. T \in SUBSET Object
    BY DEF Erasable
  <2> QED
    BY <2>1, <2>2 DEF LocalsOK
<1>3. LocalsOK'
  BY <1>2 DEF LocalsOK, SelectErasable, Goto, Steps
<1>4. Fits(p)'
  <2>1. /\ pc'[p] = "erase" /\ room'[p] = room[p]
        /\ todo'[p] = todo[p] /\ token'[p] = token[p]
        /\ pc[p] = "cleanup" /\ Fits(p)
    BY DEF LocalsOK, SelectErasable, Goto, JobsFit
  <2> QED
    BY <2>1 DEF Fits, JobSteps, LeaseSteps
<1> QED
  BY <1>1, <1>3, <1>4, FitOneByOne DEF LocalsOK, SelectErasable, Goto

LEMMA UnlinkType ==
    ASSUME TypeInv, NEW p \in Proc, NEW o \in Object, Unlink(p, o)
    PROVE  TypeInv'
<1> USE DEF TypeInv
<1>1. SharedOK'
  BY DEF SharedOK, Unlink, rows, store
<1>2. LocalsOK'
  BY DEF LocalsOK, Unlink
<1>3. JobsFit'
  BY DEF JobsFit, Fits, Unlink
<1> QED
  BY <1>1, <1>2, <1>3

LEMMA SkipUnlinkType ==
    ASSUME TypeInv, NEW p \in Proc, NEW o \in Object, SkipUnlink(p, o)
    PROVE  TypeInv'
<1> USE DEF TypeInv
<1>1. spent' \in [Trouble -> Nat]
  BY SpendType, TroubleTypes DEF SkipUnlink
<1>2. SharedOK'
  BY <1>1 DEF SharedOK, SkipUnlink, rows, store
<1>3. LocalsOK'
  BY DEF LocalsOK, SkipUnlink
<1>4. JobsFit'
  BY DEF JobsFit, Fits, SkipUnlink
<1> QED
  BY <1>2, <1>3, <1>4

LEMMA CommitErasuresType ==
    ASSUME TypeInv, NEW p \in Proc, CommitErasures(p)
    PROVE  TypeInv'
<1> USE DEF TypeInv
<1>1. erased' \subseteq Capture /\ cancelled' \subseteq Capture
  BY DEF SharedOK, CommitErasures, Queued
<1>2. SharedOK'
  BY <1>1 DEF SharedOK, CommitErasures, store
<1> QED
  BY <1>2, StopKeepsLocals DEF CommitErasures

(* The store's answers. *)
LEMMA AnswerKeepsLocals ==
    ASSUME LocalsOK, JobsFit, NEW m \in wire, NEW what \in {"ok", "gone", "error"},
           Answer(m, what)
    PROVE  LocalsOK' /\ JobsFit'
<1>1. LocalsOK'
  BY DEF LocalsOK, Answer
<1>2. JobsFit'
  BY DEF JobsFit, Fits, Answer
<1> QED
  BY <1>1, <1>2

LEMMA StoreUploadType ==
    ASSUME TypeInv, NEW m \in wire, StoreUpload(m)
    PROVE  TypeInv'
<1>1. m.rev \in Rev
  BY DEF TypeInv, SharedOK, Request
<1>2. \E what \in {"ok", "gone", "error"} : Answer(m, what)
  BY DEF StoreUpload
<1>3. SharedOK'
  BY <1>1, <1>2 DEF TypeInv, SharedOK, StoreUpload, Answer, rows
<1> QED
  BY <1>2, <1>3, AnswerKeepsLocals DEF TypeInv

LEMMA StoreDeleteType ==
    ASSUME TypeInv, NEW m \in wire, StoreDelete(m)
    PROVE  TypeInv'
<1>1. m.rev \in Rev
  BY DEF TypeInv, SharedOK, Request
<1>2. Answer(m, "ok")
  BY DEF StoreDelete
<1>3. SharedOK'
  BY <1>1, <1>2 DEF TypeInv, SharedOK, StoreDelete, Answer, rows
<1> QED
  BY <1>2, <1>3, AnswerKeepsLocals DEF TypeInv

LEMMA StoreFailsType ==
    ASSUME TypeInv, NEW m \in wire, StoreFails(m)
    PROVE  TypeInv'
<1>1. Answer(m, "error")
  BY DEF StoreFails
<1>2. spent' \in [Trouble -> Nat]
  BY SpendType, TroubleTypes DEF StoreFails, TypeInv
<1>3. SharedOK'
  BY <1>1, <1>2 DEF TypeInv, SharedOK, StoreFails, Answer, rows, store
<1> QED
  BY <1>1, <1>3, AnswerKeepsLocals DEF TypeInv

LEMMA ExternalDeleteType ==
    ASSUME TypeInv, NEW v \in ExternalDeletions, ExternalDelete(v)
    PROVE  TypeInv'
<1>1. SharedOK'
  BY CaptureAssumption DEF TypeInv, SharedOK, ExternalDelete, rows
<1> QED
  BY <1>1, SameLocals DEF TypeInv, ExternalDelete

(* Trouble. *)
LEMMA TimeoutType ==
    ASSUME TypeInv, NEW p \in Proc, Timeout(p)
    PROVE  TypeInv'
<1> USE DEF TypeInv
<1>1. spent' \in [Trouble -> Nat]
  BY SpendType, TroubleTypes DEF Timeout
<1>2. SharedOK'
  BY <1>1 DEF SharedOK, Timeout, rows, store
<1>3. LocalsOK'
  BY DEF LocalsOK, Timeout
<1>4. JobsFit'
  BY DEF JobsFit, Fits, Timeout
<1> QED
  BY <1>2, <1>3, <1>4

LEMMA CrashType ==
    ASSUME TypeInv, NEW p \in Proc, Crash(p)
    PROVE  TypeInv'
<1> USE DEF TypeInv
<1>1. spent' \in [Trouble -> Nat]
  BY SpendType, TroubleTypes DEF Crash
<1>2. SharedOK'
  BY <1>1 DEF SharedOK, Crash, rows, store
<1> QED
  BY <1>2, StopKeepsLocals DEF Crash

LEMMA StorageErrorType ==
    ASSUME TypeInv, NEW p \in Proc, StorageError(p)
    PROVE  TypeInv'
<1>1. spent' \in [Trouble -> Nat]
  BY SpendType, TroubleTypes DEF StorageError, TypeInv
<1>2. SharedOK'
  BY <1>1, ReleasedType DEF TypeInv, SharedOK, StorageError, rows, store
<1> QED
  BY <1>2, StopKeepsLocals DEF TypeInv, StorageError

LEMMA LeaseExpiryType ==
    ASSUME TypeInv, NEW v \in Rev, ExpireAbandoned(v) \/ Stall(v)
    PROVE  TypeInv'
<1>1. spent' \in [Trouble -> Nat]
  BY SpendType, TroubleTypes DEF ExpireAbandoned, Stall, TypeInv, SharedOK
<1>2. SharedOK'
  <2>1. lease' = [lease EXCEPT ![v].live = FALSE]
    BY DEF ExpireAbandoned, Stall
  <2>2. UNCHANGED <<rows, tomb, writer, spool, store, wire, recorded>>
    BY DEF ExpireAbandoned, Stall
  <2> QED
    BY <1>1, <2>1, <2>2 DEF TypeInv, SharedOK, rows, store
<1>3. UNCHANGED locals
  BY DEF ExpireAbandoned, Stall
<1> QED
  BY <1>2, <1>3, SameLocals DEF TypeInv

LEMMA DamageType ==
    ASSUME TypeInv, NEW o \in Object, Damage(o)
    PROVE  TypeInv'
<1>1. spent' \in [Trouble -> Nat]
  BY SpendType, TroubleTypes DEF Damage, TypeInv
<1>2. SharedOK'
  BY <1>1 DEF TypeInv, SharedOK, Damage, rows, store
<1> QED
  BY <1>2, SameLocals DEF TypeInv, Damage

LEMMA NextTypeInv == TypeInv /\ [Next]_vars => TypeInv'
<1> SUFFICES ASSUME TypeInv, [Next]_vars PROVE TypeInv'
  OBVIOUS
<1>1. ASSUME NEW p \in Proc, NEW r \in Capture, BeginEnqueue(p, r) PROVE TypeInv'
  BY <1>1, BeginEnqueueType
<1>2. ASSUME NEW v \in DeletionRequests, EnqueueDeletion(v) PROVE TypeInv'
  BY <1>2, EnqueueDeletionType
<1>3. ASSUME NEW v \in ExternalDeletions, ExternalDelete(v) PROVE TypeInv'
  BY <1>3, ExternalDeleteType
<1>4. ASSUME NEW p \in Proc, BeginDrain(p) \/ Proceed(p) PROVE TypeInv'
  BY <1>4, BeginDrainType, CommitEnqueueType, SelectUploadsType, PrepareType,
     SetAsideType, GrantLeaseType, SkipBusyType, CheckTombstoneType, RenewType,
     SendType, RecordType, FencedType, ReleaseType, BackfillType,
     SelectErasableType, CommitErasuresType, UnlinkType
     DEF Proceed
<1>5. ASSUME NEW v \in Rev, StoreAnswers(v) \/ ExpireAbandoned(v) PROVE TypeInv'
  BY <1>5, StoreUploadType, StoreDeleteType, LeaseExpiryType DEF StoreAnswers
<1>6. ASSUME Troubles PROVE TypeInv'
  BY <1>6, PutOffType, TimeoutType, CrashType, StorageErrorType, SkipUnlinkType,
     StoreFailsType, LeaseExpiryType, DamageType
     DEF Troubles
<1>7. ASSUME UNCHANGED vars PROVE TypeInv'
  BY <1>7 DEF TypeInv, SharedOK, LocalsOK, JobsFit, Fits, vars, rows, store, locals
<1> QED
  BY <1>1, <1>2, <1>3, <1>4, <1>5, <1>6, <1>7 DEF Next

LEMMA TypeInvAlways == Spec => []TypeInv
  BY InitTypeInv, NextTypeInv, PTL DEF Spec

(* Every variable keeps its type whatever the processes, the store and      *)
(* their troubles do; in particular limit - attempted never wraps.          *)
THEOREM TypeCorrect == Spec => []TypeOK
  BY TypeInvAlways, TypeInvImpliesTypeOK, PTL

-----------------------------------------------------------------------------
(* Fencing *)

(* A grant's token is never above the ledger's, tells the grants of one     *)
(* revision apart, and is the token of the requests sent and the results    *)
(* recorded under it.                                                       *)
GrantsBounded == \A p \in Proc : token[p] > 0 => token[p] <= lease[Job(p).rev].token

GrantsDistinct ==
    \A p, q \in Proc :
        p # q /\ token[p] > 0 /\ token[q] > 0 /\ Job(p).rev = Job(q).rev
            => token[p] # token[q]

RequestsBounded == \A m \in wire : m.token <= lease[m.rev].token

RequestsMatchGrants ==
    \A m \in wire : \A p \in Proc :
        token[p] > 0 /\ Job(p).rev = m.rev /\ token[p] = m.token
            => Job(p).kind = m.kind

RecordsBounded == \A v \in Rev : recorded[v] <= lease[v].token

Fencing ==
    /\ GrantsBounded /\ GrantsDistinct
    /\ RequestsBounded /\ RequestsMatchGrants
    /\ RecordsBounded

(* What most steps do: no grant, no request and no record is new. *)
NoNewGrant ==
    /\ \A q \in Proc : token'[q] > 0 => token'[q] = token[q] /\ todo'[q] = todo[q]
    /\ \A v \in Rev : lease'[v].token = lease[v].token
NothingSent == wire' \subseteq wire

LEMMA GrantFacts ==
    ASSUME TypeInv, NEW p \in Proc
    PROVE  /\ token[p] \in Nat
           /\ token[p] > 0 => Job(p).rev \in Rev /\ lease[Job(p).rev].token \in Nat
<1>1. token[p] > 0 => Job(p).rev \in Rev
  BY AtWork DEF TypeInv, JobsFit, Fits, JobSteps
<1> QED
  BY <1>1 DEF TypeInv, SharedOK, LocalsOK

LEMMA QuietFencing ==
    ASSUME TypeInv, TypeInv', Fencing, NoNewGrant, NothingSent, recorded' = recorded
    PROVE  Fencing'
<1>1. \A p \in Proc : token'[p] > 0 =>
         token'[p] = token[p] /\ Job(p)' = Job(p) /\ Job(p).rev \in Rev
  BY GrantFacts DEF NoNewGrant, Job
<1>2. GrantsBounded'
  BY <1>1 DEF Fencing, GrantsBounded, NoNewGrant
<1>3. GrantsDistinct'
  BY <1>1 DEF Fencing, GrantsDistinct
<1>4. RequestsBounded'
  <2>1. \A m \in wire : m.rev \in Rev
    BY DEF TypeInv, SharedOK, Request
  <2> QED
    BY <2>1 DEF Fencing, RequestsBounded, NothingSent, NoNewGrant
<1>5. RequestsMatchGrants'
  BY <1>1 DEF Fencing, RequestsMatchGrants, NothingSent
<1>6. RecordsBounded'
  BY DEF Fencing, RecordsBounded, NoNewGrant
<1> QED
  BY <1>2, <1>3, <1>4, <1>5, <1>6 DEF Fencing

LEMMA GrantLeaseFencing ==
    ASSUME TypeInv, TypeInv', Fencing, NEW p \in Proc, GrantLease(p)
    PROVE  Fencing'
<1> DEFINE v == Job(p).rev
<1>1. v \in Rev /\ lease[v].token \in Nat
  BY AtWork DEF GrantLease, WantsLease, JobSteps, TypeInv, SharedOK
<1>2. /\ token'[p] = lease[v].token + 1 /\ lease'[v].token = lease[v].token + 1
      /\ \A q \in Proc : q # p => token'[q] = token[q]
      /\ \A w \in Rev : w # v => lease'[w] = lease[w]
  BY <1>1 DEF GrantLease, TypeInv, SharedOK, LocalsOK
<1>3. todo' = todo /\ wire' = wire /\ recorded' = recorded
  BY DEF GrantLease
<1>4. \A q \in Proc : Job(q)' = Job(q)
  BY <1>3 DEF Job
<1>5. \A w \in Rev : /\ lease[w].token \in Nat /\ lease'[w].token \in Nat
                      /\ lease[w].token <= lease'[w].token
  BY <1>1, <1>2 DEF TypeInv, SharedOK
<1> HIDE DEF v
<1>6. \A q \in Proc : q # p /\ token[q] > 0 =>
         /\ token[q] \in Nat /\ Job(q).rev \in Rev
         /\ token[q] <= lease[Job(q).rev].token
  BY GrantFacts DEF Fencing, GrantsBounded
<1>7. GrantsBounded'
  BY <1>1, <1>2, <1>4, <1>5, <1>6 DEF GrantsBounded, v
<1>8. GrantsDistinct'
  BY <1>1, <1>2, <1>4, <1>6 DEF Fencing, GrantsDistinct, v
<1>9. \A m \in wire : /\ m.rev \in Rev /\ m.token \in Nat
                      /\ m.token <= lease[m.rev].token
  BY DEF Fencing, RequestsBounded, TypeInv, SharedOK, Request
<1>10. RequestsBounded'
  BY <1>3, <1>5, <1>9 DEF RequestsBounded
<1>11. RequestsMatchGrants'
  BY <1>1, <1>2, <1>3, <1>4, <1>9 DEF Fencing, RequestsMatchGrants, v
<1>12. RecordsBounded'
  BY <1>3, <1>5 DEF Fencing, RecordsBounded, TypeInv, SharedOK
<1> QED
  BY <1>7, <1>8, <1>10, <1>11, <1>12 DEF Fencing

LEMMA SendFencing ==
    ASSUME TypeInv, Fencing, NEW p \in Proc, Send(p)
    PROVE  Fencing'
<1>1. UNCHANGED <<token, todo, lease, recorded>>
  BY DEF Send
<1>2. \A q \in Proc : Job(q)' = Job(q)
  BY <1>1 DEF Job
<1>3. token[p] > 0
  BY DEF Send, TypeInv, JobsFit, Fits, LeaseSteps
<1> DEFINE m == [kind |-> Job(p).kind, rev |-> Job(p).rev, token |-> token[p]]
<1>4. wire' = wire \cup {m}
  BY DEF Send
<1>5. /\ m.token <= lease[m.rev].token
      /\ \A q \in Proc : token[q] > 0 /\ Job(q).rev = m.rev /\ token[q] = m.token
            => Job(q).kind = m.kind
  BY <1>3 DEF Fencing, GrantsBounded, GrantsDistinct
<1> HIDE DEF m
<1>6. RequestsBounded' /\ RequestsMatchGrants'
  BY <1>1, <1>2, <1>4, <1>5 DEF Fencing, RequestsBounded, RequestsMatchGrants
<1>7. GrantsBounded' /\ GrantsDistinct' /\ RecordsBounded'
  BY <1>1, <1>2 DEF Fencing, GrantsBounded, GrantsDistinct, RecordsBounded
<1> QED
  BY <1>6, <1>7 DEF Fencing

LEMMA RecordFencing ==
    ASSUME TypeInv, Fencing, NEW p \in Proc, Record(p)
    PROVE  Fencing'
<1>1. UNCHANGED <<token, todo, lease, wire>>
  BY DEF Record
<1>2. \A q \in Proc : Job(q)' = Job(q)
  BY <1>1 DEF Job
<1>3. RecordsBounded'
  <2>1. token[p] = lease[Job(p).rev].token /\ token[p] \in Nat
    BY DEF Record, Holds, TypeInv, LocalsOK
  <2>2. recorded' = [recorded EXCEPT ![Job(p).rev] = token[p]]
    BY DEF Record
  <2> QED
    BY <1>1, <2>1, <2>2 DEF Fencing, RecordsBounded, TypeInv, SharedOK
<1>4. GrantsBounded' /\ GrantsDistinct' /\ RequestsBounded' /\ RequestsMatchGrants'
  BY <1>1, <1>2 DEF Fencing, GrantsBounded, GrantsDistinct, RequestsBounded, RequestsMatchGrants
<1> QED
  BY <1>3, <1>4 DEF Fencing

(* A process that goes on to its next job, or stops, has no grant left. *)
LEMMA GrantDropped ==
    ASSUME TypeInv, NEW p \in Proc, NextJob(p) \/ Stop(p)
    PROVE  \A q \in Proc : token'[q] > 0 => token'[q] = token[q] /\ todo'[q] = todo[q]
  BY DEF NextJob, Stop, TypeInv, LocalsOK

(* One that is not at work on a job has none. *)
LEMMA IdleHasNoGrant ==
    ASSUME TypeInv, NEW p \in Proc, pc[p] \notin LeaseSteps
    PROVE  token[p] = 0
  BY DEF TypeInv, LocalsOK, JobsFit, Fits

LEMMA ReleasedTokens ==
    ASSUME TypeInv, NEW p \in Proc
    PROVE  \A v \in Rev : Released(p)[v].token = lease[v].token
  BY DEF Released, TypeInv, SharedOK

LEMMA AnswerGrants ==
    ASSUME NEW m \in wire, NEW what, Answer(m, what)
    PROVE  NoNewGrant /\ NothingSent /\ recorded' = recorded
  BY DEF Answer, NoNewGrant, NothingSent

LEMMA ProcessGrants ==
    ASSUME TypeInv, NEW p \in Proc,
           \/ \E r \in Capture : BeginEnqueue(p, r)
           \/ CommitEnqueue(p) \/ BeginDrain(p) \/ SelectUploads(p)
           \/ Prepare(p) \/ SetAside(p) \/ PutOff(p)
           \/ SkipBusy(p) \/ CheckTombstone(p) \/ Renew(p) \/ Fenced(p) \/ Release(p)
           \/ Backfill(p) \/ SelectErasable(p) \/ CommitErasures(p)
           \/ \E o \in Object : Unlink(p, o) \/ SkipUnlink(p, o)
           \/ Timeout(p) \/ Crash(p) \/ StorageError(p)
    PROVE  NoNewGrant /\ NothingSent /\ recorded' = recorded
<1>1. CASE (\E r \in Capture : BeginEnqueue(p, r)) \/ BeginDrain(p) \/ SelectUploads(p)
  <2>1. token[p] = 0
    BY <1>1, IdleHasNoGrant DEF BeginEnqueue, BeginDrain, SelectUploads, LeaseSteps
  <2>2. /\ \A q \in Proc : q # p => todo'[q] = todo[q]
        /\ UNCHANGED <<token, lease, wire, recorded>>
    BY <1>1 DEF BeginEnqueue, BeginDrain, SelectUploads, TypeInv, LocalsOK
  <2> QED
    BY <2>1, <2>2 DEF NoNewGrant, NothingSent
<1>2. CASE Prepare(p) \/ CheckTombstone(p) \/ Backfill(p) \/ SelectErasable(p)
           \/ (\E o \in Object : Unlink(p, o) \/ SkipUnlink(p, o)) \/ Timeout(p)
  <2>1. UNCHANGED <<token, todo, lease, wire, recorded>>
    BY <1>2 DEF Prepare, CheckTombstone, Backfill, SelectErasable, Unlink, SkipUnlink, Timeout
  <2> QED
    BY <2>1 DEF NoNewGrant, NothingSent
<1>3. CASE SetAside(p) \/ PutOff(p) \/ SkipBusy(p) \/ Fenced(p)
           \/ CommitEnqueue(p) \/ CommitErasures(p) \/ Crash(p)
  <2>1. NextJob(p) \/ Stop(p)
    BY <1>3 DEF SetAside, PutOff, SkipBusy, Fenced, CommitEnqueue, CommitErasures, Crash
  <2>2. UNCHANGED <<lease, wire, recorded>>
    BY <1>3 DEF SetAside, PutOff, SkipBusy, Fenced, CommitEnqueue, CommitErasures, Crash
  <2> QED
    BY <2>1, <2>2, GrantDropped DEF NoNewGrant, NothingSent
<1>4. CASE Release(p) \/ StorageError(p)
  <2>1. NextJob(p) \/ Stop(p)
    BY <1>4 DEF Release, StorageError
  <2>2. lease' = Released(p) /\ UNCHANGED <<wire, recorded>>
    BY <1>4 DEF Release, StorageError
  <2> QED
    BY <2>1, <2>2, GrantDropped, ReleasedTokens DEF NoNewGrant, NothingSent
<1>5. CASE Renew(p)
  <2>1. UNCHANGED <<token, todo, wire, recorded>>
    BY <1>5 DEF Renew
  <2>2. \A v \in Rev : lease'[v].token = lease[v].token
    BY <1>5 DEF Renew, TypeInv, SharedOK
  <2> QED
    BY <2>1, <2>2 DEF NoNewGrant, NothingSent
<1> QED
  BY <1>1, <1>2, <1>3, <1>4, <1>5

LEMMA OtherGrants ==
    ASSUME TypeInv,
           \/ \E v \in Rev : \/ EnqueueDeletion(v) \/ ExternalDelete(v)
                             \/ StoreAnswers(v) \/ ExpireAbandoned(v) \/ Stall(v)
           \/ \E m \in wire : StoreFails(m)
           \/ \E o \in Object : Damage(o)
           \/ UNCHANGED vars
    PROVE  NoNewGrant /\ NothingSent /\ recorded' = recorded
<1>1. CASE \/ \E v \in Rev : EnqueueDeletion(v) \/ ExternalDelete(v)
           \/ \E o \in Object : Damage(o)
           \/ UNCHANGED vars
  <2>1. UNCHANGED <<token, todo, lease, wire, recorded>>
    BY <1>1 DEF EnqueueDeletion, ExternalDelete, Damage, vars, locals
  <2> QED
    BY <2>1 DEF NoNewGrant, NothingSent
<1>2. CASE (\E v \in Rev : StoreAnswers(v)) \/ \E m \in wire : StoreFails(m)
  <2>1. \E m \in wire : \E what \in {"ok", "gone", "error"} : Answer(m, what)
    BY <1>2 DEF StoreAnswers, StoreUpload, StoreDelete, StoreFails
  <2> QED
    BY <2>1, AnswerGrants
<1>3. CASE \E v \in Rev : ExpireAbandoned(v) \/ Stall(v)
  <2>1. UNCHANGED <<token, todo, wire, recorded>>
    BY <1>3 DEF ExpireAbandoned, Stall, locals
  <2>2. \A v \in Rev : lease'[v].token = lease[v].token
    BY <1>3 DEF ExpireAbandoned, Stall, TypeInv, SharedOK
  <2> QED
    BY <2>1, <2>2 DEF NoNewGrant, NothingSent
<1> QED
  BY <1>1, <1>2, <1>3

(* A step is quiet, or it grants a lease, sends a request or records a result. *)
LEMMA QuietOrNot ==
    ASSUME TypeInv, [Next]_vars
    PROVE  \/ NoNewGrant /\ NothingSent /\ recorded' = recorded
           \/ \E p \in Proc : GrantLease(p) \/ Send(p) \/ Record(p)
<1>1. \A v \in DeletionRequests \cup ExternalDeletions : v \in Rev
  BY CaptureAssumption
<1> QED
  BY <1>1, ProcessGrants, OtherGrants DEF Next, Proceed, Troubles

LEMMA NextFencing == TypeInv /\ TypeInv' /\ Fencing /\ [Next]_vars => Fencing'
  BY QuietOrNot, QuietFencing, GrantLeaseFencing, SendFencing, RecordFencing

LEMMA InitFencing == Init => Fencing
  BY DEF Init, Fencing, GrantsBounded, GrantsDistinct, RequestsBounded,
         RequestsMatchGrants, RecordsBounded, NoLease

LEMMA FencingAlways == Spec => [](TypeInv /\ Fencing)
<1>1. Init => TypeInv /\ Fencing
  BY InitTypeInv, InitFencing
<1>2. TypeInv /\ Fencing /\ [Next]_vars => (TypeInv /\ Fencing)'
  BY NextTypeInv, NextFencing
<1> QED
  BY <1>1, <1>2, PTL DEF Spec

(* A result is recorded only under the latest grant of its revision, so the *)
(* records of a revision follow its grants.                                 *)
LEMMA StepRecordsInOrder ==
    TypeInv /\ Fencing /\ [Next]_vars => \A v \in Rev : recorded'[v] >= recorded[v]
<1> SUFFICES ASSUME TypeInv, Fencing, [Next]_vars, NEW v \in Rev
             PROVE  recorded'[v] >= recorded[v]
  OBVIOUS
<1>1. recorded[v] \in Nat /\ lease[v].token \in Nat /\ recorded[v] <= lease[v].token
  BY DEF TypeInv, SharedOK, Fencing, RecordsBounded
<1>2. CASE recorded' = recorded
  BY <1>1, <1>2
<1>3. CASE \E p \in Proc : Record(p)
  <2>1. PICK p \in Proc : Record(p)
    BY <1>3
  <2>2. recorded' = [recorded EXCEPT ![Job(p).rev] = token[p]]
    BY <2>1 DEF Record
  <2>3. token[p] = lease[Job(p).rev].token
    BY <2>1 DEF Record, Holds
  <2> QED
    BY <1>1, <2>2, <2>3 DEF TypeInv, SharedOK
<1> QED
  BY <1>2, <1>3, QuietOrNot DEF GrantLease, Send

THEOREM RecordsInOrder == Spec => RecordsFollowGrants
<1>1. TypeInv /\ Fencing /\ [Next]_vars => [\A v \in Rev : recorded'[v] >= recorded[v]]_vars
  BY StepRecordsInOrder
<1> QED
  BY <1>1, FencingAlways, PTL DEF Spec, RecordsFollowGrants

-----------------------------------------------------------------------------
(* Deletion *)

(* The store never serves what it deleted; a deletion is recorded as        *)
(* acknowledged only when the store has it; a process that was told so was  *)
(* told the truth.                                                          *)
StoreApart == held \cap gone = {}
AckedIsGone == \A v \in Rev : tomb[v] = "acked" => v \in gone
RepliesTrue ==
    \A p \in Proc :
        reply[p] = "gone" \/ (reply[p] = "ok" /\ Job(p).kind = "delete")
            => Job(p).rev \in gone
RepliesFit == \A p \in Proc : reply[p] # "none" => pc[p] \in {"sent", "release"}

Deletion == StoreApart /\ AckedIsGone /\ RepliesTrue /\ RepliesFit

(* What most steps do: no answer is new, and what was deleted stays deleted. *)
NoNewReply ==
    \A q \in Proc :
        /\ reply'[q] # "none" => pc'[q] \in {"sent", "release"}
        /\ reply'[q] \in {"ok", "gone"} => reply'[q] = reply[q] /\ todo'[q] = todo[q]
NothingRevived == gone \subseteq gone' /\ held' \cap gone' = {}
NothingAcked == \A v \in Rev : tomb'[v] = "acked" => tomb[v] = "acked"

LEMMA QuietDeletion ==
    ASSUME Deletion, NoNewReply, NothingRevived, NothingAcked
    PROVE  Deletion'
<1>1. \A q \in Proc : reply'[q] \in {"ok", "gone"} =>
         reply'[q] = reply[q] /\ Job(q)' = Job(q)
  BY DEF NoNewReply, Job
<1>2. StoreApart' /\ AckedIsGone'
  BY DEF Deletion, StoreApart, AckedIsGone, NothingRevived, NothingAcked
<1>3. RepliesTrue'
  BY <1>1 DEF Deletion, RepliesTrue, NothingRevived
<1>4. RepliesFit'
  BY DEF RepliesFit, NoNewReply
<1> QED
  BY <1>2, <1>3, <1>4 DEF Deletion

(* A process that goes on to its next job, or stops, forgets the answer. *)
LEMMA ReplyDropped ==
    ASSUME TypeInv, Deletion, NEW p \in Proc, NextJob(p) \/ Stop(p)
    PROVE  NoNewReply
<1>1. reply'[p] = "none"
  BY DEF NextJob, Stop, TypeInv, LocalsOK
<1>2. \A q \in Proc : q # p =>
         reply'[q] = reply[q] /\ todo'[q] = todo[q] /\ pc'[q] = pc[q]
  BY DEF NextJob, Stop, Goto, TypeInv, LocalsOK
<1> QED
  BY <1>1, <1>2 DEF NoNewReply, Deletion, RepliesFit

(* One that moves on from a step without an answer keeps having none. *)
LEMMA MoveWithoutReply ==
    ASSUME TypeInv, Deletion, NEW p \in Proc, NEW step, Goto(p, step), reply' = reply,
           pc[p] \notin {"sent", "release"} \/ (todo' = todo /\ step = "release"),
           \A q \in Proc : q # p => todo'[q] = todo[q]
    PROVE  NoNewReply
<1>1. pc'[p] = step /\ \A q \in Proc : q # p => pc'[q] = pc[q]
  BY DEF Goto, TypeInv, LocalsOK
<1> QED
  BY <1>1 DEF NoNewReply, Deletion, RepliesFit

LEMMA ProcessReplies ==
    ASSUME TypeInv, Deletion, NEW p \in Proc,
           \/ \E r \in Capture : BeginEnqueue(p, r)
           \/ BeginDrain(p) \/ Proceed(p)
           \/ PutOff(p) \/ Timeout(p) \/ Crash(p) \/ StorageError(p)
           \/ \E o \in Object : SkipUnlink(p, o)
    PROVE  NoNewReply /\ NothingRevived
<1>1. NothingRevived
  BY DEF BeginEnqueue, BeginDrain, Proceed, CommitEnqueue, SelectUploads, Prepare,
         SetAside, GrantLease, SkipBusy, CheckTombstone, Renew, Send, Record,
         Fenced, Release, Backfill, SelectErasable, CommitErasures, Unlink,
         PutOff, Timeout, Crash, StorageError, SkipUnlink, store,
         NothingRevived, Deletion, StoreApart
<1>2. CASE \/ \E r \in Capture : BeginEnqueue(p, r)
           \/ BeginDrain(p) \/ SelectUploads(p)
  <2>1. \E step \in Steps : Goto(p, step)
    BY <1>2 DEF BeginEnqueue, BeginDrain, SelectUploads, Steps
  <2>2. /\ pc[p] \notin {"sent", "release"} /\ reply' = reply
        /\ \A q \in Proc : q # p => todo'[q] = todo[q]
    BY <1>2 DEF BeginEnqueue, BeginDrain, SelectUploads, TypeInv, LocalsOK
  <2> QED
    BY <1>1, <2>1, <2>2, MoveWithoutReply
<1>3. CASE \/ Prepare(p) \/ GrantLease(p) \/ CheckTombstone(p) \/ Renew(p)
           \/ Send(p) \/ Record(p) \/ Backfill(p) \/ SelectErasable(p)
  <2>1. UNCHANGED <<todo, reply>>
    BY <1>3 DEF Prepare, GrantLease, CheckTombstone, Renew, Send, Record, Backfill,
                SelectErasable
  <2>2. \E step \in Steps :
           /\ Goto(p, step)
           /\ pc[p] \notin {"sent", "release"} \/ step = "release"
    <3>1. CASE Send(p) \/ Record(p)
      BY <3>1 DEF Send, Record, Steps
    <3>2. CASE GrantLease(p) \/ CheckTombstone(p)
      BY <3>2 DEF GrantLease, WantsLease, CheckTombstone, Steps
    <3>3. CASE Prepare(p) \/ Renew(p) \/ Backfill(p) \/ SelectErasable(p)
      BY <3>3 DEF Prepare, Renew, Backfill, SelectErasable, Steps
    <3> QED
      BY <1>3, <3>1, <3>2, <3>3
  <2> QED
    BY <1>1, <2>1, <2>2, MoveWithoutReply
<1>4. CASE \/ SetAside(p) \/ PutOff(p) \/ SkipBusy(p) \/ Fenced(p) \/ Release(p)
           \/ CommitEnqueue(p) \/ CommitErasures(p) \/ Crash(p) \/ StorageError(p)
  <2>1. NextJob(p) \/ Stop(p)
    BY <1>4 DEF SetAside, PutOff, SkipBusy, Fenced, Release, CommitEnqueue,
                CommitErasures, Crash, StorageError
  <2> QED
    BY <1>1, <2>1, ReplyDropped
<1>5. CASE \E o \in Object : Unlink(p, o) \/ SkipUnlink(p, o)
  <2>1. UNCHANGED <<todo, reply, pc>>
    BY <1>5 DEF Unlink, SkipUnlink
  <2> QED
    BY <1>1, <2>1 DEF NoNewReply, Deletion, RepliesFit
<1>6. CASE Timeout(p)
  <2>1. UNCHANGED <<todo, pc>> /\ pc[p] = "sent" /\ reply' = [reply EXCEPT ![p] = "error"]
    BY <1>6 DEF Timeout
  <2> QED
    BY <1>1, <2>1 DEF NoNewReply, Deletion, RepliesFit, TypeInv, LocalsOK
<1> QED
  BY <1>2, <1>3, <1>4, <1>5, <1>6 DEF Proceed

(* What the store does and what befalls it from elsewhere. *)
LEMMA OtherReplies ==
    ASSUME TypeInv, Deletion,
           \/ \E v \in Rev : \/ EnqueueDeletion(v) \/ ExternalDelete(v)
                             \/ ExpireAbandoned(v) \/ Stall(v)
           \/ \E m \in wire : StoreFails(m)
           \/ \E o \in Object : Damage(o)
           \/ UNCHANGED vars
    PROVE  NoNewReply /\ NothingRevived /\ NothingAcked
<1>1. NothingRevived
  BY DEF EnqueueDeletion, ExternalDelete, ExpireAbandoned, Stall, StoreFails, Damage,
         store, vars, NothingRevived, Deletion, StoreApart
<1>2. NothingAcked
  BY DEF EnqueueDeletion, ExternalDelete, ExpireAbandoned, Stall, StoreFails, Answer,
         Damage, vars, NothingAcked, TypeInv, SharedOK
<1>3. CASE \/ \E v \in Rev : \/ EnqueueDeletion(v) \/ ExternalDelete(v)
                             \/ ExpireAbandoned(v) \/ Stall(v)
           \/ \E o \in Object : Damage(o)
           \/ UNCHANGED vars
  <2>1. UNCHANGED <<todo, reply, pc>>
    BY <1>3 DEF EnqueueDeletion, ExternalDelete, ExpireAbandoned, Stall, Damage, vars, locals
  <2> QED
    BY <1>1, <1>2, <2>1 DEF NoNewReply, Deletion, RepliesFit
<1>4. CASE \E m \in wire : StoreFails(m)
  <2>1. PICK m \in wire : Answer(m, "error")
    BY <1>4 DEF StoreFails
  <2>2. NoNewReply
    BY <2>1 DEF Answer, Awaits, NoNewReply, Deletion, RepliesFit
  <2> QED
    BY <1>1, <1>2, <2>2
<1> QED
  BY <1>3, <1>4

(* Only a recorded result marks a deletion as acknowledged. *)
LEMMA AckedByRecordOnly ==
    ASSUME TypeInv, NEW p \in Proc,
           \/ \E r \in Capture : BeginEnqueue(p, r)
           \/ BeginDrain(p) \/ Proceed(p)
           \/ PutOff(p) \/ Timeout(p) \/ Crash(p) \/ StorageError(p)
           \/ \E o \in Object : SkipUnlink(p, o)
    PROVE  NothingAcked \/ Record(p)
  BY DEF BeginEnqueue, BeginDrain, Proceed, CommitEnqueue, SelectUploads, Prepare,
         SetAside, GrantLease, SkipBusy, CheckTombstone, Renew, Send, Fenced,
         Release, Backfill, SelectErasable, CommitErasures, Unlink, PutOff,
         Timeout, Crash, StorageError, SkipUnlink, NothingAcked

LEMMA RecordDeletion ==
    ASSUME TypeInv, Deletion, NEW p \in Proc, Record(p)
    PROVE  Deletion'
<1>1. NoNewReply /\ UNCHANGED <<store, reply, todo>>
  BY ProcessReplies DEF Proceed, Record
<1>2. /\ Job(p).rev \in Rev /\ Job(p).kind \in {"upload", "delete"}
      /\ reply[p] \in {"none", "ok", "gone", "error"}
  BY AtWork DEF Record, JobSteps, LeaseSteps, TypeInv, LocalsOK
<1>3. AckedIsGone'
  <2>1. CASE \/ Job(p).kind = "delete" /\ reply[p] = "ok"
             \/ Job(p).kind = "upload" /\ reply[p] = "gone"
    <3>1. Job(p).rev \in gone
      BY <2>1 DEF Deletion, RepliesTrue
    <3>2. tomb' = [tomb EXCEPT ![Job(p).rev] = "acked"]
      BY <2>1 DEF Record
    <3> QED
      BY <1>1, <1>2, <3>1, <3>2 DEF Deletion, AckedIsGone, TypeInv, SharedOK, store
  <2>2. CASE ~ \/ Job(p).kind = "delete" /\ reply[p] = "ok"
               \/ Job(p).kind = "upload" /\ reply[p] = "gone"
    <3>1. tomb' = tomb
      BY <2>2 DEF Record
    <3> QED
      BY <1>1, <3>1 DEF Deletion, AckedIsGone, store
  <2> QED
    BY <2>1, <2>2
<1>4. \A q \in Proc : Job(q)' = Job(q)
  BY <1>1 DEF Job
<1>5. StoreApart' /\ RepliesTrue' /\ RepliesFit'
  BY <1>1, <1>4 DEF Deletion, StoreApart, RepliesTrue, RepliesFit, NoNewReply, store
<1> QED
  BY <1>3, <1>5 DEF Deletion

(* A request is answered to the process that waits for it, and fencing sees *)
(* to it that the request is of the kind that process is doing.             *)
LEMMA AnswerDeletion ==
    ASSUME TypeInv, Fencing, Deletion, NEW m \in wire,
           StoreUpload(m) \/ StoreDelete(m)
    PROVE  Deletion'
<1>1. PICK what \in {"ok", "gone"} :
         /\ Answer(m, what)
         /\ m.kind = "delete" \/ what = "gone" => m.rev \in gone'
         /\ m.kind = "upload" \/ what = "ok"
  BY DEF StoreUpload, StoreDelete
<1>2. /\ UNCHANGED <<tomb, pc, todo, token>>
      /\ reply' = [q \in Proc |-> IF Awaits(q, m) THEN what ELSE reply[q]]
  BY <1>1 DEF Answer
<1>3. m.kind \in {"upload", "delete"} /\ m.rev \in Rev
  BY DEF TypeInv, SharedOK, Request
<1>4. NothingRevived
  BY DEF StoreUpload, StoreDelete, NothingRevived, Deletion, StoreApart
<1>5. StoreApart' /\ AckedIsGone'
  BY <1>2, <1>4 DEF Deletion, StoreApart, AckedIsGone, NothingRevived
<1>6. RepliesFit'
  BY <1>2 DEF Deletion, RepliesFit, Awaits
<1>7. ASSUME NEW q \in Proc,
             reply'[q] = "gone" \/ (reply'[q] = "ok" /\ Job(q)'.kind = "delete")
      PROVE  Job(q)'.rev \in gone'
  <2>1. Job(q)' = Job(q)
    BY <1>2 DEF Job
  <2>2. CASE Awaits(q, m)
    <3>1. reply'[q] = what /\ Job(q).rev = m.rev /\ token[q] = m.token /\ pc[q] = "sent"
      BY <1>2, <2>2 DEF Awaits
    <3>2. token[q] > 0
      BY <3>1 DEF TypeInv, JobsFit, Fits, LeaseSteps
    <3>3. Job(q).kind = m.kind
      BY <3>1, <3>2 DEF Fencing, RequestsMatchGrants
    <3> QED
      BY <1>1, <1>7, <2>1, <3>1, <3>3
  <2>3. CASE ~Awaits(q, m)
    BY <1>2, <1>4, <1>7, <2>1, <2>3 DEF Deletion, RepliesTrue, NothingRevived
  <2> QED
    BY <2>2, <2>3
<1>8. RepliesTrue'
  BY <1>7 DEF RepliesTrue
<1> QED
  BY <1>5, <1>6, <1>8 DEF Deletion

LEMMA InitDeletion == Init => Deletion
  BY DEF Init, Deletion, StoreApart, AckedIsGone, RepliesTrue, RepliesFit

LEMMA NextDeletion == TypeInv /\ Fencing /\ Deletion /\ [Next]_vars => Deletion'
<1> SUFFICES ASSUME TypeInv, Fencing, Deletion, [Next]_vars PROVE Deletion'
  OBVIOUS
<1>1. ASSUME NEW p \in Proc,
             \/ \E r \in Capture : BeginEnqueue(p, r)
             \/ BeginDrain(p) \/ Proceed(p)
             \/ PutOff(p) \/ Timeout(p) \/ Crash(p) \/ StorageError(p)
             \/ \E o \in Object : SkipUnlink(p, o)
      PROVE  Deletion'
  <2>1. NoNewReply /\ NothingRevived
    BY <1>1, ProcessReplies
  <2>2. NothingAcked \/ Record(p)
    BY <1>1, AckedByRecordOnly
  <2> QED
    BY <2>1, <2>2, QuietDeletion, RecordDeletion
<1>2. ASSUME \/ \E v \in Rev : \/ EnqueueDeletion(v) \/ ExternalDelete(v)
                               \/ ExpireAbandoned(v) \/ Stall(v)
             \/ \E m \in wire : StoreFails(m)
             \/ \E o \in Object : Damage(o)
             \/ UNCHANGED vars
      PROVE  Deletion'
  BY <1>2, OtherReplies, QuietDeletion
<1>3. ASSUME NEW v \in Rev, StoreAnswers(v) PROVE Deletion'
  BY <1>3, AnswerDeletion DEF StoreAnswers
<1>4. \A v \in DeletionRequests \cup ExternalDeletions : v \in Rev
  BY CaptureAssumption
<1> QED
  BY <1>1, <1>2, <1>3, <1>4 DEF Next, Troubles

LEMMA DeletionAlways == Spec => []Deletion
<1>1. Init => TypeInv /\ Fencing /\ Deletion
  BY InitTypeInv, InitFencing, InitDeletion
<1>2. TypeInv /\ Fencing /\ Deletion /\ [Next]_vars => (TypeInv /\ Fencing /\ Deletion)'
  BY NextTypeInv, NextFencing, NextDeletion
<1> QED
  BY <1>1, <1>2, PTL DEF Spec

(* An acknowledged deletion is final: the store has its tombstone and never *)
(* serves the revision again, whatever the processes do late or twice.      *)
THEOREM AcknowledgedDeletionIsFinal == Spec => []AcknowledgedDeletionHolds
<1>1. Deletion => AcknowledgedDeletionHolds
  BY DEF Deletion, StoreApart, AckedIsGone, AcknowledgedDeletionHolds
<1> QED
  BY <1>1, DeletionAlways, PTL

-----------------------------------------------------------------------------
(* What the steps of the contract rest on *)

(* An upload is of a row that is there, unless it is being enqueued; a      *)
(* deletion is of a revision whose deletion was requested.                  *)
JobsFounded ==
    \A p \in Proc : \A i \in DOMAIN todo[p] :
        LET job == todo[p][i] IN
        /\ job.kind = "upload" => job.row \in Queued \/ pc[p] = "publish"
        /\ job.kind = "delete" => tomb[job.rev] # "none"

RequestsFounded ==
    \A m \in wire :
        /\ m.kind = "upload" => \E r \in Queued : RevOf(r) = m.rev
        /\ m.kind = "delete" => tomb[m.rev] # "none"

(* The write lock covers an enqueue from its check to its commit, and the   *)
(* erasing of objects from their selection to the commit.                   *)
Locked == \A p \in Proc : pc[p] \in {"publish", "erase"} => writer = p

Publishing == \A p \in Proc : pc[p] = "publish" => tomb[Job(p).rev] = "none"

Dispensable(o) ==
    \A r \in RowsOf(o) : r \in delivered \/ r \in quarantined \/ Tombstoned(r)

Erasing ==
    \A p \in Proc :
        IF pc[p] = "erase" THEN \A o \in batch[p] \cup unlinked[p] : Dispensable(o)
                           ELSE unlinked[p] = {}

(* A process that was told its upload is stored was told the truth. *)
ReceiptsTrue ==
    \A p \in Proc :
        reply[p] = "ok" /\ Job(p).kind = "upload" => Job(p).rev \in held \cup gone

Founded ==
    /\ JobsFounded /\ RequestsFounded
    /\ Locked /\ Publishing /\ Erasing
    /\ ReceiptsTrue

-----------------------------------------------------------------------------
(* How a step can change what these rest on *)

(* Nothing that was accepted, delivered, set aside, requested or stored is  *)
(* forgotten.                                                               *)
Growing ==
    /\ Queued \subseteq Queued'
    /\ delivered \subseteq delivered' /\ quarantined \subseteq quarantined'
    /\ \A v \in Rev : tomb[v] # "none" => tomb'[v] # "none"
    /\ held \cup gone \subseteq (held \cup gone)'

LEMMA CommitEnqueueRows ==
    ASSUME TypeInv, NEW p \in Proc, CommitEnqueue(p)
    PROVE  /\ Job(p).row \in Capture
           /\ Queued' = Queued \cup {Job(p).row}
<1>1. Job(p).row \in Capture
  BY AtWork DEF CommitEnqueue, JobSteps
<1>2. Cardinality(Queued) + 1 \in Nat /\ Cardinality(Queued) + 1 > 0
  BY FiniteData, FS_Subset, FS_CardinalityType DEF Queued
<1>3. CASE Job(p).row \in Queued
  BY <1>1, <1>3 DEF CommitEnqueue, Queued
<1>4. CASE Job(p).row \notin Queued
  <2>1. seq' = [seq EXCEPT ![Job(p).row] = Cardinality(Queued) + 1]
    BY <1>4 DEF CommitEnqueue
  <2> DEFINE n == Cardinality(Queued) + 1
  <2>2. seq' = [seq EXCEPT ![Job(p).row] = n] /\ n \in Nat /\ n > 0
    BY <2>1, <1>2
  <2> HIDE DEF n
  <2> QED
    BY <1>1, <2>2 DEF Queued, TypeInv, SharedOK
<1> QED
  BY <1>1, <1>3, <1>4

LEMMA ProcessGrowing ==
    ASSUME TypeInv, NEW p \in Proc,
           \/ \E r \in Capture : BeginEnqueue(p, r)
           \/ BeginDrain(p) \/ Proceed(p)
           \/ PutOff(p) \/ Timeout(p) \/ Crash(p) \/ StorageError(p)
           \/ \E o \in Object : SkipUnlink(p, o)
    PROVE  Growing /\ (seq' = seq \/ CommitEnqueue(p))
<1>1. CASE CommitEnqueue(p)
  BY <1>1, CommitEnqueueRows DEF CommitEnqueue, Growing, store
<1>2. CASE Record(p)
  BY <1>2 DEF Record, Growing, store, Queued, TypeInv, SharedOK
<1>3. CASE Backfill(p)
  <2>1. quarantined \subseteq quarantined'
    BY <1>3 DEF Backfill
  <2> QED
    BY <1>3, <2>1 DEF Backfill, Growing, store, Queued
<1>4. CASE ~ (CommitEnqueue(p) \/ Record(p) \/ Backfill(p))
  BY <1>4 DEF BeginEnqueue, BeginDrain, Proceed, SelectUploads, Prepare, SetAside,
              GrantLease, SkipBusy, CheckTombstone, Renew, Send, Fenced, Release,
              SelectErasable, CommitErasures, Unlink, PutOff, Timeout, Crash,
              StorageError, SkipUnlink, rows, store, Growing, Queued
<1> QED
  BY <1>1, <1>2, <1>3, <1>4 DEF Backfill, Record

LEMMA OtherGrowing ==
    ASSUME TypeInv,
           \/ \E v \in Rev : \/ EnqueueDeletion(v) \/ ExternalDelete(v)
                             \/ StoreAnswers(v) \/ ExpireAbandoned(v) \/ Stall(v)
           \/ \E m \in wire : StoreFails(m)
           \/ \E o \in Object : Damage(o)
           \/ UNCHANGED vars
    PROVE  Growing /\ seq' = seq
<1>1. seq' = seq /\ UNCHANGED <<delivered, quarantined>>
  BY DEF EnqueueDeletion, ExternalDelete, StoreAnswers, StoreUpload, StoreDelete,
         StoreFails, Answer, ExpireAbandoned, Stall, Damage, vars, rows
<1>2. \A v \in Rev : tomb[v] # "none" => tomb'[v] # "none"
  BY DEF EnqueueDeletion, ExternalDelete, StoreAnswers, StoreUpload, StoreDelete,
         StoreFails, Answer, ExpireAbandoned, Stall, Damage, vars, TypeInv, SharedOK
<1>3. held \cup gone \subseteq (held \cup gone)'
  BY DEF EnqueueDeletion, ExternalDelete, StoreAnswers, StoreUpload, StoreDelete,
         StoreFails, ExpireAbandoned, Stall, Damage, vars, store
<1> QED
  BY <1>1, <1>2, <1>3 DEF Growing, Queued

(* The steps of Next, by who takes them. *)
ProcessStep(p) ==
    \/ \E r \in Capture : BeginEnqueue(p, r)
    \/ BeginDrain(p) \/ Proceed(p)
    \/ PutOff(p) \/ Timeout(p) \/ Crash(p) \/ StorageError(p)
    \/ \E o \in Object : SkipUnlink(p, o)

OtherStep ==
    \/ \E v \in Rev : \/ EnqueueDeletion(v) \/ ExternalDelete(v)
                      \/ StoreAnswers(v) \/ ExpireAbandoned(v) \/ Stall(v)
    \/ \E m \in wire : StoreFails(m)
    \/ \E o \in Object : Damage(o)
    \/ UNCHANGED vars

LEMMA StepsByActor == [Next]_vars => (\E p \in Proc : ProcessStep(p)) \/ OtherStep
<1>1. \A v \in DeletionRequests \cup ExternalDeletions : v \in Rev
  BY CaptureAssumption
<1> QED
  BY <1>1 DEF Next, Troubles, ProcessStep, OtherStep

LEMMA AlwaysGrowing ==
    ASSUME TypeInv, [Next]_vars
    PROVE  Growing
  BY StepsByActor, ProcessGrowing, OtherGrowing DEF ProcessStep, OtherStep

(* The lists of jobs: a step of p touches p's list only, and takes it from  *)
(* its head, empties it or selects a new one.                               *)
Selecting(p) == (\E r \in Capture : BeginEnqueue(p, r)) \/ BeginDrain(p) \/ SelectUploads(p)

LEMMA JobListSteps ==
    ASSUME TypeInv, NEW p \in Proc, ProcessStep(p)
    PROVE  \/ Selecting(p)
           \/ NextJob(p) /\ pc[p] # "publish" /\ todo[p] # <<>>
           \/ Stop(p)
           \/ /\ todo' = todo
              /\ \A q \in Proc : pc'[q] = pc[q] \/ (q = p /\ {pc[q], pc'[q]} \cap {"publish"} = {})
<1>1. CASE \/ SetAside(p) \/ PutOff(p) \/ SkipBusy(p) \/ Fenced(p) \/ Release(p)
  <2>1. NextJob(p) /\ pc[p] # "publish"
    BY <1>1 DEF SetAside, PutOff, SkipBusy, WantsLease, Fenced, Release
  <2>2. todo[p] # <<>>
    BY <1>1, AtWork DEF SetAside, PutOff, SkipBusy, WantsLease, Fenced, Release,
                        JobSteps, LeaseSteps
  <2> QED
    BY <2>1, <2>2
<1>2. CASE CommitEnqueue(p) \/ CommitErasures(p) \/ Crash(p) \/ StorageError(p)
  BY <1>2 DEF CommitEnqueue, CommitErasures, Crash, StorageError
<1>3. CASE (\E o \in Object : Unlink(p, o) \/ SkipUnlink(p, o)) \/ Timeout(p)
  BY <1>3 DEF Unlink, SkipUnlink, Timeout
<1>4. CASE \/ Prepare(p) \/ GrantLease(p) \/ CheckTombstone(p) \/ Renew(p) \/ Send(p)
           \/ Record(p) \/ Backfill(p) \/ SelectErasable(p)
  <2>1. todo' = todo
    BY <1>4 DEF Prepare, GrantLease, CheckTombstone, Renew, Send, Record, Backfill,
                SelectErasable
  <2>2. pc[p] # "publish" /\ \E step \in Steps : step # "publish" /\ Goto(p, step)
    <3>1. CASE Prepare(p) \/ Renew(p) \/ Send(p) \/ Record(p) \/ Backfill(p) \/ SelectErasable(p)
      BY <3>1 DEF Prepare, Renew, Send, Record, Backfill, SelectErasable, Steps
    <3>2. CASE GrantLease(p) \/ CheckTombstone(p)
      BY <3>2 DEF GrantLease, WantsLease, CheckTombstone, Steps
    <3> QED
      BY <1>4, <3>1, <3>2
  <2> QED
    BY <2>1, <2>2 DEF Goto, TypeInv, LocalsOK
<1> QED
  BY <1>1, <1>2, <1>3, <1>4 DEF ProcessStep, Proceed, Selecting

LEMMA OtherLocals ==
    ASSUME OtherStep
    PROVE  UNCHANGED <<pc, todo, token, writer, batch, unlinked>>
  BY DEF OtherStep, EnqueueDeletion, ExternalDelete, StoreAnswers, StoreUpload,
         StoreDelete, StoreFails, Answer, ExpireAbandoned, Stall, Damage, vars, locals

(* The jobs of q are as well founded after a step that adds none to them. *)
LEMMA OldJobsFounded ==
    ASSUME TypeInv, Growing, JobsFounded, NEW q \in Proc,
           \A i \in DOMAIN todo'[q] : \E k \in DOMAIN todo[q] : todo'[q][i] = todo[q][k],
           pc[q] = "publish" => pc'[q] = "publish" \/ todo'[q] = <<>>
    PROVE  \A i \in DOMAIN todo'[q] :
              /\ todo'[q][i].kind = "upload" =>
                    todo'[q][i].row \in Queued' \/ pc'[q] = "publish"
              /\ todo'[q][i].kind = "delete" => tomb'[todo'[q][i].rev] # "none"
<1> SUFFICES ASSUME NEW i \in DOMAIN todo'[q]
             PROVE  /\ todo'[q][i].kind = "upload" =>
                          todo'[q][i].row \in Queued' \/ pc'[q] = "publish"
                    /\ todo'[q][i].kind = "delete" => tomb'[todo'[q][i].rev] # "none"
  OBVIOUS
<1>1. PICK k \in DOMAIN todo[q] : todo'[q][i] = todo[q][k]
  OBVIOUS
<1>2. todo[q][k] \in Jobs
  BY DEF TypeInv, LocalsOK
<1>3. todo'[q] # <<>>
  OBVIOUS
<1> QED
  BY <1>1, <1>2, <1>3, JobFacts DEF Growing, JobsFounded

LEMMA SelectingJobs ==
    ASSUME TypeInv, NEW p \in Proc, Selecting(p)
    PROVE  /\ \A q \in Proc : q # p => todo'[q] = todo[q] /\ pc'[q] = pc[q]
           /\ \A i \in DOMAIN todo'[p] :
                 /\ todo'[p][i].kind = "upload" =>
                       todo'[p][i].row \in Queued \/ pc'[p] = "publish"
                 /\ todo'[p][i].kind = "delete" => tomb[todo'[p][i].rev] # "none"
<1>1. \A q \in Proc : q # p => todo'[q] = todo[q] /\ pc'[q] = pc[q]
  BY DEF Selecting, BeginEnqueue, BeginDrain, SelectUploads, Goto, TypeInv, LocalsOK
<1>2. CASE \E r \in Capture : BeginEnqueue(p, r)
  <2>1. PICK r \in Capture : todo'[p] = <<UploadJob(r)>>
    BY <1>2 DEF BeginEnqueue, TypeInv, LocalsOK
  <2>2. pc'[p] = "publish"
    BY <1>2 DEF BeginEnqueue, Goto, TypeInv, LocalsOK
  <2> QED
    BY <1>1, <2>1, <2>2 DEF UploadJob
<1>3. CASE BeginDrain(p)
  <2> DEFINE S == {v \in Rev : tomb[v] = "queued"}
  <2>1. PICK q \in [1 .. LowerOf(Limit, Cardinality(S)) -> S] :
           todo' = [todo EXCEPT ![p] = [i \in DOMAIN q |-> DeleteJob(q[i])]]
    BY <1>3 DEF BeginDrain, FirstOf
  <2>2. todo'[p] = [i \in DOMAIN q |-> DeleteJob(q[i])]
    BY <2>1 DEF TypeInv, LocalsOK
  <2>3. \A i \in DOMAIN q : DeleteJob(q[i]).kind = "delete" /\ tomb[DeleteJob(q[i]).rev] # "none"
    BY DEF DeleteJob
  <2> QED
    BY <1>1, <2>2, <2>3
<1>4. CASE SelectUploads(p)
  <2>1. PICK q \in [1 .. LowerOf(room[p], Cardinality(Pending)) -> Pending] :
           todo' = [todo EXCEPT ![p] = [i \in DOMAIN q |-> UploadJob(q[i])]]
    BY <1>4 DEF SelectUploads, FirstOf
  <2>2. todo'[p] = [i \in DOMAIN q |-> UploadJob(q[i])]
    BY <2>1 DEF TypeInv, LocalsOK
  <2>3. \A i \in DOMAIN q : UploadJob(q[i]).kind = "upload" /\ UploadJob(q[i]).row \in Queued
    BY DEF UploadJob, Pending
  <2> QED
    BY <1>1, <2>2, <2>3
<1> QED
  BY <1>2, <1>3, <1>4 DEF Selecting

LEMMA NextJobsFounded ==
    ASSUME TypeInv, Growing, JobsFounded, [Next]_vars
    PROVE  JobsFounded'
<1> SUFFICES ASSUME NEW q \in Proc
             PROVE  \A i \in DOMAIN todo'[q] :
                       /\ todo'[q][i].kind = "upload" =>
                             todo'[q][i].row \in Queued' \/ pc'[q] = "publish"
                       /\ todo'[q][i].kind = "delete" => tomb'[todo'[q][i].rev] # "none"
  BY DEF JobsFounded
<1>1. CASE todo'[q] = todo[q] /\ (pc[q] = "publish" => pc'[q] = "publish")
  BY <1>1, OldJobsFounded
<1>2. CASE OtherStep
  BY <1>1, <1>2, OtherLocals
<1>3. ASSUME NEW p \in Proc, ProcessStep(p)
      PROVE  \A i \in DOMAIN todo'[q] :
                /\ todo'[q][i].kind = "upload" =>
                      todo'[q][i].row \in Queued' \/ pc'[q] = "publish"
                /\ todo'[q][i].kind = "delete" => tomb'[todo'[q][i].rev] # "none"
  <2>1. CASE Selecting(p)
    <3>1. CASE q = p
      <4>1. \A i \in DOMAIN todo'[p] : todo'[p][i] \in Jobs
        BY NextTypeInv DEF TypeInv, LocalsOK
      <4> QED
        BY <2>1, <3>1, <4>1, SelectingJobs, JobFacts DEF Growing
    <3> QED
      BY <1>1, <2>1, <3>1, SelectingJobs
  <2>2. CASE NextJob(p) /\ pc[p] # "publish" /\ todo[p] # <<>>
    <3>1. CASE q = p
      <4>1. todo'[p] = Tail(todo[p])
        BY <2>2 DEF NextJob, TypeInv, LocalsOK
      <4>2. \A i \in DOMAIN todo'[p] : \E k \in DOMAIN todo[p] : todo'[p][i] = todo[p][k]
        BY <2>2, <4>1, CurrentJob DEF TypeInv
      <4> QED
        BY <2>2, <3>1, <4>2, OldJobsFounded
    <3> QED
      BY <1>1, <2>2, <3>1 DEF NextJob, Goto, TypeInv, LocalsOK
  <2>3. CASE Stop(p)
    <3>1. CASE q = p
      BY <2>3, <3>1 DEF Stop, TypeInv, LocalsOK
    <3> QED
      BY <1>1, <2>3, <3>1 DEF Stop, Goto, TypeInv, LocalsOK
  <2> QED
    BY <1>1, <1>3, <2>1, <2>2, <2>3, JobListSteps
<1> QED
  BY <1>2, <1>3, StepsByActor

LEMMA NextRequestsFounded ==
    ASSUME TypeInv, Growing, JobsFounded, RequestsFounded, [Next]_vars
    PROVE  RequestsFounded'
<1>1. \A m \in wire : m.rev \in Rev
  BY DEF TypeInv, SharedOK, Request
<1>2. CASE wire' \subseteq wire
  BY <1>1, <1>2 DEF RequestsFounded, Growing
<1>3. ASSUME NEW p \in Proc, Send(p) PROVE RequestsFounded'
  <2> DEFINE m == [kind |-> Job(p).kind, rev |-> Job(p).rev, token |-> token[p]]
  <2>1. todo[p] # <<>> /\ pc[p] # "publish" /\ wire' = wire \cup {m} /\ UNCHANGED <<seq, tomb>>
    BY <1>3, AtWork DEF Send, JobSteps, LeaseSteps, rows
  <2>2. Job(p) \in Jobs /\ Job(p) = todo[p][1] /\ 1 \in DOMAIN todo[p]
    BY <2>1, CurrentJob DEF TypeInv
  <2>3. /\ Job(p).kind = "upload" => Job(p).row \in Queued /\ Job(p).rev = RevOf(Job(p).row)
        /\ Job(p).kind = "delete" => tomb[Job(p).rev] # "none"
    BY <2>1, <2>2, JobFacts DEF JobsFounded
  <2>4. Queued' = Queued
    BY <2>1 DEF Queued
  <2>5. /\ m.kind = "upload" => \E r \in Queued : RevOf(r) = m.rev
        /\ m.kind = "delete" => tomb[m.rev] # "none"
    BY <2>3
  <2> HIDE DEF m
  <2> QED
    BY <2>1, <2>4, <2>5 DEF RequestsFounded
<1> QED
  BY <1>2, <1>3, QuietOrNot DEF NothingSent, GrantLease, Record

(* The write lock: a step of p leaves it alone, takes it, or gives it back. *)
LEMMA LockSteps ==
    ASSUME TypeInv, Locked, NEW p \in Proc, ProcessStep(p)
    PROVE  \/ /\ writer' = writer
              /\ \A q \in Proc : pc'[q] \in {"publish", "erase"} => pc'[q] = pc[q]
           \/ writer = None /\ writer' = p /\ \A q \in Proc : q # p => pc'[q] = pc[q]
           \/ Stop(p) /\ writer' = IF writer = p THEN None ELSE writer
<1>1. CASE CommitEnqueue(p) \/ CommitErasures(p) \/ Crash(p) \/ StorageError(p)
  BY <1>1 DEF CommitEnqueue, CommitErasures, Crash, StorageError, Locked
<1>2. CASE (\E r \in Capture : BeginEnqueue(p, r)) \/ SelectErasable(p)
  BY <1>2 DEF BeginEnqueue, SelectErasable, Goto, TypeInv, LocalsOK
<1>3. CASE \/ SetAside(p) \/ PutOff(p) \/ SkipBusy(p) \/ Fenced(p) \/ Release(p)
  <2>1. NextJob(p) /\ writer' = writer
    BY <1>3 DEF SetAside, PutOff, SkipBusy, Fenced, Release
  <2> QED
    BY <2>1 DEF NextJob, Goto, TypeInv, LocalsOK
<1>4. CASE (\E o \in Object : Unlink(p, o) \/ SkipUnlink(p, o)) \/ Timeout(p)
  BY <1>4 DEF Unlink, SkipUnlink, Timeout
<1>5. CASE \/ BeginDrain(p) \/ SelectUploads(p)
           \/ Prepare(p) \/ GrantLease(p) \/ CheckTombstone(p) \/ Renew(p) \/ Send(p)
           \/ Record(p) \/ Backfill(p)
  <2>1. writer' = writer
    BY <1>5 DEF BeginDrain, SelectUploads, Prepare, GrantLease, CheckTombstone, Renew,
                Send, Record, Backfill
  <2>2. \E step \in Steps \ {"publish", "erase"} : Goto(p, step)
    <3>1. CASE \/ BeginDrain(p) \/ SelectUploads(p) \/ Prepare(p) \/ Renew(p) \/ Send(p)
               \/ Record(p) \/ Backfill(p)
      BY <3>1 DEF BeginDrain, SelectUploads, Prepare, Renew, Send, Record, Backfill, Steps
    <3>2. CASE GrantLease(p) \/ CheckTombstone(p)
      BY <3>2 DEF GrantLease, WantsLease, CheckTombstone, Steps
    <3> QED
      BY <1>5, <3>1, <3>2
  <2> QED
    BY <2>1, <2>2 DEF Goto, TypeInv, LocalsOK
<1> QED
  BY <1>1, <1>2, <1>3, <1>4, <1>5 DEF ProcessStep, Proceed

LEMMA NextLocked == TypeInv /\ Locked /\ [Next]_vars => Locked'
<1> SUFFICES ASSUME TypeInv, Locked, [Next]_vars PROVE Locked'
  OBVIOUS
<1>1. ASSUME NEW p \in Proc, ProcessStep(p) PROVE Locked'
  <2>1. CASE /\ writer' = writer
             /\ \A q \in Proc : pc'[q] \in {"publish", "erase"} => pc'[q] = pc[q]
    BY <2>1 DEF Locked
  <2>2. CASE writer = None /\ writer' = p /\ \A q \in Proc : q # p => pc'[q] = pc[q]
    BY <2>2, CaptureAssumption DEF Locked
  <2>3. CASE Stop(p) /\ writer' = IF writer = p THEN None ELSE writer
    BY <2>3, CaptureAssumption DEF Locked, Stop, Goto, TypeInv, LocalsOK
  <2> QED
    BY <1>1, <2>1, <2>2, <2>3, LockSteps
<1>2. CASE OtherStep
  BY <1>2, OtherLocals DEF Locked
<1> QED
  BY <1>1, <1>2, StepsByActor

(* A tombstone is written only by one who can take the write lock. *)
LEMMA TombstonesUnderLock == [Next]_vars => tomb' = tomb \/ writer = None
  BY DEF Next, Proceed, Troubles, StoreAnswers, BeginEnqueue, EnqueueDeletion,
         ExternalDelete, BeginDrain, CommitEnqueue, SelectUploads, Prepare, SetAside,
         GrantLease, SkipBusy, CheckTombstone, Renew, Send, Record, Fenced, Release,
         Backfill, SelectErasable, CommitErasures, Unlink, StoreUpload, StoreDelete,
         Answer, ExpireAbandoned, PutOff, Timeout, Crash, StorageError, SkipUnlink,
         StoreFails, Stall, Damage, vars

(* Who is publishing after a step was publishing the same, or has begun to. *)
LEMMA PublishChanges ==
    ASSUME TypeInv, [Next]_vars, NEW q \in Proc, pc'[q] = "publish"
    PROVE  \/ pc[q] = "publish" /\ todo'[q] = todo[q]
           \/ \E r \in Capture : BeginEnqueue(q, r)
<1>1. ASSUME NEW p \in Proc, ProcessStep(p)
      PROVE  (pc[q] = "publish" /\ todo'[q] = todo[q]) \/ \E r \in Capture : BeginEnqueue(q, r)
  <2>1. CASE Selecting(p)
    <3>1. q # p => todo'[q] = todo[q] /\ pc'[q] = pc[q]
      BY <2>1, SelectingJobs
    <3>2. BeginDrain(p) \/ SelectUploads(p) => pc'[p] # "publish"
      BY DEF BeginDrain, SelectUploads, Goto, TypeInv, LocalsOK
    <3> QED
      BY <2>1, <3>1, <3>2 DEF Selecting
  <2>2. CASE NextJob(p) \/ Stop(p)
    BY <2>2 DEF NextJob, Stop, Goto, TypeInv, LocalsOK
  <2> QED
    BY <1>1, <2>1, <2>2, JobListSteps
<1> QED
  BY <1>1, StepsByActor, OtherLocals

LEMMA NextPublishing ==
    TypeInv /\ Locked /\ Publishing /\ [Next]_vars => Publishing'
<1> SUFFICES ASSUME TypeInv, Locked, Publishing, [Next]_vars,
                    NEW q \in Proc, pc'[q] = "publish"
             PROVE  tomb'[Job(q)'.rev] = "none"
  BY DEF Publishing
<1>1. CASE pc[q] = "publish" /\ todo'[q] = todo[q]
  <2>1. writer # None
    BY <1>1, CaptureAssumption DEF Locked
  <2> QED
    BY <1>1, <2>1, TombstonesUnderLock DEF Publishing, Job
<1>2. ASSUME NEW r \in Capture, BeginEnqueue(q, r) PROVE tomb'[Job(q)'.rev] = "none"
  <2>1. todo'[q] = <<UploadJob(r)>> /\ tomb' = tomb /\ ~Tombstoned(r)
    BY <1>2 DEF BeginEnqueue, TypeInv, LocalsOK
  <2>2. Job(q)'.rev = RevOf(r)
    BY <2>1 DEF Job, UploadJob
  <2> QED
    BY <2>1, <2>2 DEF Tombstoned
<1> QED
  BY <1>1, <1>2, PublishChanges

(* Erasing: how a step of p changes what is left to unlink and unlinked. *)
LEMMA EraseSteps ==
    ASSUME TypeInv, NEW p \in Proc, ProcessStep(p)
    PROVE  \/ SelectErasable(p)
           \/ /\ pc' = pc /\ pc[p] = "erase"
              /\ \A q \in Proc : /\ batch'[q] \cup unlinked'[q] \subseteq batch[q] \cup unlinked[q]
                                 /\ q # p => unlinked'[q] = unlinked[q]
           \/ Stop(p)
           \/ /\ UNCHANGED <<batch, unlinked>>
              /\ \A q \in Proc : pc'[q] = "erase" <=> pc[q] = "erase"
<1>1. CASE CommitEnqueue(p) \/ CommitErasures(p) \/ Crash(p) \/ StorageError(p)
  BY <1>1 DEF CommitEnqueue, CommitErasures, Crash, StorageError
<1>2. CASE \E o \in Object : Unlink(p, o) \/ SkipUnlink(p, o)
  BY <1>2 DEF Unlink, SkipUnlink, TypeInv, LocalsOK
<1>3. CASE \/ SetAside(p) \/ PutOff(p) \/ SkipBusy(p) \/ Fenced(p) \/ Release(p)
  <2>1. NextJob(p) /\ pc[p] # "erase"
    BY <1>3 DEF SetAside, PutOff, SkipBusy, WantsLease, Fenced, Release
  <2> QED
    BY <2>1 DEF NextJob, Goto, TypeInv, LocalsOK
<1>4. CASE \/ (\E r \in Capture : BeginEnqueue(p, r))
           \/ BeginDrain(p) \/ SelectUploads(p) \/ Timeout(p)
           \/ Prepare(p) \/ GrantLease(p) \/ CheckTombstone(p) \/ Renew(p) \/ Send(p)
           \/ Record(p) \/ Backfill(p)
  <2>1. UNCHANGED <<batch, unlinked>>
    BY <1>4 DEF BeginEnqueue, BeginDrain, SelectUploads, Timeout, Prepare, GrantLease,
                CheckTombstone, Renew, Send, Record, Backfill
  <2>2. pc' = pc \/ (pc[p] # "erase" /\ \E step \in Steps \ {"erase"} : Goto(p, step))
    <3>1. CASE \/ (\E r \in Capture : BeginEnqueue(p, r))
               \/ BeginDrain(p) \/ SelectUploads(p) \/ Timeout(p)
               \/ Prepare(p) \/ Renew(p) \/ Send(p) \/ Record(p) \/ Backfill(p)
      BY <3>1 DEF BeginEnqueue, BeginDrain, SelectUploads, Timeout, Prepare, Renew, Send,
                  Record, Backfill, Steps
    <3>2. CASE GrantLease(p) \/ CheckTombstone(p)
      BY <3>2 DEF GrantLease, WantsLease, CheckTombstone, Steps
    <3> QED
      BY <1>4, <3>1, <3>2
  <2> QED
    BY <2>1, <2>2 DEF Goto, TypeInv, LocalsOK
<1>5. CASE SelectErasable(p)
  BY <1>5
<1> QED
  BY <1>1, <1>2, <1>3, <1>4, <1>5 DEF ProcessStep, Proceed

LEMMA ErasableDispensable == \A o \in Erasable : Dispensable(o)
  BY DEF Erasable, Dispensable

LEMMA DispensableLasts ==
    ASSUME Growing, TypeInv, seq' = seq, NEW o, Dispensable(o)
    PROVE  Dispensable(o)'
<1>1. ASSUME NEW r \in RowsOf(o)' PROVE r \in delivered' \/ r \in quarantined' \/ Tombstoned(r)'
  <2>1. r \in RowsOf(o) /\ RevOf(r) \in Rev
    BY <1>1, CaptureAssumption DEF RowsOf, Queued, RevOf, Rev
  <2> QED
    BY <2>1 DEF Dispensable, Growing, Tombstoned
<1> QED
  BY <1>1 DEF Dispensable

LEMMA NextErasing ==
    ASSUME TypeInv, Locked, Erasing, Growing, [Next]_vars
    PROVE  Erasing'
<1> SUFFICES ASSUME NEW q \in Proc
             PROVE  IF pc'[q] = "erase"
                    THEN \A o \in batch'[q] \cup unlinked'[q] : Dispensable(o)'
                    ELSE unlinked'[q] = {}
  BY DEF Erasing
<1>1. ASSUME UNCHANGED <<batch, unlinked>>, pc'[q] = "erase" <=> pc[q] = "erase", seq' = seq
      PROVE  IF pc'[q] = "erase"
             THEN \A o \in batch'[q] \cup unlinked'[q] : Dispensable(o)'
             ELSE unlinked'[q] = {}
  BY <1>1, DispensableLasts DEF Erasing
<1>2. CASE OtherStep
  BY <1>1, <1>2, OtherLocals, OtherGrowing DEF OtherStep
<1>3. ASSUME NEW p \in Proc, ProcessStep(p)
      PROVE  IF pc'[q] = "erase"
             THEN \A o \in batch'[q] \cup unlinked'[q] : Dispensable(o)'
             ELSE unlinked'[q] = {}
  <2>1. seq' = seq \/ CommitEnqueue(p)
    BY <1>3, ProcessGrowing DEF ProcessStep
  <2>2. pc[q] = "erase" /\ q # p => seq' = seq
    BY <2>1, CaptureAssumption DEF CommitEnqueue, Locked
  <2>3. CASE SelectErasable(p)
    <3>1. /\ pc[p] # "erase" /\ seq' = seq /\ unlinked' = unlinked /\ batch'[p] \subseteq Erasable
          /\ pc'[p] = "erase"
      BY <2>3 DEF SelectErasable, AnyOf, Goto, TypeInv, LocalsOK, rows
    <3>2. CASE q = p
      BY <3>1, <3>2, ErasableDispensable, DispensableLasts DEF Erasing
    <3>3. CASE q # p
      <4>1. pc'[q] = pc[q] /\ batch'[q] = batch[q]
        BY <2>3, <3>3 DEF SelectErasable, Goto, TypeInv, LocalsOK
      <4> QED
        BY <3>1, <4>1, DispensableLasts DEF Erasing
    <3> QED
      BY <3>2, <3>3
  <2>4. CASE /\ pc' = pc /\ pc[p] = "erase"
             /\ \A r \in Proc : /\ batch'[r] \cup unlinked'[r] \subseteq batch[r] \cup unlinked[r]
                                /\ r # p => unlinked'[r] = unlinked[r]
    <3>1. seq' = seq
      BY <2>1, <2>4 DEF CommitEnqueue
    <3> QED
      BY <2>4, <3>1, DispensableLasts DEF Erasing
  <2>5. CASE Stop(p)
    <3>1. CASE q = p
      BY <2>5, <3>1 DEF Stop, Goto, TypeInv, LocalsOK
    <3>2. CASE q # p
      <4>1. pc'[q] = pc[q] /\ batch'[q] = batch[q] /\ unlinked'[q] = unlinked[q]
        BY <2>5, <3>2 DEF Stop, Goto, TypeInv, LocalsOK
      <4> QED
        BY <2>2, <3>2, <4>1, DispensableLasts DEF Erasing
    <3> QED
      BY <3>1, <3>2
  <2>6. CASE /\ UNCHANGED <<batch, unlinked>>
             /\ \A r \in Proc : pc'[r] = "erase" <=> pc[r] = "erase"
    <3>1. CASE seq' = seq
      BY <1>1, <2>6, <3>1
    <3>2. CASE CommitEnqueue(p)
      <4>1. Stop(p)
        BY <3>2 DEF CommitEnqueue
      <4> QED
        BY <2>5, <4>1
    <3> QED
      BY <2>1, <3>1, <3>2
  <2> QED
    BY <1>3, <2>3, <2>4, <2>5, <2>6, EraseSteps
<1> QED
  BY <1>2, <1>3, StepsByActor

(* Receipts *)

LEMMA QuietReceipts ==
    ASSUME TypeInv, Growing, ReceiptsTrue, NoNewReply
    PROVE  ReceiptsTrue'
<1>1. \A q \in Proc : reply'[q] = "ok" => reply'[q] = reply[q] /\ Job(q)' = Job(q)
  BY DEF NoNewReply, Job
<1> QED
  BY <1>1 DEF ReceiptsTrue, Growing

LEMMA AnswerReceipts ==
    ASSUME TypeInv, Fencing, Growing, ReceiptsTrue, NEW m \in wire,
           StoreUpload(m) \/ StoreDelete(m)
    PROVE  ReceiptsTrue'
<1> SUFFICES ASSUME NEW q \in Proc, reply'[q] = "ok", Job(q)'.kind = "upload"
             PROVE  Job(q)'.rev \in (held \cup gone)'
  BY DEF ReceiptsTrue
<1>1. Job(q)' = Job(q) /\ (Awaits(q, m) \/ reply'[q] = reply[q])
  BY DEF StoreUpload, StoreDelete, Answer, Job
<1>2. CASE Awaits(q, m)
  <2>1. token[q] > 0 /\ Job(q).rev = m.rev /\ token[q] = m.token
    BY <1>2 DEF Awaits, TypeInv, JobsFit, Fits, LeaseSteps
  <2>2. m.kind = "upload"
    BY <1>1, <2>1 DEF Fencing, RequestsMatchGrants
  <2>3. StoreUpload(m)
    BY <2>2 DEF StoreDelete
  <2> QED
    BY <1>1, <2>1, <2>3 DEF StoreUpload
<1>3. CASE reply'[q] = reply[q]
  BY <1>1, <1>3 DEF ReceiptsTrue, Growing
<1> QED
  BY <1>1, <1>2, <1>3

LEMMA NextReceipts ==
    ASSUME TypeInv, Fencing, Deletion, Growing, ReceiptsTrue, [Next]_vars
    PROVE  ReceiptsTrue'
<1>1. CASE \E p \in Proc : ProcessStep(p)
  BY <1>1, ProcessReplies, QuietReceipts DEF ProcessStep
<1>2. CASE OtherStep
  <2>1. CASE \E v \in Rev : StoreAnswers(v)
    BY <2>1, AnswerReceipts DEF StoreAnswers
  <2> QED
    BY <1>2, <2>1, OtherReplies, QuietReceipts DEF OtherStep
<1> QED
  BY <1>1, <1>2, StepsByActor

LEMMA InitFounded == Init => Founded
  BY DEF Init, Founded, JobsFounded, RequestsFounded, Locked, Publishing, Erasing,
         ReceiptsTrue

LEMMA FoundedAlways == Spec => [](TypeInv /\ Fencing /\ Deletion /\ Founded)
<1>1. Init => TypeInv /\ Fencing /\ Deletion /\ Founded
  BY InitTypeInv, InitFencing, InitDeletion, InitFounded
<1>2. TypeInv /\ Fencing /\ Deletion /\ Founded /\ [Next]_vars
         => (TypeInv /\ Fencing /\ Deletion /\ Founded)'
  <2>1. TypeInv /\ Founded /\ Fencing /\ Deletion /\ [Next]_vars => Founded'
    BY AlwaysGrowing, NextJobsFounded, NextRequestsFounded, NextLocked, NextPublishing,
       NextErasing, NextReceipts DEF Founded
  <2> QED
    BY <2>1, NextTypeInv, NextFencing, NextDeletion
<1> QED
  BY <1>1, <1>2, PTL DEF Spec

-----------------------------------------------------------------------------
(* The steps of the contract *)

LEMMA InitMaps == Init => Contract!Init
<1> SUFFICES ASSUME Init PROVE Contract!Init
  OBVIOUS
<1>1. Queued = Legacy
  <2>1. \A r \in Capture : seq[r] \in 0 .. Cardinality(Legacy) /\ (seq[r] = 0 <=> r \notin Legacy)
    BY DEF Init
  <2>2. Legacy \subseteq Capture /\ Cardinality(Legacy) \in Nat
    BY CaptureAssumption, FiniteData, FS_Subset, FS_CardinalityType
  <2>3. \A r \in Capture : seq[r] > 0 <=> r \in Legacy
    BY <2>1, <2>2
  <2> QED
    BY <2>2, <2>3 DEF Queued
<1> QED
  BY <1>1, CaptureAssumption DEF Init, Contract!Init

LEMMA StutterMaps ==
    ASSUME UNCHANGED <<seq, delivered, cancelled, quarantined, tomb, held, gone>>
    PROVE  UNCHANGED Contract!contract
  BY DEF Contract!contract, Queued

(* The current job of a process that is past its selection. *)
LEMMA CurrentJobFounded ==
    ASSUME TypeInv, JobsFounded, NEW p \in Proc, todo[p] # <<>>, pc[p] # "publish"
    PROVE  /\ Job(p).kind \in {"upload", "delete"} /\ Job(p).rev \in Rev
           /\ Job(p).kind = "upload" =>
                 /\ Job(p).row \in Capture /\ Job(p).row \in Queued
                 /\ Job(p).rev = RevOf(Job(p).row)
           /\ Job(p).kind = "delete" => tomb[Job(p).rev] # "none"
  BY CurrentJob, JobFacts DEF TypeInv, JobsFounded

LEMMA CommitEnqueueMaps ==
    ASSUME TypeInv, Publishing, NEW p \in Proc, CommitEnqueue(p)
    PROVE  Contract!Next \/ UNCHANGED Contract!contract
<1>1. Job(p).row \in Capture /\ Queued' = Queued \cup {Job(p).row}
  BY CommitEnqueueRows
<1>2. ~Contract!Deleting(RevOf(Job(p).row))
  <2>1. Job(p).rev = RevOf(Job(p).row) /\ tomb[Job(p).rev] = "none"
    BY AtWork DEF CommitEnqueue, JobSteps, Publishing
  <2> QED
    BY <2>1 DEF Contract!Deleting
<1>3. UNCHANGED <<delivered, cancelled, quarantined, tomb, held, gone>>
  BY DEF CommitEnqueue, store
<1>4. CASE Job(p).row \in Queued
  BY <1>1, <1>3, <1>4 DEF Contract!contract
<1>5. CASE Job(p).row \notin Queued
  BY <1>1, <1>2, <1>3, <1>5 DEF Contract!Next, Contract!Accept
<1> QED
  BY <1>4, <1>5

LEMMA RecordMaps ==
    ASSUME TypeInv, Deletion, JobsFounded, ReceiptsTrue, NEW p \in Proc, Record(p)
    PROVE  Contract!Next \/ UNCHANGED Contract!contract
<1> DEFINE job == Job(p)
<1>1. todo[p] # <<>> /\ pc[p] # "publish"
  BY AtWork DEF Record, JobSteps, LeaseSteps
<1>2. /\ job.kind \in {"upload", "delete"} /\ job.rev \in Rev
      /\ job.kind = "upload" => job.row \in Capture /\ job.row \in Queued /\ job.rev = RevOf(job.row)
      /\ job.kind = "delete" => tomb[job.rev] # "none"
  BY <1>1, CurrentJobFounded
<1>3. UNCHANGED <<seq, quarantined, held, gone>> /\ Queued' = Queued
  BY DEF Record, store, Queued
<1>4. CASE job.kind = "upload" /\ reply[p] = "ok"
  <2>1. delivered' = delivered \cup {job.row} /\ UNCHANGED <<cancelled, tomb>>
    BY <1>4 DEF Record
  <2>2. RevOf(job.row) \in held \cup gone
    BY <1>2, <1>4 DEF ReceiptsTrue
  <2> QED
    BY <1>2, <1>3, <1>4, <2>1, <2>2 DEF Contract!Next, Contract!Deliver
<1>5. CASE job.kind = "upload" /\ reply[p] = "gone"
  <2>1. /\ tomb' = [tomb EXCEPT ![job.rev] = "acked"] /\ delivered' = delivered
        /\ cancelled' = cancelled \cup {job.row}
    BY <1>5 DEF Record
  <2>2. job.rev \in gone
    BY <1>5 DEF Deletion, RepliesTrue
  <2> QED
    BY <1>2, <1>3, <1>5, <2>1, <2>2 DEF Contract!Next, Contract!Withdraw
<1>6. CASE job.kind = "delete" /\ reply[p] = "ok"
  <2>1. tomb' = [tomb EXCEPT ![job.rev] = "acked"] /\ UNCHANGED <<delivered, cancelled>>
    BY <1>6 DEF Record
  <2>2. job.rev \in gone
    BY <1>6 DEF Deletion, RepliesTrue
  <2> QED
    BY <1>2, <1>3, <1>6, <2>1, <2>2 DEF Contract!Next, Contract!Confirm, Contract!Deleting
<1>7. CASE ~ \/ job.kind = "upload" /\ reply[p] \in {"ok", "gone"}
             \/ job.kind = "delete" /\ reply[p] = "ok"
  <2>1. UNCHANGED <<delivered, cancelled, tomb>>
    BY <1>7 DEF Record
  <2> QED
    BY <1>3, <2>1, StutterMaps
<1> QED
  BY <1>4, <1>5, <1>6, <1>7

LEMMA CommitErasuresMaps ==
    ASSUME Erasing, NEW p \in Proc, CommitErasures(p)
    PROVE  Contract!Next
<1> DEFINE given == {r \in Queued : r[2] \in unlinked[p]} \ delivered
<1>1. /\ cancelled' = cancelled \cup given
      /\ UNCHANGED <<seq, delivered, quarantined, tomb, held, gone>>
  BY DEF CommitErasures, store
<1>2. \A r \in given : r \in quarantined \/ Tombstoned(r)
  BY DEF CommitErasures, Erasing, Dispensable, RowsOf
<1>3. given \in SUBSET Capture /\ given \subseteq Queued /\ Queued' = Queued
  BY <1>1 DEF Queued
<1>4. \A r \in given : Contract!Deleting(RevOf(r)) \/ r \in quarantined
  BY <1>2 DEF Tombstoned, Contract!Deleting
<1> HIDE DEF given
<1> QED
  BY <1>1, <1>3, <1>4 DEF Contract!Next, Contract!Drop

LEMMA RowStepMaps ==
    ASSUME TypeInv, JobsFounded, NEW p \in Proc,
           SetAside(p) \/ CheckTombstone(p) \/ Backfill(p)
    PROVE  Contract!Next \/ UNCHANGED Contract!contract
<1>1. CASE Backfill(p)
  <2>1. UNCHANGED <<seq, delivered, cancelled, tomb, held, gone>>
    BY <1>1 DEF Backfill, store
  <2>2. PICK S \in SUBSET Queued : quarantined' = quarantined \cup S
    BY <1>1 DEF Backfill, AnyOf
  <2>3. S \in SUBSET Capture /\ Queued' = Queued
    BY <2>1 DEF Queued
  <2> QED
    BY <2>1, <2>2, <2>3 DEF Contract!Next, Contract!SetAside
<1>2. CASE SetAside(p) \/ CheckTombstone(p)
  <2>1. /\ todo[p] # <<>> /\ pc[p] # "publish" /\ Job(p).kind = "upload"
        /\ seq' = seq /\ Queued' = Queued
    BY <1>2, AtWork DEF SetAside, CheckTombstone, JobSteps, LeaseSteps, Queued
  <2>2. {Job(p).row} \in SUBSET Capture /\ {Job(p).row} \subseteq Queued
    BY <2>1, CurrentJobFounded
  <2>3. CASE SetAside(p)
    <3>1. /\ quarantined' = quarantined \cup {Job(p).row}
          /\ UNCHANGED <<delivered, cancelled, tomb, held, gone>>
      BY <2>3 DEF SetAside, store
    <3> QED
      BY <2>1, <2>2, <3>1 DEF Contract!Next, Contract!SetAside
  <2>4. CASE CheckTombstone(p) /\ Tombstoned(Job(p).row)
    <3>1. /\ cancelled' = cancelled \cup {Job(p).row}
          /\ UNCHANGED <<delivered, quarantined, tomb, held, gone>>
      BY <2>4 DEF CheckTombstone, store
    <3>2. \A r \in {Job(p).row} : Contract!Deleting(RevOf(r))
      BY <2>4 DEF Tombstoned, Contract!Deleting
    <3> QED
      BY <2>1, <2>2, <3>1, <3>2 DEF Contract!Next, Contract!Drop
  <2>5. CASE CheckTombstone(p) /\ ~Tombstoned(Job(p).row)
    BY <2>1, <2>5, StutterMaps DEF CheckTombstone, store
  <2> QED
    BY <1>2, <2>3, <2>4, <2>5
<1> QED
  BY <1>1, <1>2

LEMMA ProcessMaps ==
    ASSUME TypeInv, Deletion, Founded, NEW p \in Proc, ProcessStep(p)
    PROVE  Contract!Next \/ UNCHANGED Contract!contract
<1>1. CASE CommitEnqueue(p) \/ Record(p) \/ CommitErasures(p)
  BY <1>1, CommitEnqueueMaps, RecordMaps, CommitErasuresMaps DEF Founded
<1>2. CASE SetAside(p) \/ CheckTombstone(p) \/ Backfill(p)
  BY <1>2, RowStepMaps DEF Founded
<1>3. CASE \/ (\E r \in Capture : BeginEnqueue(p, r))
           \/ BeginDrain(p) \/ SelectUploads(p) \/ Prepare(p) \/ GrantLease(p)
           \/ SkipBusy(p) \/ Renew(p) \/ Send(p) \/ Fenced(p) \/ Release(p)
           \/ SelectErasable(p) \/ (\E o \in Object : Unlink(p, o) \/ SkipUnlink(p, o))
           \/ PutOff(p) \/ Timeout(p) \/ Crash(p) \/ StorageError(p)
  <2>1. UNCHANGED <<seq, delivered, cancelled, quarantined, tomb, held, gone>>
    BY <1>3 DEF BeginEnqueue, BeginDrain, SelectUploads, Prepare, GrantLease, SkipBusy,
                Renew, Send, Fenced, Release, SelectErasable, Unlink, SkipUnlink, PutOff,
                Timeout, Crash, StorageError, rows, store
  <2> QED
    BY <2>1, StutterMaps
<1> QED
  BY <1>1, <1>2, <1>3 DEF ProcessStep, Proceed

LEMMA StoreMaps ==
    ASSUME TypeInv, RequestsFounded, NEW m \in wire, StoreUpload(m) \/ StoreDelete(m)
    PROVE  Contract!Next \/ UNCHANGED Contract!contract
<1>1. m.rev \in Rev
  BY DEF TypeInv, SharedOK, Request
<1>2. UNCHANGED <<seq, delivered, cancelled, quarantined, tomb>> /\ Queued' = Queued
  BY DEF StoreUpload, StoreDelete, Answer, rows, Queued
<1>3. CASE StoreUpload(m) /\ m.rev \in gone
  BY <1>2, <1>3, StutterMaps DEF StoreUpload
<1>4. CASE StoreUpload(m) /\ m.rev \notin gone
  <2>1. held' = held \cup {m.rev} /\ gone' = gone /\ \E r \in Queued : RevOf(r) = m.rev
    BY <1>4 DEF StoreUpload, RequestsFounded
  <2> QED
    BY <1>1, <1>2, <1>4, <2>1 DEF Contract!Next, Contract!Hold
<1>5. CASE StoreDelete(m)
  <2>1. held' = held \ {m.rev} /\ gone' = gone \cup {m.rev} /\ tomb[m.rev] # "none"
    BY <1>5 DEF StoreDelete, RequestsFounded
  <2> QED
    BY <1>1, <1>2, <2>1 DEF Contract!Next, Contract!Erase, Contract!Deleting
<1> QED
  BY <1>3, <1>4, <1>5

LEMMA NextMaps ==
    ASSUME TypeInv, Deletion, Founded, [Next]_vars
    PROVE  Contract!Next \/ UNCHANGED Contract!contract
<1>1. CASE \E p \in Proc : ProcessStep(p)
  BY <1>1, ProcessMaps
<1>2. CASE \E v \in Rev : StoreAnswers(v)
  BY <1>2, StoreMaps DEF StoreAnswers, Founded
<1>3. CASE \E v \in DeletionRequests : EnqueueDeletion(v)
  <2>1. PICK v \in Rev : EnqueueDeletion(v)
    BY <1>3, CaptureAssumption
  <2>2. Queued' = Queued
    BY <2>1 DEF EnqueueDeletion, rows, Queued
  <2> QED
    BY <2>1, <2>2 DEF EnqueueDeletion, rows, store, Contract!Next,
       Contract!RequestDeletion, Contract!Deleting
<1>4. CASE \E v \in ExternalDeletions : ExternalDelete(v)
  <2>1. PICK v \in Rev : v \in ExternalDeletions /\ ExternalDelete(v)
    BY <1>4, CaptureAssumption
  <2>2. Queued' = Queued
    BY <2>1 DEF ExternalDelete, rows, Queued
  <2> QED
    BY <2>1, <2>2 DEF ExternalDelete, rows, Contract!Next, Contract!Erase
<1>5. CASE \/ \E v \in Rev : ExpireAbandoned(v) \/ Stall(v)
           \/ \E m \in wire : StoreFails(m)
           \/ \E o \in Object : Damage(o)
           \/ UNCHANGED vars
  BY <1>5, StutterMaps DEF ExpireAbandoned, Stall, StoreFails, Answer, Damage, vars,
     rows, store
<1> QED
  BY <1>1, <1>2, <1>3, <1>4, <1>5 DEF Next, Troubles, ProcessStep

(* All that the processes of the outbox do, with their leases, their         *)
(* retries, crashes and late requests, amounts to the steps of the contract. *)
THEOREM OutboxKeepsContract == Spec => ImplementsContract
<1>1. TypeInv /\ Deletion /\ Founded /\ [Next]_vars => [Contract!Next]_(Contract!contract)
  BY NextMaps
<1> QED
  BY <1>1, InitMaps, FoundedAlways, PTL DEF Spec, ImplementsContract, Contract!Spec

-----------------------------------------------------------------------------
(* What follows from the contract *)

(* What was delivered was taken by the store; what the store deleted, it    *)
(* was asked to; what was given up was deleted or set aside before.         *)
Kept ==
    /\ \A r \in delivered : RevOf(r) \in held \cup gone
    /\ \A v \in gone : tomb[v] # "none" \/ v \in ExternalDeletions
    /\ \A r \in cancelled : Tombstoned(r) \/ r \in quarantined

LEMMA InitKept == Init => Kept
  BY DEF Init, Kept

(* The outbox's own steps need not be looked at again: those of the contract *)
(* keep it.                                                                  *)
LEMMA ContractKept ==
    ASSUME TypeInv, Kept, Contract!Next \/ UNCHANGED Contract!contract
    PROVE  Kept'
<1>1. \A r \in Capture : RevOf(r) \in Rev
  BY CaptureAssumption DEF RevOf, Rev
<1>2. tomb \in [Rev -> {"none", "queued", "acked"}] /\ gone \subseteq Rev
      /\ cancelled \subseteq Capture /\ delivered \subseteq Capture
  BY DEF TypeInv, SharedOK
<1>3. CASE UNCHANGED Contract!contract
  BY <1>3 DEF Contract!contract, Kept, Tombstoned
<1>4. ASSUME NEW r \in Capture, Contract!Accept(r) \/ Contract!Deliver(r) PROVE Kept'
  BY <1>4 DEF Contract!Accept, Contract!Deliver, Kept, Tombstoned
<1>5. ASSUME NEW r \in Capture, Contract!Withdraw(r) PROVE Kept'
  <2>1. /\ tomb' = [tomb EXCEPT ![RevOf(r)] = "acked"] /\ cancelled' = cancelled \cup {r}
        /\ UNCHANGED <<delivered, quarantined, held, gone>>
    BY <1>5 DEF Contract!Withdraw
  <2>2. tomb'[RevOf(r)] = "acked" /\ \A v \in Rev : tomb[v] # "none" => tomb'[v] # "none"
    BY <1>1, <1>2, <2>1
  <2> QED
    BY <1>1, <1>2, <2>1, <2>2 DEF Kept, Tombstoned
<1>6. ASSUME NEW v \in Rev, Contract!RequestDeletion(v) \/ Contract!Confirm(v) PROVE Kept'
  <2>1. \A w \in Rev : tomb[w] # "none" => tomb'[w] # "none"
    BY <1>2, <1>6 DEF Contract!RequestDeletion, Contract!Confirm
  <2> QED
    BY <1>1, <1>2, <1>6, <2>1 DEF Contract!RequestDeletion, Contract!Confirm, Kept, Tombstoned
<1>7. ASSUME NEW v \in Rev, Contract!Hold(v) \/ Contract!Erase(v) PROVE Kept'
  BY <1>7 DEF Contract!Hold, Contract!Erase, Contract!Deleting, Kept, Tombstoned
<1>8. ASSUME NEW S \in SUBSET Capture, Contract!Drop(S) \/ Contract!SetAside(S) PROVE Kept'
  BY <1>8 DEF Contract!Drop, Contract!SetAside, Contract!Deleting, Kept, Tombstoned
<1> QED
  BY <1>3, <1>4, <1>5, <1>6, <1>7, <1>8 DEF Contract!Next

LEMMA KeptAlways == Spec => []Kept
<1>1. TypeInv /\ Deletion /\ Founded /\ Kept /\ [Next]_vars => Kept'
  BY NextMaps, ContractKept
<1> QED
  BY <1>1, InitKept, FoundedAlways, PTL DEF Spec

(* A receipt that is reported is backed by the store, unless another client *)
(* had the revision deleted there.                                          *)
THEOREM ReceiptsAreHonest == Spec => []ReceiptIsHonest
<1>1. Kept => ReceiptIsHonest
  BY DEF Kept, ReceiptIsHonest, Receipt
<1> QED
  BY <1>1, KeptAlways, PTL

(* No capture is given up unless its deletion was requested, or it had been *)
(* set aside.                                                               *)
THEOREM NothingIsDroppedInSilence == Spec => []NoSilentCancel
<1>1. Kept => NoSilentCancel
  BY DEF Kept, NoSilentCancel
<1> QED
  BY <1>1, KeptAlways, PTL

-----------------------------------------------------------------------------
(* Trouble is counted *)

LEMMA TroubleCounted ==
    ASSUME TypeInv, [Next]_vars
    PROVE  /\ \A t \in Trouble : spent'[t] = 0 => spent[t] = 0
           /\ \A v \in Rev : Stall(v) => spent'["stall"] # 0
           /\ \A o \in Object : Damage(o) => spent'["damage"] # 0
           /\ \A p \in Proc : Crash(p) \/ StorageError(p) => spent'["crash"] # 0
<1>1. spent \in [Trouble -> Nat] /\ {"stall", "damage", "crash"} \subseteq Trouble
  BY DEF TypeInv, SharedOK, Trouble
<1>2. \A t \in Trouble : Spend(t) => /\ spent'[t] # 0
                                     /\ \A u \in Trouble : spent'[u] = 0 => spent[u] = 0
  BY <1>1 DEF Spend
<1>3. spent' = spent \/ \E t \in Trouble : Spend(t)
  BY DEF Next, Proceed, Troubles, StoreAnswers, BeginEnqueue, EnqueueDeletion,
         ExternalDelete, BeginDrain, CommitEnqueue, SelectUploads, Prepare, SetAside,
         GrantLease, SkipBusy, CheckTombstone, Renew, Send, Record, Fenced, Release,
         Backfill, SelectErasable, CommitErasures, Unlink, StoreUpload, StoreDelete,
         ExpireAbandoned, PutOff, Timeout, Crash, StorageError, SkipUnlink, StoreFails,
         Stall, Damage, vars, Trouble
<1> QED
  BY <1>1, <1>2, <1>3 DEF Stall, Damage, Crash, StorageError

-----------------------------------------------------------------------------
(* The lease of a revision *)

NoStall == spent["stall"] = 0

(* Every grant in use is the current one, and its lease has not run out. *)
GrantsCurrent ==
    NoStall => \A p \in Proc : token[p] > 0 => Holds(p) /\ lease[Job(p).rev].live

(* What an upload was checked against still holds when it is sent. *)
ChecksCurrent ==
    NoStall => \A p \in Proc :
        pc[p] \in {"checked", "cleared"} /\ Job(p).kind = "upload"
            => tomb[Job(p).rev] # "acked"

LEMMA LeaseChanges ==
    [Next]_vars => \/ lease' = lease
                   \/ \E p \in Proc : \/ GrantLease(p) \/ Renew(p)
                                      \/ Release(p) \/ StorageError(p)
                   \/ \E v \in Rev : ExpireAbandoned(v) \/ Stall(v)
  BY DEF Next, Proceed, Troubles, StoreAnswers, BeginEnqueue, EnqueueDeletion,
         ExternalDelete, BeginDrain, CommitEnqueue, SelectUploads, Prepare, SetAside,
         SkipBusy, CheckTombstone, Send, Record, Fenced, Backfill, SelectErasable,
         CommitErasures, Unlink, StoreUpload, StoreDelete, Answer, PutOff, Timeout,
         Crash, SkipUnlink, StoreFails, Damage, vars

(* A grant that is in use after a step was in use before, or is new. *)
LEMMA GrantsLast ==
    ASSUME TypeInv, [Next]_vars, NEW q \in Proc, token'[q] > 0
    PROVE  \/ token'[q] = token[q] /\ Job(q)' = Job(q) /\ Job(q).rev \in Rev
           \/ GrantLease(q)
<1>1. (token'[q] = token[q] /\ todo'[q] = todo[q]) \/ GrantLease(q)
  <2>1. CASE NoNewGrant
    BY <2>1 DEF NoNewGrant
  <2>2. CASE \E p \in Proc : Send(p) \/ Record(p)
    BY <2>2 DEF Send, Record
  <2>3. ASSUME NEW p \in Proc, p # q, GrantLease(p)
        PROVE  token'[q] = token[q] /\ todo'[q] = todo[q]
    BY <2>3 DEF GrantLease, TypeInv, LocalsOK
  <2> QED
    BY <2>1, <2>2, <2>3, QuietOrNot
<1> QED
  BY <1>1, GrantFacts DEF Job

LEMMA GrantLeaseCurrent ==
    ASSUME TypeInv, GrantsCurrent, NoStall, NEW p \in Proc, GrantLease(p),
           NEW q \in Proc, token'[q] > 0
    PROVE  Holds(q)' /\ lease'[Job(q)'.rev].live
<1> DEFINE v == Job(p).rev
<1>1. v \in Rev /\ lease[v].token \in Nat
  BY AtWork DEF GrantLease, WantsLease, JobSteps, TypeInv, SharedOK
<1>2. /\ ~lease[v].live /\ Job(q)' = Job(q)
      /\ lease' = [lease EXCEPT ![v] = [owner |-> p, live |-> TRUE, token |-> @.token + 1]]
      /\ token' = [token EXCEPT ![p] = lease[v].token + 1]
  BY DEF GrantLease, Job
<1>3. CASE q = p
  <2>1. token'[p] = lease[v].token + 1
    BY <1>2 DEF TypeInv, LocalsOK
  <2>2. lease'[v] = [owner |-> p, live |-> TRUE, token |-> lease[v].token + 1]
    BY <1>1, <1>2 DEF TypeInv, SharedOK
  <2> QED
    BY <1>2, <1>3, <2>1, <2>2 DEF Holds
<1>4. CASE q # p
  <2>1. token'[q] = token[q] /\ token[q] > 0
    BY <1>2, <1>4 DEF TypeInv, LocalsOK
  <2>2. Holds(q) /\ lease[Job(q).rev].live
    BY <2>1 DEF GrantsCurrent
  <2>3. Job(q).rev # v
    BY <1>2, <2>2
  <2>4. lease'[Job(q).rev] = lease[Job(q).rev]
    BY <1>2, <2>1, <2>3, GrantFacts DEF TypeInv, SharedOK
  <2> QED
    BY <1>2, <2>1, <2>2, <2>4 DEF Holds
<1> QED
  BY <1>3, <1>4

LEMMA NextGrantsCurrent ==
    ASSUME TypeInv, GrantsCurrent, [Next]_vars
    PROVE  GrantsCurrent'
<1> SUFFICES ASSUME NoStall', NEW q \in Proc, token'[q] > 0
             PROVE  Holds(q)' /\ lease'[Job(q)'.rev].live
  BY DEF GrantsCurrent
<1>1. NoStall
  BY TroubleCounted DEF NoStall, Trouble
<1>2. CASE \E p \in Proc : GrantLease(p)
  BY <1>1, <1>2, GrantLeaseCurrent
<1>3. CASE ~ \E p \in Proc : GrantLease(p)
  <2> DEFINE v == Job(q).rev
  <2>1. token'[q] = token[q] /\ Job(q)' = Job(q) /\ v \in Rev
    BY <1>3, GrantsLast
  <2>2. Holds(q) /\ lease[v].live
    BY <1>1, <2>1 DEF GrantsCurrent
  <2>3. SUFFICES lease'[v].owner = q /\ lease'[v].token = lease[v].token /\ lease'[v].live
    BY <2>1, <2>2 DEF Holds
  <2>4. CASE lease' = lease
    BY <2>2, <2>4 DEF Holds
  <2>5. ASSUME NEW p \in Proc, Renew(p)
        PROVE  lease'[v].owner = q /\ lease'[v].token = lease[v].token /\ lease'[v].live
    BY <2>1, <2>2, <2>5 DEF Renew, Holds, TypeInv, SharedOK
  <2>6. ASSUME NEW p \in Proc, Release(p) \/ StorageError(p)
        PROVE  lease'[v].owner = q /\ lease'[v].token = lease[v].token /\ lease'[v].live
    <3>1. lease' = Released(p) /\ token'[p] = 0
      BY <2>6 DEF Release, StorageError, NextJob, Stop, TypeInv, LocalsOK
    <3>2. q # p
      BY <3>1
    <3>3. lease'[v] = lease[v]
      BY <2>1, <2>2, <3>1, <3>2 DEF Released, Holds, TypeInv, SharedOK
    <3> QED
      BY <2>2, <3>3 DEF Holds
  <2>7. ASSUME NEW w \in Rev, ExpireAbandoned(w)
        PROVE  lease'[v].owner = q /\ lease'[v].token = lease[v].token /\ lease'[v].live
    <3>1. w # v
      BY <2>1, <2>2, <2>7 DEF ExpireAbandoned, Holder
    <3>2. lease'[v] = lease[v]
      BY <2>1, <2>7, <3>1 DEF ExpireAbandoned, TypeInv, SharedOK
    <3> QED
      BY <2>2, <3>2 DEF Holds
  <2> QED
    BY <1>3, <2>4, <2>5, <2>6, <2>7, LeaseChanges, TroubleCounted DEF NoStall
<1> QED
  BY <1>2, <1>3

(* An upload that is cleared after a step was cleared before, or was checked *)
(* just now.                                                                 *)
LEMMA ClearedSteps ==
    ASSUME TypeInv, [Next]_vars, NEW q \in Proc, pc'[q] \in {"checked", "cleared"}
    PROVE  /\ Job(q)' = Job(q)
           /\ \/ pc[q] \in {"checked", "cleared"}
              \/ CheckTombstone(q) /\ ~Tombstoned(Job(q).row)
              \/ Job(q).kind = "delete"
<1>1. CASE OtherStep
  BY <1>1, OtherLocals DEF Job
<1>2. ASSUME NEW p \in Proc, ProcessStep(p)
      PROVE  /\ Job(q)' = Job(q)
             /\ \/ pc[q] \in {"checked", "cleared"}
                \/ CheckTombstone(q) /\ ~Tombstoned(Job(q).row)
                \/ Job(q).kind = "delete"
  <2>1. CASE \/ SetAside(p) \/ PutOff(p) \/ SkipBusy(p) \/ Fenced(p) \/ Release(p)
             \/ CommitEnqueue(p) \/ CommitErasures(p) \/ Crash(p) \/ StorageError(p)
    <3>1. NextJob(p) \/ Stop(p)
      BY <2>1 DEF SetAside, PutOff, SkipBusy, Fenced, Release, CommitEnqueue,
                  CommitErasures, Crash, StorageError
    <3>2. pc'[p] \notin {"checked", "cleared"}
      BY <3>1 DEF NextJob, Stop, Goto, TypeInv, LocalsOK
    <3> QED
      BY <3>1, <3>2 DEF NextJob, Stop, Goto, Job, TypeInv, LocalsOK
  <2>2. CASE (\E r \in Capture : BeginEnqueue(p, r)) \/ BeginDrain(p) \/ SelectUploads(p)
    <3>1. pc'[p] \notin {"checked", "cleared"}
      BY <2>2 DEF BeginEnqueue, BeginDrain, SelectUploads, Goto, TypeInv, LocalsOK
    <3> QED
      BY <2>2, <3>1, SelectingJobs DEF Selecting, Job
  <2>3. CASE \/ Prepare(p) \/ Renew(p) \/ Send(p) \/ Record(p) \/ Backfill(p)
             \/ SelectErasable(p) \/ Timeout(p)
             \/ \E o \in Object : Unlink(p, o) \/ SkipUnlink(p, o)
    BY <2>3 DEF Prepare, Renew, Send, Record, Backfill, SelectErasable, Timeout, Unlink,
                SkipUnlink, Goto, Job, TypeInv, LocalsOK
  <2>4. CASE GrantLease(p)
    BY <2>4 DEF GrantLease, Goto, Job, TypeInv, LocalsOK
  <2>5. CASE CheckTombstone(p)
    BY <2>5 DEF CheckTombstone, Goto, Job, TypeInv, LocalsOK
  <2> QED
    BY <1>2, <2>1, <2>2, <2>3, <2>4, <2>5 DEF ProcessStep, Proceed
<1> QED
  BY <1>1, <1>2, StepsByActor

(* Only the holder of the current grant records an acknowledgement. *)
LEMMA AckedUnderGrant ==
    ASSUME TypeInv, Deletion, [Next]_vars
    PROVE  NothingAcked \/ \E p \in Proc : Record(p) /\ \A v \in Rev :
               tomb'[v] = "acked" /\ tomb[v] # "acked" => v = Job(p).rev
<1>1. ASSUME NEW p \in Proc, Record(p)
      PROVE  \A v \in Rev : tomb'[v] = "acked" /\ tomb[v] # "acked" => v = Job(p).rev
  BY <1>1 DEF Record, TypeInv, SharedOK
<1>2. CASE \E p \in Proc : ProcessStep(p)
  BY <1>1, <1>2, AckedByRecordOnly DEF ProcessStep
<1>3. CASE OtherStep
  <2>1. CASE \E v \in Rev : StoreAnswers(v)
    BY <2>1 DEF StoreAnswers, StoreUpload, StoreDelete, Answer, NothingAcked
  <2> QED
    BY <1>3, <2>1, OtherReplies DEF OtherStep
<1> QED
  BY <1>2, <1>3, StepsByActor

LEMMA NextChecksCurrent ==
    ASSUME TypeInv, Deletion, GrantsCurrent, ChecksCurrent, [Next]_vars
    PROVE  ChecksCurrent'
<1> SUFFICES ASSUME NoStall', NEW q \in Proc, pc'[q] \in {"checked", "cleared"},
                    Job(q)'.kind = "upload"
             PROVE  tomb'[Job(q)'.rev] # "acked"
  BY DEF ChecksCurrent
<1> DEFINE v == Job(q).rev
<1>1. NoStall
  BY TroubleCounted DEF NoStall, Trouble
<1>2. Job(q)' = Job(q) /\ Job(q).kind = "upload"
  BY ClearedSteps
<1>3. CASE CheckTombstone(q) /\ ~Tombstoned(Job(q).row)
  <2>1. tomb' = tomb /\ v = RevOf(Job(q).row)
    BY <1>2, <1>3, AtWork DEF CheckTombstone, JobSteps, LeaseSteps
  <2> QED
    BY <1>2, <1>3, <2>1 DEF Tombstoned
<1>4. CASE pc[q] \in {"checked", "cleared"}
  <2>1. tomb[v] # "acked" /\ v \in Rev /\ token[q] > 0
    BY <1>1, <1>2, <1>4, GrantFacts DEF ChecksCurrent, TypeInv, JobsFit, Fits, LeaseSteps
  <2>2. ASSUME NEW p \in Proc, Record(p) PROVE v # Job(p).rev
    <3>1. Holds(p) /\ pc[p] = "sent"
      BY <2>2 DEF Record
    <3>2. Holds(q)
      BY <1>1, <2>1 DEF GrantsCurrent
    <3> QED
      BY <1>4, <3>1, <3>2 DEF Holds
  <2> QED
    BY <1>2, <2>1, <2>2, AckedUnderGrant DEF NothingAcked
<1> QED
  BY <1>2, <1>3, <1>4, ClearedSteps

LEMMA LeasesAlways ==
    Spec => [](TypeInv /\ Deletion /\ GrantsCurrent /\ ChecksCurrent)
<1>1. Init => TypeInv /\ Fencing /\ Deletion /\ GrantsCurrent /\ ChecksCurrent
  <2>1. Init => GrantsCurrent /\ ChecksCurrent
    BY DEF Init, GrantsCurrent, ChecksCurrent
  <2> QED
    BY <2>1, InitTypeInv, InitFencing, InitDeletion
<1>2. TypeInv /\ Fencing /\ Deletion /\ GrantsCurrent /\ ChecksCurrent /\ [Next]_vars
         => (TypeInv /\ Fencing /\ Deletion /\ GrantsCurrent /\ ChecksCurrent)'
  BY NextTypeInv, NextFencing, NextDeletion, NextGrantsCurrent, NextChecksCurrent
<1> QED
  BY <1>1, <1>2, PTL DEF Spec

(* As long as no holder outlives its lease, at most one process at a time   *)
(* is talking to the store about a revision.                                *)
THEOREM OneRequestAtATime == Spec => []RequestsNeverOverlap
<1>1. TypeInv /\ GrantsCurrent => RequestsNeverOverlap
  BY DEF TypeInv, JobsFit, Fits, LeaseSteps, GrantsCurrent, NoStall, Holds,
         RequestsNeverOverlap
<1> QED
  BY <1>1, LeasesAlways, PTL

(* Nor does an upload go out for a revision whose deletion was acknowledged *)
(* already: only who holds the lease could have recorded that.              *)
THEOREM UploadsStopAtDeletion == Spec => NoUploadAfterDeletion
<1>1. ASSUME TypeInv, Deletion, GrantsCurrent, ChecksCurrent, [Next]_vars, NoStall,
             NEW m \in wire' \ wire, m.kind = "upload"
      PROVE  tomb[m.rev] # "acked"
  <2>1. PICK p \in Proc : Send(p)
    BY <1>1, QuietOrNot DEF NothingSent, GrantLease, Record
  <2> QED
    BY <1>1, <2>1 DEF Send, ChecksCurrent
<1>2. TypeInv /\ Deletion /\ GrantsCurrent /\ ChecksCurrent /\ [Next]_vars =>
         [spent["stall"] = 0 =>
             \A m \in wire' \ wire : m.kind = "upload" => tomb[m.rev] # "acked"]_vars
  BY <1>1 DEF NoStall
<1> QED
  BY <1>2, LeasesAlways, PTL DEF Spec, NoUploadAfterDeletion

-----------------------------------------------------------------------------
(* The bodies in the spool *)

NoDamage == spent["damage"] = 0
NoCrash == spent["crash"] = 0

(* While nothing else touches the spool: who still needs an object finds it, *)
(* and an enqueue finds at its commit what it published.                     *)
NeededKept == NoDamage => \A r \in Pending : Tombstoned(r) \/ spool[r[2]] = "intact"
PublishedKept ==
    NoDamage => \A p \in Proc : pc[p] = "publish" => spool[Job(p).row[2]] = "intact"

(* What was unlinked stays so until the commit, and after it until the      *)
(* object is published again.                                               *)
UnlinkedGone == \A p \in Proc : pc[p] = "erase" => \A o \in unlinked[p] : spool[o] = "absent"
ErasedGone ==
    /\ erased \subseteq Queued
    /\ NoCrash => \A r \in erased :
          \/ spool[r[2]] = "absent"
          \/ \E p \in Proc : pc[p] = "publish" /\ Job(p).row[2] = r[2]

Bodies == NeededKept /\ PublishedKept /\ UnlinkedGone /\ ErasedGone

LEMMA SpoolChanges ==
    [Next]_vars => \/ spool' = spool
                   \/ \E p \in Proc, r \in Capture : BeginEnqueue(p, r)
                   \/ \E p \in Proc, o \in Object : Unlink(p, o)
                   \/ \E o \in Object : Damage(o)
  BY DEF Next, Proceed, Troubles, StoreAnswers, EnqueueDeletion, ExternalDelete,
         BeginDrain, CommitEnqueue, SelectUploads, Prepare, SetAside, GrantLease,
         SkipBusy, CheckTombstone, Renew, Send, Record, Fenced, Release, Backfill,
         SelectErasable, CommitErasures, StoreUpload, StoreDelete, Answer,
         ExpireAbandoned, PutOff, Timeout, Crash, StorageError, SkipUnlink, StoreFails,
         Stall, vars

LEMMA CancelledChanges ==
    [Next]_vars => cancelled \subseteq cancelled'
<1>1. [Next]_vars => \/ cancelled' = cancelled
                     \/ \E p \in Proc : CheckTombstone(p) \/ Record(p) \/ CommitErasures(p)
  BY DEF Next, Proceed, Troubles, StoreAnswers, BeginEnqueue, EnqueueDeletion,
         ExternalDelete, BeginDrain, CommitEnqueue, SelectUploads, Prepare, SetAside,
         GrantLease, SkipBusy, Renew, Send, Fenced, Release, Backfill, SelectErasable,
         Unlink, StoreUpload, StoreDelete, Answer, ExpireAbandoned, PutOff, Timeout,
         Crash, StorageError, SkipUnlink, StoreFails, Stall, Damage, vars, rows
<1> QED
  BY <1>1 DEF CheckTombstone, Record, CommitErasures

LEMMA ErasedChanges ==
    [Next]_vars => erased' = erased \/ \E p \in Proc : CommitEnqueue(p) \/ CommitErasures(p)
  BY DEF Next, Proceed, Troubles, StoreAnswers, BeginEnqueue, EnqueueDeletion,
         ExternalDelete, BeginDrain, SelectUploads, Prepare, SetAside,
         GrantLease, SkipBusy, CheckTombstone, Renew, Send, Record, Fenced, Release,
         Backfill, SelectErasable, Unlink, StoreUpload, StoreDelete,
         Answer, ExpireAbandoned, PutOff, Timeout, Crash, StorageError, SkipUnlink,
         StoreFails, Stall, Damage, vars, rows

(* A row that is pending after a step was pending before, or was committed. *)
LEMMA PendingChanges ==
    ASSUME TypeInv, [Next]_vars
    PROVE  \A r \in Pending' :
              \/ r \in Pending
              \/ \E p \in Proc : CommitEnqueue(p) /\ r = Job(p).row
<1>1. /\ delivered \subseteq delivered' /\ quarantined \subseteq quarantined'
      /\ cancelled \subseteq cancelled'
  BY AlwaysGrowing, CancelledChanges DEF Growing
<1>2. CASE seq' = seq
  BY <1>1, <1>2 DEF Pending, Queued
<1>3. ASSUME NEW p \in Proc, CommitEnqueue(p)
      PROVE  \A r \in Pending' : r \in Pending \/ r = Job(p).row
  BY <1>1, <1>3, CommitEnqueueRows DEF Pending
<1>4. seq' = seq \/ \E p \in Proc : CommitEnqueue(p)
  BY StepsByActor, ProcessGrowing, OtherGrowing DEF ProcessStep, OtherStep
<1> QED
  BY <1>2, <1>3, <1>4

(* A publication ends with its commit, or with the process. *)
LEMMA PublishEnds ==
    ASSUME TypeInv, [Next]_vars, NEW q \in Proc, pc[q] = "publish"
    PROVE  \/ pc'[q] = "publish" /\ Job(q)' = Job(q)
           \/ CommitEnqueue(q) \/ Crash(q) \/ StorageError(q)
<1>1. CASE ProcessStep(q)
  BY <1>1 DEF ProcessStep, Proceed, BeginEnqueue, BeginDrain, SelectUploads, Prepare,
         SetAside, GrantLease, SkipBusy, WantsLease, CheckTombstone, Renew, Send, Record,
         Fenced, Release, Backfill, SelectErasable, CommitErasures, Unlink, PutOff,
         Timeout, SkipUnlink
<1>2. ASSUME NEW p \in Proc, p # q, ProcessStep(p)
      PROVE  pc'[q] = pc[q] /\ todo'[q] = todo[q]
  <2>1. Selecting(p) => pc'[q] = pc[q] /\ todo'[q] = todo[q]
    BY <1>2, SelectingJobs
  <2>2. NextJob(p) \/ Stop(p) => pc'[q] = pc[q] /\ todo'[q] = todo[q]
    BY <1>2 DEF NextJob, Stop, Goto, TypeInv, LocalsOK
  <2> QED
    BY <1>2, <2>1, <2>2, JobListSteps
<1> QED
  BY <1>1, <1>2, StepsByActor, OtherLocals DEF Job

LEMMA UnlinkedChanges ==
    ASSUME TypeInv, Erasing, [Next]_vars, NEW q \in Proc, pc'[q] = "erase"
    PROVE  /\ pc[q] = "erase" \/ unlinked'[q] = {}
           /\ unlinked'[q] = unlinked[q] \/ \E o \in Object : Unlink(q, o)
<1>1. ASSUME NEW p \in Proc, ProcessStep(p)
      PROVE  /\ pc[q] = "erase" \/ unlinked'[q] = {}
             /\ unlinked'[q] = unlinked[q] \/ \E o \in Object : Unlink(q, o)
  <2>1. CASE Stop(p)
    BY <2>1 DEF Stop, Goto, TypeInv, LocalsOK
  <2>2. CASE SelectErasable(p)
    BY <2>2 DEF SelectErasable, Goto, Erasing, TypeInv, LocalsOK
  <2>3. CASE \E o \in Object : Unlink(p, o)
    BY <2>3 DEF Unlink, TypeInv, LocalsOK
  <2>4. CASE ~ (Stop(p) \/ SelectErasable(p) \/ \E o \in Object : Unlink(p, o))
    <3>1. unlinked' = unlinked
      BY <1>1, <2>4 DEF ProcessStep, Proceed, BeginEnqueue, BeginDrain, CommitEnqueue,
         SelectUploads, Prepare, SetAside, GrantLease, SkipBusy, CheckTombstone, Renew,
         Send, Record, Fenced, Release, Backfill, CommitErasures, PutOff, Timeout, Crash,
         StorageError, SkipUnlink, NextJob
    <3>2. pc[q] = "erase"
      BY <1>1, <2>4, EraseSteps
    <3> QED
      BY <3>1, <3>2
  <2> QED
    BY <2>1, <2>2, <2>3, <2>4
<1> QED
  BY <1>1, StepsByActor, OtherLocals

LEMMA Objects == \A r \in Capture : r[2] \in Object /\ RevOf(r) \in Rev
  BY CaptureAssumption DEF RevOf, Rev

LEMMA NextNeededKept ==
    ASSUME TypeInv, Erasing, NeededKept, PublishedKept, [Next]_vars
    PROVE  NeededKept'
<1> SUFFICES ASSUME NoDamage', NEW r \in Pending', ~Tombstoned(r)'
             PROVE  spool'[r[2]] = "intact"
  BY DEF NeededKept
<1>1. NoDamage /\ ~ \E o \in Object : Damage(o)
  BY TroubleCounted DEF NoDamage, Trouble
<1>2. r \in Capture /\ ~Tombstoned(r) /\ r[2] \in Object
  BY AlwaysGrowing, Objects DEF Pending, Queued, Tombstoned, Growing
<1>3. CASE r \in Pending
  <2>1. spool[r[2]] = "intact"
    BY <1>1, <1>2, <1>3 DEF NeededKept
  <2>2. ASSUME NEW p \in Proc, NEW o \in Object, Unlink(p, o) PROVE o # r[2]
    <3>1. Dispensable(o)
      BY <2>2 DEF Unlink, Erasing
    <3> QED
      BY <1>2, <1>3, <3>1 DEF Dispensable, RowsOf, Pending
  <2> QED
    BY <1>1, <1>2, <2>1, <2>2, SpoolChanges DEF BeginEnqueue, Unlink, TypeInv, SharedOK
<1>4. ASSUME NEW p \in Proc, CommitEnqueue(p), r = Job(p).row
      PROVE  spool'[r[2]] = "intact"
  BY <1>1, <1>4 DEF CommitEnqueue, PublishedKept
<1> QED
  BY <1>3, <1>4, PendingChanges

LEMMA NextPublishedKept ==
    ASSUME TypeInv, Locked, PublishedKept, [Next]_vars
    PROVE  PublishedKept'
<1> SUFFICES ASSUME NoDamage', NEW q \in Proc, pc'[q] = "publish"
             PROVE  spool'[Job(q)'.row[2]] = "intact"
  BY DEF PublishedKept
<1>1. NoDamage /\ ~ \E o \in Object : Damage(o)
  BY TroubleCounted DEF NoDamage, Trouble
<1>2. CASE pc[q] = "publish" /\ todo'[q] = todo[q]
  <2>1. Job(q)' = Job(q) /\ Job(q).row \in Capture
    BY <1>2, AtWork DEF Job, JobSteps
  <2>2. spool[Job(q).row[2]] = "intact"
    BY <1>1, <1>2 DEF PublishedKept
  <2>3. ~ \E p \in Proc, o \in Object : Unlink(p, o)
    BY <1>2 DEF Unlink, Locked
  <2> QED
    BY <1>1, <2>1, <2>2, <2>3, SpoolChanges, Objects DEF BeginEnqueue, TypeInv, SharedOK
<1>3. ASSUME NEW r \in Capture, BeginEnqueue(q, r)
      PROVE  spool'[Job(q)'.row[2]] = "intact"
  <2>1. todo'[q] = <<UploadJob(r)>> /\ spool'[r[2]] = "intact"
    BY <1>3, Objects DEF BeginEnqueue, TypeInv, SharedOK, LocalsOK
  <2> QED
    BY <2>1 DEF Job, UploadJob
<1> QED
  BY <1>2, <1>3, PublishChanges

LEMMA NextUnlinkedGone ==
    ASSUME TypeInv, Locked, Erasing, UnlinkedGone, [Next]_vars
    PROVE  UnlinkedGone'
<1> SUFFICES ASSUME NEW q \in Proc, pc'[q] = "erase", NEW o \in unlinked'[q]
             PROVE  spool'[o] = "absent"
  BY DEF UnlinkedGone
<1>1. pc[q] = "erase"
  BY UnlinkedChanges
<1>2. CASE o \in unlinked[q]
  <2>1. spool[o] = "absent" /\ writer # None /\ o \in Object
    BY <1>1, <1>2, CaptureAssumption DEF UnlinkedGone, Locked, TypeInv, LocalsOK
  <2> QED
    BY <2>1, SpoolChanges DEF BeginEnqueue, Unlink, Damage, TypeInv, SharedOK
<1>3. ASSUME NEW x \in Object, Unlink(q, x), o \notin unlinked[q] PROVE spool'[o] = "absent"
  <2>1. o = x
    BY <1>3 DEF Unlink, TypeInv, LocalsOK
  <2> QED
    BY <1>3, <2>1 DEF Unlink, TypeInv, SharedOK
<1> QED
  BY <1>2, <1>3, UnlinkedChanges

LEMMA NextErasedGone ==
    ASSUME TypeInv, Locked, UnlinkedGone, ErasedGone, [Next]_vars
    PROVE  ErasedGone'
<1>1. erased' \subseteq Queued'
  <2>1. erased' \subseteq erased \cup Queued
    BY ErasedChanges DEF CommitEnqueue, CommitErasures
  <2> QED
    BY <2>1, AlwaysGrowing DEF ErasedGone, Growing
<1> SUFFICES ASSUME NoCrash', NEW r \in erased'
             PROVE  \/ spool'[r[2]] = "absent"
                    \/ \E p \in Proc : pc'[p] = "publish" /\ Job(p)'.row[2] = r[2]
  BY <1>1 DEF ErasedGone
<1>2. NoCrash /\ ~ \E p \in Proc : Crash(p) \/ StorageError(p)
  BY TroubleCounted DEF NoCrash, Trouble
<1>3. r \in Capture /\ r[2] \in Object
  BY <1>1, Objects DEF Queued
<1>4. CASE r \in erased /\ ~ \E p \in Proc : CommitEnqueue(p)
  <2>1. CASE spool[r[2]] = "absent"
    <3>1. ASSUME NEW p \in Proc, NEW x \in Capture, BeginEnqueue(p, x), x[2] = r[2]
          PROVE  pc'[p] = "publish" /\ Job(p)'.row[2] = r[2]
      BY <3>1 DEF BeginEnqueue, Goto, Job, UploadJob, TypeInv, LocalsOK
    <3> QED
      BY <1>3, <2>1, <3>1, SpoolChanges DEF BeginEnqueue, Unlink, Damage, TypeInv, SharedOK
  <2>2. ASSUME NEW p \in Proc, pc[p] = "publish", Job(p).row[2] = r[2]
        PROVE  pc'[p] = "publish" /\ Job(p)'.row[2] = r[2]
    BY <1>2, <1>4, <2>2, PublishEnds
  <2> QED
    BY <1>2, <1>4, <2>1, <2>2 DEF ErasedGone
<1>5. ASSUME NEW p \in Proc, CommitEnqueue(p) PROVE spool'[r[2]] = "absent"
  <2>1. /\ pc[p] = "publish" /\ spool' = spool
        /\ r \in erased /\ r \notin RowsOf(Job(p).row[2])
    BY <1>5 DEF CommitEnqueue
  <2>2. r[2] # Job(p).row[2]
    BY <2>1 DEF ErasedGone, RowsOf
  <2>3. \A q \in Proc : pc[q] = "publish" => q = p
    BY <2>1 DEF Locked
  <2> QED
    BY <1>2, <2>1, <2>2, <2>3 DEF ErasedGone
<1>6. ASSUME NEW p \in Proc, CommitErasures(p), r \notin erased PROVE spool'[r[2]] = "absent"
  BY <1>6 DEF CommitErasures, UnlinkedGone
<1> QED
  BY <1>4, <1>5, <1>6, ErasedChanges

LEMMA BodiesAlways == Spec => [](TypeInv /\ Founded /\ Bodies)
<1>1. Init => Bodies
  <2>1. Init => NeededKept
    BY Objects DEF Init, NeededKept, Pending, Queued, Tombstoned
  <2> QED
    BY <2>1 DEF Init, Bodies, PublishedKept, UnlinkedGone, ErasedGone
<1>2. TypeInv /\ Founded /\ Bodies /\ [Next]_vars => Bodies'
  BY NextNeededKept, NextPublishedKept, NextUnlinkedGone, NextErasedGone DEF Bodies, Founded
<1> QED
  BY <1>1, <1>2, FoundedAlways, PTL DEF Spec

(* Cleanup never takes the bytes of a capture that still has to be sent,    *)
(* whichever other identities share them and whoever enqueues them again.   *)
THEOREM NeededBodiesAreKept == Spec => []NeededBodyIsKept
<1>1. Bodies => NeededBodyIsKept
  BY DEF Bodies, NeededKept, NoDamage, NeededBodyIsKept
<1> QED
  BY <1>1, BodiesAlways, PTL

(* A row marked as erased has no body in the spool, unless an enqueue of    *)
(* its object was interrupted.                                              *)
THEOREM ErasedBodiesAreGone == Spec => []ErasedMeansGone
<1>1. Founded /\ Bodies => ErasedMeansGone
  BY CaptureAssumption DEF Founded, Locked, Bodies, ErasedGone, NoCrash, ErasedMeansGone
<1> QED
  BY <1>1, BodiesAlways, PTL

-----------------------------------------------------------------------------
(* What is set aside *)

LEMMA QuarantinedChanges ==
    [Next]_vars => quarantined' = quarantined \/ \E p \in Proc : SetAside(p) \/ Backfill(p)
  BY DEF Next, Proceed, Troubles, StoreAnswers, BeginEnqueue, EnqueueDeletion,
         ExternalDelete, BeginDrain, CommitEnqueue, SelectUploads, Prepare,
         GrantLease, SkipBusy, CheckTombstone, Renew, Send, Record, Fenced, Release,
         SelectErasable, CommitErasures, Unlink, StoreUpload, StoreDelete,
         Answer, ExpireAbandoned, PutOff, Timeout, Crash, StorageError, SkipUnlink,
         StoreFails, Stall, Damage, vars, rows

(* Until damage is done: a row whose object a drain found unusable needs no *)
(* sending any more, also later, when the row is set aside.                 *)
Excused ==
    NoDamage => \A p \in Proc : pc[p] = "unusable" =>
                    Tombstoned(Job(p).row) \/ Job(p).row \in delivered

LEMMA StaysSettled ==
    ASSUME TypeInv, [Next]_vars, NEW r \in Capture, Tombstoned(r) \/ r \in delivered
    PROVE  (Tombstoned(r) \/ r \in delivered)'
  BY AlwaysGrowing, Objects DEF Growing, Tombstoned

(* Nothing takes the bytes of a row that has to be sent. *)
LEMMA UnusableIsSettled ==
    ASSUME TypeInv, NoDamage, Bodies, Kept, OnlyDamageIsSetAside,
           NEW r \in Queued, spool[r[2]] # "intact"
    PROVE  Tombstoned(r) \/ r \in delivered
<1>1. r \in Pending \/ r \in delivered \/ r \in cancelled \/ r \in quarantined
  BY DEF Pending
<1>2. r \in Pending \/ r \in cancelled => Tombstoned(r) \/ r \in quarantined
  BY DEF Bodies, NeededKept, Kept
<1> QED
  BY <1>1, <1>2 DEF NoDamage, OnlyDamageIsSetAside

LEMMA UnusableBegins ==
    ASSUME TypeInv, [Next]_vars, NEW q \in Proc, pc'[q] = "unusable"
    PROVE  todo'[q] = todo[q] /\ (pc[q] = "unusable" \/ Prepare(q))
<1>1. ASSUME ProcessStep(q) PROVE todo'[q] = todo[q] /\ (pc[q] = "unusable" \/ Prepare(q))
  <2>1. ~ (NextJob(q) \/ Stop(q))
    BY DEF NextJob, Stop, Goto, TypeInv, LocalsOK
  <2> QED
    BY <1>1, <2>1 DEF ProcessStep, Proceed, BeginEnqueue, BeginDrain, CommitEnqueue,
         SelectUploads, Prepare, SetAside, GrantLease, SkipBusy, WantsLease, CheckTombstone,
         Renew, Send, Record, Fenced, Release, Backfill, SelectErasable, CommitErasures,
         Unlink, PutOff, Timeout, Crash, StorageError, SkipUnlink, Goto, TypeInv, LocalsOK
<1>2. ASSUME NEW p \in Proc, p # q, ProcessStep(p)
      PROVE  pc'[q] = pc[q] /\ todo'[q] = todo[q]
  <2>1. Selecting(p) => pc'[q] = pc[q] /\ todo'[q] = todo[q]
    BY <1>2, SelectingJobs
  <2>2. NextJob(p) \/ Stop(p) => pc'[q] = pc[q] /\ todo'[q] = todo[q]
    BY <1>2 DEF NextJob, Stop, Goto, TypeInv, LocalsOK
  <2> QED
    BY <1>2, <2>1, <2>2, JobListSteps
<1> QED
  BY <1>1, <1>2, StepsByActor, OtherLocals

LEMMA NextExcused ==
    ASSUME TypeInv, Founded, Bodies, Kept, OnlyDamageIsSetAside, Excused, [Next]_vars
    PROVE  Excused'
<1> SUFFICES ASSUME NoDamage', NEW q \in Proc, pc'[q] = "unusable"
             PROVE  (Tombstoned(Job(q).row) \/ Job(q).row \in delivered)'
  BY DEF Excused, NoDamage
<1>1. NoDamage
  BY TroubleCounted DEF NoDamage, Trouble
<1>2. Job(q)' = Job(q) /\ (pc[q] = "unusable" \/ Prepare(q))
  BY UnusableBegins DEF Job
<1>3. /\ todo[q] # <<>> /\ pc[q] # "publish"
      /\ Job(q).row \in Capture /\ Job(q).kind = "upload"
  BY <1>2, AtWork DEF Prepare, JobSteps
<1>4. ASSUME Prepare(q) PROVE Tombstoned(Job(q).row) \/ Job(q).row \in delivered
  <2>1. Job(q).row \in Queued
    BY <1>3, CurrentJobFounded DEF Founded
  <2>2. spool[Job(q).row[2]] # "intact"
    BY <1>4 DEF Prepare, Goto, TypeInv, LocalsOK
  <2> QED
    BY <1>1, <2>1, <2>2, UnusableIsSettled
<1>5. Tombstoned(Job(q).row) \/ Job(q).row \in delivered
  BY <1>1, <1>2, <1>4 DEF Excused
<1> QED
  BY <1>2, <1>3, <1>5, StaysSettled

LEMMA NextSetAside ==
    ASSUME TypeInv, Founded, Bodies, Kept, OnlyDamageIsSetAside, Excused, [Next]_vars
    PROVE  OnlyDamageIsSetAside'
<1> SUFFICES ASSUME NoDamage', NEW r \in quarantined'
             PROVE  (Tombstoned(r) \/ r \in delivered)'
  BY DEF NoDamage, OnlyDamageIsSetAside
<1>1. NoDamage
  BY TroubleCounted DEF NoDamage, Trouble
<1>2. CASE r \in quarantined
  BY <1>1, <1>2, StaysSettled DEF NoDamage, OnlyDamageIsSetAside, TypeInv, SharedOK
<1>3. ASSUME NEW p \in Proc, SetAside(p), r \notin quarantined
      PROVE  (Tombstoned(r) \/ r \in delivered)'
  <2>1. r = Job(p).row /\ pc[p] = "unusable"
    BY <1>3 DEF SetAside
  <2>2. r \in Capture
    BY <2>1, AtWork DEF JobSteps
  <2> QED
    BY <1>1, <2>1, <2>2, StaysSettled DEF Excused
<1>4. ASSUME NEW p \in Proc, Backfill(p), r \notin quarantined
      PROVE  (Tombstoned(r) \/ r \in delivered)'
  <2>1. r \in Queued /\ r \in Capture /\ spool[r[2]] # "intact"
    BY <1>4 DEF Backfill, AnyOf, Queued
  <2> QED
    BY <1>1, <2>1, UnusableIsSettled, StaysSettled
<1> QED
  BY <1>2, <1>3, <1>4, QuarantinedChanges

(* A capture that was still to be sent is set aside only after damage from   *)
(* outside, whatever other processes did and wherever they were interrupted, *)
(* and however long ago the drain that sets it aside has read its object.    *)
THEOREM OnlyDamagedIsSetAside == Spec => []OnlyDamageIsSetAside
<1>1. Init => OnlyDamageIsSetAside /\ Excused
  BY DEF Init, OnlyDamageIsSetAside, Excused
<1>2. TypeInv /\ Founded /\ Bodies /\ Kept /\ OnlyDamageIsSetAside /\ Excused /\ [Next]_vars
      => (OnlyDamageIsSetAside /\ Excused)'
  BY NextSetAside, NextExcused
<1> QED
  BY <1>1, <1>2, BodiesAlways, KeptAlways, PTL DEF Spec
==============================================================================
