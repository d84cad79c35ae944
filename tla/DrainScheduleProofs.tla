------------------------ MODULE DrainScheduleProofs -------------------------
(* What a pass of the capture outbox's drain works on, for every limit and  *)
(* number of rows: never more rows than the limit leaves, and those of the  *)
(* kind it has come to.                                                     *)
EXTENDS DrainSchedule, OrderLemmas, SequenceTheorems

-----------------------------------------------------------------------------
(* The lists *)

LEMMA EveryPlaceHasARow ==
    ASSUME NEW S, IsFiniteSet(S), NEW order, Orders(order, S)
    PROVE  \A k \in 0 .. Cardinality(S) - 1 :
              \E x \in S : Cardinality(Ahead(order, S, x)) = k
  BY EveryRankIsTaken

LEMMA SameLength == ASSUME NEW m \in Nat, NEW n \in Nat, 1 .. m = 1 .. n PROVE m = n
<1>1. \A i \in Nat : i \in 1 .. m <=> i \in 1 .. n
  OBVIOUS
<1>2. m <= n /\ n <= m
  BY <1>1
<1> QED  BY <1>2

(* FirstOf lists members of the set, at most as many as it is asked for. *)
LEMMA FirstOfFacts ==
    ASSUME NEW S, IsFiniteSet(S), NEW order, Orders(order, S), NEW n \in Nat
    PROVE  FirstOf(S, n, order) \in Seq(S) /\ Len(FirstOf(S, n, order)) <= n
<1> DEFINE size == IF n < Cardinality(S) THEN n ELSE Cardinality(S)
           Rank(x) == 1 + Cardinality({y \in S : <<y, x>> \in order})
           at(i) == CHOOSE x \in S : Rank(x) = i
           list == [i \in 1 .. size |-> at(i)]
<1>1. Cardinality(S) \in Nat
  BY FS_CardinalityType
<1>2. size \in Nat /\ size <= n /\ size <= Cardinality(S)
  BY <1>1
<1>3. \A k \in 0 .. Cardinality(S) - 1 : \E x \in S : Cardinality(Ahead(order, S, x)) = k
  BY EveryPlaceHasARow
<1> HIDE DEF size
<1>4. ASSUME NEW i \in 1 .. size PROVE at(i) \in S
  <2>1. i - 1 \in 0 .. Cardinality(S) - 1
    BY <1>1, <1>2
  <2>2. PICK x \in S : Cardinality(Ahead(order, S, x)) = i - 1
    BY <1>3, <2>1
  <2>3. Rank(x) = 1 + (i - 1)
    BY <2>2 DEF Ahead
  <2>4. 1 + (i - 1) = i
    BY <1>2
  <2>5. \E y \in S : Rank(y) = i
    BY <2>3, <2>4
  <2> HIDE DEF Rank
  <2> QED  BY <2>5
<1>5. FirstOf(S, n, order) = list
  BY DEF FirstOf, size
<1> HIDE DEF at
<1>6. list \in [1 .. size -> S]
  BY <1>4
<1> HIDE DEF list
<1>7. list \in Seq(S)
  BY <1>2, <1>6, SeqDef
<1>8. Len(list) = size
  <2>1. Len(list) \in Nat /\ DOMAIN list = 1 .. Len(list)
    BY <1>7, LenProperties
  <2>2. 1 .. Len(list) = 1 .. size
    BY <1>6, <2>1
  <2> QED  BY <1>2, <2>1, <2>2, SameLength
<1> QED  BY <1>2, <1>5, <1>7, <1>8

(* ORDER BY attempts, sequence and ORDER BY the keys leave no ties. *)
LEMMA UploadsAreOrdered ==
    ASSUME ScheduleAssumption, attempts \in [Upload -> Nat], NEW S \in SUBSET Upload
    PROVE  Orders(Before, S)
<1> DEFINE n(u) == attempts[u]
           k(u) == Sequence[u]
<1>1. \A u \in S : u \in Upload /\ n(u) \in Nat /\ k(u) \in Nat
  BY DEF ScheduleAssumption
<1>2. \A u, v \in S : <<u, v>> \in Before <=> n(u) < n(v) \/ (n(u) = n(v) /\ k(u) < k(v))
  BY DEF Before
<1>3. \A u, v \in S : u # v => k(u) # k(v)
  BY DEF ScheduleAssumption
<1> HIDE DEF n, k
<1>4. \A u \in S : <<u, u>> \notin Before
  BY <1>1, <1>2
<1>5. \A u, v \in S : u # v => <<u, v>> \in Before \/ <<v, u>> \in Before
  BY <1>1, <1>2, <1>3
<1>6. \A u, v, w \in S : <<u, v>> \in Before /\ <<v, w>> \in Before => <<u, w>> \in Before
  BY <1>1, <1>2
<1> QED  BY <1>4, <1>5, <1>6 DEF Orders

LEMMA DeletionsAreOrdered ==
    ASSUME ScheduleAssumption, NEW S \in SUBSET Deletion
    PROVE  Orders(KeyBefore, S)
<1> DEFINE k(d) == KeyOrder[d]
<1>1. \A d \in S : d \in Deletion /\ k(d) \in Nat
  BY DEF ScheduleAssumption
<1>2. \A d, e \in S : <<d, e>> \in KeyBefore <=> k(d) < k(e)
  BY DEF KeyBefore
<1>3. \A d, e \in S : d # e => k(d) # k(e)
  BY DEF ScheduleAssumption
<1> HIDE DEF k
<1>4. \A d \in S : <<d, d>> \notin KeyBefore
  BY <1>1, <1>2
<1>5. \A d, e \in S : d # e => <<d, e>> \in KeyBefore \/ <<e, d>> \in KeyBefore
  BY <1>1, <1>2, <1>3
<1>6. \A d, e, f \in S :
         <<d, e>> \in KeyBefore /\ <<e, f>> \in KeyBefore => <<d, f>> \in KeyBefore
  BY <1>1, <1>2
<1> QED  BY <1>4, <1>5, <1>6 DEF Orders

-----------------------------------------------------------------------------
(* The attempts *)

(* Counting from the lowest keeps a count. *)
LEMMA AboveIsACount ==
    ASSUME NEW a \in [Upload -> Nat], NEW S \in SUBSET Upload
    PROVE  Above(a, S) \in [Upload -> Nat]
<1> DEFINE T == {a[v] : v \in S}
<1>1. ASSUME NEW u \in S PROVE a[u] - Min(T) \in Nat
  <2>1. T \in SUBSET Nat /\ a[u] \in T /\ T # {}
    OBVIOUS
  <2> HIDE DEF T
  <2>2. \E m \in T : \A x \in T : m <= x
    BY <2>1, LeastNatural
  <2>3. Min(T) \in T /\ \A x \in T : Min(T) <= x
    BY <2>2 DEF Min
  <2>4. Min(T) \in Nat /\ a[u] \in Nat /\ Min(T) <= a[u]
    BY <2>1, <2>3
  <2> QED  BY <2>4
<1> HIDE DEF T
<1>2. ASSUME NEW u \in Upload PROVE (IF u \in S THEN a[u] - Min(T) ELSE 0) \in Nat
  BY <1>1
<1> QED  BY <1>2 DEF Above, T

LEMMA CountedIsACount ==
    ASSUME attempts \in [Upload -> Nat], NEW u \in Upload, NEW S \in SUBSET Upload,
           Counted(u, S)
    PROVE  attempts' \in [Upload -> Nat]
<1>1. [attempts EXCEPT ![u] = @ + 1] \in [Upload -> Nat]
  OBVIOUS
<1> QED  BY <1>1, AboveIsACount DEF Counted

-----------------------------------------------------------------------------
(* The passes *)

(* A pass has deletions that were requested before it, then uploads. *)
Paced ==
    /\ TypeOK
    /\ pc = "idle" => todo = <<>>
    /\ pc = "deletions" => todo \in Seq(requested)
    /\ pc = "uploads" => todo \in Seq(Upload)

LEMMA TodoFacts ==
    ASSUME NEW S, todo \in Seq(S), room \in Nat, Len(todo) <= room, todo # <<>>
    PROVE  /\ Head(todo) \in S /\ Tail(todo) \in Seq(S)
           /\ room - 1 \in Nat /\ Len(Tail(todo)) <= room - 1 /\ Len(Tail(todo)) <= room
<1>1. Head(todo) \in S /\ Tail(todo) \in Seq(S) /\ Len(Tail(todo)) = Len(todo) - 1
  BY HeadTailProperties
<1>2. Len(todo) \in Nat /\ Len(todo) # 0
  BY EmptySeq, LenProperties
<1> QED  BY <1>1, <1>2

LEMMA BeginPaced == ASSUME ScheduleAssumption, Paced, BeginDrain PROVE Paced'
<1>1. requested \subseteq Deletion /\ acked \subseteq requested /\ Limit \in Nat
  BY DEF Paced, TypeOK, ScheduleAssumption
<1>2. IsFiniteSet(requested \ acked)
  BY <1>1, FS_Subset DEF ScheduleAssumption
<1>3. Orders(KeyBefore, requested \ acked)
  BY <1>1, DeletionsAreOrdered
<1>4. todo' \in Seq(requested \ acked) /\ Len(todo') <= Limit
  BY <1>1, <1>2, <1>3, FirstOfFacts DEF BeginDrain, PendingDeletions
<1>5. todo' \in Seq(requested) /\ todo' \in Seq(Deletion)
  BY <1>1, <1>4, SeqMonotonic
<1>6. /\ room' = Limit /\ pc' = "deletions"
      /\ UNCHANGED <<queued, attempts, requested, acked, leased, trouble>>
  BY DEF BeginDrain
<1> QED  BY <1>1, <1>4, <1>5, <1>6 DEF Paced, TypeOK

LEMMA DeletionPaced == ASSUME ScheduleAssumption, Paced, TryDeletion PROVE Paced'
<1>1. /\ pc = "deletions" /\ todo # <<>> /\ todo' = Tail(todo)
      /\ UNCHANGED <<queued, attempts, requested, leased, pc>>
  BY DEF TryDeletion, Done
<1>2. todo \in Seq(requested) /\ room \in Nat /\ Len(todo) <= room /\ room <= Limit
  BY <1>1 DEF Paced, TypeOK, ScheduleAssumption
<1>3. /\ Head(todo) \in requested /\ todo' \in Seq(requested)
      /\ room - 1 \in Nat /\ Len(todo') <= room - 1 /\ Len(todo') <= room
  BY <1>1, <1>2, TodoFacts
<1>4. todo' \in Seq(Deletion)
  BY <1>3, SeqMonotonic DEF Paced, TypeOK
<1>5. room' = room \/ room' = room - 1
  BY DEF TryDeletion
<1>6. acked' = acked \/ acked' = acked \cup {Head(todo)}
  BY DEF TryDeletion
<1>7. trouble' \in 0 .. MaxTrouble
  BY DEF TryDeletion, Strike, Paced, TypeOK, ScheduleAssumption
<1>8. room' \in 0 .. Limit /\ Len(todo') <= room'
  BY <1>2, <1>3, <1>5 DEF ScheduleAssumption
<1> QED  BY <1>1, <1>3, <1>4, <1>6, <1>7, <1>8 DEF Paced, TypeOK

LEMMA SelectPaced == ASSUME ScheduleAssumption, Paced, SelectUploads PROVE Paced'
<1>1. queued \subseteq Upload /\ room \in Nat /\ attempts \in [Upload -> Nat]
  BY DEF Paced, TypeOK
<1>2. IsFiniteSet(queued)
  BY <1>1, FS_Subset DEF ScheduleAssumption
<1>3. Orders(Before, queued)
  BY <1>1, UploadsAreOrdered
<1>4. todo' \in Seq(queued) /\ Len(todo') <= room
  BY <1>1, <1>2, <1>3, FirstOfFacts DEF SelectUploads
<1>5. todo' \in Seq(Upload)
  BY <1>1, <1>4, SeqMonotonic
<1>6. /\ pc' = "uploads"
      /\ UNCHANGED <<queued, attempts, requested, acked, leased, room, trouble>>
  BY DEF SelectUploads
<1> QED  BY <1>4, <1>5, <1>6 DEF Paced, TypeOK

LEMMA UploadPaced == ASSUME ScheduleAssumption, Paced, TryUpload PROVE Paced'
<1> DEFINE u == Head(todo)
<1>1. /\ pc = "uploads" /\ todo # <<>> /\ todo' = Tail(todo)
      /\ UNCHANGED <<requested, acked, leased, pc, room>>
  BY DEF TryUpload, Done
<1>2. todo \in Seq(Upload) /\ room \in Nat /\ Len(todo) <= room
  BY <1>1 DEF Paced, TypeOK
<1>3. u \in Upload /\ todo' \in Seq(Upload) /\ Len(todo') <= room
  BY <1>1, <1>2, TodoFacts
<1>4. /\ queued' = queued \/ queued' = queued \ {u}
      /\ attempts' = attempts \/ Counted(u, queued')
      /\ trouble' = trouble \/ Strike
  BY DEF TryUpload
<1>5. queued' \subseteq Upload /\ attempts \in [Upload -> Nat]
  BY <1>4 DEF Paced, TypeOK
<1> HIDE DEF u
<1>6. attempts' \in [Upload -> Nat]
  <2>1. CASE attempts' = attempts
    BY <1>5, <2>1
  <2>2. CASE Counted(u, queued')
    <3>1. PICK S \in SUBSET Upload : S = queued'
      BY <1>5
    <3>2. Counted(u, S)
      BY <2>2, <3>1 DEF Counted
    <3> QED  BY <1>3, <1>5, <3>2, CountedIsACount
  <2> QED  BY <1>4, <2>1, <2>2
<1>7. trouble' \in 0 .. MaxTrouble
  BY <1>4 DEF Strike, Paced, TypeOK, ScheduleAssumption
<1> QED  BY <1>1, <1>3, <1>5, <1>6, <1>7 DEF Paced, TypeOK

LEMMA EndPaced == ASSUME ScheduleAssumption, Paced, EndDrain PROVE Paced'
<1>1. /\ pc' = "idle" /\ room' = 0 /\ todo' = <<>>
      /\ UNCHANGED <<queued, attempts, requested, acked, leased, trouble>>
  BY DEF EndDrain
<1>2. <<>> \in Seq(Upload) /\ Len(<<>>) = 0 /\ 0 \in 0 .. Limit
  BY EmptySeq DEF ScheduleAssumption
<1> QED  BY <1>1, <1>2 DEF Paced, TypeOK

(* A process dies over a row of its list. *)
LEMMA DiePaced == ASSUME ScheduleAssumption, Paced, Die PROVE Paced'
<1>1. /\ pc' = "idle" /\ room' = 0 /\ todo' = <<>>
      /\ UNCHANGED <<queued, requested, acked>> /\ Strike
  BY DEF Die
<1>2. <<>> \in Seq(Upload) /\ Len(<<>>) = 0 /\ 0 \in 0 .. Limit
  BY EmptySeq DEF ScheduleAssumption
<1>3. trouble' \in 0 .. MaxTrouble
  BY <1>1 DEF Strike, Paced, TypeOK, ScheduleAssumption
<1>4. /\ todo # <<>> => Head(todo) \in Upload \cup Deletion
      /\ todo # <<>> /\ pc = "uploads" => Head(todo) \in Upload
  <2>1. CASE todo \in Seq(Upload)
    BY <2>1, HeadTailProperties DEF Paced
  <2>2. CASE todo \in Seq(Deletion) /\ pc # "uploads"
    BY <2>2, HeadTailProperties
  <2> QED  BY <2>1, <2>2 DEF Paced, TypeOK
<1>5. leased' \subseteq Upload \cup Deletion
  BY <1>4 DEF Die, Paced, TypeOK
<1>6. attempts' \in [Upload -> Nat]
  <2>1. \/ attempts' = attempts
        \/ todo # <<>> /\ pc = "uploads" /\ Counted(Head(todo), queued)
    BY DEF Die
  <2>2. queued \in SUBSET Upload /\ attempts \in [Upload -> Nat]
    BY DEF Paced, TypeOK
  <2> QED  BY <1>4, <2>1, <2>2, CountedIsACount
<1> QED  BY <1>1, <1>2, <1>3, <1>5, <1>6 DEF Paced, TypeOK

LEMMA AroundPaced ==
    ASSUME Paced,
           \/ \E d \in Deletion : RequestDeletion(d)
           \/ \E x \in Upload \cup Deletion : Expire(x)
           \/ UNCHANGED vars
    PROVE  Paced'
<1>1. /\ UNCHANGED <<queued, attempts, acked, pc, todo, room, trouble>>
      /\ requested \subseteq requested' /\ requested' \subseteq Deletion
      /\ leased' \subseteq Upload \cup Deletion
  BY DEF RequestDeletion, Expire, vars, Paced, TypeOK
<1>2. pc = "deletions" => todo \in Seq(requested')
  BY <1>1, SeqMonotonic DEF Paced
<1> QED  BY <1>1, <1>2 DEF Paced, TypeOK

LEMMA InitPaced == ScheduleAssumption /\ Init => Paced
<1> SUFFICES ASSUME ScheduleAssumption, Init PROVE Paced
  OBVIOUS
<1>1. <<>> \in Seq(Upload) /\ Len(<<>>) = 0 /\ 0 \in 0 .. Limit /\ 0 \in 0 .. MaxTrouble
  BY EmptySeq DEF ScheduleAssumption
<1>2. attempts \in [Upload -> Nat]
  BY DEF Init, ScheduleAssumption
<1> QED  BY <1>1, <1>2 DEF Init, Paced, TypeOK

(* However many rows wait and whatever fails, a pass never has more on its   *)
(* list than the limit leaves it, deletions that were sent being counted     *)
(* against it; and attempts, counted from the lowest, never fall below it.   *)
THEOREM PassesKeepTheLimit == Spec => []TypeOK
<1>1. Paced /\ [Next]_vars => Paced'
  BY ScheduleAssumption, BeginPaced, DeletionPaced, SelectPaced, UploadPaced, EndPaced,
     DiePaced, AroundPaced DEF Next, Drain
<1>2. Init => Paced
  BY ScheduleAssumption, InitPaced
<1>3. Paced => TypeOK
  BY DEF Paced
<1> QED  BY <1>1, <1>2, <1>3, PTL DEF Spec
=============================================================================
