----------------------------- MODULE SweepProofs ----------------------------
(* What the upload sweep promises, for every number of exporters,           *)
(* transcripts and configurations: the state file is never ahead of the     *)
(* store, and a sweep that reports success has delivered what it found, if  *)
(* no two transcripts share a session id.                                   *)
EXTENDS Sweep, FiniteSetTheorems, SequenceTheorems, TLAPS

(* No two transcripts give the same session id. *)
OneFilePerSession == \A p, q \in Path : SessionOf[p] = SessionOf[q] => p = q

Injective(s) == \A i, j \in DOMAIN s : s[i] = s[j] => i = j

-----------------------------------------------------------------------------
(* The invariant *)

Typed ==
    /\ TypeOK
    /\ \A e \in Exporter : Injective(todo[e]) /\ (pc[e] = "solo" => solo[e] # <<>>)

Known == [Path -> Nat]

(* Discovery fingerprints first and reads afterwards; an exporter starts    *)
(* without memory.                                                          *)
Ordered(e) ==
    /\ pc[e] = "idle" => seen[e] = Nothing
    /\ \A p \in Path : print[e][p] <= version[p]
    /\ pc[e] \notin {"idle", "read"} => \A p \in Path : print[e][p] <= content[e][p]

(* What an exporter remembers its store holds, unless it was misled.        *)
Backed(e) ==
    ignoring[e] \/ ~forged => \A p \in Path : seen[e][p] <= held[config[e]][p]

(* A sweep without a fault so far has everything behind it that it does not *)
(* still have to send.                                                      *)
Covered(e) ==
    pc[e] \in {"send", "solo", "save", "write", "done"} /\ faults[e] = {} =>
        \A p \in Path : \/ p \in PathsOf(todo[e]) \/ p \in PathsOf(solo[e])
                        \/ seen[e][p] = print[e][p]

Honest ==
    /\ Typed
    /\ RecordedIsHeld
    /\ \A e \in Exporter : Ordered(e) /\ Backed(e) /\ Covered(e)

-----------------------------------------------------------------------------
(* Sequences and the marking of results *)

LEMMA SliceProperties ==
    ASSUME NEW S, NEW s \in Seq(S), NEW n \in 1 .. Len(s)
    PROVE  /\ SubSeq(s, 1, n) \in Seq(S) /\ SubSeq(s, n + 1, Len(s)) \in Seq(S)
           /\ DOMAIN SubSeq(s, 1, n) = 1 .. n
           /\ DOMAIN SubSeq(s, n + 1, Len(s)) = 1 .. Len(s) - n
           /\ \A i \in 1 .. n : SubSeq(s, 1, n)[i] = s[i]
           /\ \A i \in 1 .. Len(s) - n : SubSeq(s, n + 1, Len(s))[i] = s[n + i]
  OBVIOUS

LEMMA SlicePaths ==
    ASSUME NEW S, NEW s \in Seq(S), NEW n \in 1 .. Len(s)
    PROVE  /\ PathsOf(s) = PathsOf(SubSeq(s, 1, n)) \cup PathsOf(SubSeq(s, n + 1, Len(s)))
           /\ Injective(s) =>
                 /\ PathsOf(SubSeq(s, 1, n)) \cap PathsOf(SubSeq(s, n + 1, Len(s))) = {}
                 /\ Injective(SubSeq(s, n + 1, Len(s)))
<1> DEFINE a == SubSeq(s, 1, n)
           b == SubSeq(s, n + 1, Len(s))
<1>1. /\ DOMAIN a = 1 .. n /\ DOMAIN b = 1 .. Len(s) - n
      /\ \A i \in 1 .. n : a[i] = s[i]
      /\ \A i \in 1 .. Len(s) - n : b[i] = s[n + i]
      /\ DOMAIN s = 1 .. Len(s) /\ Len(s) \in Nat
  BY SliceProperties
<1> HIDE DEF a, b
<1>2. \A i \in 1 .. Len(s) : i \in 1 .. n \/ (i - n \in 1 .. Len(s) - n /\ i = n + (i - n))
  BY <1>1
<1>3. PathsOf(s) = PathsOf(a) \cup PathsOf(b)
  <2>1. ASSUME NEW i \in DOMAIN s PROVE s[i] \in PathsOf(a) \cup PathsOf(b)
    <3>1. CASE i \in 1 .. n
      BY <1>1, <3>1 DEF PathsOf
    <3>2. CASE i - n \in 1 .. Len(s) - n
      <4>1. b[i - n] = s[i]
        BY <1>1, <3>2
      <4> QED  BY <1>1, <3>2, <4>1 DEF PathsOf
    <3> QED  BY <1>1, <1>2, <3>1, <3>2
  <2>2. ASSUME NEW i \in DOMAIN a PROVE a[i] \in PathsOf(s)
    BY <1>1 DEF PathsOf
  <2>3. ASSUME NEW i \in DOMAIN b PROVE b[i] \in PathsOf(s)
    BY <1>1 DEF PathsOf
  <2> QED  BY <2>1, <2>2, <2>3 DEF PathsOf
<1>4. ASSUME Injective(s) PROVE PathsOf(a) \cap PathsOf(b) = {}
  <2>1. ASSUME NEW i \in DOMAIN a, NEW j \in DOMAIN b PROVE a[i] # b[j]
    BY <1>1, <1>4 DEF Injective
  <2> QED  BY <2>1 DEF PathsOf
<1>5. ASSUME Injective(s) PROVE Injective(b)
  <2>1. SUFFICES ASSUME NEW i \in 1 .. Len(s) - n, NEW j \in 1 .. Len(s) - n, b[i] = b[j]
                 PROVE  i = j
    BY <1>1 DEF Injective
  <2>2. s[n + i] = s[n + j] /\ n + i \in DOMAIN s /\ n + j \in DOMAIN s
    BY <1>1, <2>1
  <2>3. n + i = n + j
    BY <1>5, <2>2 DEF Injective
  <2> QED  BY <2>3
<1> QED  BY <1>3, <1>4, <1>5 DEF a, b

LEMMA NotEmpty == ASSUME NEW s, 1 \in DOMAIN s PROVE s # <<>>
  OBVIOUS

LEMMA TailProperties ==
    ASSUME NEW S, NEW s \in Seq(S), s # <<>>
    PROVE  /\ Head(s) \in S /\ Tail(s) \in Seq(S)
           /\ PathsOf(s) = {Head(s)} \cup PathsOf(Tail(s))
           /\ Len(s) = 1 <=> Tail(s) = <<>>
<1>1. /\ Len(s) \in Nat /\ DOMAIN s = 1 .. Len(s) /\ 1 \in 1 .. Len(s) /\ Head(s) = s[1]
      /\ Tail(s) \in Seq(S) /\ DOMAIN Tail(s) = 1 .. Len(s) - 1
      /\ \A i \in 1 .. Len(s) - 1 : Tail(s)[i] = s[i + 1]
      /\ Len(s) = 1 <=> Tail(s) = <<>>
  <2>1. /\ Len(s) \in Nat \ {0} /\ DOMAIN s = 1 .. Len(s) /\ Head(s) = s[1]
        /\ Tail(s) \in Seq(S) /\ Len(Tail(s)) = Len(s) - 1
        /\ \A i \in 1 .. Len(Tail(s)) : Tail(s)[i] = s[i + 1]
    BY EmptySeq, LenProperties, HeadTailProperties
  <2>2. DOMAIN Tail(s) = 1 .. Len(Tail(s)) /\ (Len(Tail(s)) = 0 <=> Tail(s) = <<>>)
    BY <2>1, EmptySeq, LenProperties
  <2> QED  BY <2>1, <2>2
<1>2. ASSUME NEW i \in DOMAIN s PROVE s[i] \in {Head(s)} \cup PathsOf(Tail(s))
  <2>1. CASE i # 1
    <3>1. i - 1 \in DOMAIN Tail(s) /\ Tail(s)[i - 1] = s[i]
      BY <1>1, <2>1
    <3> QED  BY <3>1 DEF PathsOf
  <2> QED  BY <1>1, <2>1
<1>3. ASSUME NEW i \in DOMAIN Tail(s) PROVE Tail(s)[i] \in PathsOf(s)
  BY <1>1 DEF PathsOf
<1>4. Head(s) \in PathsOf(s) /\ Head(s) \in S
  BY <1>1 DEF PathsOf
<1> QED  BY <1>1, <1>2, <1>3, <1>4 DEF PathsOf

LEMMA AlikeFinite ==
    ASSUME NEW s \in Seq(Path), NEW i, NEW A \in SUBSET DOMAIN s
    PROVE  /\ IsFiniteSet(Alike(s, i, A)) /\ Cardinality(Alike(s, i, A)) \in Nat
           /\ Cardinality(Alike(s, i, A)) = 0 <=> Alike(s, i, A) = {}
<1>1. IsFiniteSet(DOMAIN s)
  <2>1. DOMAIN s = 1 .. Len(s) /\ Len(s) \in Int
    OBVIOUS
  <2> QED  BY <2>1, FS_Interval
<1>2. Alike(s, i, A) \in SUBSET DOMAIN s
  BY DEF Alike
<1>3. IsFiniteSet(Alike(s, i, A))
  BY <1>1, <1>2, FS_Subset
<1> QED  BY <1>3, FS_CardinalityType, FS_EmptySet

(* When no two transcripts share a session id, a result marks the very item *)
(* it is about; and without rejections, one that is unmarked is counted.     *)
LEMMA MarkedWereConfirmed ==
    ASSUME SweepAssumption, OneFilePerSession,
           NEW s \in Seq(Path), NEW ok \in SUBSET DOMAIN s
    PROVE  \A i \in Marked(s, ok) : \E j \in ok : s[j] = s[i]
<1> SUFFICES ASSUME NEW i \in Marked(s, ok) PROVE \E j \in ok : s[j] = s[i]
  OBVIOUS
<1>1. i \in DOMAIN s /\ 1 .. i - 1 \in SUBSET DOMAIN s
  BY DEF Marked
<1>2. Cardinality(Alike(s, i, 1 .. i - 1)) < Cardinality(Alike(s, i, ok))
  BY DEF Marked
<1>3. /\ Cardinality(Alike(s, i, 1 .. i - 1)) \in Nat
      /\ Cardinality(Alike(s, i, ok)) \in Nat
      /\ Cardinality(Alike(s, i, ok)) = 0 <=> Alike(s, i, ok) = {}
  BY <1>1, AlikeFinite
<1>4. PICK j \in Alike(s, i, ok) : TRUE
  BY <1>2, <1>3
<1>5. j \in ok /\ SessionOf[s[j]] = SessionOf[s[i]] /\ s[j] \in Path /\ s[i] \in Path
  BY <1>1, <1>4 DEF Alike
<1> QED  BY <1>5 DEF OneFilePerSession

LEMMA UnmarkedIsCounted ==
    ASSUME NEW s \in Seq(Path), NEW ok \in SUBSET DOMAIN s, Unanswered(s, ok, {}) = {}
    PROVE  Marked(s, ok) = DOMAIN s
<1> DEFINE left == DOMAIN s \ Marked(s, ok)
<1>1. ASSUME NEW i \in left PROVE FALSE
  <2>1. Cardinality(Alike(s, i, {j \in left : j < i})) \in Nat
    <3>1. {j \in left : j < i} \in SUBSET DOMAIN s
      OBVIOUS
    <3> QED  BY <3>1, AlikeFinite
  <2>2. Cardinality(Alike(s, i, {})) = 0
    <3>1. Alike(s, i, {}) = {}
      BY DEF Alike
    <3> QED  BY <3>1, FS_EmptySet
  <2>3. i \in Unanswered(s, ok, {})
    BY <2>1, <2>2 DEF Unanswered
  <2> QED  BY <2>3
<1> QED  BY <1>1 DEF Marked

-----------------------------------------------------------------------------
(* What the parts of a request do *)

(* Marking writes the fingerprints of what is marked, and nothing else. *)
LEMMA MarkEffect ==
    ASSUME Typed, NEW e \in Exporter, NEW s, NEW I, Mark(e, s, I)
    PROVE  /\ seen' \in [Exporter -> Known]
           /\ \A f \in Exporter : f # e => seen'[f] = seen[f]
           /\ \A p \in Path : seen'[e][p] = IF \E i \in I : s[i] = p THEN print[e][p]
                                                                     ELSE seen[e][p]
<1> DEFINE new == [p \in Path |-> IF \E i \in I : s[i] = p THEN print[e][p] ELSE seen[e][p]]
<1>1. seen' = [seen EXCEPT ![e] = new]
  BY DEF Mark
<1>2. seen \in [Exporter -> Known] /\ print \in [Exporter -> Known]
  BY DEF Typed, TypeOK, Known
<1>3. new \in Known
  BY <1>2 DEF Known
<1>4. \A p \in Path : new[p] = IF \E i \in I : s[i] = p THEN print[e][p] ELSE seen[e][p]
  OBVIOUS
<1> HIDE DEF new
<1> QED  BY <1>1, <1>2, <1>3, <1>4

(* The store only gains, and has what it keeps. *)
Gains == \A c \in Config, p \in Path : held[c][p] <= held'[c][p]

LEMMA KeepEffect ==
    ASSUME Typed, NEW e \in Exporter, NEW s, NEW kept, Keep(e, s, kept)
    PROVE  /\ held' \in [Config -> Known]
           /\ Gains
           /\ \A i \in kept : s[i] \in Path => held'[config[e]][s[i]] >= content[e][s[i]]
<1> DEFINE old == held[config[e]]
           new == [p \in Path |-> IF \E i \in kept : s[i] = p /\ content[e][p] > old[p]
                                  THEN content[e][p] ELSE old[p]]
<1>1. held' = [held EXCEPT ![config[e]] = new]
  BY DEF Keep
<1>2. held \in [Config -> Known] /\ content[e] \in Known /\ config[e] \in Config /\ old \in Known
  BY DEF Typed, TypeOK, Known
<1>3. new \in Known
  BY <1>2 DEF Known
<1>4. \A p \in Path : old[p] <= new[p] /\ old[p] \in Nat
  BY <1>2 DEF Known
<1>5. \A i \in kept : s[i] \in Path => new[s[i]] >= content[e][s[i]]
  BY <1>2 DEF Known
<1>6. \A c \in Config, p \in Path : held[c][p] \in Nat
  BY <1>2 DEF Known
<1>7. held'[config[e]] = new /\ \A c \in Config : c # config[e] => held'[c] = held[c]
  BY <1>1, <1>2
<1>8. held' \in [Config -> Known]
  BY <1>1, <1>2, <1>3
<1>9. Gains
  <2>1. SUFFICES ASSUME NEW c \in Config, NEW p \in Path PROVE held[c][p] <= held'[c][p]
    BY DEF Gains
  <2>2. CASE c = config[e]
    BY <1>4, <1>7, <2>2
  <2>3. CASE c # config[e]
    BY <1>6, <1>7, <2>3
  <2> QED  BY <2>2, <2>3
<1> HIDE DEF new, old
<1> QED  BY <1>5, <1>7, <1>8, <1>9

(* A request that was answered leaves what is confirmed with the store. *)
LEMMA AnsweredEffect ==
    ASSUME Typed, NEW e \in Exporter, NEW s, NEW ok, NEW no, Answered(e, s, ok, no)
    PROVE  /\ held' \in [Config -> Known] /\ Gains /\ trouble' \in Nat
           /\ \A i \in ok : s[i] \in Path => held'[config[e]][s[i]] >= content[e][s[i]]
<1>1. PICK kept \in SUBSET (DOMAIN s \ no) : ok \subseteq kept /\ Keep(e, s, kept)
  BY DEF Answered
<1>2. trouble' \in Nat
  BY DEF Answered, Typed, TypeOK
<1> QED  BY <1>1, <1>2, KeepEffect

LEMMA UnheardEffect ==
    ASSUME Typed, NEW e \in Exporter, NEW s, Unheard(e, s)
    PROVE  held' \in [Config -> Known] /\ Gains /\ trouble' \in Nat
<1>1. CASE UNCHANGED <<held, trouble>>
  BY <1>1 DEF Typed, TypeOK, Known, Gains
<1>2. CASE trouble' = trouble + 1 /\ \E kept \in SUBSET DOMAIN s : Keep(e, s, kept)
  <2>1. PICK kept \in SUBSET DOMAIN s : Keep(e, s, kept)
    BY <1>2
  <2> QED  BY <1>2, <2>1, KeepEffect DEF Typed, TypeOK
<1> QED  BY <1>1, <1>2 DEF Unheard

(* What the store gains takes nothing from what is known of it. *)
LEMMA GainingIsBacked ==
    ASSUME Honest, Gains, held' \in [Config -> Known], UNCHANGED <<disk, task, seen>>
    PROVE  RecordedIsHeld' /\ \A f \in Exporter : Backed(f)'
<1>1. /\ held \in [Config -> Known] /\ seen \in [Exporter -> Known]
      /\ config \in [Exporter -> Config] /\ file \in Saved \cup {Torn}
  BY DEF Honest, Typed, TypeOK, Known
<1>2. /\ file' = file /\ forged' = forged /\ config' = config /\ ignoring' = ignoring
      /\ seen' = seen
  BY DEF disk, task
<1>3. \A c \in Config, p \in Path :
          held[c][p] \in Nat /\ held'[c][p] \in Nat /\ held[c][p] <= held'[c][p]
  BY <1>1 DEF Gains, Known
<1>4. RecordedIsHeld'
  <2>1. SUFFICES ASSUME file # Torn, ~forged, NEW p \in Path
                 PROVE  file.seen[p] <= held'[file.config][p]
    BY <1>2 DEF RecordedIsHeld
  <2>2. file.seen[p] <= held[file.config][p]
    BY <2>1 DEF Honest, RecordedIsHeld
  <2>3. file.config \in Config /\ file.seen[p] \in Nat
    BY <1>1, <2>1 DEF Saved
  <2> QED  BY <1>3, <2>2, <2>3
<1>5. ASSUME NEW f \in Exporter, ignoring[f] \/ ~forged, NEW p \in Path
      PROVE  seen[f][p] <= held'[config[f]][p]
  <2>1. seen[f][p] <= held[config[f]][p] /\ seen[f][p] \in Nat /\ config[f] \in Config
    BY <1>1, <1>5 DEF Honest, Backed, Known
  <2> QED  BY <1>3, <2>1
<1> QED  BY <1>2, <1>4, <1>5 DEF Backed

(* What is marked on the strength of an answer is backed. *)
LEMMA MarkingIsBacked ==
    ASSUME Honest, NEW e \in Exporter, pc[e] \notin {"idle", "read"},
           NEW s, NEW I, Mark(e, s, I), Gains, held' \in [Config -> Known],
           \A i \in I : s[i] \in Path => held'[config[e]][s[i]] >= content[e][s[i]],
           UNCHANGED <<disk, task, print>>
    PROVE  RecordedIsHeld' /\ \A f \in Exporter : Backed(f)'
<1>1. /\ held \in [Config -> Known] /\ seen \in [Exporter -> Known]
      /\ content \in [Exporter -> Known] /\ print \in [Exporter -> Known]
      /\ config \in [Exporter -> Config] /\ file \in Saved \cup {Torn}
  BY DEF Honest, Typed, TypeOK, Known
<1>2. /\ file' = file /\ forged' = forged /\ config' = config /\ ignoring' = ignoring
      /\ print' = print
  BY DEF disk, task
<1>3. \A c \in Config, p \in Path :
          held[c][p] \in Nat /\ held'[c][p] \in Nat /\ held[c][p] <= held'[c][p]
  BY <1>1 DEF Gains, Known
<1>4. RecordedIsHeld'
  <2>1. SUFFICES ASSUME file # Torn, ~forged, NEW p \in Path
                 PROVE  file.seen[p] <= held'[file.config][p]
    BY <1>2 DEF RecordedIsHeld
  <2>2. file.seen[p] <= held[file.config][p]
    BY <2>1 DEF Honest, RecordedIsHeld
  <2>3. file.config \in Config /\ file.seen[p] \in Nat
    BY <1>1, <2>1 DEF Saved
  <2> QED  BY <1>3, <2>2, <2>3
<1>5. ASSUME NEW f \in Exporter, ignoring[f] \/ ~forged, NEW p \in Path
      PROVE  seen'[f][p] <= held'[config[f]][p]
  <2>1. seen[f][p] <= held[config[f]][p] /\ seen[f][p] \in Nat /\ config[f] \in Config
    BY <1>1, <1>5 DEF Honest, Backed, Known
  <2>2. CASE seen'[f][p] = seen[f][p]
    BY <1>3, <2>1, <2>2
  <2>3. CASE f = e /\ \E i \in I : s[i] = p
    <3>1. seen'[e][p] = print[e][p]
      BY <2>3, MarkEffect DEF Honest
    <3>2. print[e][p] <= content[e][p]
      BY DEF Honest, Ordered
    <3>3. content[e][p] <= held'[config[e]][p]
      BY <1>1, <1>3, <2>3 DEF Known
    <3>4. print[e][p] \in Nat /\ content[e][p] \in Nat /\ held'[config[e]][p] \in Nat
      BY <1>1, <1>3 DEF Known
    <3> QED  BY <2>3, <3>1, <3>2, <3>3, <3>4
  <2> QED  BY <2>2, <2>3, MarkEffect DEF Honest
<1> QED  BY <1>2, <1>4, <1>5 DEF Backed

-----------------------------------------------------------------------------
(* The steps of one exporter *)

LEMMA InitHonest == SweepAssumption /\ Init => Honest
<1> SUFFICES ASSUME SweepAssumption, Init PROVE Honest
  OBVIOUS
<1>1. Typed
  <2>1. PathsOf(<<>>) = {} /\ Injective(<<>>) /\ <<>> \in Seq(Path)
    BY DEF PathsOf, Injective
  <2>2. Nothing \in [Path -> Nat] /\ [p \in Path |-> 1] \in [Path -> Nat]
    BY DEF Nothing
  <2> QED  BY <2>1, <2>2 DEF Init, Typed, TypeOK
<1>2. RecordedIsHeld
  BY DEF Init, RecordedIsHeld
<1>3. ASSUME NEW e \in Exporter PROVE Ordered(e) /\ Backed(e) /\ Covered(e)
  BY <1>3 DEF Init, Ordered, Backed, Covered, Nothing
<1> QED  BY <1>1, <1>2, <1>3 DEF Honest

LEMMA StartHonest ==
    ASSUME Honest, NEW e \in Exporter, NEW b \in BOOLEAN, Start(e, b) PROVE Honest'
<1>1. Typed'
  BY DEF Honest, Typed, TypeOK, Start, disk, Injective
<1>2. RecordedIsHeld'
  BY DEF Honest, RecordedIsHeld, Start, disk
<1>3. ASSUME NEW f \in Exporter PROVE Ordered(f)'
  BY DEF Honest, Typed, TypeOK, Ordered, Start, disk, Nothing
<1>4. ASSUME NEW f \in Exporter PROVE Backed(f)'
  BY DEF Honest, Typed, TypeOK, Backed, Ordered, Start, disk, Nothing
<1>5. ASSUME NEW f \in Exporter PROVE Covered(f)'
  BY DEF Honest, Typed, TypeOK, Covered, Start, disk
<1> QED  BY <1>1, <1>2, <1>3, <1>4, <1>5 DEF Honest

LEMMA ReadHonest == ASSUME Honest, NEW e \in Exporter, Read(e) PROVE Honest'
<1>1. Typed'
  BY DEF Honest, Typed, TypeOK, Read, disk, task, Injective
<1>2. RecordedIsHeld'
  BY DEF Honest, RecordedIsHeld, Read, disk
<1>3. ASSUME NEW f \in Exporter PROVE Ordered(f)'
  BY DEF Honest, Typed, TypeOK, Ordered, Read, disk, Nothing
<1>4. ASSUME NEW f \in Exporter PROVE Backed(f)'
  BY DEF Honest, Typed, TypeOK, Backed, Read, disk, task
<1>5. ASSUME NEW f \in Exporter PROVE Covered(f)'
  BY DEF Honest, Typed, TypeOK, Covered, Read
<1> QED  BY <1>1, <1>2, <1>3, <1>4, <1>5 DEF Honest

(* The order a discovery puts its paths in has each of them once. *)
LEMMA OrdersProperties ==
    ASSUME SweepAssumption, NEW S \in SUBSET Path, NEW o \in Orders(S)
    PROVE  o \in Seq(Path) /\ Injective(o) /\ PathsOf(o) = S
<1>1. IsFiniteSet(S) /\ Cardinality(S) \in Nat
  BY FS_Subset, FS_CardinalityType DEF SweepAssumption
<1> DEFINE n == Cardinality(S)
<1>2. o \in [1 .. n -> S] /\ \A i, j \in 1 .. n : i < j => Place[o[i]] < Place[o[j]]
  BY DEF Orders
<1>3. \A i \in 1 .. n : Place[o[i]] \in Nat
  BY <1>2 DEF SweepAssumption
<1>4. \A i, j \in 1 .. n : o[i] = o[j] => i = j
  <2>1. SUFFICES ASSUME NEW i \in 1 .. n, NEW j \in 1 .. n, o[i] = o[j], i # j PROVE FALSE
    OBVIOUS
  <2>2. CASE i < j
    BY <1>2, <1>3, <2>1, <2>2
  <2>3. CASE j < i
    BY <1>2, <1>3, <2>1, <2>3
  <2> QED  BY <1>1, <2>1, <2>2, <2>3
<1>5. o \in Injection(1 .. n, S)
  BY <1>2, <1>4 DEF Injection, IsInjective
<1>6. IsFiniteSet(1 .. n) /\ Cardinality(1 .. n) = n
  BY <1>1, FS_Interval
<1>7. o \in Surjection(1 .. n, S)
  BY <1>1, <1>5, <1>6, FS_Injection
<1>8. DOMAIN o = 1 .. n
  BY <1>2
<1>9. PathsOf(o) = S
  <2>1. \A p \in S : \E i \in 1 .. n : o[i] = p
    BY <1>7 DEF Surjection
  <2>2. \A i \in 1 .. n : o[i] \in S
    BY <1>2
  <2>3. PathsOf(o) = {o[i] : i \in 1 .. n}
    BY <1>8 DEF PathsOf
  <2> HIDE DEF n
  <2> QED  BY <2>1, <2>2, <2>3
<1>10. o \in Seq(Path)
  <2>1. o \in [1 .. n -> Path] /\ n \in Nat
    BY <1>1, <1>2
  <2> HIDE DEF n
  <2> QED  BY <2>1
<1> QED  BY <1>4, <1>8, <1>9, <1>10 DEF Injective

(* What is loaded is backed, if it is anything. *)
LEMMA LoadedIsBacked ==
    ASSUME Honest, NEW e \in Exporter
    PROVE  /\ Loaded(e) \in Known
           /\ ignoring[e] \/ ~forged =>
                 \A p \in Path : Loaded(e)[p] <= held[config[e]][p]
<1>1. held \in [Config -> Known] /\ config[e] \in Config /\ file \in Saved \cup {Torn}
  BY DEF Honest, Typed, TypeOK, Known
<1>2. CASE ignoring[e] \/ file = Torn
  BY <1>1, <1>2 DEF Loaded, Nothing, Known
<1>3. CASE ~ignoring[e] /\ file # Torn
  <2>1. Loaded(e) = IF file.config # config[e] THEN Nothing ELSE file.seen
    BY <1>3 DEF Loaded
  <2>2. file.seen \in Known
    BY <1>1, <1>3 DEF Saved, Known
  <2>3. ~forged => \A p \in Path : file.seen[p] <= held[file.config][p]
    BY <1>3 DEF Honest, RecordedIsHeld
  <2> QED  BY <1>1, <1>3, <2>1, <2>2, <2>3 DEF Nothing, Known
<1> QED  BY <1>2, <1>3

LEMMA LoadHonest == ASSUME SweepAssumption, Honest, NEW e \in Exporter, Load(e) PROVE Honest'
<1> DEFINE stale == {p \in Path : Loaded(e)[p] # print[e][p]}
           large == {p \in stale : content[e][p] > MaxEnvelope}
<1>1. PICK o \in Orders(stale \ large) : todo' = [todo EXCEPT ![e] = o]
  BY DEF Load
<1>2. o \in Seq(Path) /\ Injective(o) /\ PathsOf(o) = stale \ large
  BY OrdersProperties
<1>3. /\ faults' = [faults EXCEPT ![e] = IF large = {} THEN {} ELSE {"oversize"}]
      /\ pc' = [pc EXCEPT ![e] = IF stale = large THEN "done" ELSE "send"]
      /\ seen' = [seen EXCEPT ![e] = Loaded(e)]
      /\ pc[e] = "load"
      /\ UNCHANGED <<version, file, forged, held, config, ignoring, print, content, solo, trouble>>
  BY DEF Load, disk, task, found
<1>4. stale = large => o = <<>>
  <2>1. SUFFICES ASSUME stale = large, o # <<>> PROVE FALSE
    OBVIOUS
  <2>2. o[1] \in PathsOf(o)
    BY <1>2, <2>1, EmptySeq, LenProperties DEF PathsOf
  <2> QED  BY <1>2, <2>1, <2>2
<1>5. Loaded(e) \in Known
  BY LoadedIsBacked
<1> HIDE DEF stale, large
<1>6. Typed'
  <2>1. /\ todo' \in [Exporter -> Seq(Path)] /\ seen' \in [Exporter -> [Path -> Nat]]
        /\ faults' \in [Exporter -> SUBSET Fault]
        /\ pc' \in [Exporter -> {"idle", "read", "load", "send", "solo", "save",
                                 "write", "done"}]
    BY <1>1, <1>2, <1>3, <1>5 DEF Honest, Typed, TypeOK, Known, Fault
  <2>2. ASSUME NEW f \in Exporter
        PROVE  /\ PathsOf(todo'[f]) \cap PathsOf(solo'[f]) = {}
               /\ pc'[f] \in {"idle", "read", "load", "done"} => todo'[f] = <<>>
               /\ pc'[f] # "solo" => solo'[f] = <<>>
               /\ Injective(todo'[f])
               /\ pc'[f] = "solo" => solo'[f] # <<>>
    <3>1. CASE f = e
      <4>1. solo'[e] = <<>>
        BY <1>3 DEF Honest, Typed, TypeOK
      <4>2. PathsOf(<<>>) = {}
        BY DEF PathsOf
      <4> QED  BY <1>1, <1>2, <1>3, <1>4, <3>1, <4>1, <4>2 DEF Honest, Typed, TypeOK
    <3>2. CASE f # e
      BY <1>1, <1>3, <3>2 DEF Honest, Typed, TypeOK
    <3> QED  BY <3>1, <3>2
  <2> QED  BY <1>3, <2>1, <2>2 DEF Honest, Typed, TypeOK
<1>7. RecordedIsHeld'
  BY <1>3 DEF Honest, RecordedIsHeld
<1>8. ASSUME NEW f \in Exporter PROVE Ordered(f)'
  BY <1>3 DEF Honest, Typed, TypeOK, Ordered
<1>9. ASSUME NEW f \in Exporter PROVE Backed(f)'
  BY <1>3, LoadedIsBacked DEF Honest, Typed, TypeOK, Backed
<1>10. ASSUME NEW f \in Exporter PROVE Covered(f)'
  <2>1. CASE f = e
    <3>1. SUFFICES ASSUME large = {}, NEW p \in Path
                   PROVE  p \in PathsOf(todo'[e]) \/ seen'[e][p] = print'[e][p]
      BY <1>3, <2>1 DEF Covered, Honest, Typed, TypeOK
    <3>2. p \in stale \/ Loaded(e)[p] = print[e][p]
      BY DEF stale
    <3> QED  BY <1>1, <1>2, <1>3, <3>1, <3>2 DEF Honest, Typed, TypeOK
  <2>2. CASE f # e
    BY <1>1, <1>3, <2>2 DEF Honest, Typed, TypeOK, Covered
  <2> QED  BY <2>1, <2>2
<1> QED  BY <1>6, <1>7, <1>8, <1>9, <1>10 DEF Honest

(* A batch: what it marks is confirmed, and without a new fault everything  *)
(* in it is marked.                                                         *)
LEMMA SendHonest ==
    ASSUME SweepAssumption, OneFilePerSession,
           Honest, NEW e \in Exporter, Send(e)
    PROVE  Honest'
<1>1. PICK n \in Cuts(e) : /\ SendAnswered(e, Slice(e, n)) \/ SendUnheard(e, Slice(e, n))
                           /\ todo' = [todo EXCEPT ![e] = Rest(e, n)]
  BY DEF Send
<1> DEFINE s == Slice(e, n)
           b == Rest(e, n)
<1>2. /\ pc[e] = "send" /\ solo[e] = <<>>
      /\ UNCHANGED <<version, file, forged, config, ignoring, print, content>>
  BY DEF Send, disk, task, found, Honest, Typed, TypeOK
<1>3. /\ s \in Seq(Path) /\ b \in Seq(Path) /\ PathsOf(todo[e]) = PathsOf(s) \cup PathsOf(b)
      /\ PathsOf(s) \cap PathsOf(b) = {} /\ Injective(b) /\ s # <<>>
  <2>1. todo[e] \in Seq(Path) /\ Injective(todo[e]) /\ n \in 1 .. Len(todo[e])
    BY DEF Honest, Typed, TypeOK, Cuts
  <2>2. DOMAIN s = 1 .. n /\ 1 \in 1 .. n
    BY <2>1, SliceProperties DEF Slice
  <2>3. s # <<>>
    BY <2>2, NotEmpty
  <2> QED  BY <2>1, <2>3, SliceProperties, SlicePaths DEF Slice, Rest
<1> HIDE DEF s, b
<1>4. CASE SendAnswered(e, s)
  <2>1. PICK ok, no \in SUBSET DOMAIN s :
            /\ Answered(e, s, ok, no)
            /\ Mark(e, s, Marked(s, ok))
            /\ faults' = [faults EXCEPT ![e] = @
                  \cup (IF no = {} THEN {} ELSE {"rejected"})
                  \cup (IF Unanswered(s, ok, no) = {} THEN {} ELSE {"unconfirmed"})]
            /\ pc' = [pc EXCEPT ![e] = "save"]
            /\ solo' = solo
    BY <1>4 DEF SendAnswered
  <2>2. \A i \in Marked(s, ok) : s[i] \in Path => held'[config[e]][s[i]] >= content[e][s[i]]
    <3>1. SUFFICES ASSUME NEW i \in Marked(s, ok), s[i] \in Path
                   PROVE  held'[config[e]][s[i]] >= content[e][s[i]]
      OBVIOUS
    <3>2. \A k \in Marked(s, ok) : \E j \in ok : s[j] = s[k]
      BY <1>3, MarkedWereConfirmed
    <3>3. PICK j \in ok : s[j] = s[i]
      BY <3>2
    <3> QED  BY <2>1, <3>1, <3>3, AnsweredEffect DEF Honest
  <2>3. held' \in [Config -> Known] /\ Gains /\ trouble' \in Nat
    BY <2>1, AnsweredEffect DEF Honest
  <2>4. RecordedIsHeld' /\ \A f \in Exporter : Backed(f)'
    BY <1>2, <2>1, <2>2, <2>3, MarkingIsBacked DEF disk, task
  <2>8. /\ \A f \in Exporter : f # e => seen'[f] = seen[f]
        /\ \A p \in Path : seen'[e][p] = IF \E i \in Marked(s, ok) : s[i] = p
                                        THEN print[e][p] ELSE seen[e][p]
    BY <2>1, MarkEffect DEF Honest
  <2>5. Typed'
    <3>1. /\ todo' \in [Exporter -> Seq(Path)] /\ seen' \in [Exporter -> [Path -> Nat]]
          /\ pc' \in [Exporter -> {"idle", "read", "load", "send", "solo", "save",
                                   "write", "done"}]
      BY <1>1, <1>3, <2>1, MarkEffect DEF Honest, Typed, TypeOK, Known, b
    <3>2. faults' \in [Exporter -> SUBSET Fault]
      BY <2>1 DEF Honest, Typed, TypeOK, Fault
    <3>3. ASSUME NEW f \in Exporter
          PROVE  /\ PathsOf(todo'[f]) \cap PathsOf(solo'[f]) = {}
                 /\ pc'[f] \in {"idle", "read", "load", "done"} => todo'[f] = <<>>
                 /\ pc'[f] # "solo" => solo'[f] = <<>>
                 /\ Injective(todo'[f])
                 /\ pc'[f] = "solo" => solo'[f] # <<>>
      <4>1. CASE f = e
        <5>1. PathsOf(<<>>) = {}
          BY DEF PathsOf
        <5> QED  BY <1>1, <1>2, <1>3, <2>1, <4>1, <5>1 DEF Honest, Typed, TypeOK, b
      <4>2. CASE f # e
        BY <1>1, <2>1, <4>2 DEF Honest, Typed, TypeOK
      <4> QED  BY <4>1, <4>2
    <3> QED  BY <1>2, <2>1, <2>3, <3>1, <3>2, <3>3 DEF Honest, Typed, TypeOK, Known
  <2>6. ASSUME NEW f \in Exporter PROVE Ordered(f)'
    BY <1>2, <2>1, <2>8 DEF Honest, Typed, TypeOK, Ordered
  <2>7. ASSUME NEW f \in Exporter PROVE Covered(f)'
    <3>1. CASE f # e
      <4>1. /\ todo'[f] = todo[f] /\ solo'[f] = solo[f] /\ seen'[f] = seen[f]
            /\ pc'[f] = pc[f] /\ faults'[f] = faults[f] /\ print'[f] = print[f]
        BY <1>1, <1>2, <2>1, <2>8, <3>1 DEF Honest, Typed, TypeOK
      <4> QED  BY <4>1 DEF Honest, Covered
    <3>2. CASE f = e
      <4>1. SUFFICES ASSUME faults'[e] = {}, NEW p \in Path
                     PROVE  p \in PathsOf(b) \/ seen'[e][p] = print[e][p]
        BY <1>1, <1>2, <3>2 DEF Covered, Honest, Typed, TypeOK, b
      <4>2. faults[e] = {} /\ no = {} /\ Unanswered(s, ok, no) = {}
        BY <2>1, <4>1 DEF Honest, Typed, TypeOK
      <4>3. \/ p \in PathsOf(s) \/ p \in PathsOf(b) \/ seen[e][p] = print[e][p]
        <5>1. PathsOf(solo[e]) = {}
          BY <1>2 DEF PathsOf
        <5> QED  BY <1>2, <1>3, <4>2, <5>1 DEF Honest, Covered
      <4>4. p \in PathsOf(s) => \E i \in Marked(s, ok) : s[i] = p
        <5>1. Marked(s, ok) = DOMAIN s
          BY <1>3, <2>1, <4>2, UnmarkedIsCounted
        <5> QED  BY <5>1 DEF PathsOf
      <4> QED  BY <2>8, <4>3, <4>4
    <3> QED  BY <3>1, <3>2
  <2> QED  BY <2>4, <2>5, <2>6, <2>7 DEF Honest
<1>5. CASE SendUnheard(e, s)
  <2>1. /\ Unheard(e, s)
        /\ solo' = [solo EXCEPT ![e] = s]
        /\ pc' = [pc EXCEPT ![e] = "solo"]
        /\ seen' = seen /\ faults' = faults
    BY <1>5 DEF SendUnheard
  <2>2. held' \in [Config -> Known] /\ Gains /\ trouble' \in Nat
    BY <2>1, UnheardEffect DEF Honest
  <2>4. RecordedIsHeld' /\ \A f \in Exporter : Backed(f)'
    BY <1>2, <2>1, <2>2, GainingIsBacked DEF disk, task
  <2>5. Typed'
    <3>1. /\ todo' \in [Exporter -> Seq(Path)] /\ solo' \in [Exporter -> Seq(Path)]
          /\ pc' \in [Exporter -> {"idle", "read", "load", "send", "solo", "save",
                                   "write", "done"}]
      BY <1>1, <1>3, <2>1 DEF Honest, Typed, TypeOK, b
    <3>2. ASSUME NEW f \in Exporter
          PROVE  /\ PathsOf(todo'[f]) \cap PathsOf(solo'[f]) = {}
                 /\ pc'[f] \in {"idle", "read", "load", "done"} => todo'[f] = <<>>
                 /\ pc'[f] # "solo" => solo'[f] = <<>>
                 /\ Injective(todo'[f])
                 /\ pc'[f] = "solo" => solo'[f] # <<>>
      <4>1. CASE f = e
        BY <1>1, <1>2, <1>3, <2>1, <4>1 DEF Honest, Typed, TypeOK, b
      <4>2. CASE f # e
        BY <1>1, <2>1, <4>2 DEF Honest, Typed, TypeOK
      <4> QED  BY <4>1, <4>2
    <3> QED  BY <1>2, <2>1, <2>2, <3>1, <3>2 DEF Honest, Typed, TypeOK, Known
  <2>6. ASSUME NEW f \in Exporter PROVE Ordered(f)'
    BY <1>2, <2>1 DEF Honest, Typed, TypeOK, Ordered
  <2>7. ASSUME NEW f \in Exporter PROVE Covered(f)'
    <3>1. CASE f # e
      BY <1>1, <1>2, <2>1, <3>1 DEF Honest, Typed, TypeOK, Covered
    <3>2. CASE f = e
      <4>1. todo'[e] = b /\ solo'[e] = s
        BY <1>1, <2>1 DEF Honest, Typed, TypeOK, b
      <4>2. PathsOf(solo[e]) = {}
        BY <1>2 DEF PathsOf
      <4> QED  BY <1>2, <1>3, <2>1, <3>2, <4>1, <4>2 DEF Honest, Covered
    <3> QED  BY <3>1, <3>2
  <2> QED  BY <2>4, <2>5, <2>6, <2>7 DEF Honest
<1> QED  BY <1>1, <1>4, <1>5 DEF s

(* An item retried alone: the one result is about it. *)
LEMMA SoloHonest == ASSUME Honest, NEW e \in Exporter, Solo(e) PROVE Honest'
<1> DEFINE h == Head(solo[e])
           one == <<h>>
<1>0. /\ pc[e] = "solo"
      /\ solo' = [solo EXCEPT ![e] = Tail(solo[e])]
      /\ pc' = [pc EXCEPT ![e] = IF Len(solo[e]) = 1 THEN "save" ELSE "solo"]
      /\ UNCHANGED <<version, file, forged, config, ignoring, print, content, todo>>
  BY DEF Solo, disk, task, found
<1>1. /\ solo[e] \in Seq(Path) /\ solo[e] # <<>>
      /\ h \in Path /\ Tail(solo[e]) \in Seq(Path)
      /\ PathsOf(solo[e]) = {h} \cup PathsOf(Tail(solo[e]))
      /\ Len(solo[e]) = 1 <=> Tail(solo[e]) = <<>>
  <2>1. solo[e] \in Seq(Path) /\ solo[e] # <<>>
    BY <1>0 DEF Honest, Typed, TypeOK
  <2> HIDE DEF one
  <2> QED  BY <2>1, TailProperties
<1>2. one[1] = h /\ DOMAIN one = {1}
  OBVIOUS
<1> DEFINE answered(ok, no) ==
        /\ Answered(e, one, ok, no)
        /\ Mark(e, one, ok)
        /\ faults' = [faults EXCEPT ![e] = @
              \cup (IF no = {} THEN {} ELSE {"rejected"})
              \cup (IF ok \cup no = {} THEN {"unconfirmed"} ELSE {})]
    unheard ==
        /\ Unheard(e, one)
        /\ faults' = [faults EXCEPT ![e] = @ \cup {"failed"}]
        /\ seen' = seen
<1>3. (\E ok, no \in SUBSET {1} : answered(ok, no)) \/ unheard
  BY DEF Solo
<1> HIDE DEF one, h
<1>4. /\ held' \in [Config -> Known] /\ Gains /\ trouble' \in Nat
      /\ faults' \in [Exporter -> SUBSET Fault]
      /\ seen' \in [Exporter -> Known]
      /\ RecordedIsHeld' /\ \A f \in Exporter : Backed(f)'
      /\ \A f \in Exporter : f # e => seen'[f] = seen[f] /\ faults'[f] = faults[f]
      /\ faults'[e] = {} =>
            faults[e] = {} /\ \A p \in Path : seen'[e][p] = IF p = h THEN print[e][p]
                                                                     ELSE seen[e][p]
  <2>1. ASSUME NEW ok \in SUBSET {1}, NEW no \in SUBSET {1}, answered(ok, no) PROVE <1>4!:
    <3>1. held' \in [Config -> Known] /\ Gains /\ trouble' \in Nat
      BY <2>1, AnsweredEffect DEF Honest
    <3>2. \A i \in ok : one[i] \in Path => held'[config[e]][one[i]] >= content[e][one[i]]
      BY <2>1, AnsweredEffect DEF Honest
    <3>3. RecordedIsHeld' /\ \A f \in Exporter : Backed(f)'
      BY <1>0, <2>1, <3>1, <3>2, MarkingIsBacked DEF disk, task
    <3>4. /\ seen' \in [Exporter -> Known]
          /\ \A f \in Exporter : f # e => seen'[f] = seen[f]
          /\ \A p \in Path : seen'[e][p] = IF \E i \in ok : one[i] = p THEN print[e][p]
                                                                       ELSE seen[e][p]
      <4>1. ASSUME NEW I, Mark(e, one, I)
            PROVE  /\ seen' \in [Exporter -> Known]
                   /\ \A f \in Exporter : f # e => seen'[f] = seen[f]
                   /\ \A p \in Path : seen'[e][p] = IF \E i \in I : one[i] = p
                                                   THEN print[e][p] ELSE seen[e][p]
        BY <4>1, MarkEffect DEF Honest
      <4> QED  BY <2>1, <4>1
    <3>5. /\ faults' \in [Exporter -> SUBSET Fault]
          /\ \A f \in Exporter : f # e => faults'[f] = faults[f]
          /\ faults'[e] = {} => faults[e] = {} /\ no = {} /\ ok \cup no # {}
      BY <2>1 DEF Honest, Typed, TypeOK, Fault
    <3>6. faults'[e] = {} => \A p \in Path : (\E i \in ok : one[i] = p) <=> p = h
      BY <1>2, <3>5
    <3> QED  BY <3>1, <3>3, <3>4, <3>5, <3>6
  <2>2. CASE unheard
    <3>1. held' \in [Config -> Known] /\ Gains /\ trouble' \in Nat
      BY <2>2, UnheardEffect DEF Honest
    <3>2. RecordedIsHeld' /\ \A f \in Exporter : Backed(f)'
      BY <1>0, <2>2, <3>1, GainingIsBacked DEF disk, task
    <3>3. /\ faults' \in [Exporter -> SUBSET Fault]
          /\ \A f \in Exporter : f # e => faults'[f] = faults[f]
          /\ faults'[e] # {}
      BY <2>2 DEF Honest, Typed, TypeOK, Fault
    <3> QED  BY <2>2, <3>1, <3>2, <3>3 DEF Honest, Typed, TypeOK, Known
  <2> QED  BY <1>3, <2>1, <2>2
<1>5. Typed'
  <2>1. /\ solo' \in [Exporter -> Seq(Path)]
        /\ pc' \in [Exporter -> {"idle", "read", "load", "send", "solo", "save",
                                 "write", "done"}]
    BY <1>0, <1>1 DEF Honest, Typed, TypeOK
  <2>2. ASSUME NEW f \in Exporter
        PROVE  /\ PathsOf(todo'[f]) \cap PathsOf(solo'[f]) = {}
               /\ pc'[f] \in {"idle", "read", "load", "done"} => todo'[f] = <<>>
               /\ pc'[f] # "solo" => solo'[f] = <<>>
               /\ Injective(todo'[f])
               /\ pc'[f] = "solo" => solo'[f] # <<>>
    <3>1. CASE f = e
      BY <1>0, <1>1, <3>1 DEF Honest, Typed, TypeOK
    <3>2. CASE f # e
      BY <1>0, <3>2 DEF Honest, Typed, TypeOK
    <3> QED  BY <3>1, <3>2
  <2> QED  BY <1>0, <1>4, <2>1, <2>2 DEF Honest, Typed, TypeOK, Known
<1>6. ASSUME NEW f \in Exporter PROVE Ordered(f)'
  BY <1>0, <1>4 DEF Honest, Typed, TypeOK, Ordered
<1>7. ASSUME NEW f \in Exporter PROVE Covered(f)'
  <2>1. CASE f = e
    BY <1>0, <1>1, <1>4, <2>1 DEF Honest, Typed, TypeOK, Covered
  <2>2. CASE f # e
    <3>1. /\ todo'[f] = todo[f] /\ solo'[f] = solo[f] /\ seen'[f] = seen[f]
          /\ pc'[f] = pc[f] /\ faults'[f] = faults[f] /\ print'[f] = print[f]
      BY <1>0, <1>4, <2>2 DEF Honest, Typed, TypeOK
    <3> QED  BY <3>1 DEF Honest, Covered
  <2> QED  BY <2>1, <2>2
<1> QED  BY <1>4, <1>5, <1>6, <1>7 DEF Honest

(* A step that ends the save of a batch, whatever became of the file. *)
LEMMA SavingHonest ==
    ASSUME Honest, NEW e \in Exporter, pc[e] \in {"save", "write"},
           NEW q \in {"write", After(e)}, pc' = [pc EXCEPT ![e] = q],
           file' \in Saved \cup {Torn}, RecordedIsHeld', trouble' \in Nat,
           UNCHANGED <<version, forged, held, task, found, seen, todo, solo, faults>>
    PROVE  Honest'
<1>1. UNCHANGED <<version, forged, held, config, ignoring, print, content, seen, todo,
                  solo, faults>>
  BY DEF task, found
<1>2. /\ q \in {"write", "send", "done"} /\ (q = "done" => todo[e] = <<>>)
      /\ \A f \in Exporter : pc'[f] = IF f = e THEN q ELSE pc[f]
      /\ pc' \in [Exporter -> {"idle", "read", "load", "send", "solo", "save",
                               "write", "done"}]
  BY DEF After, Honest, Typed, TypeOK
<1>3. Typed'
  BY <1>1, <1>2 DEF Honest, Typed, TypeOK
<1>4. ASSUME NEW f \in Exporter PROVE Ordered(f)' /\ Backed(f)' /\ Covered(f)'
  BY <1>1, <1>2 DEF Honest, Ordered, Backed, Covered
<1> QED  BY <1>3, <1>4 DEF Honest

LEMMA SaveHonest == ASSUME Honest, NEW e \in Exporter, Save(e) PROVE Honest'
<1>1. pc[e] = "save" /\ forged' = forged /\ held' = held
  BY DEF Save
<1>2. CASE ~ignoring[e] /\ file' = Torn /\ pc' = [pc EXCEPT ![e] = "write"] /\ UNCHANGED trouble
  <2>1. RecordedIsHeld'
    BY <1>2 DEF RecordedIsHeld
  <2> QED  BY <1>1, <1>2, <2>1, SavingHonest DEF Save, Honest, Typed, TypeOK
<1>3. CASE pc' = [pc EXCEPT ![e] = After(e)] /\ file' = file /\ trouble' \in {trouble, trouble + 1}
  <2>1. RecordedIsHeld'
    BY <1>1, <1>3 DEF Honest, RecordedIsHeld
  <2>2. file' \in Saved \cup {Torn} /\ trouble' \in Nat
    BY <1>3 DEF Honest, Typed, TypeOK
  <2> QED  BY <1>1, <1>3, <2>1, <2>2, SavingHonest DEF Save
<1> QED  BY <1>2, <1>3 DEF Save

(* What is written is what the exporter remembers. *)
LEMMA WriteHonest == ASSUME Honest, NEW e \in Exporter, Write(e) PROVE Honest'
<1>1. /\ pc[e] = "write" /\ pc' = [pc EXCEPT ![e] = After(e)]
      /\ UNCHANGED <<version, forged, held, task, found, seen, todo, solo, faults>>
      /\ trouble' \in Nat
  BY DEF Write, Honest, Typed, TypeOK
<1>2. file' \in Saved \cup {Torn} /\ RecordedIsHeld'
  <2>1. CASE file' = [config |-> config[e], seen |-> seen[e]]
    <3>1. file' \in Saved /\ file'.seen = seen[e] /\ file'.config = config[e]
      BY <2>1 DEF Saved, Honest, Typed, TypeOK
    <3>2. ~forged => \A p \in Path : seen[e][p] <= held[config[e]][p]
      BY DEF Honest, Backed
    <3> QED  BY <1>1, <3>1, <3>2 DEF RecordedIsHeld
  <2>2. CASE file' = Torn
    BY <2>2 DEF RecordedIsHeld
  <2> QED  BY <2>1, <2>2 DEF Write
<1> QED  BY <1>1, <1>2, SavingHonest

(* An exporter that ends, or dies, forgets everything. *)
LEMMA ForgettingHonest ==
    ASSUME SweepAssumption, Honest, NEW e \in Exporter, Forget(e), trouble' \in Nat,
           todo' = [todo EXCEPT ![e] = <<>>], solo' = [solo EXCEPT ![e] = <<>>],
           UNCHANGED <<disk, held, task>>
    PROVE  Honest'
<1>1. /\ UNCHANGED <<version, file, forged, held, config, ignoring>>
      /\ pc' = [pc EXCEPT ![e] = "idle"]
      /\ print' = [print EXCEPT ![e] = Nothing]
      /\ content' = [content EXCEPT ![e] = Nothing]
      /\ seen' = [seen EXCEPT ![e] = Nothing]
      /\ faults' = [faults EXCEPT ![e] = {}]
  BY DEF Forget, disk, task
<1>2. /\ Nothing \in [Path -> Nat] /\ \A p \in Path : Nothing[p] = 0
      /\ PathsOf(<<>>) = {} /\ Injective(<<>>) /\ <<>> \in Seq(Path)
  BY DEF Nothing, PathsOf, Injective
<1>3. Typed'
  <2>1. /\ print' \in [Exporter -> [Path -> Nat]] /\ content' \in [Exporter -> [Path -> Nat]]
        /\ seen' \in [Exporter -> [Path -> Nat]]
        /\ pc' \in [Exporter -> {"idle", "read", "load", "send", "solo", "save",
                                 "write", "done"}]
    BY <1>1, <1>2 DEF Honest, Typed, TypeOK
  <2>2. /\ todo' \in [Exporter -> Seq(Path)] /\ solo' \in [Exporter -> Seq(Path)]
        /\ faults' \in [Exporter -> SUBSET Fault]
    BY <1>1, <1>2 DEF Honest, Typed, TypeOK
  <2>3. ASSUME NEW f \in Exporter
        PROVE  /\ PathsOf(todo'[f]) \cap PathsOf(solo'[f]) = {}
               /\ pc'[f] \in {"idle", "read", "load", "done"} => todo'[f] = <<>>
               /\ pc'[f] # "solo" => solo'[f] = <<>>
               /\ Injective(todo'[f])
               /\ pc'[f] = "solo" => solo'[f] # <<>>
    BY <1>1, <1>2 DEF Honest, Typed, TypeOK
  <2> QED  BY <1>1, <2>1, <2>2, <2>3 DEF Honest, Typed, TypeOK
<1>4. RecordedIsHeld'
  BY <1>1 DEF Honest, RecordedIsHeld
<1>5. ASSUME NEW f \in Exporter PROVE Ordered(f)' /\ Backed(f)' /\ Covered(f)'
  <2>1. CASE f = e
    <3>1. /\ pc'[f] = "idle" /\ print'[f] = Nothing /\ seen'[f] = Nothing
      BY <1>1, <2>1 DEF Honest, Typed, TypeOK
    <3>2. \A p \in Path : version[p] \in Nat /\ held[config[f]][p] \in Nat
      BY DEF Honest, Typed, TypeOK
    <3> QED  BY <1>1, <1>2, <3>1, <3>2 DEF Ordered, Backed, Covered
  <2>2. CASE f # e
    <3>1. /\ pc'[f] = pc[f] /\ print'[f] = print[f] /\ seen'[f] = seen[f]
          /\ content'[f] = content[f] /\ faults'[f] = faults[f]
          /\ todo'[f] = todo[f] /\ solo'[f] = solo[f]
      BY <1>1, <2>2 DEF Honest, Typed, TypeOK
    <3>2. Ordered(f) /\ Backed(f) /\ Covered(f)
      BY DEF Honest
    <3>3. Ordered(f)'
      BY <1>1, <3>1, <3>2 DEF Ordered
    <3>4. Backed(f)'
      BY <1>1, <3>1, <3>2 DEF Backed
    <3>5. Covered(f)'
      BY <3>1, <3>2 DEF Covered
    <3> QED  BY <3>3, <3>4, <3>5
  <2> QED  BY <2>1, <2>2
<1> QED  BY <1>3, <1>4, <1>5 DEF Honest

LEMMA FinishHonest == ASSUME SweepAssumption, Honest, NEW e \in Exporter, Finish(e) PROVE Honest'
<1>1. todo[e] = <<>> /\ solo[e] = <<>> /\ todo' = todo /\ solo' = solo /\ trouble' \in Nat
  BY DEF Finish, Honest, Typed, TypeOK
<1>2. todo' = [todo EXCEPT ![e] = <<>>] /\ solo' = [solo EXCEPT ![e] = <<>>]
  BY <1>1 DEF Honest, Typed, TypeOK
<1> QED  BY <1>1, <1>2, ForgettingHonest DEF Finish

LEMMA CrashHonest == ASSUME SweepAssumption, Honest, NEW e \in Exporter, Crash(e) PROVE Honest'
<1>1. trouble' \in Nat
  BY DEF Crash, Honest, Typed, TypeOK
<1> QED  BY <1>1, ForgettingHonest DEF Crash

-----------------------------------------------------------------------------
(* The steps around them *)

LEMMA AppendHonest == ASSUME Honest, NEW p \in Path, Append1(p) PROVE Honest'
<1>1. /\ UNCHANGED <<file, forged, held, pc, config, ignoring, print, content, seen, todo,
                     solo, faults, trouble>>
      /\ version' = [version EXCEPT ![p] = @ + 1]
  BY DEF Append1, task, found
<1>2. version' \in [Path -> Nat] /\ \A r \in Path : version[r] \in Nat /\ version[r] <= version'[r]
  BY <1>1 DEF Honest, Typed, TypeOK
<1>3. Typed' /\ RecordedIsHeld'
  BY <1>1, <1>2 DEF Honest, Typed, TypeOK, RecordedIsHeld
<1>4. ASSUME NEW f \in Exporter PROVE Ordered(f)'
  <2>1. ASSUME NEW r \in Path PROVE print'[f][r] <= version'[r]
    <3>1. print[f][r] <= version[r] /\ print[f][r] \in Nat
      BY DEF Honest, Ordered, Typed, TypeOK
    <3> QED  BY <1>1, <1>2, <3>1
  <2> QED  BY <1>1, <2>1 DEF Honest, Ordered
<1>5. ASSUME NEW f \in Exporter PROVE Backed(f)' /\ Covered(f)'
  BY <1>1 DEF Honest, Backed, Covered
<1> QED  BY <1>3, <1>4, <1>5 DEF Honest

LEMMA ReconfigureHonest ==
    ASSUME Honest, NEW e \in Exporter, NEW c \in Config, Reconfigure(e, c) PROVE Honest'
<1>1. /\ UNCHANGED <<version, file, forged, held, pc, ignoring, print, content, seen, todo,
                     solo, faults>>
      /\ config' = [config EXCEPT ![e] = c] /\ trouble' \in Nat /\ pc[e] = "idle"
  BY DEF Reconfigure, disk, found, Honest, Typed, TypeOK
<1>2. Typed' /\ RecordedIsHeld'
  BY <1>1 DEF Honest, Typed, TypeOK, RecordedIsHeld
<1>3. ASSUME NEW f \in Exporter PROVE Ordered(f)' /\ Covered(f)'
  BY <1>1 DEF Honest, Ordered, Covered
<1>4. ASSUME NEW f \in Exporter PROVE Backed(f)'
  <2>1. CASE f = e
    <3>1. seen[f] = Nothing /\ config'[f] = c
      BY <1>1, <2>1 DEF Honest, Ordered, Typed, TypeOK
    <3>2. \A p \in Path : held[c][p] \in Nat /\ Nothing[p] = 0
      BY DEF Honest, Typed, TypeOK, Nothing
    <3> QED  BY <1>1, <3>1, <3>2 DEF Backed
  <2>2. CASE f # e
    BY <1>1, <2>2 DEF Honest, Backed, Typed, TypeOK
  <2> QED  BY <2>1, <2>2
<1> QED  BY <1>2, <1>3, <1>4 DEF Honest

LEMMA ForgeHonest == ASSUME Honest, NEW c \in Config, Forge(c) PROVE Honest'
<1>1. /\ UNCHANGED <<version, held, pc, config, ignoring, print, content, seen, todo, solo,
                     faults, trouble>>
      /\ forged' = TRUE /\ file' = [config |-> c, seen |-> version]
  BY DEF Forge, task, found
<1>2. Typed'
  BY <1>1 DEF Honest, Typed, TypeOK, Saved
<1>3. ASSUME NEW f \in Exporter PROVE Ordered(f)' /\ Backed(f)' /\ Covered(f)'
  BY <1>1 DEF Honest, Ordered, Backed, Covered
<1> QED  BY <1>1, <1>2, <1>3 DEF Honest, RecordedIsHeld

LEMMA StutterHonest == ASSUME Honest, UNCHANGED vars PROVE Honest'
<1>1. UNCHANGED <<version, file, forged, held, pc, config, ignoring, print, content, seen,
                  todo, solo, faults, trouble>>
  BY DEF vars, disk, task, found
<1> QED  BY <1>1 DEF Honest, Typed, TypeOK, RecordedIsHeld, Ordered, Backed, Covered

LEMMA NextHonest ==
    ASSUME SweepAssumption, OneFilePerSession, Honest, [Next]_vars PROVE Honest'
<1>1. ASSUME NEW e \in Exporter, Sweeping(e) PROVE Honest'
  BY <1>1, ReadHonest, LoadHonest, SendHonest, SoloHonest, SaveHonest, WriteHonest,
     FinishHonest DEF Sweeping
<1>2. ASSUME NEW e \in Exporter, Crash(e) PROVE Honest'
  BY <1>2, CrashHonest
<1>3. ASSUME NEW e \in Exporter, NEW b \in BOOLEAN, Start(e, b) PROVE Honest'
  BY <1>3, StartHonest
<1>4. ASSUME NEW e \in Exporter, NEW c \in Config, Reconfigure(e, c) PROVE Honest'
  BY <1>4, ReconfigureHonest
<1>5. ASSUME NEW p \in Path, Append1(p) PROVE Honest'
  BY <1>5, AppendHonest
<1>6. ASSUME NEW c \in Config, Forge(c) PROVE Honest'
  BY <1>6, ForgeHonest
<1>7. CASE UNCHANGED vars
  BY <1>7, StutterHonest
<1> QED  BY <1>1, <1>2, <1>3, <1>4, <1>5, <1>6, <1>7 DEF Next

-----------------------------------------------------------------------------
(* Theorems *)

(* The bookkeeping of every exporter is sound at every step. *)
THEOREM SweepIsHonest == OneFilePerSession => (Spec => []Honest)
<1> SUFFICES ASSUME OneFilePerSession PROVE Spec => []Honest
  OBVIOUS
<1>1. Init => Honest
  BY SweepAssumption, InitHonest
<1>2. Honest /\ [Next]_vars => Honest'
  BY SweepAssumption, NextHonest
<1> QED  BY <1>1, <1>2, PTL DEF Spec

(* The state file of the sweep is never ahead of the store: no interleaving *)
(* of exporters, no lost answer and no torn file records a transcript the   *)
(* store does not hold.                                                     *)
THEOREM RecordsAreHeld == OneFilePerSession => (Spec => []RecordedIsHeld)
<1> SUFFICES ASSUME OneFilePerSession PROVE Spec => []RecordedIsHeld
  OBVIOUS
<1>1. Honest => RecordedIsHeld
  BY DEF Honest
<1>2. Spec => []Honest
  BY SweepIsHonest
<1> QED  BY <1>1, <1>2, PTL

(* A sweep that reports that it captured everything has (the exit status   *)
(* main derives from captured_everything).                                  *)
THEOREM CleanSweepsAreHeld == OneFilePerSession => (Spec => []CleanSweepIsHeld)
<1> SUFFICES ASSUME OneFilePerSession PROVE Spec => []CleanSweepIsHeld
  OBVIOUS
<1>1. Honest => CleanSweepIsHeld
  <2>1. SUFFICES ASSUME Honest, NEW e \in Exporter, pc[e] = "done", faults[e] = {},
                        ignoring[e] \/ ~forged, NEW p \in Path
                 PROVE  print[e][p] <= held[config[e]][p]
    BY DEF CleanSweepIsHeld, CapturedEverything
  <2>2. todo[e] = <<>> /\ solo[e] = <<>> /\ PathsOf(<<>>) = {}
    BY <2>1 DEF Honest, Typed, TypeOK, PathsOf
  <2>3. seen[e][p] = print[e][p]
    BY <2>1, <2>2 DEF Honest, Covered
  <2> QED  BY <2>1, <2>3 DEF Honest, Backed
<1>2. Spec => []Honest
  BY SweepIsHonest
<1> QED  BY <1>1, <1>2, PTL
=============================================================================
