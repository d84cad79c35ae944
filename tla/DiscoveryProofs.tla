--------------------------- MODULE DiscoveryProofs ---------------------------
(* What the sources promise, for every number of files and threads and      *)
(* every script of what the agents and Cursor do to them meanwhile.          *)
EXTENDS Discovery, OrderLemmas

-----------------------------------------------------------------------------
(* Files: the invariant *)

Pieces(f) == 2 * Len(Script[f])

(* The file that is open stays, and what was measured of it is still there.  *)
Handled ==
    /\ \A f \in File : length[f] = Absent \/ length[f] <= Pieces(f)
    /\ at # Absent =>
          /\ at \in Matching \ (unseen \cup DOMAIN yield \cup oversize)
          /\ length[at] # Absent /\ size <= length[at]
          /\ read <= length[at]
          /\ read > 0 => size <= read
          /\ at \notin touched =>
                size = length[at] /\ read \in {0, Smaller(length[at], Limit + 1)}
    /\ unseen \cap (DOMAIN yield \cup oversize) = {}

(* What is known of a file is what some reading of it yielded, of no more   *)
(* than there is.                                                           *)
Kept ==
    \A f \in DOMAIN store :
        /\ store[f].raw \in 1 .. Limit /\ store[f].raw <= Pieces(f)
        /\ store[f].print \in 0 .. store[f].raw
        /\ Rows(f, store[f].raw) # {}
        /\ store[f] = Parsed(f, store[f].raw, store[f].print)
        /\ length[f] # Absent => store[f].raw <= length[f]
        /\ at = f /\ read > 0 => store[f].raw <= read

(* A file the walk is done with, which held still, was taken. *)
Taken ==
    \A f \in Matching \ (touched \cup unseen \cup {at}) :
        length[f] # Absent /\ length[f] % 2 = 0 /\ Rows(f, length[f]) # {} =>
            IF length[f] > Limit THEN f \in oversize
            ELSE f \in DOMAIN yield /\ yield[f].raw = length[f]
                                   /\ yield[f].print = length[f]

FilesInv == FilesTypeOK /\ Handled /\ Kept /\ Taken

-----------------------------------------------------------------------------
(* Threads: the invariant *)

Line(S) == {e \in S \X S : Newer(e[1], e[2])}

Emission == [item : {"oversize", "thread"}, candidate : Candidate,
             row : ThreadRow \cup {Gone}]

ThreadsTyped ==
    /\ ThreadsTypeOK
    /\ IsFiniteSet(seen) /\ candidates \subseteq seen
    /\ emitted \in Seq(Emission)
    /\ \A c \in seen : c.seq < next
    /\ \A c, d \in seen : c.seq = d.seq => c = d

(* What Cursor can have made of a row since.                                *)
Follows(was, is) ==
    /\ is.created = was.created
    /\ is.revision >= was.revision /\ is.bubbles >= was.bubbles
    /\ was.updated = 0 => is.updated = 0
    /\ was.updated > 0 => is.updated - was.updated = is.revision - was.revision

Traced ==
    \A i \in DOMAIN emitted :
        LET was == emitted[i].row
            is  == db[emitted[i].candidate.thread]
        IN was # Gone /\ is # Gone => Follows(was, is)

ThreadsInv == ThreadsTyped /\ PruningKeepsTheNewest /\ Traced

-----------------------------------------------------------------------------
(* Sorting and truncating the candidates *)

LEMMA LenInNat == ASSUME NEW S, NEW s \in Seq(S) PROVE Len(s) \in Nat
  OBVIOUS

LEMMA NewerOrders ==
    ASSUME NEW S \in SUBSET Candidate, \A c, d \in S : c.seq = d.seq => c = d
    PROVE  Orders(Line(S), S)
<1>1. \A c \in S : c.time \in Nat /\ c.seq \in Nat
  BY DEF Candidate
<1>2. \A c, d \in S : <<c, d>> \in Line(S) <=> Newer(c, d)
  BY DEF Line
<1>3. \A c \in S : ~Newer(c, c)
  BY <1>1 DEF Newer
<1>4. \A c, d \in S : c # d => Newer(c, d) \/ Newer(d, c)
  BY <1>1 DEF Newer
<1>5. \A c, d, e \in S : Newer(c, d) /\ Newer(d, e) => Newer(c, e)
  BY <1>1 DEF Newer
<1> QED  BY <1>2, <1>3, <1>4, <1>5 DEF Orders

LEMMA NewestIsFirst ==
    ASSUME NEW S, NEW n
    PROVE  Newest(S, n) = {c \in S : Cardinality(Ahead(Line(S), S, c)) < n}
<1>1. ASSUME NEW c \in S PROVE Ahead(Line(S), S, c) = {d \in S : Newer(d, c)}
  BY DEF Ahead, Line
<1> QED  BY <1>1 DEF Newest

(* As many are kept as are dropped of the rest. *)
LEMMA NewestSize ==
    ASSUME NEW S \in SUBSET Candidate, IsFiniteSet(S), NEW n \in Nat,
           \A c, d \in S : c.seq = d.seq => c = d
    PROVE  /\ Newest(S, n) \subseteq S /\ IsFiniteSet(Newest(S, n))
           /\ Cardinality(Newest(S, n)) = IF n < Cardinality(S) THEN n ELSE Cardinality(S)
<1> DEFINE R == Line(S)
<1>1. Orders(R, S)
  BY NewerOrders
<1>2. Newest(S, n) = {c \in S : Cardinality(Ahead(R, S, c)) < n}
  BY NewestIsFirst
<1> HIDE DEF R
<1>3. LET first == {x \in S : Cardinality(Ahead(R, S, x)) < n}
      IN  /\ IsFiniteSet(first)
          /\ Cardinality(first) = IF n < Cardinality(S) THEN n ELSE Cardinality(S)
  BY <1>1, FirstPlaces
<1> QED  BY <1>2, <1>3

LEMMA DroppedCounts ==
    ASSUME NEW S \in SUBSET Candidate, IsFiniteSet(S),
           \A c, d \in S : c.seq = d.seq => c = d
    PROVE  /\ Dropped(S) \in Nat
           /\ Dropped(S) + Cardinality(Newest(S, MaxThreads)) = Cardinality(S)
           /\ Cardinality(Newest(S, MaxThreads)) \in Nat
           /\ Cardinality(Newest(S, MaxThreads)) <= MaxThreads
<1>1. Cardinality(S) \in Nat /\ MaxThreads \in Nat
  BY FS_CardinalityType, CursorAssumption
<1> QED  BY <1>1, NewestSize DEF Dropped

(* What some older ones crowd out of a set is crowded out of a larger one. *)
LEMMA CrowdedOut ==
    ASSUME NEW S, NEW T, S \subseteq T, IsFiniteSet(T), NEW c \in S, NEW n \in Nat,
           c \notin Newest(S, n)
    PROVE  c \notin Newest(T, n)
<1> DEFINE s == {d \in S : Newer(d, c)}
           t == {d \in T : Newer(d, c)}
<1>1. s \in SUBSET t /\ t \in SUBSET T
  OBVIOUS
<1>2. /\ IsFiniteSet(t) /\ IsFiniteSet(s)
      /\ Cardinality(s) <= Cardinality(t)
  BY <1>1, FS_Subset
<1>3. Cardinality(s) \in Nat /\ Cardinality(t) \in Nat
  BY <1>2, FS_CardinalityType
<1>4. ~(Cardinality(s) < n)
  BY DEF Newest
<1> HIDE DEF s, t
<1>5. ~(Cardinality(t) < n)
  BY <1>2, <1>3, <1>4
<1> QED  BY <1>5 DEF Newest, t

-----------------------------------------------------------------------------
(* The first pass *)

(* What the row at next becomes. *)
LEMMA NextCandidate ==
    ASSUME ThreadsTyped, phase = "scan", next <= Len(Order)
    PROVE  LET c == AsCandidate(Order[next], db[Order[next]])
           IN  /\ c \subseteq Candidate
               /\ \A d \in c : d.seq = next
               /\ \A d, e \in c : d = e
<1>1. next \in 1 .. Len(Order) /\ next \in Nat /\ Order[next] \in Thread
  <2>1. Order \in Seq(Thread) /\ Len(Order) \in Nat
    BY CursorAssumption, LenInNat
  <2>2. next \in 1 .. Len(Order) + 1
    BY DEF ThreadsTyped, ThreadsTypeOK
  <2> QED  BY <2>1, <2>2
<1>2. db[Order[next]] \in ThreadRow \cup {Gone}
  BY <1>1 DEF ThreadsTyped, ThreadsTypeOK
<1> DEFINE k == Order[next]
           r == db[k]
<1>3. r # Gone => r.created \in Nat
  BY <1>2 DEF ThreadRow
<1> HIDE DEF r, k
<1>4. k \in Thread
  BY <1>1 DEF k
<1>5. \A d \in AsCandidate(k, r) :
         /\ d \in {[time |-> 0, seq |-> next, thread |-> k, over |-> TRUE],
                  [time |-> r.created, seq |-> next, thread |-> k, over |-> FALSE]}
         /\ r # Gone
  BY DEF AsCandidate
<1>6. \A d \in AsCandidate(k, r) : d \in Candidate /\ d.seq = next
  <2>1. [time |-> 0, seq |-> next, thread |-> k, over |-> TRUE] \in Candidate
    BY <1>1, <1>4 DEF Candidate
  <2>2. r # Gone =>
          [time |-> r.created, seq |-> next, thread |-> k, over |-> FALSE] \in Candidate
    BY <1>1, <1>3, <1>4 DEF Candidate
  <2>3. [time |-> 0, seq |-> next, thread |-> k, over |-> TRUE].seq = next
    OBVIOUS
  <2>4. [time |-> r.created, seq |-> next, thread |-> k, over |-> FALSE].seq = next
    OBVIOUS
  <2> SUFFICES ASSUME NEW d \in AsCandidate(k, r) PROVE d \in Candidate /\ d.seq = next
    OBVIOUS
  <2>5. CASE d = [time |-> 0, seq |-> next, thread |-> k, over |-> TRUE]
    BY <2>1, <2>3, <2>5
  <2>6. CASE d = [time |-> r.created, seq |-> next, thread |-> k, over |-> FALSE]
    BY <1>5, <2>2, <2>4, <2>6
  <2> QED  BY <1>5, <2>5, <2>6
<1>7. \A d, e \in AsCandidate(k, r) : d = e
  BY DEF AsCandidate
<1> QED  BY <1>6, <1>7 DEF k, r

LEMMA FirstThreads ==
    ASSUME NEW d \in [Thread -> ThreadRow \cup {Gone}], ThreadsInit(d) PROVE ThreadsInv
<1> USE DEF ThreadsInit
<1>1. PruneAt > 0 /\ 1 \in 1 .. Len(Order) + 1
  BY CursorAssumption, LenInNat
<1>2. Cardinality({}) = 0 /\ IsFiniteSet({})
  BY FS_EmptySet
<1>3. emitted \in Seq(Emission) /\ DOMAIN emitted = {}
  OBVIOUS
<1>4. ThreadsTyped
  BY <1>1, <1>2, <1>3 DEF ThreadsTyped, ThreadsTypeOK
<1>5. Newest(seen, MaxThreads) = {}
  BY DEF Newest
<1>6. PruningKeepsTheNewest
  BY <1>2, <1>5 DEF PruningKeepsTheNewest
<1> QED  BY <1>3, <1>4, <1>6 DEF ThreadsInv, Traced

LEMMA ScanThreads ==
    ASSUME ThreadsInv, Scan PROVE ThreadsInv'
<1> DEFINE c    == AsCandidate(Order[next], db[Order[next]])
           held == candidates \cup c
           all  == seen \cup c
<1> USE DEF ThreadsInv
<1>0. /\ Hold(c) /\ seen' = all /\ next' = next + 1 /\ next <= Len(Order) /\ phase = "scan"
      /\ UNCHANGED <<db, phase, emitted, edits>>
  BY DEF Scan
<1>1. /\ c \subseteq Candidate
      /\ \A d \in c : d.seq = next
      /\ \A d, e \in c : d = e
  BY <1>0, NextCandidate
<1> HIDE DEF c
<1>2. /\ candidates \subseteq seen /\ seen \subseteq Candidate /\ IsFiniteSet(seen)
      /\ overflow \in Nat /\ next \in 1 .. Len(Order) + 1 /\ next \in Nat
      /\ \A d \in seen : d.seq < next
      /\ \A d, e \in seen : d.seq = e.seq => d = e
      /\ \A d \in seen : d.seq \in Nat
  BY DEF ThreadsTyped, ThreadsTypeOK, Candidate
<1>3. IsFiniteSet(c)
  <2>1. CASE c = {}
    BY <2>1, FS_EmptySet
  <2>2. CASE c # {}
    <3>1. PICK d : c = {d}
      BY <1>1, <2>2
    <3> QED  BY <3>1, FS_Singleton
  <2> QED  BY <2>1, <2>2
<1>4. seen \cap c = {} /\ candidates \cap c = {}
  BY <1>1, <1>2
<1>5. IsFiniteSet(candidates)
  BY <1>2, FS_Subset
<1>6. /\ IsFiniteSet(all) /\ IsFiniteSet(held) /\ held \subseteq all
      /\ Cardinality(all) = Cardinality(seen) + Cardinality(c)
      /\ Cardinality(held) = Cardinality(candidates) + Cardinality(c)
  <2>1. Cardinality(seen \cap c) = 0 /\ Cardinality(candidates \cap c) = 0
    BY <1>4, FS_EmptySet
  <2>2. /\ Cardinality(seen) \in Nat /\ Cardinality(c) \in Nat
        /\ Cardinality(candidates) \in Nat
    BY <1>2, <1>3, <1>5, FS_CardinalityType
  <2>3. /\ IsFiniteSet(all)
        /\ Cardinality(all) = Cardinality(seen) + Cardinality(c) - Cardinality(seen \cap c)
    BY <1>2, <1>3, FS_Union
  <2>4. /\ IsFiniteSet(held)
        /\ Cardinality(held) =
              Cardinality(candidates) + Cardinality(c) - Cardinality(candidates \cap c)
    BY <1>3, <1>5, FS_Union
  <2> QED  BY <1>2, <2>1, <2>2, <2>3, <2>4
<1>7. Cardinality(seen) \in Nat /\ Cardinality(c) \in Nat /\ Cardinality(candidates) \in Nat
  BY <1>2, <1>3, <1>5, FS_CardinalityType
<1>8. /\ all \subseteq Candidate /\ held \subseteq Candidate
      /\ \A d \in all : d.seq < next + 1
      /\ \A d, e \in all : d.seq = e.seq => d = e
      /\ \A d, e \in held : d.seq = e.seq => d = e
  BY <1>1, <1>2
<1>9. overflow + Cardinality(candidates) = Cardinality(seen)
  BY <1>0 DEF PruningKeepsTheNewest
<1> HIDE DEF held, all
<1>10. Newest(all, MaxThreads) \subseteq Newest(held, MaxThreads)
  <2> SUFFICES ASSUME NEW d \in Newest(all, MaxThreads)
               PROVE  d \in Newest(held, MaxThreads)
    OBVIOUS
  <2>0. MaxThreads \in Nat
    BY CursorAssumption
  <2>1. d \in all
    BY DEF Newest
  <2>2. d \in held
    <3>1. CASE d \in c
      BY <3>1 DEF held
    <3>2. CASE d \in seen
      <4>1. d \in Newest(seen, MaxThreads)
        BY <1>6, <2>0, <3>2, CrowdedOut DEF all
      <4> QED  BY <1>0, <4>1 DEF held, PruningKeepsTheNewest
    <3> QED  BY <2>1, <3>1, <3>2 DEF all
  <2> QED  BY <1>6, <2>0, <2>2, CrowdedOut
<1>11. /\ candidates' \subseteq held
       /\ Newest(all, MaxThreads) \subseteq candidates'
       /\ overflow' \in Nat
       /\ overflow' + Cardinality(candidates') = Cardinality(all)
       /\ Cardinality(candidates') < PruneAt
  <2>1. CASE Cardinality(held) < PruneAt /\ candidates' = held /\ UNCHANGED overflow
    <3>1. Newest(held, MaxThreads) \subseteq held
      BY DEF Newest
    <3> QED  BY <1>2, <1>6, <1>7, <1>9, <1>10, <2>1, <3>1
  <2>2. CASE /\ candidates' = Newest(held, MaxThreads)
             /\ overflow' = overflow + Dropped(held)
    <3>1. /\ Dropped(held) \in Nat
          /\ Dropped(held) + Cardinality(candidates') = Cardinality(held)
          /\ Cardinality(candidates') \in Nat
          /\ Cardinality(candidates') <= MaxThreads
      BY <1>6, <1>8, <2>2, DroppedCounts
    <3>2. MaxThreads \in Nat /\ PruneAt \in Nat /\ MaxThreads < PruneAt
      BY CursorAssumption
    <3>3. candidates' \subseteq held
      BY <2>2 DEF Newest
    <3>4. overflow' + Cardinality(candidates') = Cardinality(all)
      BY <1>2, <1>6, <1>7, <1>9, <2>2, <3>1
    <3> QED  BY <1>2, <1>10, <2>2, <3>1, <3>2, <3>3, <3>4
  <2> QED  BY <1>0, <2>1, <2>2 DEF Hold, held
<1>12. seen \subseteq seen'
  BY <1>0 DEF all
<1>13. ThreadsTypeOK'
  <2>1. next' \in 1 .. Len(Order) + 1
    <3>1. Len(Order) \in Nat
      BY CursorAssumption, LenInNat
    <3> QED  BY <1>0, <1>2, <3>1
  <2>2. candidates' \subseteq Candidate
    BY <1>8, <1>11
  <2>3. \A i \in DOMAIN emitted : emitted[i].candidate \in seen'
    BY <1>12 DEF ThreadsTyped, ThreadsTypeOK
  <2>4. /\ db \in [Thread -> ThreadRow \cup {Gone}]
        /\ phase \in {"scan", "emit", "done", "failed"} /\ edits \in Nat
    BY DEF ThreadsTyped, ThreadsTypeOK
  <2> QED  BY <1>0, <1>8, <1>11, <2>1, <2>2, <2>3, <2>4 DEF ThreadsTypeOK
<1>14. ThreadsTyped'
  <2>1. emitted' \in Seq(Emission)
    BY <1>0 DEF ThreadsTyped
  <2>2. candidates' \subseteq seen'
    BY <1>0, <1>6, <1>11
  <2> QED  BY <1>0, <1>6, <1>8, <1>13, <2>1, <2>2 DEF ThreadsTyped
<1>15. PruningKeepsTheNewest'
  <2>1. Newest(seen, MaxThreads)' = Newest(all, MaxThreads)
    BY <1>0 DEF Newest
  <2> QED  BY <1>0, <1>11, <2>1 DEF PruningKeepsTheNewest
<1>16. Traced'
  BY <1>0 DEF Traced
<1> QED  BY <1>14, <1>15, <1>16

LEMMA EndScanThreads ==
    ASSUME ThreadsInv, EndScan PROVE ThreadsInv'
<1> USE DEF ThreadsInv, EndScan
<1>1. /\ candidates \subseteq Candidate /\ IsFiniteSet(candidates) /\ overflow \in Nat
      /\ candidates \subseteq seen
      /\ \A c, d \in candidates : c.seq = d.seq => c = d
  <2>1. candidates \in SUBSET seen /\ IsFiniteSet(seen)
    BY DEF ThreadsTyped
  <2> QED  BY <2>1, FS_Subset DEF ThreadsTyped, ThreadsTypeOK
<1>2. /\ Dropped(candidates) \in Nat
      /\ Cardinality(candidates') \in Nat /\ Cardinality(candidates') <= MaxThreads
  BY <1>1, DroppedCounts
<1>3. candidates' \subseteq candidates
  BY DEF Newest
<1>4. MaxThreads \in Nat /\ PruneAt \in Nat /\ MaxThreads < PruneAt
  BY CursorAssumption
<1>5. overflow' \in Nat /\ Cardinality(candidates') < PruneAt
  BY <1>1, <1>2, <1>4
<1>6. ThreadsTypeOK'
  BY <1>1, <1>3, <1>5 DEF ThreadsTyped, ThreadsTypeOK
<1>7. ThreadsTyped'
  BY <1>1, <1>3, <1>6 DEF ThreadsTyped
<1>8. PruningKeepsTheNewest'
  BY DEF PruningKeepsTheNewest
<1> QED  BY <1>7, <1>8 DEF Traced

-----------------------------------------------------------------------------
(* The second pass *)

LEMMA EmitThreads ==
    ASSUME ThreadsInv, Emit PROVE ThreadsInv'
<1> USE DEF ThreadsInv
<1>0. PICK c \in candidates :
         LET r == db[c.thread] IN
             \/ /\ ~c.over /\ r = Gone
                /\ phase' = "failed"
                /\ UNCHANGED <<candidates, emitted>>
             \/ /\ c.over \/ r # Gone
                /\ candidates' = candidates \ {c}
                /\ emitted' = emitted \o
                      (IF Item(c, r) = {} THEN <<>>
                       ELSE <<[item |-> CHOOSE i \in Item(c, r) : TRUE, candidate |-> c,
                               row |-> r]>>)
                /\ UNCHANGED phase
  BY DEF Emit
<1>1. phase = "emit" /\ UNCHANGED <<db, next, overflow, seen, edits>>
  BY DEF Emit
<1> DEFINE r == db[c.thread]
           new == [item |-> CHOOSE i \in Item(c, r) : TRUE, candidate |-> c, row |-> r]
<1>2. c \in Candidate /\ c \in seen /\ c.thread \in Thread /\ r \in ThreadRow \cup {Gone}
  BY DEF ThreadsTyped, ThreadsTypeOK, Candidate
<1>3. Item(c, r) # {} => new \in Emission
  <2>1. \A i \in Item(c, r) : i \in {"oversize", "thread"}
    BY DEF Item
  <2> DEFINE i == CHOOSE i \in Item(c, r) : TRUE
  <2>2. Item(c, r) # {} => i \in Item(c, r)
    OBVIOUS
  <2> HIDE DEF i, r
  <2>3. Item(c, r) # {} => [item |-> i, candidate |-> c, row |-> r] \in Emission
    BY <1>2, <2>1, <2>2 DEF Emission
  <2> QED  BY <2>3 DEF i
<1>4. new.candidate = c /\ new.row = r
  OBVIOUS
<1>5. emitted \in Seq(Emission)
  BY DEF ThreadsTyped
<1>6. phase' \in {"emit", "failed"} /\ candidates' \subseteq candidates
  BY <1>0, <1>1
<1> HIDE DEF new
<1>7. emitted' = emitted \/ (emitted' = Append(emitted, new) /\ Item(c, r) # {})
  <2>1. CASE UNCHANGED emitted
    BY <2>1
  <2>2. CASE emitted' = emitted \o (IF Item(c, r) = {} THEN <<>> ELSE <<new>>)
    <3>1. CASE Item(c, r) = {}
      <4>1. emitted' = emitted \o << >>
        BY <2>2, <3>1
      <4> QED  BY <1>5, <4>1
    <3>2. CASE Item(c, r) # {}
      <4>1. emitted' = emitted \o <<new>>
        BY <2>2, <3>2
      <4> QED  BY <1>5, <3>2, <4>1
    <3> QED  BY <3>1, <3>2
  <2> QED  BY <1>0, <2>1, <2>2 DEF new
<1>8. emitted' \in Seq(Emission)
  BY <1>3, <1>5, <1>7
<1>9. \A i \in DOMAIN emitted' :
         (i \in DOMAIN emitted /\ emitted'[i] = emitted[i]) \/ emitted'[i] = new
  <2>1. CASE emitted' = emitted
    BY <2>1
  <2>2. CASE emitted' = Append(emitted, new) /\ Item(c, r) # {}
    BY <1>3, <1>5, <2>2
  <2> QED  BY <1>7, <2>1, <2>2
<1>10. Cardinality(candidates') < PruneAt
  <2>1. candidates' \in SUBSET candidates /\ IsFiniteSet(candidates)
    <3>1. candidates \in SUBSET seen /\ IsFiniteSet(seen)
      BY DEF ThreadsTyped
    <3> QED  BY <1>6, <3>1, FS_Subset
  <2>2. IsFiniteSet(candidates') /\ Cardinality(candidates') <= Cardinality(candidates)
    BY <2>1, FS_Subset
  <2>3. Cardinality(candidates') \in Nat /\ Cardinality(candidates) \in Nat
    BY <2>1, <2>2, FS_CardinalityType
  <2>4. Cardinality(candidates) < PruneAt /\ PruneAt \in Nat
    BY CursorAssumption DEF ThreadsTyped, ThreadsTypeOK
  <2> QED  BY <2>2, <2>3, <2>4
<1>11. \A i \in DOMAIN emitted' : emitted'[i].candidate \in seen'
  BY <1>1, <1>2, <1>4, <1>9 DEF ThreadsTyped, ThreadsTypeOK
<1>12. ThreadsTypeOK'
  BY <1>1, <1>6, <1>10, <1>11 DEF ThreadsTyped, ThreadsTypeOK
<1>13. ThreadsTyped'
  BY <1>1, <1>6, <1>8, <1>12 DEF ThreadsTyped
<1>14. PruningKeepsTheNewest'
  BY <1>6 DEF PruningKeepsTheNewest
<1>15. r # Gone => Follows(r, r)
  <2> HIDE DEF r
  <2> QED  BY <1>2 DEF Follows, ThreadRow
<1>16. Traced'
  <2> SUFFICES ASSUME NEW i \in DOMAIN emitted'
               PROVE  LET was == emitted'[i].row
                          is  == db'[emitted'[i].candidate.thread]
                      IN was # Gone /\ is # Gone => Follows(was, is)
    BY DEF Traced
  <2>1. CASE i \in DOMAIN emitted /\ emitted'[i] = emitted[i]
    BY <1>1, <2>1 DEF Traced
  <2>2. CASE emitted'[i] = new
    BY <1>1, <1>4, <1>15, <2>2
  <2> QED  BY <1>9, <2>1, <2>2
<1> QED  BY <1>13, <1>14, <1>16

LEMMA FinishThreads ==
    ASSUME ThreadsInv, Finish PROVE ThreadsInv'
<1> USE DEF ThreadsInv, Finish
<1>1. ThreadsTypeOK'
  BY DEF ThreadsTyped, ThreadsTypeOK
<1>2. ThreadsTyped'
  BY <1>1 DEF ThreadsTyped
<1> QED  BY <1>2 DEF PruningKeepsTheNewest, Traced

-----------------------------------------------------------------------------
(* Cursor *)

LEMMA FollowsOn ==
    ASSUME NEW a \in ThreadRow, NEW b \in ThreadRow, NEW c \in ThreadRow,
           Follows(a, b), Follows(b, c)
    PROVE  Follows(a, c)
<1>1. \A x \in ThreadRow : /\ x.created \in Nat /\ x.updated \in Nat
                           /\ x.revision \in Nat /\ x.bubbles \in Nat
  BY DEF ThreadRow
<1>2. /\ a.updated \in Nat /\ a.revision \in Nat /\ a.bubbles \in Nat
      /\ b.updated \in Nat /\ b.revision \in Nat /\ b.bubbles \in Nat
      /\ c.updated \in Nat /\ c.revision \in Nat /\ c.bubbles \in Nat
  BY <1>1
<1>3. /\ a.updated = 0 => c.updated = 0
      /\ a.updated > 0 => c.updated - a.updated = c.revision - a.revision
  BY <1>2 DEF Follows
<1> QED  BY <1>2, <1>3 DEF Follows

(* An edit that leads on from the row keeps what was emitted traceable. *)
LEMMA CursorThreadsMove ==
    ASSUME ThreadsInv, NEW k \in Thread, NEW r \in ThreadRow \cup {Gone}, Cursor(k, r),
           r # Gone => Follows(db[k], r)
    PROVE  ThreadsInv'
<1> USE DEF ThreadsInv
<1>1. /\ db[k] # Gone /\ db' = [db EXCEPT ![k] = r] /\ edits' = edits + 1
      /\ UNCHANGED <<phase, next, candidates, overflow, seen, emitted>>
  BY DEF Cursor
<1>2. db \in [Thread -> ThreadRow \cup {Gone}] /\ edits \in Nat
  BY DEF ThreadsTyped, ThreadsTypeOK
<1>3. db' \in [Thread -> ThreadRow \cup {Gone}] /\ edits' \in Nat
  BY <1>1, <1>2
<1>4. \A j \in Thread : db'[j] = IF j = k THEN r ELSE db[j]
  BY <1>1, <1>2
<1>5. ThreadsTypeOK'
  BY <1>1, <1>3 DEF ThreadsTyped, ThreadsTypeOK
<1>6. ThreadsTyped'
  BY <1>1, <1>5 DEF ThreadsTyped
<1>7. PruningKeepsTheNewest'
  <2>1. Newest(seen, MaxThreads)' = Newest(seen, MaxThreads)
    BY <1>1 DEF Newest
  <2> QED  BY <1>1, <2>1 DEF PruningKeepsTheNewest
<1>8. Traced'
  <2> SUFFICES ASSUME NEW i \in DOMAIN emitted, emitted[i].row # Gone,
                      db'[emitted[i].candidate.thread] # Gone
               PROVE  Follows(emitted[i].row, db'[emitted[i].candidate.thread])
    BY <1>1 DEF Traced
  <2> DEFINE was == emitted[i].row
             j   == emitted[i].candidate.thread
  <2>1. emitted[i] \in Emission
    <3>1. emitted \in Seq(Emission)
      BY DEF ThreadsTyped
    <3> QED  BY <3>1
  <2>2. was \in ThreadRow /\ j \in Thread
    BY <2>1 DEF Emission, Candidate
  <2>3. CASE j # k
    BY <1>4, <2>2, <2>3 DEF Traced
  <2>4. CASE j = k
    <3>1. db[k] \in ThreadRow /\ db'[j] = r /\ r \in ThreadRow
      BY <1>1, <1>2, <1>4, <2>2, <2>4
    <3>2. Follows(was, db[k])
      BY <1>1, <2>4 DEF Traced
    <3>3. \A x, y, z \in ThreadRow : Follows(x, y) /\ Follows(y, z) => Follows(x, z)
      BY FollowsOn
    <3>4. Follows(db[k], r)
      BY <3>1, CursorAssumption
    <3> QED  BY <2>2, <2>4, <3>1, <3>2, <3>3, <3>4
  <2> QED  BY <2>3, <2>4
<1> QED  BY <1>6, <1>7, <1>8

LEMMA ReplyThreads ==
    ASSUME ThreadsInv, NEW k \in Thread, Reply(k) \/ Revise(k) PROVE ThreadsInv'
<1> DEFINE b == db[k]
           reply == [b EXCEPT !.bubbles = @ + 1, !.revision = @ + 1,
                              !.bubblebytes = IF b.kind = "rows" THEN @ + 1 ELSE @,
                              !.updated = Dated(b)]
           revise == [b EXCEPT !.revision = @ + 1, !.updated = Dated(b)]
<1>1. b \in ThreadRow
  BY DEF ThreadsInv, ThreadsTyped, ThreadsTypeOK, Reply, Revise
<1> HIDE DEF b
<1>2. b.updated \in Nat /\ Dated(b) \in Nat
  BY <1>1 DEF ThreadRow, Dated
<1>3. reply \in ThreadRow /\ revise \in ThreadRow
  <2>1. /\ b.bubbles + 1 \in Nat /\ b.revision + 1 \in Nat
        /\ (IF b.kind = "rows" THEN b.bubblebytes + 1 ELSE b.bubblebytes) \in Nat
    BY <1>1 DEF ThreadRow
  <2>2. \A n, m, l, h \in Nat :
          /\ [b EXCEPT !.bubbles = n, !.revision = m, !.bubblebytes = l, !.updated = h]
                \in ThreadRow
          /\ [b EXCEPT !.revision = m, !.updated = h] \in ThreadRow
    BY <1>1 DEF ThreadRow
  <2>3. reply \in ThreadRow
    BY <1>2, <2>1, <2>2
  <2>4. revise \in ThreadRow
    BY <1>2, <2>1, <2>2
  <2> QED  BY <2>3, <2>4
<1>4. Follows(b, reply) /\ Follows(b, revise)
  BY <1>1, <1>2 DEF ThreadRow, Follows, Dated
<1>5. Cursor(k, reply) \/ Cursor(k, revise)
  BY DEF Reply, Revise, b
<1> HIDE DEF reply, revise
<1> QED  BY <1>3, <1>4, <1>5, CursorThreadsMove DEF b

LEMMA DeleteThreads ==
    ASSUME ThreadsInv, NEW k \in Thread, Delete(k) PROVE ThreadsInv'
  BY CursorThreadsMove DEF Delete

LEMMA ThreadsMove ==
    ASSUME ThreadsInv, ThreadsNext PROVE ThreadsInv'
  BY ScanThreads, EndScanThreads, EmitThreads, FinishThreads, ReplyThreads, DeleteThreads
  DEF ThreadsNext

LEMMA ThreadsStay ==
    ASSUME ThreadsInv, UNCHANGED threads PROVE ThreadsInv'
<1> USE DEF threads
<1>1. Newest(seen, MaxThreads)' = Newest(seen, MaxThreads)
  BY DEF Newest
<1>2. PruningKeepsTheNewest'
  BY <1>1 DEF PruningKeepsTheNewest, ThreadsInv
<1>3. ThreadsTyped'
  BY DEF ThreadsInv, ThreadsTyped, ThreadsTypeOK
<1>4. Traced'
  BY DEF ThreadsInv, Traced
<1> QED  BY <1>2, <1>3, <1>4 DEF ThreadsInv

-----------------------------------------------------------------------------
(* Parsing *)

LEMMA Halves ==
    ASSUME NEW n \in Nat, NEW m \in Nat
    PROVE  /\ n \div 2 \in Nat
           /\ n <= m => n \div 2 <= m \div 2
           /\ n <= 2 * m => n \div 2 <= m
           /\ n \div 2 > 0 => n > 0
  BY SMT

LEMMA FirstOfRows ==
    ASSUME NEW S \in SUBSET Nat, S # {}
    PROVE  First(S) \in S /\ \A j \in S : First(S) <= j
<1>1. \E i \in S : \A j \in S : i <= j
  BY LeastNatural
<1> QED  BY <1>1 DEF First

LEMMA LastOfRows ==
    ASSUME NEW S \in SUBSET Nat, S # {}, NEW n \in Nat, \A i \in S : i <= n
    PROVE  Last(S) \in S /\ \A j \in S : Last(S) >= j
<1>1. \E i \in S : \A j \in S : i >= j
  BY GreatestNatural
<1> QED  BY <1>1 DEF Last

LEMMA RowFacts ==
    ASSUME NEW f \in File, NEW n \in Nat, n <= Pieces(f)
    PROVE  /\ Rows(f, n) \in SUBSET Nat /\ IsFiniteSet(Rows(f, n))
           /\ \A i \in Rows(f, n) : i <= n \div 2 /\ Script[f][i] \in Row /\ i \in DOMAIN Script[f]
           /\ n \div 2 \in Nat
           /\ Rows(f, n) # {} => n > 0
<1>1. Script[f] \in Seq(Row) /\ Len(Script[f]) \in Nat
  BY TranscriptsAssumption, LenInNat
<1>2. n \div 2 \in Nat /\ n \div 2 <= Len(Script[f]) /\ (n \div 2 > 0 => n > 0)
  BY <1>1, Halves DEF Pieces
<1> DEFINE h == n \div 2
<1> HIDE DEF h
<1>3. IsFiniteSet(1 .. h)
  BY <1>2, FS_Interval DEF h
<1>4. Rows(f, n) \in SUBSET (1 .. h)
  BY DEF Rows, h
<1>5. IsFiniteSet(Rows(f, n))
  BY <1>3, <1>4, FS_Subset
<1>6. \A i \in 1 .. h : i \in DOMAIN Script[f] /\ i \in Nat /\ i <= h /\ Script[f][i] \in Row
                      /\ h > 0
  BY <1>1, <1>2 DEF h
<1> QED  BY <1>2, <1>4, <1>5, <1>6 DEF h

(* The envelope of what was read; its times do not run backwards. *)
LEMMA ParsedEnvelope ==
    ASSUME NEW f \in File, NEW n \in Nat, n <= Pieces(f), NEW m \in Nat
    PROVE  /\ Parsed(f, n, m) \in Envelope
           /\ Parsed(f, n, m).raw = n /\ Parsed(f, n, m).print = m
           /\ Started(f, n) \in Nat /\ LastActivity(f, n) \in Nat
           /\ Started(f, n) <= LastActivity(f, n)
<1>1. /\ Rows(f, n) \in SUBSET Nat /\ IsFiniteSet(Rows(f, n))
      /\ \A i \in Rows(f, n) : i <= n \div 2 /\ Script[f][i] \in Row
      /\ n \div 2 \in Nat
  BY RowFacts
<1>2. SessionOf(f, n) \in Session
  <2>1. CASE Format[f] = "codex" /\ Headers(f, n) # {}
    <3>1. Headers(f, n) \in SUBSET Nat
      BY <1>1 DEF Headers
    <3>2. First(Headers(f, n)) \in Headers(f, n)
      BY <2>1, <3>1, FirstOfRows
    <3>3. Script[f][First(Headers(f, n))] \in Row
      BY <1>1, <3>2 DEF Headers
    <3> QED  BY <2>1, <3>3 DEF SessionOf, Row
  <2>2. CASE ~(Format[f] = "codex" /\ Headers(f, n) # {})
    BY <2>2, TranscriptsAssumption DEF SessionOf
  <2> QED  BY <2>1, <2>2
<1>3. Times(f, n) \in SUBSET Nat /\ \A i \in Times(f, n) : i <= n \div 2
  BY <1>1 DEF Times
<1>4. Times(f, n) # {} =>
          /\ Script[f][First(Times(f, n))].time \in Nat
          /\ Script[f][Last(Times(f, n))].time \in Nat
  <2> SUFFICES ASSUME Times(f, n) # {}
               PROVE  /\ Script[f][First(Times(f, n))].time \in Nat
                      /\ Script[f][Last(Times(f, n))].time \in Nat
    OBVIOUS
  <2>1. First(Times(f, n)) \in Times(f, n)
    BY <1>3, FirstOfRows
  <2>2. Last(Times(f, n)) \in Times(f, n)
    BY <1>1, <1>3, LastOfRows
  <2>3. \A i \in Times(f, n) : Script[f][i].time \in Nat
    BY <1>1 DEF Times, Row
  <2> QED  BY <2>1, <2>2, <2>3
<1>5. Started(f, n) \in Nat
  BY <1>4 DEF Started
<1>6. LastActivity(f, n) \in Nat /\ Started(f, n) <= LastActivity(f, n)
  <2>1. CASE Times(f, n) = {}
    BY <2>1 DEF LastActivity, Started
  <2>2. CASE Times(f, n) # {}
    BY <1>4, <1>5, <2>2 DEF LastActivity
  <2> QED  BY <2>1, <2>2
<1> DEFINE messages == {i \in Rows(f, n) : Script[f][i].kind = "message"}
<1>7. Cardinality(messages) \in Nat
  <2>1. messages \in SUBSET Rows(f, n)
    OBVIOUS
  <2> HIDE DEF messages
  <2>2. IsFiniteSet(messages)
    BY <1>1, <2>1, FS_Subset
  <2> QED  BY <2>2, FS_CardinalityType
<1> DEFINE e == [session |-> SessionOf(f, n), raw |-> n, print |-> m,
                 messages |-> Cardinality(messages),
                 started |-> Started(f, n), last |-> LastActivity(f, n)]
<1>8. Parsed(f, n, m) = e
  BY DEF Parsed
<1> HIDE DEF messages
<1>9. e \in Envelope /\ e.raw = n /\ e.print = m
  BY <1>2, <1>5, <1>6, <1>7 DEF Envelope
<1> QED  BY <1>5, <1>6, <1>8, <1>9

-----------------------------------------------------------------------------
(* The files *)

LEMMA FirstFiles ==
    ASSUME FilesInit PROVE FilesInv
<1> USE DEF FilesInit
<1>1. DOMAIN yield = {} /\ DOMAIN store = {} /\ Limit \in Nat
  BY TranscriptsAssumption DEF Nothing
<1>2. FilesTypeOK
  BY <1>1 DEF FilesTypeOK
<1>3. Handled
  BY <1>1 DEF Handled
<1>4. Kept
  BY <1>1 DEF Kept
<1>5. Taken
  BY DEF Taken, Matching
<1> QED  BY <1>2, <1>3, <1>4, <1>5 DEF FilesInv

LEMMA PassFiles ==
    ASSUME FilesInv, NEW f \in File, Pass(f) PROVE FilesInv'
<1> USE DEF FilesInv, Pass
<1>1. FilesTypeOK'
  BY DEF FilesTypeOK
<1>2. Handled'
  BY DEF Handled
<1>3. Kept'
  BY DEF Kept
<1>4. Taken'
  BY DEF Taken, Matching
<1> QED  BY <1>1, <1>2, <1>3, <1>4

LEMMA OpenFiles ==
    ASSUME FilesInv, NEW f \in File, Open(f) PROVE FilesInv'
<1> USE DEF FilesInv, Open
<1>0. length[f] \in Nat /\ f # Absent /\ read = 0
  BY TranscriptsAssumption DEF FilesTypeOK
<1>1. FilesTypeOK'
  BY <1>0 DEF FilesTypeOK
<1>2. Handled'
  BY <1>0 DEF Handled
<1>3. Kept'
  BY <1>0 DEF Kept
<1>4. Taken'
  <2>1. \A g \in Matching \ (touched' \cup unseen' \cup {at'}) :
           g \in Matching \ (touched \cup unseen \cup {at})
    BY TranscriptsAssumption DEF Matching
  <2> QED  BY <2>1 DEF Taken
<1> QED  BY <1>1, <1>2, <1>3, <1>4

LEMMA AgainFiles ==
    ASSUME FilesInv, Again PROVE FilesInv'
<1> USE DEF FilesInv, Again
<1>0. DOMAIN yield' = {}
  BY DEF Nothing
<1>1. FilesTypeOK'
  BY <1>0 DEF FilesTypeOK
<1>2. Handled'
  BY <1>0 DEF Handled
<1>3. Kept'
  BY DEF Kept
<1>4. Taken'
  BY DEF Taken, Matching
<1> QED  BY <1>1, <1>2, <1>3, <1>4

LEMMA FetchFiles ==
    ASSUME FilesInv, at # Absent, Fetch(length[at]) PROVE FilesInv'
<1> USE DEF FilesInv, Fetch
<1>0. /\ at \in File /\ length[at] \in Nat /\ size \in Nat /\ size <= length[at] /\ size <= Limit
      /\ Limit \in Nat
  BY TranscriptsAssumption DEF FilesTypeOK, Handled
<1>1. /\ read' = Smaller(length[at], Limit + 1) /\ read' \in 1 .. Limit + 1
      /\ size <= read' /\ read' <= length[at]
      /\ \A x \in Nat : x <= Limit /\ x <= length[at] => x <= read'
  BY <1>0 DEF Smaller
<1>2. FilesTypeOK'
  BY <1>0, <1>1 DEF FilesTypeOK
<1>3. Handled'
  BY <1>0, <1>1 DEF Handled
<1>4. Kept'
  <2>1. \A f \in DOMAIN store : store[f].raw \in Nat
    BY <1>0 DEF Kept
  <2>2. \A f \in DOMAIN store : at = f => store[f].raw <= read'
    <3> SUFFICES ASSUME NEW f \in DOMAIN store, at = f PROVE store[f].raw <= read'
      OBVIOUS
    <3>1. store[f].raw <= Limit /\ store[f].raw <= length[at]
      BY <1>0, <2>1, TranscriptsAssumption DEF Kept
    <3> QED  BY <1>1, <2>1, <3>1
  <2>3. UNCHANGED <<length, at, store>>
    OBVIOUS
  <2> SUFFICES ASSUME NEW f \in DOMAIN store
               PROVE  /\ store[f].raw \in 1 .. Limit /\ store[f].raw <= Pieces(f)
                      /\ store[f].print \in 0 .. store[f].raw
                      /\ Rows(f, store[f].raw) # {}
                      /\ store[f] = Parsed(f, store[f].raw, store[f].print)
                      /\ length[f] # Absent => store[f].raw <= length[f]
    BY <2>2, <2>3 DEF Kept
  <2> QED  BY DEF Kept
<1>5. Taken'
  BY DEF Taken
<1> QED  BY <1>2, <1>3, <1>4, <1>5

LEMMA ReportFiles ==
    ASSUME FilesInv, Report PROVE FilesInv'
<1> USE DEF FilesInv, Report, Close
<1>0. /\ at \in Matching /\ at \in File /\ at # Absent /\ at \notin DOMAIN yield /\ at \notin unseen
      /\ at \notin oversize
      /\ length[at] \in Nat /\ size \in Nat /\ size <= length[at] /\ read \in Nat /\ read <= length[at]
      /\ Limit \in Nat
  BY TranscriptsAssumption DEF FilesTypeOK, Handled, Matching
<1>1. FilesTypeOK'
  BY <1>0 DEF FilesTypeOK
<1>2. Handled'
  BY <1>0 DEF Handled
<1>3. Kept'
  BY <1>0 DEF Kept
<1>4. length[at] > Limit
  BY <1>0
<1>5. Taken'
  <2> SUFFICES ASSUME NEW f \in Matching \ (touched \cup unseen), length[f] # Absent,
                      length[f] % 2 = 0, Rows(f, length[f]) # {}
               PROVE  IF length[f] > Limit THEN f \in oversize'
                      ELSE f \in DOMAIN yield /\ yield[f].raw = length[f]
                                             /\ yield[f].print = length[f]
    BY DEF Taken, Rows
  <2>1. CASE f = at
    BY <1>4, <2>1
  <2>2. CASE f # at
    BY <2>2 DEF Taken
  <2> QED  BY <2>1, <2>2
<1> QED  BY <1>1, <1>2, <1>3, <1>5

LEMMA ChangedFile ==
    ASSUME FilesInv, NEW f \in File, Create(f) \/ Extend(f) \/ Remove(f) PROVE FilesInv'
<1> USE DEF FilesInv
<1>1. /\ touched' = touched \cup {f}
      /\ UNCHANGED <<unseen, at, size, read, yield, oversize, store>>
      /\ length' = [length EXCEPT ![f] = length'[f]]
      /\ length'[f] \in Nat \cup {Absent}
      /\ length'[f] = Absent \/ length'[f] <= Pieces(f)
      /\ length[f] # Absent /\ length'[f] # Absent => length[f] <= length'[f]
      /\ length'[f] = Absent => at # f
      /\ length[f] = Absent => f \notin DOMAIN store
  <2>0. length \in [File -> Nat \cup {Absent}] /\ Absent \notin Nat
    BY TranscriptsAssumption DEF FilesTypeOK
  <2>1. CASE Create(f)
    <3>1. Len(Script[f]) \in Nat
      BY TranscriptsAssumption, LenInNat
    <3>2. 0 <= Pieces(f)
      BY <3>1 DEF Pieces
    <3>3. length' = [length EXCEPT ![f] = 0] /\ length'[f] = 0
      BY <2>0, <2>1 DEF Create
    <3> QED  BY <2>0, <2>1, <3>2, <3>3 DEF Create
  <2>2. CASE Extend(f)
    <3>1. Len(Script[f]) \in Nat
      BY TranscriptsAssumption, LenInNat
    <3>2. length[f] \in Nat /\ length[f] + 1 \in Nat
      BY <2>0, <2>2 DEF Extend
    <3>3. length' = [length EXCEPT ![f] = length[f] + 1] /\ length'[f] = length[f] + 1
      BY <2>0, <2>2 DEF Extend
    <3>4. length[f] + 1 <= Pieces(f)
      BY <2>2, <3>1, <3>2 DEF Extend, Pieces
    <3>5. length[f] <= length'[f] /\ length'[f] # Absent /\ length[f] # Absent
      BY <2>0, <3>2, <3>3
    <3> QED  BY <2>2, <3>2, <3>3, <3>4, <3>5 DEF Extend
  <2>3. CASE Remove(f)
    <3>1. length' = [length EXCEPT ![f] = Absent] /\ length'[f] = Absent
      BY <2>0, <2>3 DEF Remove
    <3> QED  BY <2>3, <3>1 DEF Remove
  <2> QED  BY <2>1, <2>2, <2>3
<1>2. /\ length \in [File -> Nat \cup {Absent}] /\ Absent \notin Nat /\ Limit \in Nat
      /\ size \in Nat /\ read \in Nat /\ oversize \subseteq File
      /\ at # Absent => at \in File
  BY TranscriptsAssumption DEF FilesTypeOK, Matching
<1>3. \A g \in File : length'[g] = IF g = f THEN length'[f] ELSE length[g]
  BY <1>1, <1>2
<1>4. FilesTypeOK'
  <2>1. length' \in [File -> Nat \cup {Absent}]
    BY <1>1, <1>2
  <2> QED  BY <1>1, <2>1 DEF FilesTypeOK
<1>5. Handled'
  <2>1. \A g \in File : length'[g] = Absent \/ length'[g] <= Pieces(g)
    BY <1>1, <1>3 DEF Handled
  <2>2. at # Absent =>
          /\ length'[at] # Absent /\ size <= length'[at] /\ read <= length'[at]
          /\ at \notin touched' => length'[at] = length[at] /\ at \notin touched
    <3> SUFFICES ASSUME at # Absent
                 PROVE  /\ length'[at] # Absent /\ size <= length'[at] /\ read <= length'[at]
                        /\ at \notin touched' => length'[at] = length[at] /\ at \notin touched
      OBVIOUS
    <3>1. /\ at \in File /\ length[at] \in Nat /\ size <= length[at] /\ read <= length[at]
      BY <1>2 DEF Handled
    <3>2. CASE at = f
      <4>1. length'[f] \in Nat /\ length[f] <= length'[f] /\ length'[f] # Absent
        BY <1>1, <1>2, <3>1, <3>2
      <4> QED  BY <1>1, <1>2, <3>1, <3>2, <4>1
    <3>3. CASE at # f
      BY <1>1, <1>2, <1>3, <3>1, <3>3
    <3> QED  BY <3>2, <3>3
  <2> QED  BY <1>1, <2>1, <2>2 DEF Handled
<1>6. Kept'
  <2>1. \A g \in DOMAIN store : length'[g] # Absent => store[g].raw <= length'[g]
    <3> SUFFICES ASSUME NEW g \in DOMAIN store, length'[g] # Absent
                 PROVE  store[g].raw <= length'[g]
      OBVIOUS
    <3>1. g \in File /\ store[g].raw \in Nat
      BY DEF FilesTypeOK, Matching, Envelope
    <3>2. CASE g = f
      <4>1. length[f] # Absent /\ length[f] <= length'[f] /\ store[f].raw <= length[f]
        BY <1>1, <3>2 DEF Kept
      <4>2. length[f] \in Nat /\ length'[f] \in Nat
        BY <1>1, <1>2, <3>2, <4>1
      <4> QED  BY <3>1, <3>2, <4>1, <4>2
    <3>3. CASE g # f
      BY <1>3, <3>1, <3>3 DEF Kept
    <3> QED  BY <3>2, <3>3
  <2> QED  BY <1>1, <2>1 DEF Kept
<1>7. Taken'
  <2> SUFFICES ASSUME NEW g \in Matching \ (touched' \cup unseen \cup {at})
               PROVE  length'[g] # Absent /\ length'[g] % 2 = 0 /\ Rows(g, length'[g]) # {} =>
                          IF length'[g] > Limit THEN g \in oversize
                          ELSE g \in DOMAIN yield /\ yield[g].raw = length'[g]
                                                 /\ yield[g].print = length'[g]
    BY <1>1 DEF Taken, Rows
  <2>1. length'[g] = length[g] /\ g \in Matching \ (touched \cup unseen \cup {at})
    BY <1>1, <1>3 DEF Matching
  <2> QED  BY <2>1 DEF Taken
<1> QED  BY <1>4, <1>5, <1>6, <1>7

LEMMA VisitFiles ==
    ASSUME FilesInv, Visit PROVE FilesInv'
<1> USE DEF FilesInv
<1> DEFINE e == Parsed(at, read, size)
<1>0. /\ at \in Matching /\ at \in File /\ at # Absent /\ at \notin DOMAIN yield /\ at \notin unseen
      /\ at \notin oversize
      /\ length[at] \in Nat /\ size \in Nat /\ size <= length[at] /\ read \in Nat /\ read <= length[at]
      /\ length[at] <= Pieces(at) /\ Pieces(at) \in Int /\ size <= Limit /\ read <= Limit
      /\ read > 0 => size <= read
      /\ read > 0 \/ length[at] = 0
      /\ Limit \in Nat
  <2>1. Len(Script[at]) \in Nat /\ Pieces(at) \in Int
    <3>1. at \in File /\ Script[at] \in Seq(Row)
      BY TranscriptsAssumption DEF FilesTypeOK, Visit
    <3> QED  BY <3>1, LenInNat DEF Pieces
  <2> QED  BY <2>1, TranscriptsAssumption DEF FilesTypeOK, Handled, Matching, Visit
<1>1. /\ at' = Absent /\ size' = 0 /\ read' = 0
      /\ UNCHANGED <<length, unseen, touched, oversize>>
  BY DEF Visit, Close
<1>2. /\ e \in Envelope /\ e.raw = read /\ e.print = size /\ e = Parsed(at, read, size)
  BY <1>0, ParsedEnvelope
<1> HIDE DEF e
<1>3. \/ /\ Rows(at, read) # {}
         /\ yield' = Put(at, e, yield) /\ store' = Put(at, e, store)
      \/ /\ Rows(at, read) = {} \/ read % 2 = 1
         /\ UNCHANGED <<yield, store>>
  BY DEF Visit, PrintOf, e
<1>4. CASE Rows(at, read) # {} /\ yield' = Put(at, e, yield) /\ store' = Put(at, e, store)
  <2>1. /\ DOMAIN yield' = DOMAIN yield \cup {at} /\ DOMAIN store' = DOMAIN store \cup {at}
        /\ yield'[at] = e /\ store'[at] = e
        /\ \A f \in DOMAIN yield : f # at => yield'[f] = yield[f]
        /\ \A f \in DOMAIN store : f # at => store'[f] = store[f]
    BY <1>4 DEF Put
  <2>2. read > 0
    BY <1>0, <1>4, RowFacts
  <2>3. FilesTypeOK'
    <3>1. \A f \in DOMAIN yield' : f \in Matching /\ yield'[f] \in Envelope
      BY <1>0, <1>2, <2>1 DEF FilesTypeOK
    <3>2. \A f \in DOMAIN store' : f \in Matching /\ store'[f] \in Envelope
      BY <1>0, <1>2, <2>1 DEF FilesTypeOK
    <3>3. oversize \subseteq Matching \ DOMAIN yield'
      BY <1>0, <2>1 DEF FilesTypeOK
    <3> QED  BY <1>0, <1>1, <3>1, <3>2, <3>3 DEF FilesTypeOK
  <2>4. Handled'
    BY <1>0, <1>1, <2>1 DEF Handled
  <2>5. Kept'
    <3> SUFFICES ASSUME NEW f \in DOMAIN store'
                 PROVE  /\ store'[f].raw \in 1 .. Limit /\ store'[f].raw <= Pieces(f)
                        /\ store'[f].print \in 0 .. store'[f].raw
                        /\ Rows(f, store'[f].raw) # {}
                        /\ store'[f] = Parsed(f, store'[f].raw, store'[f].print)
                        /\ length[f] # Absent => store'[f].raw <= length[f]
      BY <1>1 DEF Kept
    <3>1. CASE f = at
      <4>1. /\ e.raw \in 1 .. Limit /\ e.raw <= Pieces(at) /\ e.print \in 0 .. e.raw
            /\ e.raw <= length[at] /\ Rows(at, e.raw) # {}
            /\ e = Parsed(at, e.raw, e.print)
        BY <1>0, <1>2, <1>4, <2>2
      <4> QED  BY <2>1, <3>1, <4>1
    <3>2. CASE f # at
      BY <2>1, <3>2 DEF Kept
    <3> QED  BY <3>1, <3>2
  <2>6. Taken'
    <3> SUFFICES ASSUME NEW f \in Matching \ (touched \cup unseen), length[f] # Absent,
                        length[f] % 2 = 0, Rows(f, length[f]) # {}
                 PROVE  IF length[f] > Limit THEN f \in oversize
                        ELSE f \in DOMAIN yield' /\ yield'[f].raw = length[f]
                                                /\ yield'[f].print = length[f]
      BY <1>1 DEF Taken, Rows
    <3>1. CASE f = at
      <4>1. size = length[at] /\ read \in {0, Smaller(length[at], Limit + 1)}
        BY <1>0, <3>1 DEF Handled
      <4>2. read = length[at] /\ ~(length[at] > Limit)
        BY <1>0, <2>2, <4>1 DEF Smaller
      <4> QED  BY <1>2, <2>1, <3>1, <4>1, <4>2
    <3>2. CASE f # at
      BY <2>1, <3>2 DEF Taken
    <3> QED  BY <3>1, <3>2
  <2> QED  BY <2>3, <2>4, <2>5, <2>6
<1>5. CASE (Rows(at, read) = {} \/ read % 2 = 1) /\ UNCHANGED <<yield, store>>
  <2>1. FilesTypeOK'
    BY <1>0, <1>1, <1>5 DEF FilesTypeOK
  <2>2. Handled'
    BY <1>0, <1>1, <1>5 DEF Handled
  <2>3. Kept'
    BY <1>0, <1>1, <1>5 DEF Kept
  <2>4. Taken'
    <3> SUFFICES ASSUME NEW f \in Matching \ (touched \cup unseen), length[f] # Absent,
                        length[f] % 2 = 0, Rows(f, length[f]) # {}
                 PROVE  IF length[f] > Limit THEN f \in oversize
                        ELSE f \in DOMAIN yield /\ yield[f].raw = length[f]
                                               /\ yield[f].print = length[f]
      BY <1>1, <1>5 DEF Taken, Rows
    <3>1. CASE f = at
      <4>1. size = length[at] /\ read \in {0, Smaller(length[at], Limit + 1)}
        BY <1>0, <3>1 DEF Handled
      <4>2. length[at] > 0
        BY <1>0, <3>1, RowFacts
      <4>3. read = length[at]
        BY <1>0, <4>1, <4>2 DEF Smaller
      <4> QED  BY <1>5, <3>1, <4>3
    <3>2. CASE f # at
      BY <3>2 DEF Taken
    <3> QED  BY <3>1, <3>2
  <2> QED  BY <2>1, <2>2, <2>3, <2>4
<1> QED  BY <1>3, <1>4, <1>5

LEMMA FilesMove ==
    ASSUME FilesInv, FilesNext PROVE FilesInv'
  BY PassFiles, OpenFiles, FetchFiles, ReportFiles, VisitFiles, AgainFiles, ChangedFile
  DEF FilesNext

LEMMA FilesStay ==
    ASSUME FilesInv, UNCHANGED files PROVE FilesInv'
<1> USE DEF FilesInv, files
<1>1. FilesTypeOK'
  BY DEF FilesTypeOK
<1>2. Handled'
  BY DEF Handled
<1>3. Kept'
  BY DEF Kept
<1>4. Taken'
  BY DEF Taken
<1> QED  BY <1>1, <1>2, <1>3, <1>4

-----------------------------------------------------------------------------
(* The theorems *)

DiscoveryInv ==
    /\ source \in {"files", "threads"}
    /\ FilesInv /\ ThreadsInv

LEMMA DiscoveryInvHolds == Spec => []DiscoveryInv
<1>1. Init => DiscoveryInv
  <2>1. [k \in Thread |-> Gone] \in [Thread -> ThreadRow \cup {Gone}]
    OBVIOUS
  <2>2. Initially \subseteq [Thread -> ThreadRow \cup {Gone}]
    BY CursorAssumption
  <2> QED  BY <2>1, <2>2, FirstFiles, FirstThreads DEF Init, DiscoveryInv
<1>2. DiscoveryInv /\ [Next]_vars => DiscoveryInv'
  <2> SUFFICES ASSUME DiscoveryInv, [Next]_vars PROVE DiscoveryInv'
    OBVIOUS
  <2>1. source' \in {"files", "threads"}
    BY DEF DiscoveryInv, Next, vars
  <2>2. /\ FilesNext \/ UNCHANGED files
        /\ ThreadsNext \/ UNCHANGED threads
    BY DEF Next, vars
  <2>3. FilesInv'
    BY <2>2, FilesMove, FilesStay DEF DiscoveryInv
  <2>4. ThreadsInv'
    BY <2>2, ThreadsMove, ThreadsStay DEF DiscoveryInv
  <2> QED  BY <2>1, <2>3, <2>4 DEF DiscoveryInv
<1> QED  BY <1>1, <1>2, PTL DEF Spec

(* Whatever the agents and Cursor do meanwhile, the sources' state is well   *)
(* formed: no walk holds more of a file than the limit and one byte, and no  *)
(* scan holds PruneAt candidates.                                           *)
THEOREM DiscoveryIsBounded == Spec => []TypeOK
<1>1. DiscoveryInv => TypeOK
  BY DEF DiscoveryInv, FilesInv, ThreadsInv, ThreadsTyped, TypeOK
<1> QED  BY <1>1, DiscoveryInvHolds, PTL

(* No envelope's fingerprint claims more than was read of its file, none     *)
(* exceeds the limit, and none ends before it starts (read_transcript,       *)
(* time_bounds).                                                            *)
THEOREM EnvelopesClaimWhatWasRead == Spec => []EnvelopesAreHonest
<1>1. FilesInv => EnvelopesAreHonest
  <2> SUFFICES ASSUME FilesInv, NEW f \in DOMAIN store
               PROVE  /\ store[f].print <= store[f].raw /\ store[f].raw <= Limit
                      /\ store[f].started <= store[f].last
    BY DEF EnvelopesAreHonest
  <2>1. /\ f \in File /\ Limit \in Nat
        /\ store[f].raw \in 1 .. Limit /\ store[f].raw <= Pieces(f)
        /\ store[f].print \in 0 .. store[f].raw
        /\ store[f] = Parsed(f, store[f].raw, store[f].print)
    BY TranscriptsAssumption DEF FilesInv, FilesTypeOK, Matching, Kept
  <2> DEFINE n == store[f].raw
             m == store[f].print
  <2>2. n \in Nat /\ m \in Nat /\ m <= n /\ n <= Limit
    BY <2>1
  <2>3. Started(f, n) <= LastActivity(f, n)
    BY <2>1, <2>2, ParsedEnvelope
  <2> HIDE DEF n, m
  <2>4. Parsed(f, n, m).started = Started(f, n) /\ Parsed(f, n, m).last = LastActivity(f, n)
    BY DEF Parsed
  <2> QED  BY <2>1, <2>2, <2>3, <2>4 DEF n, m
<1>2. DiscoveryInv => EnvelopesAreHonest
  BY <1>1 DEF DiscoveryInv
<1> QED  BY <1>2, DiscoveryInvHolds, PTL

(* A walk that ends misses no file that held still (visit_files).            *)
THEOREM NoQuietFileIsMissed == Spec => []QuietFilesAreTaken
<1>1. DiscoveryInv => QuietFilesAreTaken
  <2> SUFFICES ASSUME DiscoveryInv, unseen = {}, at = Absent
               PROVE  \A f \in Matching \ touched :
                          length[f] # Absent /\ length[f] % 2 = 0 /\ Rows(f, length[f]) # {} =>
                              IF length[f] > Limit THEN f \in oversize
                              ELSE f \in DOMAIN yield /\ yield[f].raw = length[f]
                                                     /\ yield[f].print = length[f]
    BY DEF QuietFilesAreTaken
  <2>1. Absent \notin Matching
    BY TranscriptsAssumption DEF Matching
  <2> QED  BY <2>1 DEF DiscoveryInv, FilesInv, Taken
<1> QED  BY <1>1, DiscoveryInvHolds, PTL

(* However many threads there are, and whenever the surplus is pruned on the *)
(* way, the candidates include the newest of everything scanned, and what is *)
(* not among them was counted (collect_candidates, prune_candidates).        *)
THEOREM PruningIsExact == Spec => []PruningKeepsTheNewest
<1>1. DiscoveryInv => PruningKeepsTheNewest
  BY DEF DiscoveryInv, ThreadsInv
<1> QED  BY <1>1, DiscoveryInvHolds, PTL

(* A thread that was edited after it was sent has another fingerprint, except *)
(* for the edits the code cannot tell.                                       *)
THEOREM EditsChangeTheFingerprint == Spec => []EditsAreNoticed
<1>1. ThreadsInv => EditsAreNoticed
  <2> SUFFICES ASSUME ThreadsInv, NEW i \in DOMAIN emitted,
                      emitted[i].row # Gone, db[emitted[i].candidate.thread] # Gone,
                      emitted[i].row.revision # db[emitted[i].candidate.thread].revision,
                      \/ emitted[i].row.updated > 0
                      \/ emitted[i].row.bubbles # db[emitted[i].candidate.thread].bubbles
               PROVE  Fingerprint(emitted[i].row) # Fingerprint(db[emitted[i].candidate.thread])
    BY DEF EditsAreNoticed
  <2> DEFINE was == emitted[i].row
             is  == db[emitted[i].candidate.thread]
  <2>1. emitted[i] \in Emission
    <3>1. emitted \in Seq(Emission)
      BY DEF ThreadsInv, ThreadsTyped
    <3> QED  BY <3>1
  <2>2. was \in ThreadRow /\ is \in ThreadRow
    BY <2>1 DEF Emission, Candidate, ThreadsInv, ThreadsTyped, ThreadsTypeOK
  <2>3. Follows(was, is)
    BY DEF ThreadsInv, Traced
  <2>4. was.revision # is.revision /\ (was.updated > 0 \/ was.bubbles # is.bubbles)
    OBVIOUS
  <2> HIDE DEF was, is
  <2>5. /\ was.updated \in Nat /\ is.updated \in Nat /\ was.revision \in Nat
        /\ is.revision \in Nat /\ was.created \in Nat /\ is.created \in Nat
    BY <2>2 DEF ThreadRow
  <2>6. CASE was.updated > 0
    <3>1. is.updated > 0 /\ is.updated # was.updated
      BY <2>3, <2>4, <2>5, <2>6 DEF Follows
    <3> QED  BY <2>5, <2>6, <3>1 DEF Fingerprint, was, is
  <2>7. CASE was.bubbles # is.bubbles
    BY <2>7 DEF Fingerprint, was, is
  <2> QED  BY <2>4, <2>6, <2>7
<1>2. DiscoveryInv => EditsAreNoticed
  BY <1>1 DEF DiscoveryInv
<1> QED  BY <1>2, DiscoveryInvHolds, PTL

-----------------------------------------------------------------------------
(* Identity *)

(* What is read of a file later has the rows that were read before first.    *)
LEMMA RowsExtend ==
    ASSUME NEW f \in File, NEW n \in Nat, NEW m \in Nat, n <= m, m <= Pieces(f)
    PROVE  /\ Rows(f, n) \subseteq Rows(f, m)
           /\ \A i \in Rows(f, m), j \in Rows(f, n) : i <= j => i \in Rows(f, n)
<1>1. n \div 2 \in Nat /\ m \div 2 \in Nat /\ n \div 2 <= m \div 2
  BY Halves
<1> DEFINE k == n \div 2
           l == m \div 2
<1>2. Rows(f, n) = {i \in 1 .. k : Script[f][i].kind # "junk"}
  BY DEF Rows
<1>3. Rows(f, m) = {i \in 1 .. l : Script[f][i].kind # "junk"}
  BY DEF Rows
<1> HIDE DEF k, l
<1>4. k \in Nat /\ l \in Nat /\ k <= l
  BY <1>1 DEF k, l
<1> QED  BY <1>2, <1>3, <1>4

LEMMA FirstStays ==
    ASSUME NEW S \in SUBSET Nat, NEW T \in SUBSET Nat, S # {}, S \subseteq T,
           \A i \in T, j \in S : i <= j => i \in S
    PROVE  First(S) = First(T)
<1>1. First(S) \in S /\ \A j \in S : First(S) <= j
  BY FirstOfRows
<1>2. First(T) \in T /\ \A j \in T : First(T) <= j
  BY FirstOfRows
<1>3. First(T) <= First(S)
  BY <1>1, <1>2
<1>4. First(T) \in S
  BY <1>1, <1>2, <1>3
<1>5. First(S) <= First(T)
  BY <1>1, <1>4
<1>6. First(S) \in Nat /\ First(T) \in Nat
  <2>1. \A i \in S : i \in Nat
    OBVIOUS
  <2>2. \A i \in T : i \in Nat
    OBVIOUS
  <2> QED  BY <1>1, <1>2, <2>1, <2>2
<1>7. \A i, j \in Nat : i <= j /\ j <= i => i = j
  OBVIOUS
<1> QED  BY <1>3, <1>5, <1>6, <1>7

LEMMA IdentityStep ==
    ASSUME HeadersOpen, NEW f \in File, NEW n \in Nat, NEW m \in Nat, n <= m, m <= Pieces(f),
           Rows(f, n) # {}, NEW p \in Nat, NEW q \in Nat
    PROVE  /\ Parsed(f, m, q).session = Parsed(f, n, p).session
           /\ Parsed(f, n, p).started > 0 => Parsed(f, m, q).started = Parsed(f, n, p).started
           /\ Parsed(f, m, q).messages >= Parsed(f, n, p).messages
<1>0. Pieces(f) \in Int
  <2>1. Len(Script[f]) \in Nat
    BY TranscriptsAssumption, LenInNat
  <2> QED  BY <2>1 DEF Pieces
<1>1. /\ Rows(f, n) \subseteq Rows(f, m)
      /\ \A i \in Rows(f, m), j \in Rows(f, n) : i <= j => i \in Rows(f, n)
  BY RowsExtend
<1>2. /\ Rows(f, m) \in SUBSET Nat /\ IsFiniteSet(Rows(f, m))
      /\ \A i \in Rows(f, m) : i \in DOMAIN Script[f]
  BY RowFacts
<1>3. SessionOf(f, m) = SessionOf(f, n)
  <2>1. CASE Format[f] # "codex"
    BY <2>1 DEF SessionOf
  <2>2. CASE Format[f] = "codex" /\ Headers(f, n) # {}
    <3>1. /\ Headers(f, n) \in SUBSET Nat /\ Headers(f, m) \in SUBSET Nat
          /\ Headers(f, n) \subseteq Headers(f, m)
          /\ \A i \in Headers(f, m), j \in Headers(f, n) : i <= j => i \in Headers(f, n)
      BY <1>1, <1>2 DEF Headers
    <3>2. First(Headers(f, n)) = First(Headers(f, m))
      BY <2>2, <3>1, FirstStays
    <3> QED  BY <2>2, <3>1, <3>2 DEF SessionOf
  <2>3. CASE Format[f] = "codex" /\ Headers(f, n) = {}
    <3>1. Headers(f, m) = {}
      <4> SUFFICES ASSUME NEW i \in Headers(f, m) PROVE FALSE
        OBVIOUS
      <4>1. PICK j \in Rows(f, n) : TRUE
        OBVIOUS
      <4>2. /\ i \in DOMAIN Script[f] /\ Script[f][i].kind = "header"
            /\ j \in DOMAIN Script[f] /\ Script[f][j].kind # "junk" /\ j \in Nat
        BY <1>1, <1>2, <4>1 DEF Headers, Rows
      <4>3. PICK h \in 1 .. j : Script[f][h].kind = "header"
        BY <2>3, <4>2 DEF HeadersOpen
      <4>4. h \in 1 .. (n \div 2)
        <5>1. n \div 2 \in Nat /\ j <= n \div 2
          BY <1>0, RowFacts
        <5> QED  BY <4>2, <4>3, <5>1
      <4>5. h \in Headers(f, n)
        BY <4>3, <4>4 DEF Headers, Rows
      <4> QED  BY <2>3, <4>5
    <3> QED  BY <2>3, <3>1 DEF SessionOf
  <2> QED  BY <2>1, <2>2, <2>3
<1>4. Started(f, n) > 0 => Started(f, m) = Started(f, n)
  <2> SUFFICES ASSUME Times(f, n) # {} PROVE Started(f, m) = Started(f, n)
    BY DEF Started
  <2>1. /\ Times(f, n) \in SUBSET Nat /\ Times(f, m) \in SUBSET Nat
        /\ Times(f, n) \subseteq Times(f, m)
        /\ \A i \in Times(f, m), j \in Times(f, n) : i <= j => i \in Times(f, n)
    BY <1>1, <1>2 DEF Times
  <2>2. First(Times(f, n)) = First(Times(f, m))
    BY <2>1, FirstStays
  <2> QED  BY <2>1, <2>2 DEF Started
<1> DEFINE M(k) == {i \in Rows(f, k) : Script[f][i].kind = "message"}
<1>5. Cardinality(M(m)) >= Cardinality(M(n))
  <2>1. M(n) \in SUBSET M(m) /\ M(m) \in SUBSET Rows(f, m)
    BY <1>1
  <2>2. IsFiniteSet(M(m))
    BY <1>2, <2>1, FS_Subset
  <2> HIDE DEF M
  <2>3. IsFiniteSet(M(n)) /\ Cardinality(M(n)) <= Cardinality(M(m))
    BY <2>1, <2>2, FS_Subset
  <2>4. Cardinality(M(n)) \in Nat /\ Cardinality(M(m)) \in Nat
    BY <2>2, <2>3, FS_CardinalityType
  <2> QED  BY <2>3, <2>4
<1>6. /\ Parsed(f, m, q).session = SessionOf(f, m) /\ Parsed(f, n, p).session = SessionOf(f, n)
      /\ Parsed(f, m, q).started = Started(f, m) /\ Parsed(f, n, p).started = Started(f, n)
      /\ Parsed(f, m, q).messages = Cardinality(M(m))
      /\ Parsed(f, n, p).messages = Cardinality(M(n))
  BY DEF Parsed
<1> QED  BY <1>3, <1>4, <1>5, <1>6

(* Whatever is appended to a transcript, its session stays what its first    *)
(* envelope said, and what is known of it only grows (read_codex,            *)
(* time_bounds), if Codex's header comes before its rows.                    *)
THEOREM SessionsKeepTheirNames ==
    ASSUME HeadersOpen PROVE Spec => IdentityIsStable
<1> DEFINE Same ==
        \A f \in DOMAIN store :
          /\ store'[f].session = store[f].session
          /\ store[f].started > 0 => store'[f].started = store[f].started
          /\ store'[f].raw >= store[f].raw
          /\ store'[f].messages >= store[f].messages
<1>1. DiscoveryInv /\ DiscoveryInv' /\ [Next]_vars => [Same]_store
  <2> SUFFICES ASSUME FilesInv, FilesInv', [Next]_vars, store' # store PROVE Same
    BY DEF DiscoveryInv
  <2>1. Visit
    BY DEF Next, vars, FilesNext, files, threads, Pass, Open, Create, Extend, Remove, Fetch,
           Report, Again
  <2>2. store' = Put(at, Parsed(at, read, size), store)
    BY <2>1 DEF Visit, PrintOf
  <2> SUFFICES ASSUME NEW f \in DOMAIN store
               PROVE  /\ store'[f].session = store[f].session
                      /\ store[f].started > 0 => store'[f].started = store[f].started
                      /\ store'[f].raw >= store[f].raw
                      /\ store'[f].messages >= store[f].messages
    OBVIOUS
  <2>3. /\ f \in File /\ store[f] \in Envelope
        /\ store[f].raw \in Nat /\ store[f].print \in Nat /\ Rows(f, store[f].raw) # {}
        /\ store[f] = Parsed(f, store[f].raw, store[f].print)
        /\ at = f /\ read > 0 => store[f].raw <= read
        /\ store[f].raw > 0
    BY TranscriptsAssumption DEF FilesInv, FilesTypeOK, Matching, Kept
  <2>4. CASE f # at
    <3>1. store'[f] = store[f]
      BY <2>2, <2>4 DEF Put
    <3>2. store[f].raw \in Nat /\ store[f].messages \in Nat
      BY <2>3 DEF Envelope
    <3> QED  BY <3>1, <3>2
  <2>5. CASE f = at
    <3>1. /\ store'[f] = Parsed(f, read, size) /\ f \in DOMAIN store'
          /\ read \in Nat /\ size \in Nat
      BY <2>2, <2>5 DEF Put, FilesInv, FilesTypeOK
    <3>2. Parsed(f, read, size).raw = read
      BY DEF Parsed
    <3>3. read > 0 /\ read <= Pieces(f)
      <4>1. store'[f].raw \in 1 .. Limit /\ store'[f].raw <= Pieces(f)
        BY <3>1 DEF FilesInv, Kept
      <4> QED  BY <3>1, <3>2, <4>1, TranscriptsAssumption
    <3>4. store[f].raw <= read
      BY <2>3, <2>5, <3>3
    <3> DEFINE n == store[f].raw
               p == store[f].print
    <3> HIDE DEF n, p
    <3>5. n \in Nat /\ p \in Nat /\ n <= read /\ Rows(f, n) # {} /\ store[f] = Parsed(f, n, p)
      BY <2>3, <3>4 DEF n, p
    <3>6. /\ Parsed(f, read, size).session = Parsed(f, n, p).session
          /\ Parsed(f, n, p).started > 0 => Parsed(f, read, size).started = Parsed(f, n, p).started
          /\ Parsed(f, read, size).messages >= Parsed(f, n, p).messages
      BY <2>3, <3>1, <3>3, <3>5, IdentityStep
    <3>7. store'[f].raw >= store[f].raw
      BY <2>3, <3>1, <3>2, <3>4
    <3> QED  BY <3>1, <3>5, <3>6, <3>7
  <2> QED  BY <2>4, <2>5
<1> QED  BY <1>1, DiscoveryInvHolds, PTL DEF Spec, IdentityIsStable
=============================================================================
