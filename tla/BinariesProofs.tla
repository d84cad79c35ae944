--------------------------- MODULE BinariesProofs ----------------------------
(* What the two programs promise, for every number of restorers, processes, *)
(* sessions, versions, failures and path components: reconstitution puts     *)
(* whole transcripts where their sessions ran, health checks and exit codes  *)
(* say what happened, and a durable root is the directory its index is in.   *)
EXTENDS Binaries, OrderLemmas, SequenceTheorems

-----------------------------------------------------------------------------
(* Reconstitution: what is moved in place *)

Fields  == {"session", "qualified", "env", "raw", "root", "place"}
Fetched == {"repo", "clone", "origin", "files", "relocate", "create", "write", "rename"}

Shaped ==
    /\ DOMAIN job = Restorer /\ DOMAIN pc = Restorer
    /\ \A p \in Restorer : DOMAIN job[p] = Fields

(* A restorer that has the bytes has a Claude transcript, and when it asked *)
(* for a version by its hash, the one of its envelope.                      *)
Checked(p) ==
    pc[p] \in Fetched =>
        /\ Claude(job[p].session, job[p].raw)
        /\ job[p].qualified => job[p].raw = job[p].env

(* What it is writing is a file of its own, complete before it is moved. *)
Written(p) ==
    /\ pc[p] \in {"write", "rename"} =>
          /\ TempName(p) \in DOMAIN temp
          /\ DOMAIN temp[TempName(p)] = {"version", "whole"}
          /\ temp[TempName(p)].version = job[p].raw
    /\ pc[p] = "rename" => temp[TempName(p)].whole = TRUE

Careful ==
    /\ Shaped
    /\ \A p \in Restorer : Checked(p) /\ Written(p)
    /\ TranscriptsAreWhole

-----------------------------------------------------------------------------
(* The steps of a restorer *)

LEMMA InitCareful == ASSUME RestoreInit PROVE Careful
<1>1. Shaped
  BY DEF RestoreInit, Shaped, Idle, Fields
<1>2. ASSUME NEW p \in Restorer PROVE Checked(p) /\ Written(p)
  BY DEF RestoreInit, Checked, Written, Fetched
<1>3. TranscriptsAreWhole
  BY DEF RestoreInit, TranscriptsAreWhole
<1> QED  BY <1>1, <1>2, <1>3 DEF Careful

(* A step that moves one restorer on, before it has a file. *)
LEMMA MovingCareful ==
    ASSUME Careful, NEW p \in Restorer, NEW q, q \notin {"write", "rename"},
           DOMAIN job' = Restorer, DOMAIN job'[p] = Fields,
           \A r \in Restorer : r # p => job'[r] = job[r],
           pc' = [pc EXCEPT ![p] = q],
           q \in Fetched => /\ Claude(job'[p].session, job'[p].raw)
                            /\ job'[p].qualified => job'[p].raw = job'[p].env,
           UNCHANGED files
    PROVE  Careful'
<1>1. UNCHANGED <<temp, transcript>>
  BY DEF files
<1>2. /\ DOMAIN pc' = Restorer /\ pc'[p] = q
      /\ \A r \in Restorer : r # p => pc'[r] = pc[r]
  BY DEF Careful, Shaped
<1>3. Shaped'
  BY <1>2 DEF Careful, Shaped
<1>4. ASSUME NEW r \in Restorer PROVE Checked(r)' /\ Written(r)'
  <2>1. CASE r = p
    BY <1>2, <2>1 DEF Checked, Written
  <2>2. CASE r # p
    <3>1. pc'[r] = pc[r] /\ job'[r] = job[r] /\ temp' = temp
      BY <1>1, <1>2, <2>2
    <3>2. Checked(r) /\ Written(r)
      BY DEF Careful
    <3> QED  BY <3>1, <3>2 DEF Checked, Written, TempName, FileOf
  <2> QED  BY <2>1, <2>2
<1>5. TranscriptsAreWhole'
  BY <1>1 DEF Careful, TranscriptsAreWhole
<1> QED  BY <1>3, <1>4, <1>5 DEF Careful

(* Steps that leave the jobs alone. *)
LEMMA StayingCareful ==
    ASSUME Careful, NEW p \in Restorer, NEW q, q \notin {"write", "rename"},
           q \in Fetched => pc[p] \in Fetched,
           job' = job, pc' = [pc EXCEPT ![p] = q], UNCHANGED files
    PROVE  Careful'
<1>1. DOMAIN job = Restorer /\ DOMAIN job[p] = Fields /\ Checked(p)
  BY DEF Careful, Shaped
<1> QED  BY <1>1, MovingCareful DEF Checked

LEMMA BeginCareful ==
    ASSUME Careful, NEW p \in Restorer, NEW s \in Session, NEW b \in BOOLEAN, Begin(p, s, b)
    PROVE  Careful'
<1>1. /\ job' = [job EXCEPT ![p] = [Idle EXCEPT !.session = s, !.qualified = b]]
      /\ pc' = [pc EXCEPT ![p] = "envelope"] /\ UNCHANGED files
  BY DEF Begin
<1>2. DOMAIN job = Restorer
  BY DEF Careful, Shaped
<1>3. DOMAIN [Idle EXCEPT !.session = s, !.qualified = b] = Fields
  BY DEF Idle, Fields
<1>4. "envelope" \notin Fetched
  BY DEF Fetched
<1> QED  BY <1>1, <1>2, <1>3, <1>4, MovingCareful

LEMMA FetchEnvelopeCareful ==
    ASSUME Careful, NEW p \in Restorer, FetchEnvelope(p) PROVE Careful'
<1>1. DOMAIN job = Restorer /\ DOMAIN job[p] = Fields
  BY DEF Careful, Shaped
<1>2. PICK q \in {"raw", "refused"} : pc' = [pc EXCEPT ![p] = q]
  BY DEF FetchEnvelope
<1>3. job' = [job EXCEPT ![p].env = store[job[p].session]] /\ UNCHANGED files
  BY DEF FetchEnvelope
<1>4. q \notin Fetched /\ q \notin {"write", "rename"}
  BY <1>2 DEF Fetched
<1> QED  BY <1>1, <1>2, <1>3, <1>4, MovingCareful

LEMMA FetchRawCareful ==
    ASSUME Careful, NEW p \in Restorer, FetchRaw(p) PROVE Careful'
<1>1. DOMAIN job = Restorer /\ DOMAIN job[p] = Fields
  BY DEF Careful, Shaped
<1>2. PICK v \in 1 .. store[job[p].session] :
          /\ Served(p, v)
          /\ job' = [job EXCEPT ![p].raw = v]
          /\ pc' = [pc EXCEPT ![p] = IF Agree(p, v) THEN "repo" ELSE "refused"]
  BY DEF FetchRaw
<1>3. UNCHANGED files
  BY DEF FetchRaw
<1>4. /\ job'[p] = [job[p] EXCEPT !.raw = v]
      /\ DOMAIN job' = Restorer /\ \A r \in Restorer : r # p => job'[r] = job[r]
  BY <1>1, <1>2
<1>5. /\ DOMAIN job'[p] = Fields
      /\ job'[p].raw = v /\ job'[p].session = job[p].session
      /\ job'[p].qualified = job[p].qualified /\ job'[p].env = job[p].env
  BY <1>1, <1>4 DEF Fields
<1>6. Agree(p, v) => Claude(job'[p].session, job'[p].raw)
  BY <1>5 DEF Agree
<1>7. job'[p].qualified => job'[p].raw = job'[p].env
  BY <1>2, <1>5 DEF Served
<1>8. CASE Agree(p, v)
  BY <1>1, <1>2, <1>3, <1>4, <1>5, <1>6, <1>7, <1>8, MovingCareful
<1>9. CASE ~Agree(p, v)
  <2>1. "refused" \notin Fetched
    BY DEF Fetched
  <2> QED  BY <1>1, <1>2, <1>3, <1>4, <1>5, <1>9, <2>1, MovingCareful
<1> QED  BY <1>8, <1>9

(* The steps that choose where the session goes. *)
LEMMA PlacingCareful ==
    ASSUME Careful, NEW p \in Restorer, NEW q, q \notin {"write", "rename"},
           q \in Fetched => pc[p] \in Fetched,
           NEW f \in {"root", "place"}, NEW x, job' = [job EXCEPT ![p] = [@ EXCEPT ![f] = x]],
           pc' = [pc EXCEPT ![p] = q], UNCHANGED files
    PROVE  Careful'
<1>1. DOMAIN job = Restorer /\ DOMAIN job[p] = Fields /\ Checked(p)
  BY DEF Careful, Shaped
<1>2. /\ job'[p] = [job[p] EXCEPT ![f] = x]
      /\ DOMAIN job' = Restorer /\ \A r \in Restorer : r # p => job'[r] = job[r]
  BY <1>1
<1>3. /\ DOMAIN job'[p] = Fields
      /\ job'[p].raw = job[p].raw /\ job'[p].session = job[p].session
      /\ job'[p].qualified = job[p].qualified /\ job'[p].env = job[p].env
  BY <1>1, <1>2 DEF Fields
<1> QED  BY <1>1, <1>2, <1>3, MovingCareful DEF Checked

LEMMA EnsureRepoCareful ==
    ASSUME Careful, NEW p \in Restorer, EnsureRepo(p) PROVE Careful'
<1>1. pc[p] = "repo" /\ pc[p] \in Fetched /\ UNCHANGED files
  BY DEF EnsureRepo, Fetched
<1>2. CASE job' = job /\ pc' = [pc EXCEPT ![p] = "refused"]
  BY <1>1, <1>2, StayingCareful
<1>3. CASE \E d : job' = [job EXCEPT ![p].root = d] /\
              \E q \in {"relocate", "clone", "refused"} : pc' = [pc EXCEPT ![p] = q]
  <2>1. PICK d : job' = [job EXCEPT ![p].root = d]
    BY <1>3
  <2>2. PICK q \in {"relocate", "clone", "refused"} : pc' = [pc EXCEPT ![p] = q]
    BY <1>3
  <2>3. q \notin {"write", "rename"}
    BY <2>2
  <2>4. job' = [job EXCEPT ![p] = [@ EXCEPT !["root"] = d]]
    BY <2>1
  <2> QED  BY <1>1, <2>2, <2>3, <2>4, PlacingCareful
<1> QED  BY <1>2, <1>3 DEF EnsureRepo

LEMMA CloneCareful ==
    ASSUME Careful, NEW p \in Restorer,
           CloneBegins(p) \/ CloneConfigures(p) \/ CloneEnds(p) \/ CloneFails(p) \/ Fail(p)
    PROVE  Careful'
<1>1. /\ job' = job /\ UNCHANGED files
      /\ \E q \in {"origin", "files", "relocate", "refused"} :
            pc' = [pc EXCEPT ![p] = q] /\ (q = "refused" \/ pc[p] \in Fetched)
  BY DEF CloneBegins, CloneConfigures, CloneEnds, CloneFails, Fail, Fetched
<1>2. PICK q \in {"origin", "files", "relocate", "refused"} :
            pc' = [pc EXCEPT ![p] = q] /\ (q = "refused" \/ pc[p] \in Fetched)
  BY <1>1
<1>3. q \notin {"write", "rename"} /\ "refused" \notin Fetched
  BY <1>2 DEF Fetched
<1> QED  BY <1>1, <1>2, <1>3, StayingCareful

LEMMA RelocateCareful ==
    ASSUME Careful, NEW p \in Restorer, Relocate(p) PROVE Careful'
<1>1. pc[p] \in Fetched /\ UNCHANGED files
  BY DEF Relocate, Fetched
<1>2. CASE job' = job /\ pc' = [pc EXCEPT ![p] = "refused"]
  BY <1>1, <1>2, StayingCareful
<1>3. CASE \E d : job' = [job EXCEPT ![p].place = d] /\ pc' = [pc EXCEPT ![p] = "create"]
  <2>1. PICK d : job' = [job EXCEPT ![p].place = d] /\ pc' = [pc EXCEPT ![p] = "create"]
    BY <1>3
  <2>2. job' = [job EXCEPT ![p] = [@ EXCEPT !["place"] = d]]
    BY <2>1
  <2> QED  BY <1>1, <2>1, <2>2, PlacingCareful
<1> QED  BY <1>2, <1>3 DEF Relocate

-----------------------------------------------------------------------------
(* The steps with files *)

(* A step that touches only p's own temporary file leaves the others' as    *)
(* they were.                                                               *)
LEMMA OwnFile ==
    ASSUME Careful, NEW p \in Restorer, job' = job,
           \A n \in DOMAIN temp : n # TempName(p) => n \in DOMAIN temp' /\ temp'[n] = temp[n],
           NEW q, pc' = [pc EXCEPT ![p] = q]
    PROVE  /\ Shaped'
           /\ \A r \in Restorer \ {p} : Checked(r)' /\ Written(r)'
           /\ pc'[p] = q
<1>1. /\ DOMAIN pc' = Restorer /\ pc'[p] = q
      /\ \A r \in Restorer : r # p => pc'[r] = pc[r]
  BY DEF Careful, Shaped
<1>2. ASSUME NEW r \in Restorer, r # p PROVE Checked(r)' /\ Written(r)'
  <2>1. TempName(r) # TempName(p) /\ TempName(r)' = TempName(r)
    BY <1>2 DEF TempName, FileOf
  <2>2. Checked(r) /\ Written(r)
    BY DEF Careful
  <2>3. Checked(r)'
    BY <1>1, <1>2, <2>2 DEF Checked
  <2>4. Written(r)'
    BY <1>1, <1>2, <2>1, <2>2 DEF Written
  <2> QED  BY <2>3, <2>4
<1> QED  BY <1>1, <1>2 DEF Careful, Shaped

LEMMA CreateCareful == ASSUME Careful, NEW p \in Restorer, Create(p) PROVE Careful'
<1> DEFINE new == [version |-> job[p].raw, whole |-> FALSE]
<1>1. /\ pc[p] = "create" /\ pc' = [pc EXCEPT ![p] = "write"]
      /\ temp' = Put(temp, TempName(p), new)
      /\ UNCHANGED <<transcript, job>>
  BY DEF Create
<1>2. DOMAIN new = {"version", "whole"} /\ new.version = job[p].raw
  OBVIOUS
<1> HIDE DEF new
<1>3. /\ DOMAIN temp' = DOMAIN temp \cup {TempName(p)} /\ temp'[TempName(p)] = new
      /\ \A n \in DOMAIN temp : n # TempName(p) => temp'[n] = temp[n]
  BY <1>1 DEF Put
<1>4. /\ Shaped'
      /\ \A r \in Restorer \ {p} : Checked(r)' /\ Written(r)'
      /\ pc'[p] = "write"
  BY <1>1, <1>3, OwnFile
<1>5. Checked(p)' /\ Written(p)'
  <2>1. Checked(p) /\ TempName(p)' = TempName(p)
    BY <1>1 DEF Careful, TempName, FileOf
  <2> QED  BY <1>1, <1>2, <1>3, <1>4, <2>1 DEF Checked, Written, Fetched
<1>6. TranscriptsAreWhole'
  BY <1>1 DEF Careful, TranscriptsAreWhole
<1> QED  BY <1>4, <1>5, <1>6 DEF Careful

LEMMA WriteCareful == ASSUME Careful, NEW p \in Restorer, Write(p) PROVE Careful'
<1>1. /\ pc[p] = "write" /\ pc' = [pc EXCEPT ![p] = "rename"]
      /\ temp' = [temp EXCEPT ![TempName(p)] = [@ EXCEPT !.whole = TRUE]]
      /\ UNCHANGED <<transcript, job>>
  BY DEF Write
<1>2. /\ TempName(p) \in DOMAIN temp /\ DOMAIN temp[TempName(p)] = {"version", "whole"}
      /\ temp[TempName(p)].version = job[p].raw /\ Checked(p)
  BY <1>1 DEF Careful, Written
<1>3. /\ DOMAIN temp' = DOMAIN temp
      /\ temp'[TempName(p)] = [temp[TempName(p)] EXCEPT !.whole = TRUE]
      /\ \A n \in DOMAIN temp : n # TempName(p) => temp'[n] = temp[n]
  BY <1>1, <1>2
<1>4. /\ DOMAIN temp'[TempName(p)] = {"version", "whole"}
      /\ temp'[TempName(p)].version = job[p].raw /\ temp'[TempName(p)].whole = TRUE
  BY <1>2, <1>3
<1>5. /\ Shaped'
      /\ \A r \in Restorer \ {p} : Checked(r)' /\ Written(r)'
      /\ pc'[p] = "rename"
  BY <1>1, <1>3, OwnFile
<1>6. Checked(p)' /\ Written(p)'
  <2>1. TempName(p)' = TempName(p)
    BY <1>1 DEF TempName, FileOf
  <2> QED  BY <1>1, <1>2, <1>3, <1>4, <1>5, <2>1 DEF Checked, Written, Fetched
<1>7. TranscriptsAreWhole'
  BY <1>1 DEF Careful, TranscriptsAreWhole
<1> QED  BY <1>5, <1>6, <1>7 DEF Careful

(* What is moved in place is whole, and what was checked. *)
LEMMA RenameCareful == ASSUME Careful, NEW p \in Restorer, Rename(p) PROVE Careful'
<1> DEFINE content == temp[TempName(p)]
           new == [version |-> content.version, whole |-> content.whole,
                   by |-> job[p].qualified, env |-> job[p].env]
<1>1. /\ pc[p] = "rename" /\ pc' = [pc EXCEPT ![p] = "done"]
      /\ transcript' = Put(transcript, FileOf(p), new)
      /\ temp' = Without(temp, TempName(p))
      /\ job' = job
  BY DEF Rename
<1>2. /\ content.version = job[p].raw /\ content.whole = TRUE /\ Checked(p)
  BY <1>1 DEF Careful, Written
<1>3. /\ new.whole = TRUE /\ new.version = job[p].raw
      /\ new.by = job[p].qualified /\ new.env = job[p].env
  BY <1>2
<1> HIDE DEF content, new
<1>4. \A n \in DOMAIN temp : n # TempName(p) => n \in DOMAIN temp' /\ temp'[n] = temp[n]
  BY <1>1 DEF Without
<1>5. /\ Shaped'
      /\ \A r \in Restorer \ {p} : Checked(r)' /\ Written(r)'
      /\ pc'[p] = "done"
  BY <1>1, <1>4, OwnFile
<1>6. Checked(p)' /\ Written(p)'
  BY <1>5 DEF Checked, Written, Fetched
<1>7. TranscriptsAreWhole'
  <2>1. /\ DOMAIN transcript' = DOMAIN transcript \cup {FileOf(p)}
        /\ \A f \in DOMAIN transcript' :
              transcript'[f] = IF f = FileOf(p) THEN new ELSE transcript[f]
    BY <1>1 DEF Put
  <2>2. SUFFICES ASSUME NEW f \in DOMAIN transcript'
                 PROVE  /\ transcript'[f].whole
                        /\ Claude(f[3], transcript'[f].version)
                        /\ transcript'[f].by => transcript'[f].version = transcript'[f].env
    BY DEF TranscriptsAreWhole
  <2>3. CASE f = FileOf(p)
    <3>1. f[3] = job[p].session
      BY <2>3 DEF FileOf
    <3>2. Claude(job[p].session, job[p].raw) /\ (job[p].qualified => job[p].raw = job[p].env)
      BY <1>1, <1>2 DEF Checked, Fetched
    <3> QED  BY <1>3, <2>1, <2>3, <3>1, <3>2
  <2>4. CASE f # FileOf(p)
    BY <2>1, <2>4 DEF Careful, TranscriptsAreWhole
  <2> QED  BY <2>3, <2>4
<1> QED  BY <1>5, <1>6, <1>7 DEF Careful

-----------------------------------------------------------------------------
(* Theorems *)

LEMMA StillCareful == ASSUME Careful, UNCHANGED <<files, pc, job>> PROVE Careful'
<1>1. UNCHANGED <<temp, transcript, pc, job>>
  BY DEF files
<1> QED  BY <1>1 DEF Careful, Shaped, Checked, Written, TempName, FileOf, TranscriptsAreWhole

LEMMA CloneGrowsCareful ==
    ASSUME Careful, NEW p \in Restorer, NEW w \in Tracked, CloneGrows(p, w) PROVE Careful'
  BY StillCareful DEF CloneGrows

LEMMA NextCareful == ASSUME Careful, [Next]_all PROVE Careful'
<1>1. CASE UNCHANGED vars
  BY <1>1, StillCareful DEF vars
<1>2. ASSUME NEW s \in Session, Accept(s) PROVE Careful'
  BY <1>2, StillCareful DEF Accept
<1>3. ASSUME NEW p \in Restorer, NEW s \in Session, NEW q \in BOOLEAN, Begin(p, s, q)
      PROVE  Careful'
  BY <1>3, BeginCareful
<1>4. ASSUME NEW p \in Restorer,
             \/ FetchEnvelope(p) \/ FetchRaw(p) \/ EnsureRepo(p)
             \/ CloneBegins(p) \/ CloneConfigures(p) \/ CloneEnds(p) \/ CloneFails(p)
             \/ Relocate(p) \/ Create(p) \/ Write(p) \/ Rename(p) \/ Fail(p)
      PROVE  Careful'
  BY <1>4, FetchEnvelopeCareful, FetchRawCareful, EnsureRepoCareful, CloneCareful,
     RelocateCareful, CreateCareful, WriteCareful, RenameCareful
<1>5. CASE RestoreNext
  BY <1>2, <1>3, <1>4, <1>5, CloneGrowsCareful DEF RestoreNext
<1> QED  BY <1>1, <1>5 DEF Next, all

(* However restores overlap, versions move on and processes die: a file     *)
(* under a session's name is one whole version of its transcript            *)
(* (write_raw_transcript and the checks before it).                         *)
THEOREM RestoredTranscriptsAreWhole == Spec => []TranscriptsAreWhole
<1>1. Init => Careful
  BY InitCareful DEF Init
<1>2. Careful /\ [Next]_all => Careful'
  BY NextCareful
<1>3. Careful => TranscriptsAreWhole
  BY DEF Careful
<1> QED  BY <1>1, <1>2, <1>3, PTL DEF Spec

-----------------------------------------------------------------------------
(* What is recorded, and where it goes *)

Serving == DOMAIN store = Session /\ \A s \in Session : store[s] \in DOMAIN Capture[s]

Hosting == /\ checkout \in [Dir -> Remote \cup {NoOrigin, Absent}]
           /\ tree \in [Dir -> SUBSET Tracked]

Filing ==
    /\ \A f \in DOMAIN temp : temp[f] \in [version : Version, whole : BOOLEAN]
    /\ \A f \in DOMAIN transcript : transcript[f] \in
          [version : Version, whole : BOOLEAN, by : BOOLEAN, env : Version]

Counting == removed \subseteq Dir /\ begun \in 0 .. MaxRestores /\ mishaps \in 0 .. MaxMishaps

Points == Running \cup {"idle", "done", "refused"}

(* A restorer's job names what there is. *)
Recorded(p) ==
    /\ job[p].root \in Dir
    /\ pc[p] # "idle" => job[p].session \in Session /\ job[p].qualified \in BOOLEAN
    /\ pc[p] \in Fetched \cup {"raw", "done"} => job[p].env \in DOMAIN Capture[job[p].session]
    /\ pc[p] \in Fetched => job[p].raw \in DOMAIN Capture[job[p].session]

Tidy(p) == pc[p] = "done" => TempName(p) \notin DOMAIN temp

Accounted ==
    /\ Serving /\ Hosting /\ Filing /\ Counting
    /\ pc \in [Restorer -> Points]
    /\ \A p \in Restorer : Recorded(p) /\ Tidy(p)

(* The checkout a restorer found stays the repository it looked for, unless  *)
(* a clone there failed and took it away, ...                                *)
Settled(p) ==
    /\ pc[p] \in Located => job[p].place = Relative(Env(p).cwd, RepoName(Origin0(p)))
    /\ job[p].root \notin removed =>
          /\ pc[p] \in Located => job[p].place \in tree[job[p].root]
          /\ pc[p] \in Located \cup {"relocate"} =>
                checkout[job[p].root] # Absent /\ SameRemote(checkout[job[p].root], Origin0(p))
          /\ pc[p] = "origin" => checkout[job[p].root] = NoOrigin

(* ... because no two of them clone to one place at a time. *)
Apart ==
    \A p, q \in Restorer :
        /\ pc[p] = "origin" /\ pc[q] = "origin"
        /\ job[p].root = job[q].root /\ job[p].root \notin removed
        => p = q

Steady == (\A p \in Restorer : Settled(p)) /\ Apart

-----------------------------------------------------------------------------
(* Versions and remotes *)

LEMMA ListFacts ==
    ASSUME NEW l, Lists(l) PROVE Len(l) \in Nat /\ DOMAIN l = 1 .. Len(l)
<1> DEFINE S == {l[i] : i \in DOMAIN l}
<1>1. l \in Seq(S)
  BY DEF Lists
<1> HIDE DEF S
<1> QED  BY <1>1

LEMMA BoundsAreNumbers == MaxRestores \in Nat /\ MaxMishaps \in Nat
  BY RestoreAssumption

LEMMA VersionFacts ==
    ASSUME NEW s \in Session
    PROVE  /\ 1 \in DOMAIN Capture[s]
           /\ \A v \in DOMAIN Capture[s] :
                 /\ v \in Version /\ v \in Nat /\ 1 .. v \subseteq DOMAIN Capture[s]
                 /\ Lists(Capture[s][v].cwd)
<1>1. Len(Capture[s]) \in Nat /\ DOMAIN Capture[s] = 1 .. Len(Capture[s]) /\ Capture[s] # <<>>
  BY RestoreAssumption, ListFacts
<1>2. Len(Capture[s]) # 0
  <2> DEFINE S == {Capture[s][i] : i \in DOMAIN Capture[s]}
  <2>1. Capture[s] \in Seq(S)
    BY RestoreAssumption DEF Lists
  <2> HIDE DEF S
  <2> QED  BY <1>1, <2>1
<1>3. \A v \in DOMAIN Capture[s] : v \in Version
  BY DEF Version
<1>4. \A v \in DOMAIN Capture[s] : Lists(Capture[s][v].cwd)
  BY <1>3, RestoreAssumption
<1> QED  BY <1>1, <1>2, <1>3, <1>4

(* What an envelope says of the origin is one of the remotes, if anything.  *)
LEMMA OriginKnown ==
    ASSUME NEW cwd, Lists(cwd) PROVE RemoteOf(cwd) \in Remote \cup {NoOrigin}
<1>1. Len(cwd) \in Nat
  BY ListFacts
<1>2. CASE Above(cwd) = {}
  BY <1>2 DEF RemoteOf
<1>3. CASE Above(cwd) # {}
  <2>1. Above(cwd) \in SUBSET Nat /\ \A n \in Above(cwd) : n <= Len(cwd)
    BY <1>1 DEF Above
  <2>2. \E n \in Above(cwd) : \A m \in Above(cwd) : n >= m
    BY <1>1, <1>3, <2>1, GreatestNatural
  <2>3. Max(Above(cwd)) \in Above(cwd)
    BY <2>2 DEF Max
  <2>4. RootOf(cwd) \in DOMAIN Origin
    BY <2>3 DEF RootOf, Above
  <2>5. RemoteOf(cwd) = Origin[RootOf(cwd)]
    BY <1>3 DEF RemoteOf
  <2> QED  BY <2>4, <2>5 DEF Remote
<1> QED  BY <1>2, <1>3

LEMMA SlugIsDir ==
    ASSUME NEW r \in Remote \cup {NoOrigin}, HasSlug(r) PROVE r \in Remote /\ Slug(r) \in Dir
  BY DEF HasSlug, Dir

-----------------------------------------------------------------------------
(* What is recorded: the steps *)

LEMMA FirstAccounted == ASSUME RestoreInit PROVE Accounted
<1> USE DEF RestoreInit
<1>1. Serving
  BY VersionFacts DEF Serving
<1>2. Hosting
  <2>1. PICK w \in Workplace :
          /\ checkout = [d \in Dir |-> IF d = Here THEN w ELSE Absent]
          /\ tree = [d \in Dir |-> IF d = Here /\ w # NoOrigin THEN Tracked ELSE {}]
    OBVIOUS
  <2>2. w \in Remote \cup {NoOrigin}
    BY RestoreAssumption
  <2> QED  BY <2>1, <2>2 DEF Hosting
<1>3. Filing
  BY DEF Filing
<1>4. Counting
  <2>1. removed = {} /\ begun = 0 /\ mishaps = 0
    OBVIOUS
  <2>2. removed \subseteq Dir
    BY <2>1
  <2>3. begun \in 0 .. MaxRestores /\ mishaps \in 0 .. MaxMishaps
    BY <2>1, BoundsAreNumbers
  <2> QED  BY <2>2, <2>3 DEF Counting
<1>5. pc \in [Restorer -> Points]
  BY DEF Points
<1>6. ASSUME NEW p \in Restorer PROVE Recorded(p) /\ Tidy(p)
  <2>1. pc[p] = "idle" /\ job[p].root = Here
    BY DEF Idle
  <2> QED  BY <2>1 DEF Recorded, Tidy, Fetched, Dir
<1> QED  BY <1>1, <1>2, <1>3, <1>4, <1>5, <1>6 DEF Accounted

(* A step of one restorer leaves what the others have recorded.             *)
LEMMA StepAccounted ==
    ASSUME Careful, Accounted, NEW p \in Restorer, NEW q \in Points,
           pc' = [pc EXCEPT ![p] = q],
           \A r \in Restorer : r # p => job'[r] = job[r],
           Recorded(p)', Tidy(p)',
           \A r \in Restorer : r # p /\ TempName(r) \notin DOMAIN temp =>
                                  TempName(r) \notin DOMAIN temp',
           Serving', Hosting', Filing', Counting'
    PROVE  Accounted'
<1>1. pc' \in [Restorer -> Points] /\ \A r \in Restorer : r # p => pc'[r] = pc[r]
  BY DEF Accounted
<1>2. ASSUME NEW r \in Restorer PROVE Recorded(r)' /\ Tidy(r)'
  <2>1. CASE r = p
    BY <2>1
  <2>2. CASE r # p
    <3>1. pc'[r] = pc[r] /\ job'[r] = job[r] /\ Recorded(r) /\ Tidy(r)
      BY <1>1, <2>2 DEF Accounted
    <3>2. TempName(r)' = TempName(r)
      BY <3>1 DEF TempName, FileOf
    <3>3. Recorded(r)'
      BY <3>1 DEF Recorded
    <3>4. Tidy(r)'
      BY <2>2, <3>1, <3>2 DEF Tidy
    <3> QED  BY <3>3, <3>4
  <2> QED  BY <2>1, <2>2
<1> QED  BY <1>1, <1>2 DEF Accounted

(* And one that touches no file, and neither finishes, needs less.          *)
LEMMA MoveAccounted ==
    ASSUME Careful, Accounted, NEW p \in Restorer, NEW q \in Points, q # "done",
           pc' = [pc EXCEPT ![p] = q],
           \A r \in Restorer : r # p => job'[r] = job[r],
           UNCHANGED <<store, files>>, Recorded(p)', Hosting', Counting'
    PROVE  Accounted'
<1>1. UNCHANGED <<temp, transcript>>
  BY DEF files
<1>2. Serving' /\ Filing'
  BY <1>1 DEF Accounted, Serving, Filing
<1>3. Tidy(p)'
  <2>1. pc'[p] = q
    BY DEF Careful, Shaped
  <2> QED  BY <2>1 DEF Tidy
<1>4. \A r \in Restorer : r # p /\ TempName(r) \notin DOMAIN temp =>
                                  TempName(r) \notin DOMAIN temp'
  BY <1>1
<1> QED  BY <1>2, <1>3, <1>4, StepAccounted

LEMMA StillHosting == ASSUME Hosting, UNCHANGED target PROVE Hosting'
  BY DEF Hosting, target

LEMMA StillCounting ==
    ASSUME Counting, UNCHANGED <<begun, removed>>,
           UNCHANGED mishaps \/ (mishaps < MaxMishaps /\ mishaps' = mishaps + 1)
    PROVE  Counting'
  BY RestoreAssumption DEF Counting

LEMMA AcceptAccounted ==
    ASSUME Accounted, NEW s \in Session, Accept(s) PROVE Accounted'
<1>1. /\ store[s] + 1 \in DOMAIN Capture[s] /\ store' = [store EXCEPT ![s] = @ + 1]
      /\ UNCHANGED <<checkout, tree, temp, transcript, pc, job, begun, mishaps, removed>>
  BY DEF Accept, target, files, bounds
<1>2. Serving'
  BY <1>1 DEF Accounted, Serving
<1>3. Hosting' /\ Filing' /\ Counting'
  BY <1>1 DEF Accounted, Hosting, Filing, Counting
<1>4. ASSUME NEW p \in Restorer PROVE Recorded(p)' /\ Tidy(p)'
  BY <1>1 DEF Accounted, Recorded, Tidy, TempName, FileOf
<1> QED  BY <1>1, <1>2, <1>3, <1>4 DEF Accounted

LEMMA BeginAccounted ==
    ASSUME Careful, Accounted, NEW p \in Restorer, NEW s \in Session, NEW b \in BOOLEAN,
           Begin(p, s, b)
    PROVE  Accounted'
<1> DEFINE j == [Idle EXCEPT !.session = s, !.qualified = b]
<1>1. /\ pc' = [pc EXCEPT ![p] = "envelope"] /\ job' = [job EXCEPT ![p] = j]
      /\ begun < MaxRestores /\ begun' = begun + 1
      /\ UNCHANGED <<store, target, files, mishaps, removed>>
  BY DEF Begin
<1>2. j.session = s /\ j.qualified = b /\ j.root = Here
  BY DEF Idle
<1> HIDE DEF j
<1>3. /\ job'[p] = j /\ pc'[p] = "envelope"
      /\ \A r \in Restorer : r # p => job'[r] = job[r]
  BY <1>1 DEF Careful, Shaped
<1>4. Recorded(p)'
  BY <1>2, <1>3 DEF Recorded, Fetched, Dir
<1>5. Hosting'
  BY <1>1, StillHosting DEF Accounted
<1>6. Counting'
  BY <1>1, RestoreAssumption DEF Accounted, Counting
<1>7. "envelope" \in Points
  BY DEF Points, Running
<1> QED  BY <1>1, <1>3, <1>4, <1>5, <1>6, <1>7, MoveAccounted

LEMMA FetchEnvelopeAccounted ==
    ASSUME Careful, Accounted, NEW p \in Restorer, FetchEnvelope(p) PROVE Accounted'
<1> DEFINE s == job[p].session
<1>1. /\ pc[p] = "envelope" /\ job' = [job EXCEPT ![p].env = store[s]]
      /\ UNCHANGED <<store, target, files, bounds>>
  BY DEF FetchEnvelope
<1>2. PICK q \in {"raw", "refused"} : pc' = [pc EXCEPT ![p] = q]
  BY DEF FetchEnvelope
<1>3. /\ s \in Session /\ job[p].qualified \in BOOLEAN /\ job[p].root \in Dir
      /\ store[s] \in DOMAIN Capture[s]
  BY <1>1 DEF Accounted, Recorded, Serving
<1>4. /\ job'[p] = [job[p] EXCEPT !.env = store[s]] /\ pc'[p] = q /\ DOMAIN job[p] = Fields
      /\ \A r \in Restorer : r # p => job'[r] = job[r]
  BY <1>1, <1>2 DEF Careful, Shaped
<1>5. /\ job'[p].env = store[s] /\ job'[p].session = s /\ job'[p].root = job[p].root
      /\ job'[p].qualified = job[p].qualified
  BY <1>4 DEF Fields
<1>6. Recorded(p)'
  BY <1>2, <1>3, <1>4, <1>5 DEF Recorded, Fetched
<1>7. Hosting' /\ Counting'
  BY <1>1, StillHosting, StillCounting DEF Accounted, bounds
<1>8. q \in Points /\ q # "done"
  BY <1>2 DEF Points, Running
<1> QED  BY <1>1, <1>2, <1>4, <1>6, <1>7, <1>8, MoveAccounted

LEMMA FetchRawAccounted ==
    ASSUME Careful, Accounted, NEW p \in Restorer, FetchRaw(p) PROVE Accounted'
<1> DEFINE s == job[p].session
<1>1. pc[p] = "raw" /\ UNCHANGED <<store, target, files, bounds>>
  BY DEF FetchRaw
<1>2. PICK v \in 1 .. store[s] :
          /\ job' = [job EXCEPT ![p].raw = v]
          /\ pc' = [pc EXCEPT ![p] = IF Agree(p, v) THEN "repo" ELSE "refused"]
  BY DEF FetchRaw
<1>3. PICK q \in {"repo", "refused"} : pc' = [pc EXCEPT ![p] = q]
  BY <1>2
<1>4. /\ s \in Session /\ job[p].qualified \in BOOLEAN /\ job[p].root \in Dir
      /\ job[p].env \in DOMAIN Capture[s] /\ store[s] \in DOMAIN Capture[s]
  BY <1>1 DEF Accounted, Recorded, Serving
<1>5. v \in DOMAIN Capture[s]
  BY <1>2, <1>4, VersionFacts
<1>6. /\ job'[p] = [job[p] EXCEPT !.raw = v] /\ pc'[p] = q /\ DOMAIN job[p] = Fields
      /\ \A r \in Restorer : r # p => job'[r] = job[r]
  BY <1>2, <1>3 DEF Careful, Shaped
<1>7. /\ job'[p].raw = v /\ job'[p].session = s /\ job'[p].root = job[p].root
      /\ job'[p].qualified = job[p].qualified /\ job'[p].env = job[p].env
  BY <1>6 DEF Fields
<1>8. Recorded(p)'
  BY <1>3, <1>4, <1>5, <1>6, <1>7 DEF Recorded, Fetched
<1>9. Hosting' /\ Counting'
  BY <1>1, StillHosting, StillCounting DEF Accounted, bounds
<1>10. q \in Points /\ q # "done"
  BY <1>3 DEF Points, Running
<1> QED  BY <1>1, <1>3, <1>6, <1>8, <1>9, <1>10, MoveAccounted

(* The remote that a restorer's envelope names. *)
LEMMA OriginOfJob ==
    ASSUME Accounted, NEW p \in Restorer, pc[p] \in Fetched \cup {"raw", "done"}
    PROVE  Origin0(p) \in Remote \cup {NoOrigin}
<1>1. job[p].session \in Session /\ job[p].env \in DOMAIN Capture[job[p].session]
  BY DEF Accounted, Recorded, Fetched
<1> QED  BY <1>1, VersionFacts, OriginKnown DEF Origin0, Env

(* A step that changes of a job at most where it leads. *)
LEMMA PlaceAccounted ==
    ASSUME Careful, Accounted, NEW p \in Restorer, NEW q \in Points, q # "done", q # "idle",
           pc' = [pc EXCEPT ![p] = q], pc[p] # "idle",
           q \in Fetched \cup {"raw"} => pc[p] \in Fetched,
           NEW f \in {"root", "place"}, NEW x, f = "root" => x \in Dir,
           job' = [job EXCEPT ![p] = [@ EXCEPT ![f] = x]],
           UNCHANGED <<store, files>>, Hosting', Counting'
    PROVE  Accounted'
<1>1. /\ job'[p] = [job[p] EXCEPT ![f] = x] /\ pc'[p] = q /\ DOMAIN job[p] = Fields
      /\ \A r \in Restorer : r # p => job'[r] = job[r]
  BY DEF Careful, Shaped
<1>2. /\ job'[p].raw = job[p].raw /\ job'[p].session = job[p].session
      /\ job'[p].qualified = job[p].qualified /\ job'[p].env = job[p].env
      /\ job'[p].root = IF f = "root" THEN x ELSE job[p].root
  BY <1>1 DEF Fields
<1>3. Recorded(p)'
  BY <1>1, <1>2 DEF Accounted, Recorded
<1> QED  BY <1>1, <1>3, MoveAccounted

LEMMA KeepAccounted ==
    ASSUME Careful, Accounted, NEW p \in Restorer, NEW q \in Points, q # "done", q # "idle",
           pc' = [pc EXCEPT ![p] = q], pc[p] # "idle",
           q \in Fetched \cup {"raw"} => pc[p] \in Fetched,
           job' = job, UNCHANGED <<store, files>>, Hosting', Counting'
    PROVE  Accounted'
<1>1. pc'[p] = q
  BY DEF Careful, Shaped
<1>2. Recorded(p)'
  BY <1>1 DEF Accounted, Recorded
<1> QED  BY <1>2, MoveAccounted

LEMMA EnsureRepoAccounted ==
    ASSUME Careful, Accounted, NEW p \in Restorer, EnsureRepo(p) PROVE Accounted'
<1> DEFINE remote == Origin0(p)
<1>1. pc[p] = "repo" /\ pc[p] \in Fetched /\ UNCHANGED <<store, target, files, bounds>>
  BY DEF EnsureRepo, Fetched
<1>2. Hosting' /\ Counting'
  BY <1>1, StillHosting, StillCounting DEF Accounted, bounds
<1>3. HasSlug(remote) => Slug(remote) \in Dir /\ Here \in Dir
  BY <1>1, OriginOfJob, SlugIsDir DEF Dir
<1>4. CASE job' = job /\ pc' = [pc EXCEPT ![p] = "refused"]
  <2>1. "refused" \in Points
    BY DEF Points
  <2> QED  BY <1>1, <1>2, <1>4, <2>1, KeepAccounted DEF Fetched
<1>5. CASE /\ \E d \in Dir : job' = [job EXCEPT ![p].root = d]
           /\ \E q \in {"relocate", "clone", "refused"} : pc' = [pc EXCEPT ![p] = q]
  <2>1. PICK d \in Dir : job' = [job EXCEPT ![p].root = d]
    BY <1>5
  <2>2. PICK q \in {"relocate", "clone", "refused"} : pc' = [pc EXCEPT ![p] = q]
    BY <1>5
  <2>3. q \in Points /\ q # "done" /\ q # "idle"
    BY <2>2 DEF Points, Running
  <2>4. job' = [job EXCEPT ![p] = [@ EXCEPT !["root"] = d]]
    BY <2>1
  <2> QED  BY <1>1, <1>2, <2>2, <2>3, <2>4, PlaceAccounted
<1> QED  BY <1>3, <1>4, <1>5 DEF EnsureRepo

LEMMA CloneAccounted ==
    ASSUME Careful, Accounted, NEW p \in Restorer,
           CloneBegins(p) \/ CloneConfigures(p) \/ CloneEnds(p) \/ CloneFails(p) \/ Fail(p)
    PROVE  Accounted'
<1>1. Hosting'
  <2>0. /\ checkout \in [Dir -> Remote \cup {NoOrigin, Absent}] /\ job[p].root \in Dir
        /\ tree \in [Dir -> SUBSET Tracked]
    BY DEF Accounted, Hosting, Recorded
  <2>1. CASE CloneBegins(p)
    <3>1. {<<>>} \in SUBSET Tracked
      BY RestoreAssumption
    <3>2. CASE UNCHANGED target
      BY <3>2, StillHosting DEF Accounted
    <3>3. CASE /\ checkout' = [checkout EXCEPT ![job[p].root] = NoOrigin]
               /\ tree' = [tree EXCEPT ![job[p].root] = {<<>>}]
      BY <2>0, <3>1, <3>3 DEF Hosting
    <3> QED  BY <2>1, <3>2, <3>3 DEF CloneBegins
  <2>2. CASE CloneConfigures(p)
    <3>1. Origin0(p) \in Remote \cup {NoOrigin}
      BY <2>2, OriginOfJob DEF CloneConfigures, Fetched
    <3> QED  BY <2>0, <2>2, <3>1 DEF CloneConfigures, Hosting
  <2>3. CASE CloneEnds(p)
    BY <2>3, StillHosting DEF CloneEnds, Accounted
  <2>4. CASE CloneFails(p)
    BY <2>0, <2>4 DEF CloneFails, Hosting
  <2>5. CASE Fail(p)
    BY <2>5, StillHosting DEF Fail, Accounted
  <2> QED  BY <2>1, <2>2, <2>3, <2>4, <2>5
<1>2. Counting'
  <2>1. CASE UNCHANGED bounds
    BY <2>1, StillCounting DEF Accounted, bounds
  <2>2. CASE /\ mishaps < MaxMishaps /\ mishaps' = mishaps + 1 /\ begun' = begun
             /\ removed' \in {removed, removed \cup {job[p].root}}
    <3>1. removed' \subseteq Dir
      BY <2>2 DEF Accounted, Counting, Recorded
    <3>2. begun' \in 0 .. MaxRestores /\ mishaps' \in 0 .. MaxMishaps
      BY <2>2, BoundsAreNumbers DEF Accounted, Counting
    <3> QED  BY <3>1, <3>2 DEF Counting
  <2> QED  BY <2>1, <2>2 DEF CloneBegins, CloneConfigures, CloneEnds, CloneFails, Fail
<1>3. /\ job' = job /\ UNCHANGED <<store, files>> /\ pc[p] # "idle"
      /\ \E q \in {"origin", "files", "relocate", "refused"} :
            pc' = [pc EXCEPT ![p] = q] /\ (q = "refused" \/ pc[p] \in Fetched)
  BY DEF CloneBegins, CloneConfigures, CloneEnds, CloneFails, Fail, Fetched, Running
<1>4. PICK q \in {"origin", "files", "relocate", "refused"} :
            pc' = [pc EXCEPT ![p] = q] /\ (q = "refused" \/ pc[p] \in Fetched)
  BY <1>3
<1>5. q \in Points /\ q # "done" /\ q # "idle" /\ q # "raw" /\ "refused" \notin Fetched
  BY <1>4 DEF Points, Running, Fetched
<1> QED  BY <1>1, <1>2, <1>3, <1>4, <1>5, KeepAccounted

LEMMA RelocateAccounted ==
    ASSUME Careful, Accounted, NEW p \in Restorer, Relocate(p) PROVE Accounted'
<1>1. pc[p] = "relocate" /\ pc[p] \in Fetched /\ UNCHANGED <<store, target, files, bounds>>
  BY DEF Relocate, Fetched
<1>2. Hosting' /\ Counting'
  BY <1>1, StillHosting, StillCounting DEF Accounted, bounds
<1>3. "refused" \in Points /\ "create" \in Points /\ "refused" \notin Fetched
  BY DEF Points, Running, Fetched
<1>4. CASE job' = job /\ pc' = [pc EXCEPT ![p] = "refused"]
  BY <1>1, <1>2, <1>3, <1>4, KeepAccounted
<1>5. CASE \E d : job' = [job EXCEPT ![p].place = d] /\ pc' = [pc EXCEPT ![p] = "create"]
  <2>1. PICK d : job' = [job EXCEPT ![p].place = d] /\ pc' = [pc EXCEPT ![p] = "create"]
    BY <1>5
  <2>2. job' = [job EXCEPT ![p] = [@ EXCEPT !["place"] = d]]
    BY <2>1
  <2> QED  BY <1>1, <1>2, <1>3, <2>1, <2>2, PlaceAccounted
<1> QED  BY <1>4, <1>5 DEF Relocate

(* The steps with files. *)
LEMMA FileAccounted ==
    ASSUME Careful, Accounted, NEW p \in Restorer,
           Create(p) \/ Write(p) \/ Rename(p)
    PROVE  Accounted'
<1>0. /\ pc[p] \in {"create", "write", "rename"} /\ pc[p] \in Fetched
      /\ UNCHANGED <<store, target, job, bounds>>
  BY DEF Create, Write, Rename, Fetched
<1>1. /\ job[p].session \in Session /\ job[p].qualified \in BOOLEAN
      /\ job[p].env \in Version /\ job[p].raw \in Version
      /\ Recorded(p)
  BY <1>0, VersionFacts DEF Accounted, Recorded
<1>2. Serving' /\ Hosting' /\ Counting'
  BY <1>0, StillHosting, StillCounting DEF Accounted, Serving, bounds
<1>3. \A r \in Restorer : r # p => TempName(r) # TempName(p)
  BY DEF TempName
<1>4. CASE Create(p)
  <2> DEFINE new == [version |-> job[p].raw, whole |-> FALSE]
  <2>1. new \in [version : Version, whole : BOOLEAN]
    BY <1>1
  <2>2. /\ temp' = Put(temp, TempName(p), new) /\ UNCHANGED transcript
        /\ pc' = [pc EXCEPT ![p] = "write"]
    BY <1>4 DEF Create
  <2> HIDE DEF new
  <2>3. /\ DOMAIN temp' = DOMAIN temp \cup {TempName(p)}
        /\ \A n \in DOMAIN temp' : temp'[n] = IF n = TempName(p) THEN new ELSE temp[n]
    BY <2>2 DEF Put
  <2>4. Filing'
    BY <2>1, <2>2, <2>3 DEF Accounted, Filing
  <2>5. pc'[p] = "write" /\ "write" \in Points
    BY <2>2 DEF Careful, Shaped, Points, Running
  <2>6. Recorded(p)' /\ Tidy(p)'
    BY <1>0, <1>1, <2>5 DEF Recorded, Tidy, Fetched
  <2> QED  BY <1>0, <1>2, <1>3, <2>2, <2>3, <2>4, <2>5, <2>6, StepAccounted
<1>5. CASE Write(p)
  <2>1. /\ temp' = [temp EXCEPT ![TempName(p)].whole = TRUE] /\ UNCHANGED transcript
        /\ pc' = [pc EXCEPT ![p] = "rename"]
    BY <1>5 DEF Write
  <2>2. TempName(p) \in DOMAIN temp => temp[TempName(p)] \in [version : Version, whole : BOOLEAN]
    BY DEF Accounted, Filing
  <2>3. \A n \in DOMAIN temp' : temp'[n] \in [version : Version, whole : BOOLEAN]
    BY <2>1, <2>2 DEF Accounted, Filing
  <2>4. Filing'
    BY <2>1, <2>3 DEF Accounted, Filing
  <2>5. pc'[p] = "rename" /\ "rename" \in Points
    BY <2>1 DEF Careful, Shaped, Points, Running
  <2>6. Recorded(p)' /\ Tidy(p)'
    BY <1>0, <1>1, <2>5 DEF Recorded, Tidy, Fetched
  <2>7. DOMAIN temp' = DOMAIN temp
    BY <2>1
  <2> QED  BY <1>0, <1>2, <2>1, <2>4, <2>5, <2>6, <2>7, StepAccounted
<1>6. CASE Rename(p)
  <2> DEFINE content == temp[TempName(p)]
             new == [version |-> content.version, whole |-> content.whole,
                     by |-> job[p].qualified, env |-> job[p].env]
  <2>1. /\ transcript' = Put(transcript, FileOf(p), new)
        /\ temp' = Without(temp, TempName(p))
        /\ pc' = [pc EXCEPT ![p] = "done"]
    BY <1>6 DEF Rename
  <2>2. TempName(p) \in DOMAIN temp
    BY <1>6 DEF Rename, Careful, Written
  <2>3. content \in [version : Version, whole : BOOLEAN]
    BY <2>2 DEF Accounted, Filing
  <2>4. new \in [version : Version, whole : BOOLEAN, by : BOOLEAN, env : Version]
    BY <1>1, <2>3
  <2> HIDE DEF new, content
  <2>5. /\ DOMAIN transcript' = DOMAIN transcript \cup {FileOf(p)}
        /\ \A f \in DOMAIN transcript' :
              transcript'[f] = IF f = FileOf(p) THEN new ELSE transcript[f]
    BY <2>1 DEF Put
  <2>6. /\ DOMAIN temp' = DOMAIN temp \ {TempName(p)}
        /\ \A f \in DOMAIN temp' : temp'[f] = temp[f]
    BY <2>1 DEF Without
  <2>7. Filing'
    BY <2>4, <2>5, <2>6 DEF Accounted, Filing
  <2>8. pc'[p] = "done" /\ "done" \in Points
    BY <2>1 DEF Careful, Shaped, Points
  <2>9. TempName(p)' = TempName(p)
    BY <1>0 DEF TempName, FileOf
  <2>10. Recorded(p)' /\ Tidy(p)'
    BY <1>0, <1>1, <2>6, <2>8, <2>9 DEF Recorded, Tidy, Fetched
  <2> QED  BY <1>0, <1>2, <2>1, <2>6, <2>7, <2>8, <2>10, StepAccounted
<1> QED  BY <1>4, <1>5, <1>6

LEMMA CloneGrowsAccounted ==
    ASSUME Careful, Accounted, NEW p \in Restorer, NEW w \in Tracked, CloneGrows(p, w)
    PROVE  Accounted'
<1>1. /\ UNCHANGED <<store, checkout, temp, transcript, pc, job, bounds>>
      /\ tree' = [tree EXCEPT ![job[p].root] = @ \cup {w}]
  BY DEF CloneGrows, files
<1>2. tree' \in [Dir -> SUBSET Tracked]
  BY <1>1 DEF Accounted, Hosting
<1> QED  BY <1>1, <1>2 DEF Accounted, Serving, Hosting, Filing, Counting, Recorded, Tidy,
                         TempName, FileOf, bounds

LEMMA NextAccounted == ASSUME Careful, Accounted, [Next]_all PROVE Accounted'
<1>1. CASE UNCHANGED vars
  BY <1>1 DEF vars, target, files, bounds, Accounted, Serving, Hosting, Filing, Counting,
              Recorded, Tidy, TempName, FileOf
<1>2. ASSUME NEW p \in Restorer,
             \/ FetchEnvelope(p) \/ FetchRaw(p) \/ EnsureRepo(p)
             \/ CloneBegins(p) \/ CloneConfigures(p) \/ CloneEnds(p) \/ CloneFails(p)
             \/ Relocate(p) \/ Create(p) \/ Write(p) \/ Rename(p) \/ Fail(p)
      PROVE  Accounted'
  BY <1>2, FetchEnvelopeAccounted, FetchRawAccounted, EnsureRepoAccounted, CloneAccounted,
     RelocateAccounted, FileAccounted
<1>3. CASE RestoreNext
  BY <1>2, <1>3, AcceptAccounted, BeginAccounted, CloneGrowsAccounted DEF RestoreNext
<1> QED  BY <1>1, <1>3 DEF Next, all

-----------------------------------------------------------------------------
(* Where it goes: the steps *)

LEMMA FirstSteady == ASSUME RestoreInit PROVE Steady
<1>1. \A p \in Restorer : pc[p] = "idle"
  BY DEF RestoreInit
<1> QED  BY <1>1 DEF Steady, Settled, Apart, Located

(* What the others have found stays so. *)
LEMMA StepSteady ==
    ASSUME Careful, Accounted, Steady, NEW p \in Restorer, NEW q,
           pc' = [pc EXCEPT ![p] = q],
           \A r \in Restorer : r # p => job'[r] = job[r],
           Settled(p)', removed \subseteq removed',
           \A r \in Restorer \ {p} :
               /\ pc[r] \in Located \cup {"relocate", "origin"}
               /\ job[r].root \notin removed'
               => /\ checkout'[job[r].root] = checkout[job[r].root]
                  /\ tree[job[r].root] \subseteq tree'[job[r].root],
           q = "origin" => \A r \in Restorer \ {p} :
               pc[r] = "origin" /\ job[r].root \notin removed' => job[r].root # job'[p].root
    PROVE  Steady'
<1>1. pc'[p] = q /\ \A r \in Restorer : r # p => pc'[r] = pc[r]
  BY DEF Careful, Shaped
<1>2. ASSUME NEW r \in Restorer PROVE Settled(r)'
  <2>1. CASE r = p
    BY <2>1
  <2>2. CASE r # p
    <3>1. pc'[r] = pc[r] /\ job'[r] = job[r] /\ Settled(r)
      BY <1>1, <2>2 DEF Steady
    <3>2. Env(r)' = Env(r) /\ Origin0(r)' = Origin0(r)
      BY <3>1 DEF Env, Origin0
    <3>3. pc[r] \in Located => job[r].place = Relative(Env(r).cwd, RepoName(Origin0(r)))
      BY <3>1 DEF Settled
    <3>4. job[r].root \notin removed' =>
             /\ pc[r] \in Located => job[r].place \in tree'[job[r].root]
             /\ pc[r] \in Located \cup {"relocate"} =>
                   /\ checkout'[job[r].root] # Absent
                   /\ SameRemote(checkout'[job[r].root], Origin0(r))
             /\ pc[r] = "origin" => checkout'[job[r].root] = NoOrigin
      BY <2>2, <3>1 DEF Settled
    <3> QED  BY <3>1, <3>2, <3>3, <3>4 DEF Settled
  <2> QED  BY <2>1, <2>2
<1>3. Apart'
  <2> SUFFICES ASSUME NEW r \in Restorer, NEW s \in Restorer,
                      pc'[r] = "origin", pc'[s] = "origin", job'[r].root = job'[s].root,
                      job'[r].root \notin removed'
               PROVE  r = s
    BY DEF Apart
  <2>1. CASE r # p /\ s # p
    BY <1>1, <2>1 DEF Steady, Apart
  <2>2. CASE r = p \/ s = p
    BY <1>1, <2>2
  <2> QED  BY <2>1, <2>2
<1> QED  BY <1>2, <1>3 DEF Steady

(* A step that neither clones nor finds anything. *)
LEMMA QuietSteady ==
    ASSUME Careful, Accounted, Steady, NEW p \in Restorer, NEW q,
           pc' = [pc EXCEPT ![p] = q], q \notin Located \cup {"relocate", "origin"},
           \A r \in Restorer : r # p => job'[r] = job[r],
           UNCHANGED <<target, removed>>
    PROVE  Steady'
<1>1. pc'[p] = q
  BY DEF Careful, Shaped
<1>2. Settled(p)'
  BY <1>1 DEF Settled
<1>3. UNCHANGED <<checkout, tree>>
  BY DEF target
<1>4. q # "origin"
  OBVIOUS
<1> QED  BY <1>2, <1>3, <1>4, StepSteady

LEMMA EarlySteady ==
    ASSUME Careful, Accounted, Steady, NEW p \in Restorer,
           \/ \E s \in Session, b \in BOOLEAN : Begin(p, s, b)
           \/ FetchEnvelope(p) \/ FetchRaw(p) \/ Fail(p)
    PROVE  Steady'
<1>1. \E q \in {"envelope", "raw", "repo", "refused"} : pc' = [pc EXCEPT ![p] = q]
  BY DEF Begin, FetchEnvelope, FetchRaw, Fail
<1>2. PICK q \in {"envelope", "raw", "repo", "refused"} : pc' = [pc EXCEPT ![p] = q]
  BY <1>1
<1>3. q \notin Located \cup {"relocate", "origin"}
  BY <1>2 DEF Located
<1>4. \A r \in Restorer : r # p => job'[r] = job[r]
  BY DEF Begin, FetchEnvelope, FetchRaw, Fail, Careful, Shaped
<1>5. UNCHANGED <<target, removed>>
  BY DEF Begin, FetchEnvelope, FetchRaw, Fail, bounds
<1> QED  BY <1>2, <1>3, <1>4, <1>5, QuietSteady

LEMMA EnsureRepoSteady ==
    ASSUME Careful, Accounted, Steady, NEW p \in Restorer, EnsureRepo(p) PROVE Steady'
<1> DEFINE remote == Origin0(p)
<1>1. pc[p] = "repo" /\ UNCHANGED <<store, target, files, bounds>>
  BY DEF EnsureRepo
<1>2. UNCHANGED <<checkout, tree, removed>>
  BY <1>1 DEF target, bounds
<1>3. CASE /\ \A r \in Restorer : r # p => job'[r] = job[r]
           /\ \E q \in {"clone", "refused"} : pc' = [pc EXCEPT ![p] = q]
  <2>1. PICK q \in {"clone", "refused"} : pc' = [pc EXCEPT ![p] = q]
    BY <1>3
  <2>2. q \notin Located \cup {"relocate", "origin"}
    BY <2>1 DEF Located
  <2> QED  BY <1>1, <1>2, <1>3, <2>1, <2>2, QuietSteady
<1>4. CASE \E d : /\ Matches(d, remote) /\ job' = [job EXCEPT ![p].root = d]
                 /\ pc' = [pc EXCEPT ![p] = "relocate"]
  <2>1. PICK d : /\ Matches(d, remote) /\ job' = [job EXCEPT ![p].root = d]
                 /\ pc' = [pc EXCEPT ![p] = "relocate"]
    BY <1>4
  <2>2. /\ job'[p] = [job[p] EXCEPT !.root = d] /\ pc'[p] = "relocate"
        /\ DOMAIN job[p] = Fields
        /\ \A r \in Restorer : r # p => job'[r] = job[r]
    BY <2>1 DEF Careful, Shaped
  <2>3. job'[p].root = d /\ job'[p].session = job[p].session /\ job'[p].env = job[p].env
    BY <2>2 DEF Fields
  <2>4. Origin0(p)' = remote
    BY <2>3 DEF Origin0, Env
  <2>5. "relocate" \notin Located
    BY DEF Located
  <2>6. Settled(p)'
    BY <1>2, <2>1, <2>2, <2>3, <2>4, <2>5 DEF Settled, Matches
  <2> QED  BY <1>2, <2>1, <2>2, <2>6, StepSteady
<1>5. DOMAIN job = Restorer
  BY DEF Careful, Shaped
<1>6. CASE job' = job /\ pc' = [pc EXCEPT ![p] = "refused"]
  BY <1>3, <1>6
<1>7. CASE \E d : /\ job' = [job EXCEPT ![p].root = d]
                 /\ \E q \in {"clone", "refused"} : pc' = [pc EXCEPT ![p] = q]
  BY <1>3, <1>5, <1>7
<1> QED  BY <1>4, <1>6, <1>7 DEF EnsureRepo

(* git clone *)
LEMMA CloneBeginsSteady ==
    ASSUME Careful, Accounted, Steady, NEW p \in Restorer, CloneBegins(p) PROVE Steady'
<1> DEFINE d == job[p].root
<1>1. job' = job /\ UNCHANGED removed /\ pc[p] = "clone"
  BY DEF CloneBegins, bounds
<1>2. CASE UNCHANGED target /\ pc' = [pc EXCEPT ![p] = "refused"]
  <2>1. "refused" \notin Located \cup {"relocate", "origin"}
    BY DEF Located
  <2> QED  BY <1>1, <1>2, <2>1, QuietSteady
<1>3. CASE /\ checkout[d] = Absent /\ checkout' = [checkout EXCEPT ![d] = NoOrigin]
           /\ tree' = [tree EXCEPT ![d] = {<<>>}]
           /\ pc' = [pc EXCEPT ![p] = "origin"]
  <2>1. /\ checkout \in [Dir -> Remote \cup {NoOrigin, Absent}] /\ d \in Dir
        /\ tree \in [Dir -> SUBSET Tracked]
    BY DEF Accounted, Hosting, Recorded
  <2>2. Absent # NoOrigin
    BY RestoreAssumption
  <2>3. ASSUME NEW r \in Restorer, job[r].root \notin removed,
               pc[r] \in Located \cup {"relocate", "origin"}
        PROVE  job[r].root # d
    BY <1>3, <2>2, <2>3 DEF Steady, Settled
  <2>4. pc'[p] = "origin" /\ checkout'[d] = NoOrigin
    BY <1>3, <2>1 DEF Careful, Shaped
  <2>5. Settled(p)'
    BY <1>1, <2>4 DEF Settled, Located
  <2>6. \A e \in Dir : e # d => checkout'[e] = checkout[e] /\ tree'[e] = tree[e]
    BY <1>3, <2>1
  <2>7. \A r \in Restorer : job[r].root \in Dir
    BY DEF Accounted, Recorded
  <2>8. \A r \in Restorer \ {p} :
               /\ pc[r] \in Located \cup {"relocate", "origin"}
               /\ job[r].root \notin removed'
               => /\ checkout'[job[r].root] = checkout[job[r].root]
                  /\ tree[job[r].root] \subseteq tree'[job[r].root]
    BY <1>1, <2>3, <2>6, <2>7
  <2>9. \A r \in Restorer \ {p} :
            pc[r] = "origin" /\ job[r].root \notin removed' => job[r].root # job'[p].root
    BY <1>1, <2>3
  <2> QED  BY <1>1, <1>3, <2>5, <2>8, <2>9, StepSteady
<1> QED  BY <1>2, <1>3 DEF CloneBegins

LEMMA CloneConfiguresSteady ==
    ASSUME Careful, Accounted, Steady, NEW p \in Restorer, CloneConfigures(p) PROVE Steady'
<1> DEFINE d == job[p].root
<1>1. /\ job' = job /\ UNCHANGED <<tree, removed>> /\ pc[p] = "origin"
      /\ checkout' = [checkout EXCEPT ![d] = Origin0(p)]
      /\ pc' = [pc EXCEPT ![p] = "files"]
  BY DEF CloneConfigures, bounds
<1>2. checkout \in [Dir -> Remote \cup {NoOrigin, Absent}] /\ d \in Dir
  BY DEF Accounted, Hosting, Recorded
<1>3. ASSUME NEW r \in Restorer \ {p}, job[r].root \notin removed,
             pc[r] \in Located \cup {"relocate", "origin"}
      PROVE  job[r].root # d
  <2> SUFFICES ASSUME job[r].root = d PROVE FALSE
    OBVIOUS
  <2>1. checkout[d] = NoOrigin
    BY <1>1, <1>3 DEF Steady, Settled
  <2>2. CASE pc[r] = "origin"
    BY <1>1, <1>3, <2>2 DEF Steady, Apart
  <2>3. CASE pc[r] \in Located \cup {"relocate"}
    BY <1>3, <2>1, <2>3 DEF Steady, Settled, SameRemote
  <2> QED  BY <1>3, <2>2, <2>3
<1>4. \A e \in Dir : e # d => checkout'[e] = checkout[e]
  BY <1>1, <1>2
<1>5. \A r \in Restorer : job[r].root \in Dir
  BY DEF Accounted, Recorded
<1>6. Settled(p)'
  <2>1. pc'[p] = "files"
    BY <1>1 DEF Careful, Shaped
  <2> QED  BY <2>1 DEF Settled, Located
<1>7. \A r \in Restorer \ {p} :
               /\ pc[r] \in Located \cup {"relocate", "origin"}
               /\ job[r].root \notin removed'
               => /\ checkout'[job[r].root] = checkout[job[r].root]
                  /\ tree[job[r].root] \subseteq tree'[job[r].root]
  BY <1>1, <1>3, <1>4, <1>5
<1> QED  BY <1>1, <1>6, <1>7, StepSteady

(* What is checked out meanwhile only adds to what others found there.      *)
LEMMA CloneGrowsSteady ==
    ASSUME Careful, Accounted, Steady, NEW p \in Restorer, NEW w \in Tracked, CloneGrows(p, w)
    PROVE  Steady'
<1>1. /\ UNCHANGED <<checkout, pc, job, removed>>
      /\ tree' = [tree EXCEPT ![job[p].root] = @ \cup {w}]
  BY DEF CloneGrows, bounds
<1>2. \A r \in Restorer : tree[job[r].root] \subseteq tree'[job[r].root]
  BY <1>1 DEF Accounted, Hosting, Recorded
<1> QED  BY <1>1, <1>2 DEF Steady, Settled, Apart, Env, Origin0

LEMMA CloneEndsSteady ==
    ASSUME Careful, Accounted, Steady, NEW p \in Restorer, CloneEnds(p) PROVE Steady'
<1> DEFINE d == job[p].root
<1>1. /\ job' = job /\ UNCHANGED <<checkout, tree, removed>> /\ pc[p] = "files"
      /\ pc' = [pc EXCEPT ![p] = IF Matches(d, Origin0(p)) THEN "relocate" ELSE "refused"]
  BY DEF CloneEnds, bounds, target
<1>2. pc'[p] = IF Matches(d, Origin0(p)) THEN "relocate" ELSE "refused"
  BY <1>1 DEF Careful, Shaped
<1>3. Settled(p)'
  <2>1. Origin0(p)' = Origin0(p)
    BY <1>1 DEF Origin0, Env
  <2> QED  BY <1>1, <1>2, <2>1 DEF Settled, Located, Matches
<1>4. PICK q \in {"relocate", "refused"} : pc' = [pc EXCEPT ![p] = q]
  BY <1>1
<1>5. q # "origin"
  BY <1>4
<1> QED  BY <1>1, <1>3, <1>4, <1>5, StepSteady

(* A clone that takes its directory away ends what can be said of it, not   *)
(* of any other.                                                            *)
LEMMA CloneFailsSteady ==
    ASSUME Careful, Accounted, Steady, NEW p \in Restorer, CloneFails(p) PROVE Steady'
<1> DEFINE d == job[p].root
<1>1. /\ job' = job /\ removed' = removed \cup {d}
      /\ checkout' = [checkout EXCEPT ![d] = Absent] /\ tree' = [tree EXCEPT ![d] = {}]
      /\ pc' = [pc EXCEPT ![p] = "refused"]
  BY DEF CloneFails
<1>2. Settled(p)'
  <2>1. pc'[p] = "refused"
    BY <1>1 DEF Careful, Shaped
  <2> QED  BY <2>1 DEF Settled, Located
<1>3. ASSUME NEW r \in Restorer \ {p}, job[r].root \notin removed'
      PROVE  /\ checkout'[job[r].root] = checkout[job[r].root]
             /\ tree[job[r].root] \subseteq tree'[job[r].root]
  <2>1. job[r].root # d /\ job[r].root \in Dir
    BY <1>1, <1>3 DEF Accounted, Recorded
  <2> QED  BY <1>1, <2>1 DEF Accounted, Hosting
<1>4. removed \subseteq removed'
  BY <1>1
<1> QED  BY <1>1, <1>2, <1>3, <1>4, StepSteady

LEMMA RelocateSteady ==
    ASSUME Careful, Accounted, Steady, NEW p \in Restorer, Relocate(p) PROVE Steady'
<1> DEFINE place == Relative(Env(p).cwd, RepoName(Origin0(p)))
<1>1. pc[p] = "relocate" /\ UNCHANGED <<checkout, tree, removed>>
  BY DEF Relocate, target, bounds
<1>2. CASE job' = job /\ pc' = [pc EXCEPT ![p] = "refused"]
  <2>1. "refused" \notin Located \cup {"relocate", "origin"}
    BY DEF Located
  <2> QED  BY <1>1, <1>2, <2>1, QuietSteady DEF target
<1>3. CASE /\ place \in tree[job[p].root] /\ job' = [job EXCEPT ![p].place = place]
           /\ pc' = [pc EXCEPT ![p] = "create"]
  <2>1. /\ job'[p] = [job[p] EXCEPT !.place = place] /\ pc'[p] = "create"
        /\ DOMAIN job[p] = Fields
        /\ \A r \in Restorer : r # p => job'[r] = job[r]
    BY <1>3 DEF Careful, Shaped
  <2>2. /\ job'[p].root = job[p].root /\ job'[p].session = job[p].session
        /\ job'[p].env = job[p].env /\ job'[p].place = place
    BY <2>1 DEF Fields
  <2>3. Origin0(p)' = Origin0(p) /\ Env(p)' = Env(p)
    BY <2>2 DEF Origin0, Env
  <2>4. job[p].root \notin removed => /\ checkout[job[p].root] # Absent
                                      /\ SameRemote(checkout[job[p].root], Origin0(p))
    BY <1>1 DEF Steady, Settled
  <2>5. Settled(p)'
    BY <1>1, <1>3, <2>1, <2>2, <2>3, <2>4 DEF Settled
  <2> QED  BY <1>1, <1>3, <2>1, <2>5, StepSteady
<1> QED  BY <1>2, <1>3 DEF Relocate

LEMMA FileSteady ==
    ASSUME Careful, Accounted, Steady, NEW p \in Restorer,
           Create(p) \/ Write(p) \/ Rename(p)
    PROVE  Steady'
<1>1. /\ pc[p] \in Located /\ job' = job /\ UNCHANGED <<checkout, tree, removed>>
      /\ \E q \in {"write", "rename", "done"} : pc' = [pc EXCEPT ![p] = q]
  BY DEF Create, Write, Rename, target, bounds, Located
<1>2. PICK q \in {"write", "rename", "done"} : pc' = [pc EXCEPT ![p] = q]
  BY <1>1
<1>3. pc'[p] = q /\ q # "origin"
  BY <1>2 DEF Careful, Shaped
<1>4. Settled(p)'
  <2>1. Settled(p)
    BY DEF Steady
  <2>2. Origin0(p)' = Origin0(p) /\ Env(p)' = Env(p)
    BY <1>1 DEF Origin0, Env
  <2> QED  BY <1>1, <1>3, <2>1, <2>2 DEF Settled
<1> QED  BY <1>1, <1>2, <1>3, <1>4, StepSteady

LEMMA StillSteady == ASSUME Steady, UNCHANGED <<target, pc, job, removed>> PROVE Steady'
<1>1. UNCHANGED <<checkout, tree, pc, job, removed>>
  BY DEF target
<1> QED  BY <1>1 DEF Steady, Settled, Apart, Env, Origin0

LEMMA NextSteady == ASSUME Careful, Accounted, Steady, [Next]_all PROVE Steady'
<1>1. CASE UNCHANGED vars
  BY <1>1, StillSteady DEF vars, bounds
<1>2. ASSUME NEW s \in Session, Accept(s) PROVE Steady'
  BY <1>2, StillSteady DEF Accept, bounds
<1>3. ASSUME NEW p \in Restorer, NEW s \in Session, NEW b \in BOOLEAN, Begin(p, s, b)
      PROVE  Steady'
  BY <1>3, EarlySteady
<1>4. ASSUME NEW p \in Restorer,
             \/ FetchEnvelope(p) \/ FetchRaw(p) \/ EnsureRepo(p)
             \/ CloneBegins(p) \/ CloneConfigures(p) \/ CloneEnds(p) \/ CloneFails(p)
             \/ Relocate(p) \/ Create(p) \/ Write(p) \/ Rename(p) \/ Fail(p)
      PROVE  Steady'
  BY <1>4, EarlySteady, EnsureRepoSteady, CloneBeginsSteady, CloneConfiguresSteady,
     CloneEndsSteady, CloneFailsSteady, RelocateSteady, FileSteady
<1>5. CASE RestoreNext
  BY <1>2, <1>3, <1>4, <1>5, CloneGrowsSteady DEF RestoreNext
<1> QED  BY <1>1, <1>5 DEF Next, all

LEMMA RestoreInvariants == Spec => [](Careful /\ Accounted /\ Steady)
<1>1. Init => Careful /\ Accounted /\ Steady
  BY InitCareful, FirstAccounted, FirstSteady DEF Init
<1>2. Careful /\ Accounted /\ Steady /\ [Next]_all => (Careful /\ Accounted /\ Steady)'
  BY NextCareful, NextAccounted, NextSteady
<1> QED  BY <1>1, <1>2, PTL DEF Spec

(* However restores overlap, fail and clone over one another: a restore that *)
(* succeeded chose a checkout of the repository its session was captured in, *)
(* and in it the directory the session ran in; both stay, unless a clone     *)
(* that was still under way there failed and took them away (ensure_repo,    *)
(* matching_git_root, cwd_relative_to_repo, clone_repo).                     *)
THEOREM SessionsComeBackWhereTheyRan == Spec => []RestoredWhereItRan
<1>1. Steady => RestoredWhereItRan
  <2> SUFFICES ASSUME Steady, NEW p \in Restorer, pc[p] \in Located
               PROVE  LET cwd  == Env(p).cwd
                          root0 == RootOf(cwd)
                          name == RepoName(Origin0(p))
                      IN  /\ job[p].root \notin removed =>
                                /\ SameRemote(checkout[job[p].root], Origin0(p))
                                /\ job[p].place \in tree[job[p].root]
                          /\ (root0 # <<>> /\ Max(Named(cwd, name)) = Len(root0)) =>
                                job[p].place = SubSeq(cwd, Len(root0) + 1, Len(cwd))
    BY DEF RestoredWhereItRan
  <2> QED  BY DEF Steady, Settled, Relative
<1> QED  BY <1>1, RestoreInvariants, PTL

-----------------------------------------------------------------------------
(* Command lines and the health sidecar *)

Typed ==
    /\ CommandTypeOK
    /\ DOMAIN line = Proc /\ DOMAIN answer = Proc

(* What a process that is under way has been told, and has said so far.     *)
Candid(p) ==
    /\ phase[p] \notin {"off", "over"} =>
          /\ ~Refused(line[p])
          /\ CommandOf(line[p]) = "run-once" => answer[p] = <<>>
    /\ phase[p] \in {"write", "report"} => CommandOf(line[p]) \in Sweeping
    /\ phase[p] = "over" /\ exit[p] # Usage =>
          /\ ~Refused(line[p])
          /\ CommandOf(line[p]) = "run-once" =>
                /\ exit[p] = 0 => summary[p] = {}
                /\ Given(line[p], "--json") => answer[p] = <<exit[p] = 0>>

(* What the sidecar holds, or is about to, is when a sweep ended. *)
Witnessed ==
    /\ health \in swept \cup {Missing, Torn}
    /\ \A p \in Proc : phase[p] = "write" => stamp[p] \in swept

Truthful == Typed /\ Witnessed /\ \A p \in Proc : Candid(p)

-----------------------------------------------------------------------------
(* What a line that was not refused cannot ask for *)

LEMMA CommandOfLine ==
    ASSUME NEW a
    PROVE  CommandOf(a) = IF Given(a, "--version") THEN "--version"
                          ELSE IF Given(a, "--help") THEN "--help"
                          ELSE IF Chosen(a) # {} THEN a[Max(Chosen(a))]
                          ELSE IF Given(a, "--health") THEN "--health"
                          ELSE IF Given(a, "--dry-run") THEN "--dry-run"
                          ELSE IF Given(a, "--loop") THEN "--loop"
                          ELSE "run-once"
  BY DEF CommandOf

LEMMA NotConflicting ==
    ASSUME NEW a, ~Refused(a)
    PROVE  /\ Given(a, "--ignore-state") =>
                 CommandOf(a) \in Answering \cup {"run-once", "--loop"}
           /\ Given(a, "--json") => CommandOf(a) \notin {"--health", "--dry-run", "--loop"}
<1>1. ~Conflicting(a)
  BY DEF Refused
<1>2. ASSUME Given(a, "--ignore-state"), CommandOf(a) \notin Answering
      PROVE  CommandOf(a) \in {"run-once", "--loop"}
  <2>1. Chosen(a) = {} /\ CommandOf(a) \notin {"--health", "--dry-run"}
    BY <1>1, <1>2 DEF Conflicting
  <2> QED  BY <1>2, <2>1, CommandOfLine DEF Answering
<1> QED  BY <1>1, <1>2 DEF Conflicting

-----------------------------------------------------------------------------
(* Type correctness *)

Phase == {"off", "configure", "work", "write", "report", "sleep", "over"}
Code  == {-1, 0, 1, Usage, Incomplete}

LEMMA InitTyped == ASSUME CommandInit PROVE Typed
<1>1. MaxClock \in Nat /\ MaxTroubles \in Nat
  BY CommandAssumption
<1>2. <<>> \in Seq(BOOLEAN)
  OBVIOUS
<1> QED  BY <1>1, <1>2 DEF CommandInit, Typed, CommandTypeOK

(* Where a process is, and its exit code. *)
Standing ==
    /\ phase \in [Proc -> Phase] /\ exit \in [Proc -> Code]
    /\ \A r \in Proc : exit[r] # -1 <=> phase[r] = "over"

LEMMA Standings == ASSUME Typed PROVE Standing
  BY DEF Typed, CommandTypeOK, Standing, Phase, Code

LEMMA MoveStanding ==
    ASSUME Typed, NEW p \in Proc, NEW h \in Phase, NEW c \in Code, c # -1 <=> h = "over",
           phase' = [phase EXCEPT ![p] = h], exit' = [exit EXCEPT ![p] = c]
    PROVE  Standing'
  BY Standings DEF Standing

LEMMA PassStanding ==
    ASSUME Typed, NEW p \in Proc, NEW h \in Phase, h # "over", phase[p] # "over",
           phase' = [phase EXCEPT ![p] = h], exit' = exit
    PROVE  Standing'
  BY Standings DEF Standing

LEMMA EndStanding ==
    ASSUME Typed, NEW p \in Proc, NEW c \in {0, 1, Incomplete}, Ends(p, c)
    PROVE  Standing'
<1>1. c \in Code /\ c # -1 /\ "over" \in Phase
  BY DEF Code, Phase, Incomplete
<1> QED  BY <1>1, MoveStanding DEF Ends

LEMMA TroubleTyped == ASSUME Typed, Trouble PROVE troubles' \in 0 .. MaxTroubles
  BY CommandAssumption DEF Trouble, Typed, CommandTypeOK

(* The documents of one process. *)
LEMMA AnswerTyped ==
    ASSUME Typed, NEW p \in Proc, NEW u \in Seq(BOOLEAN), answer' = [answer EXCEPT ![p] = u]
    PROVE  DOMAIN answer' = Proc /\ \A r \in Proc : answer'[r] \in Seq(BOOLEAN)
  BY DEF Typed, CommandTypeOK

LEMMA DocumentTyped ==
    ASSUME Typed, NEW p \in Proc, NEW b \in BOOLEAN,
           answer' = [answer EXCEPT ![p] = IF Asked(p) THEN Append(@, b) ELSE @]
    PROVE  DOMAIN answer' = Proc /\ \A r \in Proc : answer'[r] \in Seq(BOOLEAN)
<1>1. answer[p] \in Seq(BOOLEAN) /\ Append(answer[p], b) \in Seq(BOOLEAN)
  BY DEF Typed, CommandTypeOK
<1>2. CASE Asked(p)
  BY <1>1, <1>2, AnswerTyped
<1>3. CASE ~Asked(p)
  BY <1>1, <1>3, AnswerTyped
<1> QED  BY <1>2, <1>3

LEMMA LaunchTyped ==
    ASSUME Typed, NEW p \in Proc, NEW a \in Lines[p], Launch(p, a) PROVE Typed'
<1>1. Standing'
  <2>1. PICK h \in {"over", "configure", "work"}, c \in {-1, 0, Usage} :
           /\ phase' = [phase EXCEPT ![p] = h]
           /\ exit' = [exit EXCEPT ![p] = c]
           /\ c # -1 <=> h = "over"
    BY DEF Launch, Ends, Usage
  <2> QED  BY <2>1, MoveStanding DEF Phase, Code
<1>2. DOMAIN answer' = Proc /\ \A r \in Proc : answer'[r] \in Seq(BOOLEAN)
  <2>1. <<>> \in Seq(BOOLEAN) /\ answer' = [answer EXCEPT ![p] = <<>>]
    BY DEF Launch
  <2> QED  BY <2>1, AnswerTyped
<1>3. DOMAIN line' = Proc /\ \A r \in Proc : line'[r] \in Lines[r] \cup {<<>>}
  BY DEF Launch, Typed, CommandTypeOK
<1>4. summary' \in [Proc -> SUBSET Counter]
  BY DEF Launch, Typed, CommandTypeOK
<1> QED
  BY <1>1, <1>2, <1>3, <1>4
  DEF Launch, Typed, CommandTypeOK, sidecar, Standing, Phase, Code

LEMMA GiveUpTyped ==
    ASSUME Typed, NEW p \in Proc, GiveUp(p), UNCHANGED <<clock, sidecar, line, summary>>,
           stamp' \in [Proc -> 0 .. MaxClock], Trouble
    PROVE  Typed'
<1>1. Standing'
  BY EndStanding DEF GiveUp
<1>2. DOMAIN answer' = Proc /\ \A r \in Proc : answer'[r] \in Seq(BOOLEAN)
  BY DocumentTyped DEF GiveUp
<1> QED
  BY <1>1, <1>2, TroubleTyped DEF Typed, CommandTypeOK, sidecar, Standing, Phase, Code

LEMMA SweepTyped ==
    ASSUME Typed, NEW p \in Proc, NEW found \in Outcome, Sweep(p, found) PROVE Typed'
<1>1. Standing'
  BY PassStanding DEF Sweep, Doing, Phase
<1>2. summary' \in [Proc -> SUBSET Counter]
  BY DEF Sweep, Outcome, Typed, CommandTypeOK
<1>3. stamp' \in [Proc -> 0 .. MaxClock] /\ swept' \subseteq 0 .. MaxClock
  <2>1. /\ stamp \in [Proc -> 0 .. MaxClock] /\ swept \subseteq 0 .. MaxClock
        /\ clock \in 0 .. MaxClock
    BY DEF Typed, CommandTypeOK
  <2>2. CASE UNCHANGED <<stamp, swept>>
    BY <2>1, <2>2
  <2>3. CASE stamp' = [stamp EXCEPT ![p] = clock] /\ swept' = swept \cup {clock}
    BY <2>1, <2>3
  <2> QED  BY <2>2, <2>3 DEF Sweep
<1> QED  BY <1>1, <1>2, <1>3 DEF Sweep, Typed, CommandTypeOK, Standing, Phase, Code

LEMMA SweepFailsTyped == ASSUME Typed, NEW p \in Proc, SweepFails(p) PROVE Typed'
<1>1. stamp' \in [Proc -> 0 .. MaxClock]
  BY CommandAssumption DEF SweepFails, Typed, CommandTypeOK
<1>2. CASE GiveUp(p)
  BY <1>1, <1>2, GiveUpTyped DEF SweepFails
<1>3. CASE phase' = [phase EXCEPT ![p] = "sleep"] /\ UNCHANGED <<answer, exit>>
  <2>1. Standing'
    BY <1>3, PassStanding DEF SweepFails, Doing, Phase
  <2> QED
    BY <1>1, <1>3, <2>1, TroubleTyped
    DEF SweepFails, sidecar, Typed, CommandTypeOK, Standing, Phase, Code
<1> QED  BY <1>2, <1>3 DEF SweepFails

LEMMA ReportTyped == ASSUME Typed, NEW p \in Proc, Report(p) PROVE Typed'
<1>1. Standing'
  <2>1. CASE phase' = [phase EXCEPT ![p] = "sleep"] /\ UNCHANGED <<answer, exit>>
    BY <2>1, PassStanding DEF Report, Phase
  <2>2. CASE Ends(p, IF CapturedEverything(summary[p]) THEN 0 ELSE Incomplete)
    BY <2>2, EndStanding
  <2> QED  BY <2>1, <2>2 DEF Report
<1>2. DOMAIN answer' = Proc /\ \A r \in Proc : answer'[r] \in Seq(BOOLEAN)
  <2>1. CapturedEverything(summary[p]) \in BOOLEAN
    BY DEF CapturedEverything
  <2>2. CASE UNCHANGED answer
    BY <2>2 DEF Typed, CommandTypeOK
  <2>3. CASE ~UNCHANGED answer
    BY <2>1, <2>3, DocumentTyped DEF Report
  <2> QED  BY <2>2, <2>3
<1> QED  BY <1>1, <1>2 DEF Report, sidecar, Typed, CommandTypeOK, Standing, Phase, Code

LEMMA ProcessTyped ==
    ASSUME Typed, NEW p \in Proc,
           \/ Configure(p) \/ CheckHealth(p) \/ DryRun(p) \/ Local(p) \/ WriteRecord(p)
           \/ Wake(p) \/ Kill(p)
    PROVE  Typed'
<1> USE DEF sidecar, Standing, Phase, Code, Typed, CommandTypeOK
<1>1. CASE Configure(p)
  <2>1. CASE phase' = [phase EXCEPT ![p] = "work"] /\ UNCHANGED <<answer, exit, troubles>>
    <3>1. Standing'
      BY <1>1, <2>1, PassStanding DEF Configure
    <3> QED  BY <1>1, <2>1, <3>1 DEF Configure
  <2>2. CASE Trouble /\ GiveUp(p)
    BY <1>1, <2>2, GiveUpTyped DEF Configure
  <2> QED  BY <1>1, <2>1, <2>2 DEF Configure
<1>2. CASE CheckHealth(p)
  <2>1. Standing'
    BY <1>2, EndStanding DEF CheckHealth
  <2> QED  BY <1>2, <2>1 DEF CheckHealth
<1>3. CASE DryRun(p)
  <2>1. Standing'
    BY <1>3, EndStanding DEF DryRun
  <2> QED  BY <1>3, <2>1, TroubleTyped DEF DryRun
<1>4. CASE Local(p)
  <2>1. Standing'
    BY <1>4, EndStanding DEF Local
  <2> QED  BY <1>4, <2>1 DEF Local
<1>5. CASE WriteRecord(p)
  BY <1>5, CommandAssumption DEF WriteRecord
<1>6. CASE Wake(p)
  BY <1>6 DEF Wake
<1>7. CASE Kill(p)
  BY <1>7, TroubleTyped DEF Kill
<1> QED  BY <1>1, <1>2, <1>3, <1>4, <1>5, <1>6, <1>7

LEMMA AmbientTyped == ASSUME Typed, Tick \/ SetBack \/ PowerCut PROVE Typed'
<1>0. MaxClock \in Nat /\ clock \in 0 .. MaxClock
  BY CommandAssumption DEF Typed, CommandTypeOK
<1>1. CASE Tick
  BY <1>0, <1>1 DEF Tick, sidecar, process, Typed, CommandTypeOK
<1>2. CASE SetBack
  <2>1. clock' \in 0 .. MaxClock
    BY <1>0, <1>2 DEF SetBack
  <2> QED  BY <1>2, <2>1, TroubleTyped DEF SetBack, sidecar, process, Typed, CommandTypeOK
<1>3. CASE PowerCut
  BY <1>3, TroubleTyped DEF PowerCut, Typed, CommandTypeOK
<1> QED  BY <1>1, <1>2, <1>3

LEMMA NextTyped == ASSUME Typed, [CommandNext]_command PROVE Typed'
<1>1. CASE UNCHANGED command
  BY <1>1 DEF command, sidecar, process, Typed, CommandTypeOK
<1>2. ASSUME NEW p \in Proc, NEW a \in Lines[p], Launch(p, a) PROVE Typed'
  BY <1>2, LaunchTyped
<1>3. ASSUME NEW p \in Proc, NEW found \in Outcome, Sweep(p, found) PROVE Typed'
  BY <1>3, SweepTyped
<1>4. ASSUME NEW p \in Proc,
             \/ Configure(p) \/ CheckHealth(p) \/ DryRun(p) \/ Local(p) \/ WriteRecord(p)
             \/ SweepFails(p) \/ Report(p) \/ Wake(p) \/ Kill(p)
      PROVE  Typed'
  BY <1>4, ProcessTyped, SweepFailsTyped, ReportTyped
<1> QED  BY <1>1, <1>2, <1>3, <1>4, AmbientTyped DEF CommandNext

-----------------------------------------------------------------------------
(* What the sidecar holds *)

LEMMA InitWitnessed == ASSUME CommandInit PROVE Witnessed
  BY DEF CommandInit, Witnessed

LEMMA NextWitnessed ==
    ASSUME Typed, Witnessed, [CommandNext]_command PROVE Witnessed'
<1> USE DEF sidecar, process
<1>0. /\ DOMAIN phase = Proc /\ DOMAIN stamp = Proc
      /\ health \in swept \cup {Missing, Torn}
      /\ \A r \in Proc : phase[r] = "write" => stamp[r] \in swept
  BY DEF Typed, CommandTypeOK, Witnessed
<1>1. ASSUME UNCHANGED <<sidecar, stamp>>,
             \A r \in Proc : phase'[r] = "write" => phase[r] = "write"
      PROVE  Witnessed'
  BY <1>1 DEF Witnessed
<1>2. CASE UNCHANGED command
  BY <1>1, <1>2 DEF command
<1>3. ASSUME NEW p \in Proc, NEW a \in Lines[p], Launch(p, a) PROVE Witnessed'
  BY <1>0, <1>1, <1>3 DEF Launch, Ends
<1>4. ASSUME NEW p \in Proc, Configure(p) \/ CheckHealth(p) \/ DryRun(p) \/ Local(p)
      PROVE  Witnessed'
  BY <1>0, <1>1, <1>4 DEF Configure, CheckHealth, DryRun, Local, Ends, GiveUp
<1>5. ASSUME NEW p \in Proc, Report(p) \/ Wake(p) \/ Kill(p) PROVE Witnessed'
  BY <1>0, <1>1, <1>5 DEF Report, Wake, Kill, Ends
<1>6. ASSUME NEW p \in Proc, NEW found \in Outcome, Sweep(p, found) PROVE Witnessed'
  <2>1. CASE "failed" \in found
    BY <1>0, <1>1, <1>6, <2>1 DEF Sweep
  <2>2. CASE "failed" \notin found
    <3>1. /\ stamp' = [stamp EXCEPT ![p] = clock] /\ swept' = swept \cup {clock}
          /\ health' = health /\ phase' = [phase EXCEPT ![p] = "write"]
      BY <1>6, <2>2 DEF Sweep
    <3> QED  BY <1>0, <3>1 DEF Witnessed
  <2> QED  BY <2>1, <2>2
<1>7. ASSUME NEW p \in Proc, WriteRecord(p) PROVE Witnessed'
  BY <1>0, <1>7 DEF WriteRecord, Witnessed
<1>8. ASSUME NEW p \in Proc, SweepFails(p) PROVE Witnessed'
  BY <1>0, <1>8 DEF SweepFails, GiveUp, Ends, Witnessed
<1>9. CASE Tick \/ SetBack
  BY <1>1, <1>9 DEF Tick, SetBack
<1>10. CASE PowerCut
  BY <1>0, <1>10 DEF PowerCut, Witnessed
<1> QED
  BY <1>2, <1>3, <1>4, <1>5, <1>6, <1>7, <1>8, <1>9, <1>10 DEF CommandNext

-----------------------------------------------------------------------------
(* What a process says *)

LEMMA InitCandid == ASSUME CommandInit, NEW p \in Proc PROVE Candid(p)
  BY DEF CommandInit, Candid

(* What a step of p leaves to the others. *)
LEMMA OthersCandid ==
    ASSUME NEW p, NEW r, r # p, Candid(r),
           phase'[r] = phase[r], line'[r] = line[r], answer'[r] = answer[r],
           exit'[r] = exit[r], summary'[r] = summary[r]
    PROVE  Candid(r)'
  BY DEF Candid

Domains == /\ DOMAIN phase = Proc /\ DOMAIN line = Proc /\ DOMAIN answer = Proc
           /\ DOMAIN exit = Proc /\ DOMAIN summary = Proc

LEMMA LaunchCandid ==
    ASSUME Domains, NEW p \in Proc, NEW a \in Lines[p], Launch(p, a) PROVE Candid(p)'
<1> USE DEF Domains
<1>1. answer'[p] = <<>> /\ line'[p] = IF Refused(a) THEN <<>> ELSE a
  BY DEF Launch
<1>2. CASE Refused(a)
  <2>1. phase'[p] = "over" /\ exit'[p] = Usage
    BY <1>2 DEF Launch, Ends
  <2> QED  BY <2>1 DEF Candid
<1>3. CASE ~Refused(a) /\ CommandOf(a) \in Answering
  <2>1. phase'[p] = "over" /\ line'[p] = a
    BY <1>1, <1>3 DEF Launch, Ends
  <2> QED  BY <1>3, <2>1 DEF Candid, Answering
<1>4. CASE ~Refused(a) /\ CommandOf(a) \notin Answering
  <2>1. phase'[p] \in {"configure", "work"} /\ line'[p] = a
    BY <1>1, <1>4 DEF Launch
  <2> QED  BY <1>1, <1>4, <2>1 DEF Candid
<1> QED  BY <1>2, <1>3, <1>4

LEMMA GiveUpCandid ==
    ASSUME Domains, NEW p \in Proc, GiveUp(p), UNCHANGED line, Candid(p),
           phase[p] \notin {"off", "over"}
    PROVE  Candid(p)'
<1> USE DEF Domains
<1>1. phase'[p] = "over" /\ exit'[p] = 1 /\ line'[p] = line[p] /\ ~Refused(line[p])
  BY DEF GiveUp, Ends, Candid
<1>2. ASSUME CommandOf(line[p]) = "run-once", Given(line[p], "--json")
      PROVE  answer'[p] = <<FALSE>>
  <2>1. answer[p] = <<>>
    BY <1>2 DEF Candid
  <2>2. answer'[p] = Append(answer[p], FALSE)
    BY <1>2 DEF GiveUp, Asked
  <2> QED  BY <2>1, <2>2
<1>3. exit'[p] # 0 /\ (exit'[p] = 0) = FALSE
  BY <1>1
<1> QED  BY <1>1, <1>2, <1>3 DEF Candid

LEMMA SweepCandid ==
    ASSUME Domains, NEW p \in Proc, NEW found \in Outcome, Sweep(p, found), Candid(p)
    PROVE  Candid(p)'
<1>1. /\ phase'[p] \in {"write", "report"} /\ phase[p] = "work"
      /\ CommandOf(line[p]) \in Sweeping
      /\ UNCHANGED <<line, answer, exit>>
  BY DEF Sweep, Doing, Domains
<1> QED  BY <1>1 DEF Candid

LEMMA ReportCandid ==
    ASSUME Domains, NEW p \in Proc, Report(p), Candid(p), summary[p] \subseteq Counter
    PROVE  Candid(p)'
<1> USE DEF Domains
<1>0. phase[p] = "report" /\ UNCHANGED <<line, summary>> /\ ~Refused(line[p])
  BY DEF Report, Candid
<1>1. CASE CommandOf(line[p]) = "--loop"
  <2>1. phase'[p] = "sleep"
    BY <1>1 DEF Report
  <2> QED  BY <1>0, <1>1, <2>1 DEF Candid
<1>2. CASE CommandOf(line[p]) = "run-once"
  <2> DEFINE all_captured == CapturedEverything(summary[p])
  <2>1. /\ phase'[p] = "over" /\ exit'[p] = IF all_captured THEN 0 ELSE Incomplete
        /\ answer' = [answer EXCEPT ![p] = IF Asked(p) THEN Append(@, all_captured) ELSE @]
    BY <1>2 DEF Report, Ends
  <2>2. answer[p] = <<>>
    BY <1>0, <1>2 DEF Candid
  <2>3. all_captured \in BOOLEAN /\ (all_captured => summary[p] = {})
    BY DEF CapturedEverything, Counter
  <2> HIDE DEF all_captured
  <2>4. all_captured = (exit'[p] = 0)
    BY <2>1, <2>3 DEF Incomplete
  <2>5. Given(line[p], "--json") => answer'[p] = <<exit'[p] = 0>>
    <3>1. Given(line[p], "--json") => answer'[p] = Append(<<>>, all_captured)
      BY <2>1, <2>2 DEF Asked
    <3> QED  BY <2>4, <3>1
  <2> QED  BY <1>0, <2>1, <2>3, <2>4, <2>5 DEF Candid
<1> QED  BY <1>0, <1>1, <1>2 DEF Report

LEMMA ProcessCandid ==
    ASSUME Domains, NEW p \in Proc, Candid(p), summary[p] \subseteq Counter,
           \/ Configure(p) \/ CheckHealth(p) \/ DryRun(p) \/ Local(p) \/ WriteRecord(p)
           \/ SweepFails(p) \/ Report(p) \/ Wake(p) \/ Kill(p)
    PROVE  Candid(p)'
<1> USE DEF Domains
<1>1. CASE Configure(p)
  <2>1. phase[p] = "configure" /\ UNCHANGED line
    BY <1>1 DEF Configure
  <2>2. CASE GiveUp(p)
    BY <2>1, <2>2, GiveUpCandid
  <2>3. CASE phase' = [phase EXCEPT ![p] = "work"] /\ UNCHANGED <<answer, exit>>
    BY <2>1, <2>3 DEF Candid
  <2> QED  BY <1>1, <2>2, <2>3 DEF Configure
<1>2. CASE CheckHealth(p) \/ DryRun(p) \/ Local(p)
  <2>1. /\ phase[p] = "work" /\ phase'[p] = "over"
        /\ CommandOf(line[p]) # "run-once" /\ UNCHANGED line
    BY <1>2 DEF CheckHealth, DryRun, Local, Ends, Doing, Mode
  <2> QED  BY <2>1 DEF Candid
<1>3. CASE WriteRecord(p)
  BY <1>3 DEF WriteRecord, Candid
<1>4. CASE SweepFails(p)
  <2>1. phase[p] \in {"work", "write"} /\ UNCHANGED line
    BY <1>4 DEF SweepFails, Doing
  <2>2. CASE GiveUp(p)
    BY <2>1, <2>2, GiveUpCandid
  <2>3. CASE phase' = [phase EXCEPT ![p] = "sleep"] /\ UNCHANGED <<answer, exit>>
    BY <2>1, <2>3 DEF Candid
  <2> QED  BY <1>4, <2>2, <2>3 DEF SweepFails
<1>5. CASE Wake(p)
  BY <1>5 DEF Wake, Candid
<1>6. CASE Kill(p)
  BY <1>6 DEF Kill, Candid
<1> QED  BY <1>1, <1>2, <1>3, <1>4, <1>5, <1>6, ReportCandid

LEMMA NextCandid ==
    ASSUME Typed, \A p \in Proc : Candid(p), [CommandNext]_command
    PROVE  \A p \in Proc : Candid(p)'
<1>0. Domains /\ \A p \in Proc : summary[p] \subseteq Counter
  BY DEF Typed, CommandTypeOK, Domains
<1>1. CASE UNCHANGED command
  BY <1>1 DEF command, process, Candid
<1>2. ASSUME NEW p \in Proc, NEW r \in Proc, r # p, NEW a \in Lines[p], Launch(p, a)
      PROVE  Candid(r)'
  BY <1>0, <1>2, OthersCandid DEF Launch, Ends, Domains
<1>3. ASSUME NEW p \in Proc, NEW r \in Proc, r # p, NEW found \in Outcome, Sweep(p, found)
      PROVE  Candid(r)'
  BY <1>0, <1>3, OthersCandid DEF Sweep, Domains
<1>4. ASSUME NEW p \in Proc, NEW r \in Proc, r # p,
             \/ Configure(p) \/ CheckHealth(p) \/ DryRun(p) \/ Local(p) \/ WriteRecord(p)
             \/ SweepFails(p) \/ Report(p) \/ Wake(p) \/ Kill(p)
      PROVE  Candid(r)'
  BY <1>0, <1>4, OthersCandid
  DEF Configure, CheckHealth, DryRun, Local, WriteRecord, SweepFails, Report, Wake, Kill,
      GiveUp, Ends, Domains
<1>5. ASSUME NEW p \in Proc, NEW a \in Lines[p], Launch(p, a)
      PROVE  \A r \in Proc : Candid(r)'
  BY <1>0, <1>2, <1>5, LaunchCandid
<1>6. ASSUME NEW p \in Proc, NEW found \in Outcome, Sweep(p, found)
      PROVE  \A r \in Proc : Candid(r)'
  BY <1>0, <1>3, <1>6, SweepCandid
<1>7. ASSUME NEW p \in Proc,
             \/ Configure(p) \/ CheckHealth(p) \/ DryRun(p) \/ Local(p) \/ WriteRecord(p)
             \/ SweepFails(p) \/ Report(p) \/ Wake(p) \/ Kill(p)
      PROVE  \A r \in Proc : Candid(r)'
  BY <1>0, <1>4, <1>7, ProcessCandid
<1>8. CASE Tick \/ SetBack
  BY <1>8 DEF Tick, SetBack, process, Candid
<1>9. CASE PowerCut
  BY <1>0, <1>9 DEF PowerCut, Candid
<1> QED  BY <1>1, <1>5, <1>6, <1>7, <1>8, <1>9 DEF CommandNext

-----------------------------------------------------------------------------
(* Theorems *)

LEMMA CommandSteps == ASSUME [Next]_all PROVE [CommandNext]_command
  BY DEF Next, all, command, sidecar, process

LEMMA CommandIsTruthful == Spec => []Truthful
<1>1. Init => Truthful
  BY InitTyped, InitWitnessed, InitCandid DEF Init, Truthful
<1>2. Truthful /\ [Next]_all => Truthful'
  BY CommandSteps, NextTyped, NextWitnessed, NextCandid DEF Truthful
<1> QED  BY <1>1, <1>2, PTL DEF Spec

(* What a caller concludes from exit code and JSON document is right, and no *)
(* option was accepted that the mode does not heed (run, run_once_cmd,       *)
(* RunError's document, the exit codes of src/bin/exporter.rs).              *)
THEOREM ExitAndDocumentAgree == Spec => []AnswersAreHonest
<1>1. Truthful => AnswersAreHonest
  BY NotConflicting DEF Truthful, Candid, AnswersAreHonest
<1> QED  BY <1>1, CommandIsTruthful, PTL

(* --health exits 0 only on a sweep that ended without a failed upload       *)
(* within the maximum age (health::check, record_success).                   *)
THEOREM HealthMeansASweep == Spec => HealthyMeansSwept
<1> DEFINE Step == \A p \in Proc :
          phase[p] = "work" /\ CommandOf(line[p]) = "--health" /\ exit'[p] = 0 =>
              \E t \in swept : t <= clock /\ clock - t <= MaxAge
<1>1. ASSUME Truthful, [CommandNext]_command PROVE Step \/ UNCHANGED command
  <2> SUFFICES ASSUME ~UNCHANGED command, NEW p \in Proc, phase[p] = "work",
                      CommandOf(line[p]) = "--health", exit'[p] = 0
               PROVE  \E t \in swept : t <= clock /\ clock - t <= MaxAge
    OBVIOUS
  <2>0. exit \in [Proc -> {-1, 0, 1, Usage, Incomplete}] /\ exit[p] = -1
    BY <1>1 DEF Truthful, Typed, CommandTypeOK
  <2>1. CASE CheckHealth(p) /\ Healthy
    <3>1. health \in swept /\ health <= clock /\ clock - health <= MaxAge
      BY <1>1, <2>1 DEF Truthful, Witnessed, Healthy
    <3> QED  BY <3>1
  <2>2. CASE CheckHealth(p) /\ ~Healthy
    BY <2>0, <2>2 DEF CheckHealth, Ends
  <2>3. ASSUME ~CheckHealth(p) PROVE FALSE
    <3>1. exit'[p] # -1
      OBVIOUS
    <3>2. ASSUME NEW r \in Proc, NEW a \in Lines[r], Launch(r, a) PROVE r # p /\ exit'[p] = exit[p]
      BY <2>0, <3>2 DEF Launch, Ends
    <3>3. ASSUME NEW r \in Proc, NEW found \in Outcome, Sweep(r, found)
          PROVE  exit'[p] = exit[p]
      BY <2>0, <3>3 DEF Sweep
    <3>4. ASSUME NEW r \in Proc, r # p,
                 \/ Configure(r) \/ CheckHealth(r) \/ DryRun(r) \/ Local(r) \/ WriteRecord(r)
                 \/ SweepFails(r) \/ Report(r) \/ Wake(r) \/ Kill(r)
          PROVE  exit'[p] = exit[p]
      BY <2>0, <3>4
      DEF Configure, CheckHealth, DryRun, Local, WriteRecord, SweepFails, Report, Wake, Kill,
          GiveUp, Ends
    <3>5. ASSUME \/ Configure(p) \/ DryRun(p) \/ Local(p) \/ WriteRecord(p)
                 \/ SweepFails(p) \/ Report(p) \/ Wake(p) \/ Kill(p)
          PROVE  exit'[p] = exit[p]
      BY <2>0, <3>5
      DEF Configure, DryRun, Local, WriteRecord, SweepFails, Report, Wake, Kill,
          Doing, Mode, Sweeping
    <3>6. ASSUME Tick \/ SetBack \/ PowerCut PROVE exit'[p] = -1
      BY <2>0, <3>6 DEF Tick, SetBack, PowerCut, process
    <3> QED
      BY <1>1, <2>0, <2>3, <3>2, <3>3, <3>4, <3>5, <3>6 DEF CommandNext
  <2> QED  BY <2>1, <2>2, <2>3
<1>2. Truthful /\ [Next]_all => [Step]_command
  BY <1>1, CommandSteps
<1> QED  BY <1>2, CommandIsTruthful, PTL DEF Spec, HealthyMeansSwept

-----------------------------------------------------------------------------
(* Opening a durable root *)

Held == {"child", "database", "open", "verify", "opened"}

(* Besides its type: what it is about to enter has a proper name.           *)
Walking ==
    /\ SecureRootTypeOK
    /\ at = "enter" => pending # <<>> /\ Head(pending) \in Name

(* What is held was checked when it was opened. *)
HoldsItsOwn ==
    /\ \A i \in DOMAIN stack : Trusted(stack[i]) \/ stack[i] = Slash
    /\ at \in Held => Len(stack) > 1 /\ Private(Top) /\ (create => Top \in narrowed)
    /\ at \in Held \ {"child"} => Private(objects)

(* Where SQLite's path leads, and where it went, as replacements add up: of *)
(* the two comparisons of the path with the descriptor one replacement can  *)
(* upset only one.                                                         *)
OneSwapIsSeen ==
    /\ at = "open" /\ swaps = 0 => Leads = Top
    /\ at = "verify" /\ swaps = 0 => base = Top
    /\ at = "verify" /\ swaps = 1 => base = Top \/ base = Leads
    /\ at = "opened" /\ swaps < 2 => base = Top

Guarded == Walking /\ HoldsItsOwn /\ OneSwapIsSeen

-----------------------------------------------------------------------------
(* What the steps keep of the descriptors held and the names to resolve *)

LEMMA StackFacts ==
    ASSUME Walking
    PROVE  /\ Len(stack) \in Nat \ {0} /\ DOMAIN stack = 1 .. Len(stack)
           /\ Top \in Node \ Link /\ Top = stack[Len(stack)]
           /\ \A i \in DOMAIN stack : stack[i] \in Node \ Link
<1>1. stack \in Seq(Node \ Link) /\ stack # <<>>
  BY DEF Walking, SecureRootTypeOK
<1>2. Len(stack) \in Nat \ {0} /\ DOMAIN stack = 1 .. Len(stack)
  BY <1>1, EmptySeq, LenProperties
<1>3. \A i \in 1 .. Len(stack) : stack[i] \in Node \ Link
  BY <1>1, ElementOfSeq
<1> QED  BY <1>2, <1>3 DEF Top, Last

LEMMA FrontFacts ==
    ASSUME NEW S, NEW s \in Seq(S), Len(s) > 0
    PROVE  /\ Front(s) \in Seq(S) /\ Len(Front(s)) = Len(s) - 1
           /\ DOMAIN Front(s) = 1 .. Len(s) - 1
           /\ \A i \in 1 .. Len(s) - 1 : Front(s)[i] = s[i]
<1>1. Len(s) \in Nat
  BY LenProperties
<1>2. \A i \in 1 .. Len(s) - 1 : s[i] \in S
  BY <1>1, ElementOfSeq
<1>3. /\ SubSeq(s, 1, Len(s) - 1) \in Seq(S)
      /\ Len(SubSeq(s, 1, Len(s) - 1)) = IF 1 <= Len(s) - 1 THEN Len(s) - 1 - 1 + 1 ELSE 0
      /\ \A i \in 1 .. Len(s) - 1 - 1 + 1 : SubSeq(s, 1, Len(s) - 1)[i] = s[1 + i - 1]
  BY <1>1, <1>2, SubSeqProperties
<1>4. Len(Front(s)) = Len(s) - 1
  <2> DEFINE n == Len(s) - 1
  <2>0. \A k \in Nat : k > 0 => k - 1 \in Nat
    OBVIOUS
  <2>1. n \in Nat
    BY <1>1, <2>0
  <2>2. Len(SubSeq(s, 1, n)) = IF 1 <= n THEN n - 1 + 1 ELSE 0
    BY <1>3
  <2> HIDE DEF n
  <2>3. Len(SubSeq(s, 1, n)) = n
    BY <2>1, <2>2
  <2> QED  BY <2>3 DEF Front, n
<1>5. DOMAIN Front(s) = 1 .. Len(s) - 1
  BY <1>3, <1>4, LenProperties DEF Front
<1> QED  BY <1>1, <1>3, <1>4, <1>5 DEF Front

LEMMA NextName ==
    ASSUME Walking, pending # <<>>
    PROVE  /\ Head(pending) \in Name \cup {".."}
           /\ Tail(pending) \in Seq(Name \cup {".."})
  BY HeadTailProperties DEF Walking, SecureRootTypeOK

LEMMA InitWalking == ASSUME SecureRootInit PROVE Walking
<1>1. stack \in Seq(Node \ Link) /\ stack # <<>> /\ stack[1] = Slash /\ Len(stack) = 1
  BY SecureRootAssumption DEF SecureRootInit
<1>2. path \in Seq(Name) /\ Len(path) = 0
  BY EmptySeq DEF SecureRootInit
<1>3. entry \in [(Node \ Link) \X Name -> Node \cup {Free}]
  BY SecureRootAssumption DEF SecureRootInit
<1> QED
  BY <1>1, <1>2, <1>3, SecureRootAssumption DEF SecureRootInit, Walking, SecureRootTypeOK, Steps

(* Steps that leave the walk alone. *)
LEMMA StayingWalking ==
    ASSUME Walking, entry' \in [(Node \ Link) \X Name -> Node \cup {Free}],
           narrowed' \subseteq Node, swaps' \in 0 .. MaxSwaps, at' \in Steps,
           UNCHANGED <<create, stack, path, pending, followed>>,
           objects' \in Node \cup {Free}, base' \in Node \cup {Free},
           at' = "enter" => pending # <<>> /\ Head(pending) \in Name
    PROVE  Walking'
  BY DEF Walking, SecureRootTypeOK

LEMMA RefuseWalking == ASSUME Walking, Refuse PROVE Walking'
<1>1. at' = "refused" /\ UNCHANGED <<entry, walk, swaps, objects, base>>
  BY DEF Refuse
<1> QED  BY <1>1, StayingWalking DEF walk, Walking, SecureRootTypeOK, Steps

LEMMA UpWalking == ASSUME Walking, Up PROVE Walking'
<1>1. Tail(pending) \in Seq(Name \cup {".."})
  BY NextName DEF Up
<1>2. at' = "look" /\ pending' = Tail(pending)
      /\ UNCHANGED <<entry, narrowed, swaps, create, followed, objects, base>>
  BY DEF Up
<1>3. /\ stack' \in Seq(Node \ Link) /\ stack' # <<>> /\ stack'[1] = Slash
      /\ path' \in Seq(Name) /\ Len(stack') = Len(path') + 1
  <2>0. /\ stack \in Seq(Node \ Link) /\ path \in Seq(Name) /\ stack # <<>>
        /\ stack[1] = Slash /\ Len(stack) = Len(path) + 1
    BY DEF Walking, SecureRootTypeOK
  <2>1. CASE Len(stack) > 1
    <3>0. stack' = Front(stack) /\ path' = Front(path)
      BY <2>1 DEF Up
    <3>1. Len(stack) \in Nat /\ Len(path) \in Nat
      BY <2>0, LenProperties
    <3>2. /\ Front(stack) \in Seq(Node \ Link) /\ Len(Front(stack)) = Len(stack) - 1
          /\ Front(stack)[1] = stack[1]
      BY <2>0, <2>1, <3>1, FrontFacts
    <3>3. Front(path) \in Seq(Name) /\ Len(Front(path)) = Len(path) - 1
      BY <2>0, <2>1, <3>1, FrontFacts
    <3>4. Front(stack) # <<>>
      BY <2>1, <3>1, <3>2, EmptySeq
    <3> QED  BY <2>0, <3>0, <3>1, <3>2, <3>3, <3>4
  <2>2. CASE ~(Len(stack) > 1)
    BY <2>0, <2>2 DEF Up
  <2> QED  BY <2>1, <2>2
<1> QED  BY <1>1, <1>2, <1>3 DEF Walking, SecureRootTypeOK, Steps

LEMMA FollowWalking == ASSUME Walking, Follow PROVE Walking'
<1>1. CASE Refuse
  BY <1>1, RefuseWalking
<1>2. ASSUME TrustedLink(Found), followed' = followed + 1,
             stack' = IF Target[Found].absolute THEN <<Slash>> ELSE stack,
             path' = IF Target[Found].absolute THEN <<>> ELSE path,
             pending' = Target[Found].parts \o Tail(pending),
             UNCHANGED <<entry, narrowed, swaps, at, create, objects, base>>
      PROVE  Walking'
  <2>1. followed' \in 0 .. MaxLinks
    BY <1>2, SecureRootAssumption DEF TrustedLink, Walking, SecureRootTypeOK
  <2>2. pending' \in Seq(Name \cup {".."})
    <3>1. Found \in Link /\ Tail(pending) \in Seq(Name \cup {".."})
      BY NextName DEF Follow
    <3>2. Target[Found].parts \in Seq(Name \cup {".."})
      BY <3>1, SecureRootAssumption
    <3> QED  BY <1>2, <3>1, <3>2, ConcatProperties
  <2>3. /\ stack' \in Seq(Node \ Link) /\ stack' # <<>> /\ stack'[1] = Slash
        /\ path' \in Seq(Name) /\ Len(stack') = Len(path') + 1
    <3>1. CASE Target[Found].absolute
      <4>1. stack' = <<Slash>> /\ path' = <<>>
        BY <1>2, <3>1
      <4>2. <<Slash>> \in Seq(Node \ Link) /\ Len(<<Slash>>) = 1 /\ <<Slash>> # <<>>
        BY SecureRootAssumption
      <4>3. <<>> \in Seq(Name) /\ Len(path') = 0
        BY <4>1, EmptySeq
      <4> QED  BY <4>1, <4>2, <4>3
    <3>2. CASE ~Target[Found].absolute
      BY <1>2, <3>2 DEF Walking, SecureRootTypeOK
    <3> QED  BY <3>1, <3>2
  <2>4. at' = "look"
    BY <1>2 DEF Follow
  <2> QED  BY <1>2, <2>1, <2>2, <2>3, <2>4 DEF Walking, SecureRootTypeOK, Steps
<1> QED  BY <1>1, <1>2 DEF Follow

LEMMA EntryIn ==
    ASSUME Walking, NEW e \in DOMAIN entry, NEW n \in Node \cup {Free}
    PROVE  [entry EXCEPT ![e] = n] \in [(Node \ Link) \X Name -> Node \cup {Free}]
  BY DEF Walking, SecureRootTypeOK

LEMMA HereIn ==
    ASSUME Walking, NEW n \in Name
    PROVE  <<Top, n>> \in DOMAIN entry
  BY StackFacts DEF Walking, SecureRootTypeOK

LEMMA MakeWalking == ASSUME Walking, NEW n \in Node, Make(n) PROVE Walking'
<1>1. CASE Refuse
  BY <1>1, RefuseWalking
<1>2. ASSUME entry' = [entry EXCEPT ![<<Top, Head(pending)>>] = n], at' = "enter",
             UNCHANGED <<walk, swaps, objects, base>>
      PROVE  Walking'
  <2>1. pending # <<>> /\ Head(pending) \in Name
    BY NextName DEF Make
  <2>2. entry' \in [(Node \ Link) \X Name -> Node \cup {Free}]
    BY <1>2, <2>1, HereIn, EntryIn
  <2> QED  BY <1>2, <2>1, <2>2, StayingWalking DEF walk, Walking, SecureRootTypeOK, Steps
<1> QED  BY <1>1, <1>2 DEF Make

LEMMA LookWalking == ASSUME Walking, Look PROVE Walking'
<1>1. pending # <<>> /\ Head(pending) \in Name
  BY NextName DEF Look
<1>2. at' = "enter" /\ UNCHANGED <<entry, walk, swaps, objects, base>>
  BY DEF Look
<1> QED  BY <1>1, <1>2, StayingWalking DEF walk, Walking, SecureRootTypeOK, Steps

LEMMA EnterWalking == ASSUME Walking, Enter PROVE Walking'
<1>1. CASE Refuse
  BY <1>1, RefuseWalking
<1>2. ASSUME Found \in Node \ Link, stack' = Append(stack, Found),
             path' = Append(path, Head(pending)), pending' = Tail(pending), at' = "look",
             UNCHANGED <<entry, narrowed, swaps, create, followed, objects, base>>
      PROVE  Walking'
  <2>1. pending # <<>> /\ Head(pending) \in Name
    BY DEF Enter, Walking
  <2>2. Tail(pending) \in Seq(Name \cup {".."})
    BY <2>1, NextName
  <2>3. stack \in Seq(Node \ Link) /\ path \in Seq(Name) /\ Len(stack) = Len(path) + 1
        /\ stack[1] = Slash
    BY DEF Walking, SecureRootTypeOK
  <2>4. /\ stack' \in Seq(Node \ Link) /\ stack' # <<>> /\ stack'[1] = Slash
        /\ Len(stack') = Len(stack) + 1
    BY <1>2, <2>3, StackFacts, AppendProperties
  <2>5. path' \in Seq(Name) /\ Len(path') = Len(path) + 1
    BY <1>2, <2>1, <2>3, AppendProperties
  <2> QED  BY <1>2, <2>2, <2>3, <2>4, <2>5 DEF Walking, SecureRootTypeOK, Steps
<1> QED  BY <1>1, <1>2 DEF Enter

LEMMA HoldWalking == ASSUME Walking, Hold PROVE Walking'
<1>1. CASE Refuse
  BY <1>1, RefuseWalking
<1>2. ASSUME narrowed' = IF create THEN narrowed \cup {Top} ELSE narrowed, at' = "child",
             UNCHANGED <<entry, swaps, create, stack, path, pending, followed, objects, base>>
      PROVE  Walking'
  <2>1. narrowed' \subseteq Node
    BY <1>2, StackFacts DEF Walking, SecureRootTypeOK
  <2> QED  BY <1>2, <2>1, StayingWalking DEF Walking, SecureRootTypeOK, Steps
<1> QED  BY <1>1, <1>2 DEF Hold

LEMMA OpenChildWalking == ASSUME Walking, NEW n \in Node, OpenChild(n) PROVE Walking'
<1>0. <<Top, Child>> \in DOMAIN entry
  BY HereIn, SecureRootAssumption
<1>1. CASE Refuse
  BY <1>1, RefuseWalking
<1>2. ASSUME entry' = [entry EXCEPT ![<<Top, Child>>] = n], objects' = n,
             at' = "database", UNCHANGED <<walk, swaps, base>>
      PROVE  Walking'
  <2>1. entry' \in [(Node \ Link) \X Name -> Node \cup {Free}]
    BY <1>0, <1>2, EntryIn
  <2> QED  BY <1>2, <2>1, StayingWalking DEF walk, Walking, SecureRootTypeOK, Steps
<1>3. ASSUME objects' = entry[<<Top, Child>>], at' = "database",
             UNCHANGED <<entry, walk, swaps, base>>
      PROVE  Walking'
  <2>1. objects' \in Node \cup {Free}
    BY <1>0, <1>3 DEF Walking, SecureRootTypeOK
  <2> QED  BY <1>3, <2>1, StayingWalking DEF walk, Walking, SecureRootTypeOK, Steps
<1> QED  BY <1>1, <1>2, <1>3 DEF OpenChild

LEMMA DatabaseWalking ==
    ASSUME Walking, VerifyBefore \/ OpenDatabase \/ VerifyAfter PROVE Walking'
<1>1. CASE Refuse
  BY <1>1, RefuseWalking
<1>2. ASSUME at' \in {"open", "verify", "opened"}, base' \in {base, Leads},
             base' = Leads => Leads \in Node \cup {Free},
             UNCHANGED <<entry, walk, swaps, objects>>
      PROVE  Walking'
  BY <1>2, StayingWalking DEF walk, Walking, SecureRootTypeOK, Steps
<1>3. base \in Node \cup {Free}
  BY DEF Walking, SecureRootTypeOK
<1>4. CASE VerifyBefore
  BY <1>1, <1>2, <1>3, <1>4 DEF VerifyBefore
<1>5. CASE OpenDatabase
  BY <1>1, <1>2, <1>5 DEF OpenDatabase
<1>6. CASE VerifyAfter
  BY <1>1, <1>2, <1>3, <1>6 DEF VerifyAfter
<1> QED  BY <1>4, <1>5, <1>6

LEMMA SwapWalking ==
    ASSUME Walking, NEW e \in DOMAIN entry, NEW n \in Node \cup {Free}, Swap(e, n)
    PROVE  Walking'
<1>1. swaps' \in 0 .. MaxSwaps
  BY SecureRootAssumption DEF Swap, Walking, SecureRootTypeOK
<1>2. entry' \in [(Node \ Link) \X Name -> Node \cup {Free}]
  BY EntryIn DEF Swap
<1> QED  BY <1>1, <1>2, StayingWalking DEF Swap, walk, Walking, SecureRootTypeOK

LEMMA StepWalking == ASSUME Walking, [SecureRootNext]_root PROVE Walking'
<1>1. CASE UNCHANGED root
  BY <1>1 DEF root, Walking, SecureRootTypeOK
<1>2. ASSUME NEW n \in Node, Make(n) \/ OpenChild(n) PROVE Walking'
  BY <1>2, MakeWalking, OpenChildWalking
<1>3. ASSUME NEW e \in DOMAIN entry, NEW n \in Node \cup {Free}, Swap(e, n) PROVE Walking'
  BY <1>3, SwapWalking
<1> QED
  BY <1>1, <1>2, <1>3, UpWalking, FollowWalking, LookWalking, EnterWalking, HoldWalking,
     DatabaseWalking
  DEF SecureRootNext

-----------------------------------------------------------------------------
(* Nothing is entered unchecked, and what was checked stays held *)

LEMMA InitHolds == ASSUME SecureRootInit PROVE HoldsItsOwn
<1>1. DOMAIN stack = {1} /\ stack[1] = Slash
  BY DEF SecureRootInit
<1> QED  BY <1>1 DEF SecureRootInit, HoldsItsOwn, Held

LEMMA StayingHolds ==
    ASSUME HoldsItsOwn, UNCHANGED <<create, stack, narrowed>>,
           at' \in Held => at \in Held /\ (at' = "child" \/ Private(objects'))
    PROVE  HoldsItsOwn'
<1>1. Top' = Top
  BY DEF Top
<1>2. \A i \in DOMAIN stack' : Trusted(stack'[i]) \/ stack'[i] = Slash
  BY DEF HoldsItsOwn
<1> QED  BY <1>1, <1>2 DEF HoldsItsOwn, Trusted, Private

LEMMA RefuseHolds == ASSUME HoldsItsOwn, Refuse PROVE HoldsItsOwn'
  BY StayingHolds DEF Refuse, walk, Held

LEMMA UpHolds == ASSUME Walking, HoldsItsOwn, Up PROVE HoldsItsOwn'
<1>1. at' \notin Held
  BY DEF Up, Held
<1>2. \A i \in DOMAIN stack' : Trusted(stack'[i]) \/ stack'[i] = Slash
  <2>1. stack \in Seq(Node \ Link) /\ DOMAIN stack = 1 .. Len(stack) /\ Len(stack) \in Nat
    BY StackFacts DEF Walking, SecureRootTypeOK
  <2>2. CASE Len(stack) > 1
    <3>1. /\ DOMAIN Front(stack) = 1 .. Len(stack) - 1
          /\ \A i \in 1 .. Len(stack) - 1 : Front(stack)[i] = stack[i]
      BY <2>1, <2>2, FrontFacts
    <3>2. stack' = Front(stack)
      BY <2>2 DEF Up
    <3> QED  BY <2>1, <3>1, <3>2 DEF HoldsItsOwn
  <2>3. CASE ~(Len(stack) > 1)
    BY <2>3 DEF Up, HoldsItsOwn
  <2> QED  BY <2>2, <2>3
<1> QED  BY <1>1, <1>2 DEF HoldsItsOwn, Trusted

LEMMA FollowHolds == ASSUME HoldsItsOwn, Follow PROVE HoldsItsOwn'
<1>1. CASE Refuse
  BY <1>1, RefuseHolds
<1>2. ASSUME stack' \in {<<Slash>>, stack}, UNCHANGED at
      PROVE  HoldsItsOwn'
  <2>1. at' \notin Held
    BY <1>2 DEF Follow, Held
  <2>2. DOMAIN <<Slash>> = {1} /\ <<Slash>>[1] = Slash
    OBVIOUS
  <2>3. \A i \in DOMAIN stack' : Trusted(stack'[i]) \/ stack'[i] = Slash
    BY <1>2, <2>2 DEF HoldsItsOwn
  <2> QED  BY <2>1, <2>3 DEF HoldsItsOwn, Trusted
<1> QED  BY <1>1, <1>2 DEF Follow

LEMMA EnterHolds == ASSUME Walking, HoldsItsOwn, Enter PROVE HoldsItsOwn'
<1>1. CASE Refuse
  BY <1>1, RefuseHolds
<1>2. ASSUME Found \in Node \ Link, Trusted(Found), stack' = Append(stack, Found), at' = "look"
      PROVE  HoldsItsOwn'
  <2>1. stack \in Seq(Node \ Link) /\ DOMAIN stack = 1 .. Len(stack) /\ Len(stack) \in Nat
    BY StackFacts DEF Walking, SecureRootTypeOK
  <2>2. /\ stack' \in Seq(Node \ Link) /\ Len(stack') = Len(stack) + 1
        /\ \A i \in 1 .. Len(stack) : stack'[i] = stack[i]
        /\ stack'[Len(stack) + 1] = Found
    BY <1>2, <2>1, AppendProperties
  <2>3. DOMAIN stack' = 1 .. Len(stack) + 1
    BY <2>2, LenProperties
  <2>4. \A i \in DOMAIN stack' : Trusted(stack'[i]) \/ stack'[i] = Slash
    <3>1. ASSUME NEW i \in DOMAIN stack' PROVE i \in DOMAIN stack \/ i = Len(stack) + 1
      BY <2>1, <2>3
    <3> QED  BY <1>2, <2>1, <2>2, <3>1 DEF HoldsItsOwn
  <2> QED  BY <1>2, <2>4 DEF HoldsItsOwn, Trusted, Held
<1> QED  BY <1>1, <1>2 DEF Enter

LEMMA HoldHolds == ASSUME Walking, HoldsItsOwn, Hold PROVE HoldsItsOwn'
<1>1. CASE Refuse
  BY <1>1, RefuseHolds
<1>2. ASSUME Len(stack) > 1, Private(Top), at' = "child", UNCHANGED <<create, stack>>,
             narrowed' = IF create THEN narrowed \cup {Top} ELSE narrowed
      PROVE  HoldsItsOwn'
  <2>1. Top' = Top
    BY <1>2 DEF Top
  <2>2. \A i \in DOMAIN stack' : Trusted(stack'[i]) \/ stack'[i] = Slash
    BY <1>2 DEF HoldsItsOwn
  <2> QED  BY <1>2, <2>1, <2>2 DEF HoldsItsOwn, Trusted, Private
<1> QED  BY <1>1, <1>2 DEF Hold

LEMMA OpenChildHolds ==
    ASSUME HoldsItsOwn, NEW n \in Node, OpenChild(n) PROVE HoldsItsOwn'
<1>1. CASE Refuse
  BY <1>1, RefuseHolds
<1>2. ASSUME Private(objects'), UNCHANGED walk PROVE HoldsItsOwn'
  BY <1>2, StayingHolds DEF OpenChild, walk, Held
<1>3. \A k \in Fresh : Private(k)
  BY SecureRootAssumption DEF Private
<1> QED  BY <1>1, <1>2, <1>3 DEF OpenChild

LEMMA StepHolds == ASSUME Walking, HoldsItsOwn, [SecureRootNext]_root PROVE HoldsItsOwn'
<1>1. CASE UNCHANGED root
  BY <1>1, StayingHolds DEF root, HoldsItsOwn
<1>2. ASSUME NEW n \in Node, Make(n) \/ OpenChild(n) PROVE HoldsItsOwn'
  BY <1>2, RefuseHolds, StayingHolds, OpenChildHolds DEF Make, walk, Held
<1>3. ASSUME NEW e \in DOMAIN entry, NEW n \in Node \cup {Free}, Swap(e, n)
      PROVE  HoldsItsOwn'
  BY <1>3, StayingHolds DEF Swap, walk, HoldsItsOwn
<1>4. CASE Look
  BY <1>4, StayingHolds DEF Look, walk, Held
<1>5. CASE VerifyBefore \/ OpenDatabase \/ VerifyAfter
  <2>1. CASE Refuse
    BY <2>1, RefuseHolds
  <2>2. CASE ~Refuse
    <3>1. /\ at \in Held \ {"child"} /\ at' \in Held \ {"child"}
          /\ UNCHANGED <<walk, objects>>
      BY <1>5, <2>2 DEF VerifyBefore, OpenDatabase, VerifyAfter, Held
    <3>2. Private(objects)
      BY <3>1 DEF HoldsItsOwn
    <3> QED  BY <3>1, <3>2, StayingHolds DEF walk
  <2> QED  BY <2>1, <2>2
<1> QED
  BY <1>1, <1>2, <1>3, <1>4, <1>5, UpHolds, FollowHolds, EnterHolds, HoldHolds
  DEF SecureRootNext

-----------------------------------------------------------------------------
(* One replacement upsets one comparison *)

LEMMA LeadsStays == ASSUME UNCHANGED <<entry, path>> PROVE Leads' = Leads
  BY DEF Leads, Reached

LEMMA StepSeesOneSwap ==
    ASSUME Walking, OneSwapIsSeen, [SecureRootNext]_root PROVE OneSwapIsSeen'
<1> DEFINE Late == {"open", "verify", "opened"}
<1>0. swaps \in Nat
  BY SecureRootAssumption DEF Walking, SecureRootTypeOK
<1>1. ASSUME at' \notin Late PROVE OneSwapIsSeen'
  BY <1>1 DEF OneSwapIsSeen
<1>2. ASSUME UNCHANGED <<entry, path, stack>> PROVE Leads' = Leads /\ Top' = Top
  BY <1>2, LeadsStays DEF Top
<1>3. CASE UNCHANGED root
  BY <1>2, <1>3 DEF root, OneSwapIsSeen
<1>4. CASE VerifyBefore
  <2>1. CASE Verified /\ at' = "open" /\ UNCHANGED <<entry, walk, swaps, objects, base>>
    BY <1>2, <2>1 DEF walk, Verified, OneSwapIsSeen
  <2>2. CASE Refuse
    BY <1>1, <2>2 DEF Refuse
  <2> QED  BY <1>4, <2>1, <2>2 DEF VerifyBefore
<1>5. CASE OpenDatabase
  <2>1. CASE base' = Leads /\ at' = "verify" /\ UNCHANGED <<entry, walk, swaps, objects>>
    <3>1. at = "open" /\ Leads' = Leads /\ Top' = Top
      BY <1>2, <1>5, <2>1 DEF walk, OpenDatabase
    <3> QED  BY <2>1, <3>1 DEF OneSwapIsSeen
  <2>2. CASE Refuse
    BY <1>1, <2>2 DEF Refuse
  <2> QED  BY <1>5, <2>1, <2>2 DEF OpenDatabase
<1>6. CASE VerifyAfter
  <2>1. CASE Verified /\ at' = "opened" /\ UNCHANGED <<entry, walk, swaps, objects, base>>
    <3>1. at = "verify" /\ Top' = Top /\ Leads = Top
      BY <1>2, <1>6, <2>1 DEF walk, Verified, VerifyAfter
    <3>2. swaps < 2 => swaps = 0 \/ swaps = 1
      BY <1>0
    <3> QED  BY <2>1, <3>1, <3>2 DEF OneSwapIsSeen
  <2>2. CASE Refuse
    BY <1>1, <2>2 DEF Refuse
  <2> QED  BY <1>6, <2>1, <2>2 DEF VerifyAfter
<1>7. ASSUME NEW e \in DOMAIN entry, NEW n \in Node \cup {Free}, Swap(e, n)
      PROVE  OneSwapIsSeen'
  <2>1. swaps' = swaps + 1 /\ at # "opened" /\ UNCHANGED <<at, stack, base>>
    BY <1>7 DEF Swap, walk
  <2>2. Top' = Top
    BY <2>1 DEF Top
  <2>3. swaps' # 0 /\ (swaps' = 1 => swaps = 0)
    BY <1>0, <2>1
  <2> QED  BY <2>1, <2>2, <2>3 DEF OneSwapIsSeen
<1>8. ASSUME NEW n \in Node, Make(n) \/ OpenChild(n) PROVE at' \notin Late
  BY <1>8 DEF Make, OpenChild, Refuse
<1>9. ASSUME Up \/ Follow \/ Look \/ Enter \/ Hold PROVE at' \notin Late
  BY <1>9 DEF Up, Follow, Look, Enter, Hold, Refuse
<1> QED
  BY <1>1, <1>3, <1>4, <1>5, <1>6, <1>7, <1>8, <1>9 DEF SecureRootNext

-----------------------------------------------------------------------------

LEMMA RootSteps == ASSUME [Next]_all PROVE [SecureRootNext]_root
  BY DEF Next, all

LEMMA RootIsGuarded == Spec => []Guarded
<1>1. Init => Guarded
  BY InitWalking, InitHolds DEF Init, Guarded, OneSwapIsSeen, SecureRootInit
<1>2. Guarded /\ [Next]_all => Guarded'
  BY RootSteps, StepWalking, StepHolds, StepSeesOneSwap DEF Guarded
<1> QED  BY <1>1, <1>2, PTL DEF Spec

(* An opening that succeeded under fewer than two replacements has the      *)
(* database in the directory that it holds, which is the user's alone, and  *)
(* passed no component that somebody else might change (SecureDir::open_root, *)
(* child, sqlite_path and verify).                                          *)
THEOREM IndexIsWhereItsObjectsAre == Spec => []IndexStaysWithItsObjects
<1>1. Guarded => IndexStaysWithItsObjects
  BY DEF Guarded, HoldsItsOwn, OneSwapIsSeen, IndexStaysWithItsObjects, Held
<1> QED  BY <1>1, RootIsGuarded, PTL

-----------------------------------------------------------------------------
(* The three together *)

(* Whatever the programs do: their state is well formed, a restorer between  *)
(* creating and renaming its temporary file has one and leaves none behind   *)
(* when it is done, and no directory handle is kept that was not accepted.   *)
THEOREM ProgramsAreTyped == Spec => []TypeOK
<1>1. Careful /\ Accounted => RestoreTypeOK
  <2> SUFFICES ASSUME Careful, Accounted PROVE RestoreTypeOK
    OBVIOUS
  <2>1. pc \in [Restorer -> Running \cup {"idle", "done", "refused"}]
    BY DEF Accounted, Points
  <2>2. ASSUME NEW p \in Restorer
        PROVE  /\ pc[p] \in {"write", "rename"} => TempName(p) \in DOMAIN temp
               /\ pc[p] = "done" => TempName(p) \notin DOMAIN temp
    BY DEF Careful, Written, Accounted, Tidy
  <2>3. \A s \in Session : store[s] \in DOMAIN Capture[s]
    BY DEF Accounted, Serving
  <2>4. Hosting /\ Filing /\ Counting
    BY DEF Accounted
  <2> QED  BY <2>1, <2>2, <2>3, <2>4 DEF RestoreTypeOK, Hosting, Filing, Counting
<1>2. Truthful => CommandTypeOK
  BY DEF Truthful, Typed
<1>3. Guarded => SecureRootTypeOK
  BY DEF Guarded, Walking
<1> QED  BY <1>1, <1>2, <1>3, RestoreInvariants, CommandIsTruthful, RootIsGuarded, PTL DEF TypeOK
==============================================================================
