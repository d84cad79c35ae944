----------------------------- MODULE Transcripts ----------------------------
(***************************************************************************)
(* The file sources, src/sources.rs and src/parsers.rs: the agents' JSONL   *)
(* transcripts are walked, opened, measured, read under a byte limit and    *)
(* turned into envelopes, while the agents create, extend and remove them.  *)
(*                                                                         *)
(* An agent writes each row in two pieces, so a transcript is known by the  *)
(* number of pieces of its Script on disk, its length; the modification     *)
(* time that the fingerprint adds distinguishes nothing of a file that      *)
(* only grows.                                                              *)
(***************************************************************************)
EXTENDS Integers, FiniteSets, Sequences

CONSTANTS
    File,
    Format,     \* "claude", "codex" or "other": directory, name and extension
    Script,     \* the rows an agent writes to each file
    Session,    \* session ids; a file's own name is one of them
    Limit,      \* bytes of source to read at most, in pieces
    Absent

(* A row is a header that may name a session, a message, a row of neither   *)
(* kind, or a line that does not parse.                                     *)
Row == [kind : {"header", "message", "other", "junk"}, session : Session, time : Nat]

ASSUME TranscriptsAssumption ==
    /\ File \subseteq Session
    /\ Format \in [File -> {"claude", "codex", "other"}]
    /\ Script \in [File -> Seq(Row)]
    /\ Limit \in Nat
    /\ Absent \notin Nat \cup File

(* Codex opens a rollout with its header, or writes none; a session keeps   *)
(* its identity on this account only.                                       *)
HeadersOpen ==
    \A f \in File : Format[f] = "codex" =>
        \A i, j \in DOMAIN Script[f] :
            Script[f][i].kind = "header" /\ Script[f][j].kind # "junk" =>
                \E h \in 1 .. j : Script[f][h].kind = "header"

VARIABLES
    length,     \* pieces of each file on disk, or Absent
    unseen,     \* files the walk has yet to come to
    touched,    \* history: files that changed since the walk began
    at, size,   \* the file that is open, and its measured length
    read,       \* pieces of it in memory
    yield,      \* the envelopes of this walk, by file
    oversize,   \* the files this walk reported as too large
    store       \* history: the last envelope made of each file, over all walks

files == <<length, unseen, touched, at, size, read, yield, oversize, store>>

Matching == {f \in File : Format[f] # "other"}
Envelope == [session : Session, raw : Nat, print : Nat, messages : Nat,
             started : Nat, last : Nat]

(* Type correctness; every walk holds one file at a time, and never more of *)
(* it than the limit and one byte.                                          *)
FilesTypeOK ==
    /\ length \in [File -> Nat \cup {Absent}]
    /\ unseen \subseteq File /\ touched \subseteq File
    /\ at \in File \cup {Absent}
    /\ size \in Nat /\ read \in 0 .. Limit + 1
    /\ \A f \in DOMAIN yield : f \in Matching /\ yield[f] \in Envelope
    /\ oversize \subseteq Matching \ DOMAIN yield
    /\ \A f \in DOMAIN store : f \in Matching /\ store[f] \in Envelope
    /\ at = Absent => size = 0 /\ read = 0

Nothing == [f \in {} |-> 0]

FilesInit ==
    /\ length = [f \in File |-> Absent]
    /\ unseen = File /\ touched = {}
    /\ at = Absent /\ size = 0 /\ read = 0
    /\ yield = Nothing /\ oversize = {} /\ store = Nothing

-----------------------------------------------------------------------------
(* Parsing: read_claude and read_codex of the first n pieces *)

Rows(f, n) == {i \in 1 .. n \div 2 : Script[f][i].kind # "junk"}
First(S) == CHOOSE i \in S : \A j \in S : i <= j
Last(S)  == CHOOSE i \in S : \A j \in S : i >= j
Headers(f, n) == {i \in Rows(f, n) : Script[f][i].kind = "header"}

(* Slip: the last header names the session. *)
SessionOfLast(f, n) ==
    IF Format[f] = "codex" /\ Headers(f, n) # {}
    THEN Script[f][Last(Headers(f, n))].session ELSE f

(* Claude names the file after the session.  Codex writes it into its first *)
(* header, after which a fork repeats those of its ancestors; without one   *)
(* the file's name stands in.                                               *)
SessionOf(f, n) ==
    IF Format[f] = "codex" /\ Headers(f, n) # {}
    THEN Script[f][First(Headers(f, n))].session ELSE f

Times(f, n) == {i \in Rows(f, n) : Script[f][i].time > 0}

(* time_bounds: times that run backwards collapse; without any it is now,   *)
(* which 0 stands for.                                                      *)
Started(f, n) == IF Times(f, n) = {} THEN 0 ELSE Script[f][First(Times(f, n))].time

LastActivity(f, n) ==
    IF Times(f, n) = {} THEN 0
    ELSE LET last == Script[f][Last(Times(f, n))].time
         IN IF last >= Started(f, n) THEN last ELSE Started(f, n)

Parsed(f, n, m) ==
    [session |-> SessionOf(f, n), raw |-> n, print |-> m,
     messages |-> Cardinality({i \in Rows(f, n) : Script[f][i].kind = "message"}),
     started |-> Started(f, n), last |-> LastActivity(f, n)]

-----------------------------------------------------------------------------
(* The walk *)

(* A file that does not match, or is not there when its turn comes.         *)
Pass(f) ==
    /\ at = Absent /\ f \in unseen
    /\ Format[f] = "other" \/ length[f] = Absent
    /\ unseen' = unseen \ {f}
    /\ UNCHANGED <<length, touched, at, size, read, yield, oversize, store>>

(* Slip: a file that is too large is passed over in silence. *)
OpenSmall(f) ==
    /\ at = Absent /\ f \in unseen \cap Matching /\ length[f] # Absent
    /\ unseen' = unseen \ {f}
    /\ IF length[f] > Limit THEN UNCHANGED <<at, size>> ELSE at' = f /\ size' = length[f]
    /\ UNCHANGED <<length, touched, read, yield, oversize, store>>

(* read_transcript: the file is opened and measured on the handle; from now *)
(* on its removal does not matter.                                          *)
Open(f) ==
    /\ at = Absent /\ f \in unseen \cap Matching /\ length[f] # Absent
    /\ at' = f /\ size' = length[f]
    /\ unseen' = unseen \ {f}
    /\ UNCHANGED <<length, touched, read, yield, oversize, store>>

Smaller(a, b) == IF a < b THEN a ELSE b

Close == at' = Absent /\ size' = 0 /\ read' = 0

(* Slip: once it was measured, the file is read to its end. *)
FetchAll(n) ==
    /\ at # Absent /\ size <= Limit /\ read = 0 /\ n > 0
    /\ read' = n
    /\ UNCHANGED <<length, unseen, touched, at, size, yield, oversize, store>>

(* The read, of what the file holds by then: at least what was measured.    *)
Fetch(n) ==
    /\ at # Absent /\ size <= Limit /\ read = 0 /\ n > 0
    /\ read' = Smaller(n, Limit + 1)
    /\ UNCHANGED <<length, unseen, touched, at, size, yield, oversize, store>>

Report ==
    /\ at # Absent /\ (size > Limit \/ read > Limit)
    /\ oversize' = oversize \cup {at}
    /\ Close
    /\ UNCHANGED <<length, unseen, touched, yield, store>>

Put(f, e, m) == [g \in DOMAIN m \cup {f} |-> IF g = f THEN e ELSE m[g]]

(* Slip: the length after the read is the fingerprint. *)
PrintLate(n) == IF length[at] = Absent THEN n ELSE length[at]

(* The fingerprint is of the metadata taken before the read. *)
PrintOf(n) == size

(* A read that ends within a character is no UTF-8, and is skipped; one     *)
(* that ends within a row leaves that row out of everything but raw.        *)
Visit ==
    /\ at # Absent /\ size <= Limit
    /\ read > 0 \/ length[at] = 0
    /\ read <= Limit
    /\ \/ /\ Rows(at, read) # {}
          /\ yield' = Put(at, Parsed(at, read, PrintOf(read)), yield)
          /\ store' = Put(at, Parsed(at, read, PrintOf(read)), store)
       \/ /\ Rows(at, read) = {} \/ read % 2 = 1
          /\ UNCHANGED <<yield, store>>
    /\ Close
    /\ UNCHANGED <<length, unseen, touched, oversize>>

(* The next sweep of the daemon: after this one is done, or has failed on a *)
(* directory that could not be listed.                                      *)
Again ==
    /\ at = Absent /\ unseen # File
    /\ unseen' = File /\ touched' = {}
    /\ yield' = Nothing /\ oversize' = {}
    /\ UNCHANGED <<length, at, size, read, store>>

-----------------------------------------------------------------------------
(* The agents *)

Create(f) ==
    /\ length[f] = Absent /\ f \notin DOMAIN store
    /\ length' = [length EXCEPT ![f] = 0]
    /\ touched' = touched \cup {f}
    /\ UNCHANGED <<unseen, at, size, read, yield, oversize, store>>

Extend(f) ==
    /\ length[f] # Absent /\ length[f] < 2 * Len(Script[f])
    /\ length' = [length EXCEPT ![f] = @ + 1]
    /\ touched' = touched \cup {f}
    /\ UNCHANGED <<unseen, at, size, read, yield, oversize, store>>

Remove(f) ==
    /\ length[f] # Absent /\ at # f
    /\ length' = [length EXCEPT ![f] = Absent]
    /\ touched' = touched \cup {f}
    /\ UNCHANGED <<unseen, at, size, read, yield, oversize, store>>

FilesNext ==
    \/ \E f \in File : Pass(f) \/ Open(f) \/ Create(f) \/ Extend(f) \/ Remove(f)
    \/ at # Absent /\ Fetch(length[at])
    \/ Report \/ Visit \/ Again

FilesSpec == FilesInit /\ [][FilesNext]_files

-----------------------------------------------------------------------------
(* Properties *)

(* A fingerprint never claims more than was read, and nothing that was read *)
(* exceeds the limit; an envelope's times do not run backwards.             *)
EnvelopesAreHonest ==
    \A f \in DOMAIN store :
        /\ store[f].print <= store[f].raw /\ store[f].raw <= Limit
        /\ store[f].started <= store[f].last

(* A walk misses nothing that held still: a file that nobody touched, and   *)
(* that ends with a whole row, was read to its end and fingerprinted as it   *)
(* is, or reported as too large.                                            *)
QuietFilesAreTaken ==
    unseen = {} /\ at = Absent =>
        \A f \in Matching \ touched :
            length[f] # Absent /\ length[f] % 2 = 0 /\ Rows(f, length[f]) # {} =>
                IF length[f] > Limit THEN f \in oversize
                ELSE f \in DOMAIN yield /\ yield[f].raw = length[f]
                                       /\ yield[f].print = length[f]

(* Whatever an agent appends, the session a transcript belongs to stays the *)
(* same from its first envelope on, and what is known of it only grows.     *)
IdentityIsStable ==
    [][\A f \in DOMAIN store :
          /\ store'[f].session = store[f].session
          /\ store[f].started > 0 => store'[f].started = store[f].started
          /\ store'[f].raw >= store[f].raw
          /\ store'[f].messages >= store[f].messages]_store
=============================================================================
