------------------------------- MODULE Restore ------------------------------
(***************************************************************************)
(* Bringing a session back: src/reconstitute.rs, with the qualified reader  *)
(* of src/qualified_capture.rs and the repository facts that src/gitmeta.rs *)
(* recorded when the session was captured.  Restorers fetch an envelope and *)
(* then the raw transcript, find or clone the repository, relocate the      *)
(* working directory into it and move the bytes in place, while the store   *)
(* accepts newer versions and other restorers do the same.                  *)
(*                                                                         *)
(* Paths are sequences of names.  A remote is [host, path, suffix], suffix  *)
(* for the spelling that ends in .git; host stands for what precedes the    *)
(* path, so that two spellings of one server are two hosts, as in the code. *)
(***************************************************************************)
EXTENDS Integers, FiniteSets, Sequences, FiniteSetsExt

CONSTANTS
    Restorer,               \* processes, by pid
    Session,
    Capture,                \* its versions at the store: [harness, cwd] each
    Origin,                 \* where captured: directory |-> origin, or NoOrigin
    Workplace,              \* what the restorers' directory may be a checkout of
    Tracked,                \* directories that every commit holds, its root <<>> too
    NoOrigin, Absent,
    MaxRestores, MaxMishaps \* bounds: restores begun; failures and crashes

Version == UNION {DOMAIN Capture[s] : s \in Session}
Remote  == {Origin[d] : d \in DOMAIN Origin} \ {NoOrigin}

Lists(l)    == l \in Seq({l[i] : i \in DOMAIN l})
Parent(dir) == SubSeq(dir, 1, Len(dir) - 1)

ASSUME RestoreAssumption ==
    /\ \A s \in Session : Capture[s] # <<>> /\ Lists(Capture[s])
    /\ \A s \in Session, v \in Version : v \in DOMAIN Capture[s] =>
          /\ Capture[s][v].harness \in {"ClaudeCode", "Codex"}
          /\ Lists(Capture[s][v].cwd)
    /\ Workplace \subseteq Remote \cup {NoOrigin}
    /\ \A r \in Remote : r.path # <<>> /\ NoOrigin # r /\ Absent # r
    /\ <<>> \in Tracked /\ \A w \in Tracked : Lists(w) /\ (w # <<>> => Parent(w) \in Tracked)
    /\ Absent # NoOrigin /\ MaxRestores \in Nat /\ MaxMishaps \in Nat

-----------------------------------------------------------------------------
(* What the envelope says (gitmeta), and what is made of it *)

Above(dir) == {n \in 0 .. Len(dir) : SubSeq(dir, 1, n) \in DOMAIN Origin}

(* The nearest directory upwards that holds a .git directory; its origin,  *)
(* if its config names one.                                                *)
RootOf(cwd)   == SubSeq(cwd, 1, Max(Above(cwd)))
RemoteOf(cwd) == IF Above(cwd) = {} THEN NoOrigin ELSE Origin[RootOf(cwd)]

(* owner/repo: the last two segments of the remote's path, if it has two. *)
HasSlug(remote) == remote # NoOrigin /\ Len(remote.path) >= 2
Slug(remote)    == SubSeq(remote.path, Len(remote.path) - 1, Len(remote.path))
RepoName(remote) == remote.path[Len(remote.path)]

(* Remotes are compared without the suffix. *)
SameRemote(r, t) == r # NoOrigin /\ t # NoOrigin /\ r.host = t.host /\ r.path = t.path

Named(cwd, name) == {n \in DOMAIN cwd : cwd[n] = name}

(* Slip: the first directory of that name counts. *)
RelativeToFirst(cwd, name) == SubSeq(cwd, Min(Named(cwd, name)) + 1, Len(cwd))

(* The working directory below the last directory with the repository's    *)
(* name: cwd_relative_to_repo, which fails when there is none.             *)
Relative(cwd, name) == SubSeq(cwd, Max(Named(cwd, name)) + 1, Len(cwd))

-----------------------------------------------------------------------------
VARIABLES
    store,                  \* the version of each session that is served
    checkout, tree,         \* the target's checkouts: origin, and directories
    temp, transcript,       \* files: those being written, and the sessions
    pc, job,                \* each restorer
    begun, mishaps,
    removed                 \* history: what a failing clone took away again

target == <<checkout, tree>>
files  == <<temp, transcript>>
bounds == <<begun, mishaps, removed>>
vars   == <<store, target, files, pc, job, bounds>>

Here   == <<>>              \* the restorers' own directory
Dir    == {Here} \cup {Slug(r) : r \in {t \in Remote : HasSlug(t)}}
Place  == Tracked \cup
          {Relative(Capture[s][v].cwd, RepoName(r)) :
              s \in Session, v \in Version, r \in Remote}

Idle    == [session |-> CHOOSE s \in Session : TRUE, qualified |-> FALSE,
            env |-> 0, raw |-> 0, root |-> Here, place |-> <<>>]
Running == {"envelope", "raw", "repo", "clone", "origin", "files", "relocate",
            "create", "write", "rename"}
Located == {"create", "write", "rename", "done"}

Env(p)  == Capture[job[p].session][job[p].env]
Origin0(p)  == RemoteOf(Env(p).cwd)
FileOf(p)   == <<job[p].root, job[p].place, job[p].session>>
TempName(p) == <<FileOf(p), p>>

(* Type correctness; a restorer between creating and renaming its temporary *)
(* file has one, and one that is done has none left.                        *)
RestoreTypeOK ==
    /\ \A s \in Session : store[s] \in DOMAIN Capture[s]
    /\ checkout \in [Dir -> Remote \cup {NoOrigin, Absent}]
    /\ tree \in [Dir -> SUBSET Tracked]
    /\ \A f \in DOMAIN temp : temp[f] \in [version : Version, whole : BOOLEAN]
    /\ \A f \in DOMAIN transcript : transcript[f] \in
          [version : Version, whole : BOOLEAN, by : BOOLEAN, env : Version]
    /\ pc \in [Restorer -> Running \cup {"idle", "done", "refused"}]
    /\ removed \subseteq Dir /\ begun \in 0 .. MaxRestores /\ mishaps \in 0 .. MaxMishaps
    /\ \A p \in Restorer :
          /\ pc[p] \in {"write", "rename"} => TempName(p) \in DOMAIN temp
          /\ pc[p] = "done" => TempName(p) \notin DOMAIN temp

RestoreInit ==
    /\ store = [s \in Session |-> 1]
    /\ \E w \in Workplace :
          /\ checkout = [d \in Dir |-> IF d = Here THEN w ELSE Absent]
          /\ tree = [d \in Dir |-> IF d = Here /\ w # NoOrigin
                                   THEN Tracked ELSE {}]
    /\ temp = <<>> /\ transcript = <<>>
    /\ pc = [p \in Restorer |-> "idle"]
    /\ job = [p \in Restorer |-> Idle]
    /\ begun = 0 /\ mishaps = 0 /\ removed = {}

-----------------------------------------------------------------------------
(* External: an exporter somewhere has a newer version accepted. *)
Accept(s) ==
    /\ store[s] + 1 \in DOMAIN Capture[s]
    /\ store' = [store EXCEPT ![s] = @ + 1]
    /\ UNCHANGED <<target, files, pc, job, bounds>>

Begin(p, s, qualified) ==
    /\ pc[p] \in {"idle", "done", "refused"}
    /\ begun < MaxRestores
    /\ begun' = begun + 1
    /\ job' = [job EXCEPT ![p] = [Idle EXCEPT !.session = s, !.qualified = qualified]]
    /\ pc' = [pc EXCEPT ![p] = "envelope"]
    /\ UNCHANGED <<store, target, files, mishaps, removed>>

Claude(s, v) == Capture[s][v].harness = "ClaudeCode"

(* The envelope.  The plain client checks the harness at once, the         *)
(* qualified one after it has the bytes.                                   *)
FetchEnvelope(p) ==
    LET s == job[p].session IN
    /\ pc[p] = "envelope"
    /\ job' = [job EXCEPT ![p].env = store[s]]
    /\ pc' = [pc EXCEPT ![p] =
          IF job[p].qualified \/ Claude(s, store[s]) THEN "raw" ELSE "refused"]
    /\ UNCHANGED <<store, target, files, bounds>>

(* External: the raw endpoint answers with what it holds; asked for a      *)
(* version by its hash it may hold that one still.  The qualified reader   *)
(* compares the stored hash in the header, and the digest of the bytes,    *)
(* with the envelope's.                                                    *)
Served(p, v) ==
    IF job[p].qualified THEN v = job[p].env ELSE v = store[job[p].session]

(* X-Source-Format is the envelope's, and that is Claude's. *)
Agree(p, v) == /\ Claude(job[p].session, v)
               /\ Claude(job[p].session, job[p].env)

FetchRaw(p) ==
    /\ pc[p] = "raw"
    /\ \E v \in 1 .. store[job[p].session] :
          /\ Served(p, v)
          /\ job' = [job EXCEPT ![p].raw = v]
          /\ pc' = [pc EXCEPT ![p] = IF Agree(p, v) THEN "repo" ELSE "refused"]
    /\ UNCHANGED <<store, target, files, bounds>>

(* matching_git_root *)
Matches(d, remote) ==
    checkout[d] # Absent /\ SameRemote(checkout[d], remote)

(* A checkout with the same origin: the one around the process, else the   *)
(* one in the clone's place; else, if that place is free, a clone.         *)
EnsureRepo(p) ==
    LET remote == Origin0(p) IN
    /\ pc[p] = "repo"
    /\ \/ /\ ~HasSlug(remote)
          /\ pc' = [pc EXCEPT ![p] = "refused"]
          /\ UNCHANGED job
       \/ /\ HasSlug(remote)
          /\ \E d \in {Here, Slug(remote)} :
                /\ Matches(d, remote)
                /\ d = Here \/ ~Matches(Here, remote)
                /\ job' = [job EXCEPT ![p].root = d]
          /\ pc' = [pc EXCEPT ![p] = "relocate"]
       \/ /\ HasSlug(remote)
          /\ \A d \in {Here, Slug(remote)} : ~Matches(d, remote)
          /\ job' = [job EXCEPT ![p].root = Slug(remote)]
          /\ pc' = [pc EXCEPT ![p] =
                IF checkout[Slug(remote)] = Absent THEN "clone" ELSE "refused"]
    /\ UNCHANGED <<store, target, files, bounds>>

(* External: git clone makes the directory, which must not be there, ...   *)
CloneBegins(p) ==
    LET d == job[p].root IN
    /\ pc[p] = "clone"
    /\ IF checkout[d] = Absent
       THEN /\ checkout' = [checkout EXCEPT ![d] = NoOrigin]
            /\ tree' = [tree EXCEPT ![d] = {<<>>}]
            /\ pc' = [pc EXCEPT ![p] = "origin"]
       ELSE /\ pc' = [pc EXCEPT ![p] = "refused"]
            /\ UNCHANGED target
    /\ UNCHANGED <<store, files, job, bounds>>

(* ... configures the origin, by which others know it from now on, ...     *)
CloneConfigures(p) ==
    /\ pc[p] = "origin"
    /\ checkout' = [checkout EXCEPT ![job[p].root] = Origin0(p)]
    /\ pc' = [pc EXCEPT ![p] = "files"]
    /\ UNCHANGED <<store, tree, files, job, bounds>>

(* ... fetches, checks out one directory after another, ... *)
CloneGrows(p, w) ==
    LET d == job[p].root IN
    /\ pc[p] = "files"
    /\ w \in Tracked \ tree[d] /\ Parent(w) \in tree[d]
    /\ tree' = [tree EXCEPT ![d] = @ \cup {w}]
    /\ UNCHANGED <<store, checkout, files, pc, job, bounds>>

(* ... and has them all.  Then the clone's origin is looked up.            *)
CloneEnds(p) ==
    LET d == job[p].root IN
    /\ pc[p] = "files"
    /\ tree[d] = Tracked
    /\ pc' = [pc EXCEPT ![p] =
          IF Matches(d, Origin0(p)) THEN "relocate" ELSE "refused"]
    /\ UNCHANGED <<store, target, files, job, bounds>>

(* ... or fails, and takes the directory away again. *)
CloneFails(p) ==
    /\ pc[p] \in {"origin", "files"}
    /\ mishaps < MaxMishaps
    /\ mishaps' = mishaps + 1
    /\ checkout' = [checkout EXCEPT ![job[p].root] = Absent]
    /\ tree' = [tree EXCEPT ![job[p].root] = {}]
    /\ removed' = removed \cup {job[p].root}
    /\ pc' = [pc EXCEPT ![p] = "refused"]
    /\ UNCHANGED <<store, files, job, begun>>

(* The working directory, moved below the repository found here, if it is a *)
(* directory there by now: the root of one that is still being cloned is.   *)
Relocate(p) ==
    LET cwd  == Env(p).cwd
        name == RepoName(Origin0(p)) IN
    /\ pc[p] = "relocate"
    /\ IF Named(cwd, name) # {} /\ Relative(cwd, name) \in tree[job[p].root]
       THEN /\ job' = [job EXCEPT ![p].place = Relative(cwd, name)]
            /\ pc' = [pc EXCEPT ![p] = "create"]
       ELSE /\ pc' = [pc EXCEPT ![p] = "refused"]
            /\ UNCHANGED job
    /\ UNCHANGED <<store, target, files, bounds>>

Put(file, name, content) ==
    [f \in DOMAIN file \cup {name} |-> IF f = name THEN content ELSE file[f]]
Without(file, name) == [f \in DOMAIN file \ {name} |-> file[f]]

(* Slip: the temporary file is the same for every process. *)
CreateShared(p) ==
    LET common == <<FileOf(p), CHOOSE q \in Restorer : TRUE>> IN
    /\ pc[p] = "create"
    /\ temp' = [f \in DOMAIN temp \cup {common, TempName(p)} |->
                   [version |-> job[p].raw, whole |-> FALSE]]
    /\ pc' = [pc EXCEPT ![p] = "write"]
    /\ UNCHANGED <<store, target, transcript, job, bounds>>

(* File::create empties what a dead process of the same pid left there.    *)
Create(p) ==
    /\ pc[p] = "create"
    /\ temp' = Put(temp, TempName(p), [version |-> job[p].raw, whole |-> FALSE])
    /\ pc' = [pc EXCEPT ![p] = "write"]
    /\ UNCHANGED <<store, target, transcript, job, bounds>>

(* The bytes, and the sync that makes them last. *)
Write(p) ==
    /\ pc[p] = "write"
    /\ temp' = [temp EXCEPT ![TempName(p)].whole = TRUE]
    /\ pc' = [pc EXCEPT ![p] = "rename"]
    /\ UNCHANGED <<store, target, transcript, job, bounds>>

(* Slip: the file is copied, not moved. *)
RenameCopies(p) ==
    /\ pc[p] = "rename"
    /\ transcript' = Put(transcript, FileOf(p),
          [version |-> temp[TempName(p)].version, whole |-> temp[TempName(p)].whole,
           by |-> job[p].qualified, env |-> job[p].env])
    /\ pc' = [pc EXCEPT ![p] = "done"]
    /\ UNCHANGED <<store, target, temp, job, bounds>>

(* by and env are history: who moved it there, by which envelope. *)
Rename(p) ==
    LET content == temp[TempName(p)] IN
    /\ pc[p] = "rename"
    /\ transcript' = Put(transcript, FileOf(p),
          [version |-> content.version, whole |-> content.whole,
           by |-> job[p].qualified, env |-> job[p].env])
    /\ temp' = Without(temp, TempName(p))
    /\ pc' = [pc EXCEPT ![p] = "done"]
    /\ UNCHANGED <<store, target, job, bounds>>

(* A request, the parent directory or a write fails: the restore ends, and *)
(* so does a process that is killed.  Neither cleans up.                   *)
Fail(p) ==
    /\ pc[p] \in Running
    /\ mishaps < MaxMishaps
    /\ mishaps' = mishaps + 1
    /\ pc' = [pc EXCEPT ![p] = "refused"]
    /\ UNCHANGED <<store, target, files, job, begun, removed>>

RestoreNext ==
    \/ \E s \in Session : Accept(s)
    \/ \E p \in Restorer :
          \/ \E s \in Session, q \in BOOLEAN : Begin(p, s, q)
          \/ FetchEnvelope(p) \/ FetchRaw(p) \/ EnsureRepo(p)
          \/ CloneBegins(p) \/ CloneConfigures(p) \/ CloneEnds(p) \/ CloneFails(p)
          \/ \E w \in Tracked : CloneGrows(p, w)
          \/ Relocate(p) \/ Create(p) \/ Write(p) \/ Rename(p)
          \/ Fail(p)

-----------------------------------------------------------------------------
(* Properties *)

(* Whatever dies when, and however restores overlap: a file under a        *)
(* session's name is one whole version of that session's transcript, a     *)
(* Claude transcript, and if a qualified restore put it there, the version *)
(* whose envelope said where it belongs.                                   *)
TranscriptsAreWhole ==
    \A f \in DOMAIN transcript :
        /\ transcript[f].whole
        /\ Claude(f[3], transcript[f].version)
        /\ transcript[f].by => transcript[f].version = transcript[f].env

(* A restore that succeeded chose a checkout of the repository the session *)
(* was captured in, although others of the same name claim the same place; *)
(* and in it the directory the session ran in, if the captured checkout    *)
(* had its repository's name and nothing below it has the same one.  The   *)
(* checkout and the directory stay, whatever clones and kills happen       *)
(* around it, unless it was one that another restore was still cloning and *)
(* that went away with that clone.                                         *)
RestoredWhereItRan ==
    \A p \in Restorer : pc[p] \in Located =>
        LET cwd  == Env(p).cwd
            root == RootOf(cwd)
            name == RepoName(Origin0(p))
        IN  /\ job[p].root \notin removed =>
                  /\ SameRemote(checkout[job[p].root], Origin0(p))
                  /\ job[p].place \in tree[job[p].root]
            /\ (root # <<>> /\ Max(Named(cwd, name)) = Len(root)) =>
                  job[p].place = SubSeq(cwd, Len(root) + 1, Len(cwd))
=============================================================================
