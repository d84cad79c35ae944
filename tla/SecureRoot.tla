----------------------------- MODULE SecureRoot -----------------------------
(***************************************************************************)
(* Opening a durable root, src/secure_fs.rs: SecureDir::open_root walks an  *)
(* absolute path component by component and holds a descriptor of the       *)
(* directory it ends in; child makes directories beneath it; sqlite_path    *)
(* and verify enclose the one access that goes by path, SQLite's, as the    *)
(* spool and the outboxes use them.  Meanwhile directories on the path are  *)
(* renamed and replaced.                                                    *)
(*                                                                         *)
(* The file system is a set of nodes and entries, <<directory, name>> |->   *)
(* node.  A node has an owner, a mode ("private", "shared", or "sticky"     *)
(* when writable by others but for the sticky bit) and, if it is a symbolic *)
(* link, a target.                                                          *)
(***************************************************************************)
EXTENDS Integers, FiniteSets, Sequences, SequencesExt

CONSTANTS
    Node, Name, Slash,
    Owner, ModeOf,          \* of each node
    Target,                 \* of the links: [absolute, parts]
    Entries,                \* what the file system may hold at first
    RootPath,               \* the configured root, names and ".."
    Child,                  \* the directory made beneath it
    Fresh,                  \* the directories there are to make
    MaxLinks, MaxSwaps,     \* MAX_LINKS; bound: replacements
    Free                    \* no such entry

Link == DOMAIN Target

ASSUME SecureRootAssumption ==
    /\ Slash \in Node \ Link /\ Fresh \subseteq Node \ Link /\ Free \notin Node
    /\ Owner \in [Node -> {"root", "self", "other"}]
    /\ ModeOf \in [Node -> {"private", "readable", "shared", "sticky"}]
    /\ \A n \in Fresh : Owner[n] = "self" /\ ModeOf[n] = "private"
    /\ Entries \subseteq [(Node \ Link) \X Name -> Node \cup {Free}]
    /\ RootPath \in Seq(Name \cup {".."}) /\ Child \in Name
    /\ \A n \in Link : Target[n] \in [absolute : BOOLEAN, parts : Seq(Name \cup {".."})]
    /\ MaxLinks \in Nat /\ MaxSwaps \in Nat

VARIABLES
    entry,                  \* the file system
    narrowed,               \* directories whose mode was narrowed to 0700
    swaps,                  \* replacements while a root is being opened
    at,                     \* how far the opening is
    create,                 \* whether it may make directories
    stack, path,            \* the directories it holds, and their names
    pending, followed,      \* names yet to resolve; links followed
    objects, base           \* the child directory; where SQLite opened

root == <<entry, narrowed, swaps, at, create, stack, path, pending, followed,
          objects, base>>
walk == <<narrowed, create, stack, path, pending, followed>>

Steps == {"look", "enter", "checked", "child", "database", "open", "verify",
          "opened", "refused"}

SecureRootTypeOK ==
    /\ entry \in [(Node \ Link) \X Name -> Node \cup {Free}]
    /\ narrowed \subseteq Node
    /\ swaps \in 0 .. MaxSwaps
    /\ at \in Steps /\ create \in BOOLEAN
    /\ stack \in Seq(Node \ Link) /\ stack # <<>> /\ stack[1] = Slash
    /\ path \in Seq(Name) /\ Len(stack) = Len(path) + 1
    /\ pending \in Seq(Name \cup {".."})
    /\ followed \in 0 .. MaxLinks
    /\ objects \in Node \cup {Free} /\ base \in Node \cup {Free}

SecureRootInit ==
    /\ entry \in Entries
    /\ narrowed = {} /\ swaps = 0
    /\ at = "look" /\ create \in BOOLEAN
    /\ stack = <<Slash>> /\ path = <<>>
    /\ pending = RootPath /\ followed = 0
    /\ objects = Free /\ base = Free

-----------------------------------------------------------------------------
Top     == Last(stack)
Found   == entry[<<Top, Head(pending)>>]
Refuse  == at' = "refused" /\ UNCHANGED <<entry, walk, swaps, objects, base>>

Up ==
    /\ at = "look" /\ pending # <<>> /\ Head(pending) = ".."
    /\ stack' = IF Len(stack) > 1 THEN Front(stack) ELSE stack
    /\ path' = IF Len(stack) > 1 THEN Front(path) ELSE path
    /\ pending' = Tail(pending)
    /\ UNCHANGED <<entry, narrowed, swaps, at, create, followed, objects, base>>

(* A link is followed if root made it, where only root can. *)
TrustedLink(n) ==
    /\ followed < MaxLinks
    /\ Owner[n] = "root" /\ Owner[Top] = "root"
    /\ ModeOf[Top] \in {"private", "readable"}

Follow ==
    /\ at = "look" /\ pending # <<>> /\ Head(pending) # ".." /\ Found \in Link
    /\ \/ /\ TrustedLink(Found)
          /\ followed' = followed + 1
          /\ stack' = IF Target[Found].absolute THEN <<Slash>> ELSE stack
          /\ path' = IF Target[Found].absolute THEN <<>> ELSE path
          /\ pending' = Target[Found].parts \o Tail(pending)
          /\ UNCHANGED <<entry, narrowed, swaps, at, create, objects, base>>
       \/ ~TrustedLink(Found) /\ Refuse

(* mkdirat; had somebody made it since the look, Look would stand for it.   *)
Make(n) ==
    /\ at = "look" /\ pending # <<>> /\ Head(pending) # ".." /\ Found = Free
    /\ \/ /\ create
          /\ n \in Fresh /\ \A e \in DOMAIN entry : entry[e] # n
          /\ entry' = [entry EXCEPT ![<<Top, Head(pending)>>] = n]
          /\ at' = "enter"
          /\ UNCHANGED <<walk, swaps, objects, base>>
       \/ ~create /\ Refuse

Look ==
    /\ at = "look" /\ pending # <<>> /\ Head(pending) # ".."
    /\ Found \in Node \ Link
    /\ at' = "enter"
    /\ UNCHANGED <<entry, walk, swaps, objects, base>>

Trusted(n) == Owner[n] \in {"root", "self"} /\ ModeOf[n] # "shared"

(* openat refuses a link; what it opened is then checked by descriptor.     *)
Enter ==
    /\ at = "enter"
    /\ \/ /\ Found \in Node \ Link /\ Trusted(Found)
          /\ stack' = Append(stack, Found)
          /\ path' = Append(path, Head(pending))
          /\ pending' = Tail(pending)
          /\ at' = "look"
          /\ UNCHANGED <<entry, narrowed, swaps, create, followed, objects, base>>
       \/ ~(Found \in Node \ Link /\ Trusted(Found)) /\ Refuse

Private(n) == Owner[n] = "self" /\ ModeOf[n] \in {"private", "readable"}

(* The end of the path must be a directory of ours alone. *)
Hold ==
    /\ at = "look" /\ pending = <<>>
    /\ \/ /\ Len(stack) > 1 /\ Private(Top)
          /\ narrowed' = IF create THEN narrowed \cup {Top} ELSE narrowed
          /\ at' = "child"
          /\ UNCHANGED <<entry, swaps, create, stack, path, pending, followed,
                         objects, base>>
       \/ (Len(stack) = 1 \/ ~Private(Top)) /\ Refuse

-----------------------------------------------------------------------------
(* Beneath the root everything goes by its descriptor ... *)

OpenChild(n) ==
    LET here == <<Top, Child>> IN
    /\ at = "child"
    /\ \/ /\ entry[here] = Free /\ create
          /\ n \in Fresh /\ \A e \in DOMAIN entry : entry[e] # n
          /\ entry' = [entry EXCEPT ![here] = n]
          /\ objects' = n /\ at' = "database"
          /\ UNCHANGED <<walk, swaps, base>>
       \/ /\ entry[here] \in Node \ Link /\ Private(entry[here])
          /\ objects' = entry[here] /\ at' = "database"
          /\ UNCHANGED <<entry, walk, swaps, base>>
       \/ entry[here] = Free /\ ~create /\ Refuse
       \/ /\ entry[here] # Free
          /\ ~(entry[here] \in Node \ Link /\ Private(entry[here]))
          /\ Refuse

(* ... except the database: the path is walked again, through no link.     *)
Reached[n \in 0 .. Len(path)] ==    \* the node the first n names lead to now
    IF n = 0 THEN Slash
    ELSE IF Reached[n - 1] \notin Node \ Link THEN Free
    ELSE entry[<<Reached[n - 1], path[n]>>]

Leads == Reached[Len(path)]

(* Slip: only that something is there. *)
StillThere == Leads \in Node \ Link

(* SecureDir::verify *)
Verified == Leads = Top

VerifyBefore ==
    /\ at = "database"
    /\ \/ Verified /\ at' = "open" /\ UNCHANGED <<entry, walk, swaps, objects, base>>
       \/ ~Verified /\ Refuse

(* External: SQLite opens, or creates, the file by its path, NOFOLLOW.      *)
OpenDatabase ==
    /\ at = "open"
    /\ \/ /\ Leads \in Node \ Link
          /\ base' = Leads /\ at' = "verify"
          /\ UNCHANGED <<entry, walk, swaps, objects>>
       \/ Leads \notin Node \ Link /\ Refuse

VerifyAfter ==
    /\ at = "verify"
    /\ \/ Verified /\ at' = "opened" /\ UNCHANGED <<entry, walk, swaps, objects, base>>
       \/ ~Verified /\ Refuse

(* External: an entry is removed, or another node is put in its place.      *)
Swap(e, n) ==
    /\ swaps < MaxSwaps /\ at \notin {"opened", "refused"}
    /\ entry[e] # n
    /\ n # Free => \A f \in DOMAIN entry : entry[f] # n
    /\ swaps' = swaps + 1
    /\ entry' = [entry EXCEPT ![e] = n]
    /\ UNCHANGED <<walk, at, objects, base>>

SecureRootNext ==
    \/ Up \/ Follow \/ Look \/ Enter \/ Hold
    \/ \E n \in Node : Make(n) \/ OpenChild(n)
    \/ VerifyBefore \/ OpenDatabase \/ VerifyAfter
    \/ \E e \in DOMAIN entry, n \in Node \cup {Free} : Swap(e, n)

-----------------------------------------------------------------------------
(* Properties *)

(* Whatever is renamed meanwhile, an opening that succeeds has the database *)
(* in the very directory whose child holds the objects, so that the index   *)
(* and what it indexes cannot part, unless a directory was taken away and   *)
(* put back; that directory is its user's alone, and no component leading   *)
(* to it was anybody else's to change when it was passed.                   *)
IndexStaysWithItsObjects ==
    at = "opened" =>
        /\ swaps < 2 => base = Top
        /\ Private(Top) /\ Private(objects)
        /\ create => Top \in narrowed
        /\ \A i \in DOMAIN stack : Trusted(stack[i]) \/ stack[i] = Slash
=============================================================================
