------------------------------- MODULE Command ------------------------------
(***************************************************************************)
(* The exporter's command line, src/bin/exporter.rs, and the health sidecar *)
(* it keeps, src/health.rs: which mode a line of arguments selects, what a  *)
(* sweep's outcome becomes (exit code, JSON document, sidecar) and what     *)
(* --health says of it later.  The sweep is Sweep's; here it has an outcome.*)
(***************************************************************************)
EXTENDS Integers, FiniteSets, Sequences, FiniteSetsExt

CONSTANTS
    Proc,                   \* exporter processes
    Lines,                  \* the command lines that each is given
    Value,                  \* the words that do not start with a dash, ...
    Number,                 \* ... as numbers; -1 when they are none
    MaxAge,                 \* EXPORTER_HEALTH_MAX_AGE
    MaxClock, MaxTroubles,  \* bounds: clock readings; failures, power cuts
    Missing, Torn           \* no sidecar, and one that does not parse

Mode   == {"--spool-only", "--spool-list", "--spool-read", "--envelope-hash",
           "--capture-enqueue", "--capture-receipt", "--capture-delete",
           "--capture-drain", "--inventory-enqueue", "--inventory-drain"}
Valued == {"--spool-list", "--spool-read", "--capture-drain", "--inventory-drain",
           "--loop", "--limit"}
Known  == Mode \cup {"--version", "--help", "--health", "--dry-run", "--json",
                     "--ignore-state", "--loop", "--limit"}

ASSUME CommandAssumption ==
    /\ Number \in [Value -> Int] /\ Value \cap Known = {}
    /\ \A p \in Proc : Lines[p] \subseteq Seq(Known \cup Value \cup {"--unknown"})
    /\ {MaxAge, MaxClock, MaxTroubles} \subseteq Nat
    /\ Missing \notin Nat /\ Torn \notin Nat /\ Missing # Torn

-----------------------------------------------------------------------------
(* The command line *)

Given(a, flag) == \E i \in DOMAIN a : a[i] = flag

(* take_value: a flag consumes the next word unless that starts with a dash. *)
Consumed(a, i) == i > 1 /\ a[i] \in Value /\ a[i - 1] \in Valued
ValueAt(a, i)  == IF i < Len(a) /\ a[i + 1] \in Value THEN Number[a[i + 1]] ELSE -1

(* What each flag takes; the values of --loop and --limit may be unusable.  *)
Takes(flag, n) ==
    CASE flag = "--capture-drain"   -> n \in 1 .. 50
      [] flag = "--inventory-drain" -> n \in 1 .. 500
      [] flag = "--spool-list"      -> n >= 0
      [] flag = "--spool-read"      -> n > 0
      [] OTHER                      -> TRUE

Chosen(a) == {i \in DOMAIN a : a[i] \in Mode}

(* The last --limit counts, if its value is usable. *)
Limited(a) ==
    LET at == {i \in DOMAIN a : a[i] = "--limit"}
    IN  at # {} /\ ValueAt(a, Max(at)) > 0

Malformed(a) ==
    \/ \E i \in DOMAIN a :
          \/ a[i] \notin Known /\ ~Consumed(a, i)
          \/ a[i] \in Known /\ ~Takes(a[i], ValueAt(a, i))
    \/ Cardinality(Chosen(a)) > 1

(* version > help > the local modes > health > dry-run > loop > run-once *)
CommandOf(a) ==
    CASE Given(a, "--version") -> "--version"
      [] ~Given(a, "--version") /\ Given(a, "--help") -> "--help"
      [] OTHER ->
            IF Chosen(a) # {} THEN a[Max(Chosen(a))]
            ELSE IF Given(a, "--health") THEN "--health"
            ELSE IF Given(a, "--dry-run") THEN "--dry-run"
            ELSE IF Given(a, "--loop") THEN "--loop"
            ELSE "run-once"

Answering == {"--version", "--help"}

(* Slip: the sweep options are not looked at beside a local mode. *)
ConflictingModesOnly(a) ==
    \/ Given(a, "--json") /\ CommandOf(a) \in {"--health", "--dry-run", "--loop"}
    \/ Given(a, "--ignore-state") /\ CommandOf(a) \in {"--health", "--dry-run"}

Conflicting(a) ==
    \/ /\ CommandOf(a) \notin Answering /\ Chosen(a) # {}
       /\ \/ Limited(a)
          \/ \E f \in {"--health", "--dry-run", "--loop", "--ignore-state"} : Given(a, f)
    \/ /\ Given(a, "--json")
       /\ CommandOf(a) \in {"--health", "--dry-run", "--loop", "--envelope-hash",
             "--capture-enqueue", "--capture-receipt", "--capture-delete",
             "--capture-drain"}
    \/ Given(a, "--ignore-state") /\ CommandOf(a) \in {"--health", "--dry-run"}

Refused(a) == Malformed(a) \/ Conflicting(a)

Usage == 2
Incomplete == 3

-----------------------------------------------------------------------------
VARIABLES
    clock,
    health,                 \* the sidecar: the seconds it holds
    swept,                  \* history: when sweeps without a failed upload ended
    phase, line,            \* each process: what it is doing, its arguments
    summary,                \* the counters of its sweep that are not zero
    stamp,                  \* what it is about to put into the sidecar
    answer,                 \* its JSON documents: captured_everything of each
    exit,                   \* its exit code, -1 while it has none
    troubles

sidecar == <<health, swept>>
process == <<phase, line, summary, stamp, answer, exit>>
command == <<clock, sidecar, process, troubles>>

Counter == {"failed", "rejected", "oversize", "unconfirmed"}

CommandTypeOK ==
    /\ clock \in 0 .. MaxClock
    /\ health \in (0 .. MaxClock) \cup {Missing, Torn}
    /\ swept \subseteq 0 .. MaxClock
    /\ phase \in [Proc -> {"off", "configure", "work", "write", "report",
                           "sleep", "over"}]
    /\ \A p \in Proc : line[p] \in Lines[p] \cup {<<>>}
    /\ summary \in [Proc -> SUBSET Counter]
    /\ stamp \in [Proc -> 0 .. MaxClock]
    /\ \A p \in Proc : answer[p] \in Seq(BOOLEAN)
    /\ exit \in [Proc -> {-1, 0, 1, Usage, Incomplete}]
    /\ troubles \in 0 .. MaxTroubles
    /\ \A p \in Proc : exit[p] # -1 <=> phase[p] = "over"

CommandInit ==
    /\ clock = 0 /\ health = Missing /\ swept = {}
    /\ phase = [p \in Proc |-> "off"]
    /\ line = [p \in Proc |-> <<>>]
    /\ summary = [p \in Proc |-> {}]
    /\ stamp = [p \in Proc |-> 0]
    /\ answer = [p \in Proc |-> <<>>]
    /\ exit = [p \in Proc |-> -1]
    /\ troubles = 0

-----------------------------------------------------------------------------
Ends(p, code) ==
    /\ phase' = [phase EXCEPT ![p] = "over"]
    /\ exit' = [exit EXCEPT ![p] = code]

Configured == {"run-once", "--loop", "--health", "--dry-run", "--spool-only"}

Launch(p, a) ==
    /\ phase[p] \in {"off", "over"}
    /\ line' = [line EXCEPT ![p] = IF Refused(a) THEN <<>> ELSE a]
    /\ summary' = [summary EXCEPT ![p] = {}]
    /\ answer' = [answer EXCEPT ![p] = <<>>]
    /\ \/ Refused(a) /\ Ends(p, Usage)
       \/ ~Refused(a) /\ CommandOf(a) \in Answering /\ Ends(p, 0)
       \/ /\ ~Refused(a)
          /\ CommandOf(a) \notin Answering
          /\ exit' = [exit EXCEPT ![p] = -1]
          /\ phase' = [phase EXCEPT ![p] =
                IF CommandOf(a) \in Configured THEN "configure" ELSE "work"]
    /\ UNCHANGED <<clock, sidecar, stamp, troubles>>

Trouble == troubles < MaxTroubles /\ troubles' = troubles + 1
Asked(p) == Given(line[p], "--json")

(* A document that says that nothing is known to be captured, exit 1.      *)
GiveUp(p) ==
    /\ Ends(p, 1)
    /\ answer' = [answer EXCEPT ![p] = IF Asked(p) THEN Append(@, FALSE) ELSE @]

Configure(p) ==
    /\ phase[p] = "configure"
    /\ \/ /\ phase' = [phase EXCEPT ![p] = "work"]
          /\ UNCHANGED <<answer, exit, troubles>>
       \/ Trouble /\ GiveUp(p)
    /\ UNCHANGED <<clock, sidecar, line, summary, stamp>>

Doing(p, modes) == phase[p] = "work" /\ CommandOf(line[p]) \in modes

(* health::check.  A record from the future is invalid. *)
Healthy == /\ health \notin {Missing, Torn}
           /\ health <= clock
           /\ clock - health <= MaxAge

CheckHealth(p) ==
    /\ Doing(p, {"--health"})
    /\ Ends(p, IF Healthy THEN 0 ELSE 1)
    /\ UNCHANGED <<clock, sidecar, line, summary, stamp, answer, troubles>>

DryRun(p) ==
    /\ Doing(p, {"--dry-run"})
    /\ \/ Ends(p, 0) /\ UNCHANGED troubles
       \/ Ends(p, 1) /\ Trouble
    /\ UNCHANGED <<clock, sidecar, line, summary, stamp, answer>>

(* The local spool, inventory and capture modes; their own modules say what *)
(* they do.                                                                *)
Local(p) ==
    /\ Doing(p, Mode)
    /\ \E code \in {0, 1, Incomplete} : Ends(p, code)
    /\ UNCHANGED <<clock, sidecar, line, summary, stamp, answer, troubles>>

Sweeping == {"run-once", "--loop"}
Outcome  == {{}} \cup {{c} : c \in Counter}      \* bound: one counter at a time

(* Slip: the record advances whatever became of the uploads. *)
SweepRecorded(p, found) ==
    /\ Doing(p, Sweeping)
    /\ summary' = [summary EXCEPT ![p] = found]
    /\ phase' = [phase EXCEPT ![p] = "write"]
    /\ stamp' = [stamp EXCEPT ![p] = clock]
    /\ swept' = IF "failed" \in found THEN swept ELSE swept \cup {clock}
    /\ UNCHANGED <<clock, health, line, answer, exit, troubles>>

(* The sweep ran.  Unless an upload failed it is recorded as a success, of *)
(* this second.                                                            *)
Sweep(p, found) ==
    /\ Doing(p, Sweeping)
    /\ summary' = [summary EXCEPT ![p] = found]
    /\ \/ /\ "failed" \in found
          /\ phase' = [phase EXCEPT ![p] = "report"]
          /\ UNCHANGED <<stamp, swept>>
       \/ /\ "failed" \notin found
          /\ phase' = [phase EXCEPT ![p] = "write"]
          /\ stamp' = [stamp EXCEPT ![p] = clock]
          /\ swept' = swept \cup {clock}
    /\ UNCHANGED <<clock, health, line, answer, exit, troubles>>

(* The record is written beside the sidecar and moved over it. *)
WriteRecord(p) ==
    /\ phase[p] = "write"
    /\ health' = stamp[p]
    /\ stamp' = [stamp EXCEPT ![p] = 0]
    /\ phase' = [phase EXCEPT ![p] = "report"]
    /\ UNCHANGED <<clock, swept, line, summary, answer, exit, troubles>>

(* The store does not answer, a source cannot be read, or the record cannot *)
(* be written although everything was sent.  A daemon logs it and goes on.  *)
SweepFails(p) ==
    /\ Doing(p, Sweeping) \/ phase[p] = "write"
    /\ Trouble
    /\ \/ CommandOf(line[p]) = "run-once" /\ GiveUp(p)
       \/ /\ CommandOf(line[p]) = "--loop"
          /\ phase' = [phase EXCEPT ![p] = "sleep"]
          /\ UNCHANGED <<answer, exit>>
    /\ stamp' = [stamp EXCEPT ![p] = 0]
    /\ UNCHANGED <<clock, sidecar, line, summary>>

CapturedEverything(found) ==
    found \cap {"rejected", "oversize", "failed", "unconfirmed"} = {}

Report(p) ==
    /\ phase[p] = "report"
    /\ \/ /\ CommandOf(line[p]) = "--loop"
          /\ phase' = [phase EXCEPT ![p] = "sleep"]
          /\ UNCHANGED <<answer, exit>>
       \/ /\ CommandOf(line[p]) = "run-once"
          /\ answer' = [answer EXCEPT ![p] =
                IF Asked(p) THEN Append(@, CapturedEverything(summary[p])) ELSE @]
          /\ Ends(p, IF CapturedEverything(summary[p]) THEN 0 ELSE Incomplete)
    /\ UNCHANGED <<clock, sidecar, line, summary, stamp, troubles>>

Wake(p) ==
    /\ phase[p] = "sleep"
    /\ phase' = [phase EXCEPT ![p] = "work"]
    /\ summary' = [summary EXCEPT ![p] = {}]
    /\ UNCHANGED <<clock, sidecar, line, stamp, answer, exit, troubles>>

Tick ==
    /\ clock < MaxClock
    /\ clock' = clock + 1
    /\ UNCHANGED <<sidecar, process, troubles>>

SetBack ==
    /\ Trouble
    /\ clock' \in 0 .. clock - 1
    /\ UNCHANGED <<sidecar, process>>

Kill(p) ==
    /\ phase[p] \notin {"off", "over"}
    /\ Trouble
    /\ phase' = [phase EXCEPT ![p] = "off"]
    /\ UNCHANGED <<clock, sidecar, line, summary, stamp, answer, exit>>

(* The power fails.  The record was never synced: it may be torn. *)
PowerCut ==
    /\ Trouble
    /\ health' \in {health, Torn}
    /\ phase' = [p \in Proc |-> "off"]
    /\ exit' = [p \in Proc |-> -1]
    /\ UNCHANGED <<clock, swept, line, summary, stamp, answer>>

CommandNext ==
    \/ \E p \in Proc :
          \/ \E a \in Lines[p] : Launch(p, a)
          \/ Configure(p) \/ CheckHealth(p) \/ DryRun(p) \/ Local(p)
          \/ \E found \in Outcome : Sweep(p, found)
          \/ WriteRecord(p) \/ SweepFails(p) \/ Report(p) \/ Wake(p) \/ Kill(p)
    \/ Tick \/ SetBack \/ PowerCut

-----------------------------------------------------------------------------
(* Properties *)

(* --health exits 0 only if, by the clock as it reads now, a sweep without  *)
(* a failed upload ended within the maximum age: whatever daemons and       *)
(* one-shot sweeps wrote the sidecar in which order, died over it, or had   *)
(* the clock set back under them.                                           *)
HealthyMeansSwept ==
    [][\A p \in Proc :
          phase[p] = "work" /\ CommandOf(line[p]) = "--health" /\ exit'[p] = 0 =>
              \E t \in swept : t <= clock /\ clock - t <= MaxAge]_command

(* What a caller concludes from a sweep is right.  Exit 0 means that nothing *)
(* was rejected, left out, failed or unconfirmed; under --json there is      *)
(* exactly one document, which says the same as the exit code, unless the    *)
(* line was refused; and --ignore-state was not taken by a mode that it      *)
(* would protect from nothing.                                               *)
AnswersAreHonest ==
    \A p \in Proc : phase[p] = "over" /\ exit[p] # Usage =>
        LET a == line[p] IN
        /\ CommandOf(a) = "run-once" =>
              /\ exit[p] = 0 => summary[p] = {}
              /\ Given(a, "--json") => answer[p] = <<exit[p] = 0>>
        /\ Given(a, "--ignore-state") =>
              CommandOf(a) \in Answering \cup {"run-once", "--loop"}
        /\ Given(a, "--json") =>
              CommandOf(a) \notin {"--health", "--dry-run", "--loop"}
=============================================================================
