# A verification development for agentic-session-exporter

The exporter collects transcripts of coding agents from their stores on disk and
delivers them, at least once, to a transcript store; a second program brings a
stored session back. This directory models the parts whose correctness depends on
the order of things: what several processes, the agents that keep writing, the
store, crashes, power losses, timeouts and suspended processes do to one another.
`PROJECT.json` lists, by machine-readable name, the runs, the mutants that show
each property to be falsifiable, the source lines of every definition, the hazards
and the theorems.

Paths such as `capture_outbox.rs:449` are relative to `src/src/`.

## 1. Inventory

### 1.1 The parts of the system

| Part | State it keeps | Operations | Talks to |
|---|---|---|---|
| Capture outbox (`capture_outbox.rs`) | SQLite tables `deliveries`, `capture_deletions`, `revision_leases`, `destination` | `open`, `enqueue`, `enqueue_deletion`, `receipt`, `drain` (deletions, uploads, cleanup) | spool (files), capture client (requests), other processes (the database) |
| Capture client (`qualified_capture.rs`) | none (URL, token) | `upload`, `delete`, 30 s timeout; the qualified reader | transcript store |
| Local spool (`spool.rs`) | immutable objects named by digest; SQLite index `envelope_revisions` | `capture_local`, `store_bounded`, `read`, `discard_body`, `page`, `watermark` | secure file access |
| Inventory outbox (`inventory_outbox.rs`) | SQLite tables `operations` and `destination` | `open`, `enqueue`, `drain` | inventory client |
| Inventory client (`inventory.rs`) | none | record, stage, manifest, publish | transcript store |
| Sweep (`lib.rs`) | none across sweeps | `run`: discover, partition by state, batch, upload, mark, save | sources, state, upload client, health |
| Sweep state (`state.rs`) | one JSON file, rewritten in place: a digest of the configuration and the fingerprint of each source already sent | `load`, `ignoring`, `is_current`, `mark`, `save` | file system |
| Batch upload client (`upload.rs`) | none | `upload`, `tally` | transcript store |
| Health file (`health.rs`) | the second of the last sweep without a failed upload, in a file replaced by rename and never synced | `record_success`, `check` | monitoring |
| Transcript sources (`sources.rs`, `parsers.rs`) | none | walk, fingerprint, bounded read, parse | the agents' JSONL files |
| Cursor source (`cursor.rs`) | none | two passes over Cursor's own database: bounded selection, then assembly | SQLite, read-only |
| Git metadata (`gitmeta.rs`) | none | nearest `.git` directory, its origin, owner/repo | file system |
| Configuration (`config.rs`) | none | load from the environment, `stamp_digest` | sweep, state |
| Secure file access (`secure_fs.rs`) | descriptors of an open, verified directory | `open_root`, `child`, `sqlite_path`, `verify`; temporary file, link without clobbering, sync | file system |
| Reconstitution (`reconstitute.rs`, `bin/reconstitute.rs`) | none; transcripts and clones it leaves behind | fetch, find or clone the repository, relocate, write, rename | store, git, file system |
| Command line (`bin/exporter.rs`) | the loop | one-shot and looping sweeps, drains, spool reads, health checks; exit codes and documents | all of the above |

### 1.2 How they interact

Three paths share the sources. The *sweep* sends envelopes in batches and
remembers, in the state file, what the store confirmed. The *spool* captures them
locally, to be paged through by a consumer. The *outboxes* take one qualified
capture, or one piece of inventory evidence, at a time and leave sending to
`drain`, which any number of processes may run over the same directory. Processes
of an outbox share nothing but a SQLite database and, for captures, the spool's
object directory; the write lock and the lease rows are the only coordination, and
the inventory outbox has no leases. The sweep's processes share a state file
without any lock. The store is reached by requests that may be lost, refused,
answered too late, or answered to nobody because the process died. Durable roots
are opened through secure file access; reconstitution writes into the agent's
directories by temporary file and rename.

### 1.3 What is hard

*Concurrency.* A drain works on a snapshot of rows selected before any lease is
taken. Leases expire by wall-clock time while the holder may be suspended. Cleanup
deletes files that another process may be about to need. Two drains of the
inventory outbox send one operation twice. Two sweeps truncate and rewrite one
state file. A restore finds the checkout that another one is still cloning.

*The world moves.* Agents extend transcripts between the fingerprint and the read,
and between two rows. Cursor edits and deletes threads between the two passes. A
newer version is accepted between a restore's two requests. Directories on the
path of a root are replaced while it is opened. The clock is set back.

*Failure between two steps.* A file operation is not part of the transaction it is
made in: publishing precedes the row, unlinking precedes the mark. A power loss
takes the names and bytes no sync made durable. A process that dies after an
upload has not marked it.

*Messages.* A client that timed out has given its lease up; its request has not
gone away. A batch is answered for some items only, matched by session id.

*Limits and progress.* A leased revision is skipped, not waited for; work is
bounded by `limit`; rows are ordered by attempts, deletions by key; a publication
waits for evidence behind it in the queue; batches have a budget that one envelope
may exceed; only the newest Cursor threads are held, in a bounded buffer.

### 1.4 What makes each part correct

* Capture outbox: an acknowledged deletion is final; a receipt is backed by the
  store; a revision has one request out at a time; results are recorded in the
  order of the grants; the bytes of an undelivered capture are kept; nothing is
  given up but what was deleted; everything settles eventually.
* Spool: what is indexed can be read, power losses included; paging neither skips
  nor repeats; an interrupted capture never stands in the way of a later one.
* Inventory outbox: an acknowledgement is true, of the content first accepted, at
  the outbox's own store; waiting publications do not hold evidence up.
* Sweep and state: the file is never ahead of the store; a sweep that says that it
  captured everything has; an item that fails for ever does not hold up others.
* Health: it passes only if a sweep without a failed upload ended recently.
* Sources: a fingerprint claims no more than was read; files that hold still are
  not missed; a session keeps its identity as rows are appended; the newest threads
  are selected whatever their number, and edits show.
* Secure access: the database and the objects of a root are in one directory.
* Reconstitution: a file under a session's name is one whole version of it, in the
  repository it was captured in.
* Command line: exit code and document say whether everything was captured.

## 2. Plan

In this order, the most important behaviour first. All of it is done but where
noted.

1. `CaptureOutbox`, `CaptureContract`: the capture outbox and its contract, with
   the refinement and the safety properties as theorems. `DrainSchedule`: which rows
   its bounded passes reach.
2. `Spool`, `AppendLog`: publication, interruption, power loss, paging; the log it
   implements; theorems about all of its safety.
3. `InventoryOutbox`, `DeliveryQueue`: overlapping drains; the queue it implements;
   theorems.
4. `Sweep`: discovery, batches, retries, marking, saving; theorems.
5. `Transcripts`, `CursorThreads`, composed by `Discovery`; theorems.
6. `Restore`, `Command`, `SecureRoot`, composed by `Binaries`; theorems.
7. Every safety property that a run checks is a theorem now (section 5).

Left for later:

* which rows a pass of `DrainSchedule` takes, as safety: those with the fewest attempts
  of the rows that nobody holds. That every row gets its turn stays with TLC.

## 3. Modules

| Module | What it is |
|---|---|
| `CaptureOutbox` | the outbox, the object directory, the requests and the store, one action per SQLite statement or transaction, file operation or network event |
| `CaptureContract` | what all of that promises a caller, with no process, lease, request, file or crash in it |
| `DrainSchedule` | the passes of one process at a time over more rows than the limit, some of which fail for ever |
| `Spool`, `AppendLog` | the local spool, one action per file operation or transaction; the append-only log it implements |
| `InventoryOutbox`, `DeliveryQueue` | the inventory outbox and its client, one action per statement or request; the queue it implements |
| `Sweep` | the upload sweep with the state file and the batch client |
| `Transcripts`, `CursorThreads` | the two kinds of source while they are written to |
| `Discovery` | `discover_all` over either of them |
| `Restore`, `Command`, `SecureRoot` | reconstitution; the exporter's command line with the health file; the opening of a durable root |
| `Binaries` | the last three side by side |
| `MC...` | the small instances for TLC |
| `CaptureOutboxProofs`, `DrainScheduleProofs`, `SpoolProofs`, `InventoryProofs`, `SweepProofs`, `DiscoveryProofs`, `BinariesProofs` | the theorems |
| `OrderLemmas` | what several proofs need of ordered sets: least and greatest numbers, ranks |

`Discovery` and `Binaries` compose parts that share no state: a behaviour belongs to
one of them. They exist so that one run answers for all of a program's small parts.
The definitions headed *Slip* in the modules are plausible mistakes in the code; each
property is falsified by one of them.

### 3.1 `CaptureOutbox`

| Variable | In the code |
|---|---|
| `seq`, `attempts` | `deliveries.sequence` (0: no row) and `deliveries.attempts`; a row is an (identity, object) pair, the table's `UNIQUE(storage_key,spool_sequence)` |
| `delivered`, `cancelled`, `withdrawn`, `quarantined`, `erased`, `hashed` | the rows whose `receipt` is not null, whose flags are set, whose `content_hash` is not null |
| `tomb` | `capture_deletions`: no row, `acknowledged=0`, `acknowledged=1` |
| `lease` | `revision_leases`: owner, token and whether `expires_at` lies in the future |
| `writer` | the holder of SQLite's write lock while a transaction spans several steps of the model |
| `spool` | the object files: absent, intact, or not the bytes their name promises |
| `held`, `gone`, `wire` | the store's bodies and tombstones, and the requests not answered yet |
| `pc`, `todo`, `room`, `token`, `reply`, `batch`, `unlinked` | the locals of a process inside `enqueue` or `drain` |
| `recorded`, `spent` | history: the token of the last recorded result, and how much trouble has struck |

`BeginEnqueue`, `CommitEnqueue` are the two halves of `enqueue` around the
publication of the object, which no rollback undoes. `EnqueueDeletion` is one
statement. `BeginDrain` and `SelectUploads` are the two SELECTs. For each job,
`Prepare` reads the row and its object without a lock, and `SetAside` (a statement of
its own, however much later) or `PutOff` draws the consequence;
`GrantLease` or `SkipBusy`; `CheckTombstone`
(uploads only); `Renew`; `Send`; `Record`; `Release`; and `Fenced`, wherever the
grant turns out to be superseded. `Backfill`, `SelectErasable`, `Unlink`,
`SkipUnlink`, `CommitErasures` are `cleanup`. `StoreUpload`, `StoreDelete`,
`StoreFails` answer a request, to the process that waits for it if there is one.
`ExternalDelete` is another client of the store, the reason for its 410.
`Timeout`, `Crash`, `StorageError`, `ExpireAbandoned`, `Stall`, `Damage` are the
trouble. An owner token is fresh per opened outbox; it is modelled by the
process, whose locals a crash resets and whose lease tokens tell its grants apart.

The attempt count, the tombstone check and the cancellation of an upload are
three statements in the code and one action here. Only a deletion queued by
another process can come between them; one queued after the check is a state the
model reaches too, and a crash between them leaves nothing but an attempt count
more.

`Stall` and `ExpireAbandoned` separate the two ways a lease expires. Nobody's
lease expires freely (`ExpireAbandoned`: the holder is dead or gone). The lease
of a live holder expires only if that process is suspended or the clock jumps,
because the lease outlives the request timeout ten times (`capture_outbox.rs:73`);
each such event is counted.

*Bounds.* `Budget` says how often each kind of trouble (`failure`, `crash`, `stall`,
`damage`) may strike in a run. Nothing else is bounded by a guard: every drain
that ends has left less to do, or has met trouble or a leased revision, so that
attempts and tokens stay finite and every passing run explores its whole state
space. One or two processes, identities and objects and a `Limit` of 1 or 2
are enough for the interactions the code has: leases, tokens and tombstones are
per revision; the spool's sharing is between two rows of one object; the limit
matters as fewer than the rows there are (1 of 2, `shared_body`) or as all of the
jobs (2, in `fencing` and `delivery`, where a pass can have a deletion and an
upload). Two processes with two identities under fairness are beyond TLC, so that
`MCDelivery` has two instances in one run: two processes that compete for one
identity's rows, and one process with two identities that captured the same bytes. What
one row of an object does to another needs no second process, as a crash is what
separates their steps. `SYMMETRY` permutes processes, in runs with no liveness
property.

*Properties.* Without condition: `AcknowledgedDeletionHolds`, `ReceiptIsHonest`,
`NoSilentCancel`, `RecordsFollowGrants`, and the refinement `ImplementsContract`.
`NeededBodyIsKept` and `OnlyDamageIsSetAside` say what holds while nothing from
outside damages the spool, interruptions included, `ErasedMeansGone` what holds
while no call is interrupted. `RequestsNeverOverlap` and `NoUploadAfterDeletion` say
what the leases give while no holder outlives its own (`spent["stall"] = 0`):
renewal and sending are two steps (`capture_outbox.rs:458`), so a process suspended
between them sends although it was overtaken, and then only the store's tombstone
keeps the outcome right. That it does is what `AcknowledgedDeletionHolds` and
`RecordsFollowGrants` show, stalls included. Liveness: `EverythingSettles`, and
`DeletedBodiesLeave` for an object that still has a row cleanup looks at; section 6 has
the two cases in which it has none.

*Fairness.* A drain is started again and again (the queue's documented use, exit
code 3 asks for it); a process inside a call goes on, strongly fair because others
may take the write lock in between and SQLite's 30 s busy timeout makes it wait its
turn; the store answers a request that reaches it; the five minutes of an abandoned
lease pass. No fairness is assumed of enqueueing, of deletion requests or of
trouble; trouble is bounded.

### 3.2 `DrainSchedule`

`CaptureOutbox` has what processes do to one another; this module has what one pass
after another does to the queue. `BeginDrain` lists deletions by key, `SelectUploads`
gives uploads, by attempts and sequence, what the deletions left of the limit;
`TryDeletion` and `TryUpload` count as the code does (a leased row counts nothing, an
unreadable one an attempt, a deletion only against the limit); `Die` leaves a lease
behind. `Hopeless` are rows the store never accepts. A row that is set aside or
withdrawn leaves the queue as a delivered one does. Attempts grow for ever, and only
their differences matter, so they are kept relative to the lowest; the initial states
have any differences up to `MaxGap`, those of rows enqueued later included. A lease
left behind runs out before other rows get more than `MaxGap` attempts ahead: five
minutes against passes that wait for a store. Passes of two over four uploads and
three deletions are fewer than the rows in every way that matters. The drain is run
again and again and leases run out; trouble is bounded, hopelessness is not.

`EveryRowGetsItsTurn` holds while fewer deletions are hopeless than the limit is;
section 6 says what happens otherwise.

### 3.3 `Spool`

`object` is the file under each digest; `stable` and `settled` are what an fsync has
made durable of it, bytes and name. `rows` and `last` are the index with its
AUTOINCREMENT counter. A process that captures goes through `Write` (serialized to a
temporary file, or refused past the bound), `Flush`, `Publish` (linked under its
digest, or what is there adopted if its bytes have that digest), `Settle` (the
directory's sync) and `PublishRow`; `reader` follows the pages. `Fail` ends a
process anywhere. `PowerLoss` ends all of them, takes any of the names not settled
and tears any bytes not synced; SQLite keeps what it committed
(`synchronous=FULL`). Two processes sweep the same three envelopes, one of them too
large, so that both publish, adopt and find one another's rows; two troubles allow
an interruption and another during its repair; a page of one entry makes every
traversal of two entries resume. `FairSpec` lets a sweep go on and the scheduler
start another one. `assured` is history: what the sweeps that ended have found and not
said that they left out. `FinishedSweepIsIndexed` speaks of it, and so of what later
failures and power losses leave of a sweep that no process remembers.

An envelope here is its bytes, so that a file that grew is another envelope; the
walk that finds them is `Transcripts`.

### 3.4 `InventoryOutbox`

The rows of `operations` are `queue` (in order), `payload`, `attempts`,
`acknowledged`, `quarantined`; `bound` is the destination row, `remote` what each
store has accepted. `Select` is the beginning of a drain: the comparison of
the client's destination with the outbox's (`:180`; `Open` made one too) and the query.
`Take` reads one row again and counts the
attempt or sets aside a row that does not decode, `Send` is one request with its
answer, `Record` marks the row on `Ok(true)`. The four requests of the inventory
protocol differ in what the store makes of them: a publication is answered "not
yet" until its evidence has arrived. A failure is a lost request or a lost answer,
a status, a redirect or a malformed body. One operation of either kind, two
payloads for them, two stores to be configured with, two overlapping drains with a
limit of one, and two troubles: enough for a row that is sent twice, answered twice,
set aside by one and recorded by the other process. `attempts` is counted up to
`MaxAttempts`; beyond it, rows are ordered as if they had been tried equally often.
Fairness: the scheduler opens the outbox with some destination and a drain goes on;
`Open` with the wrong one is not enabled, as the code refuses it.

### 3.5 `Sweep`

`version` is each transcript's length, as they only grow; a fingerprint is the length
that was there when it was taken. `file` is the state file, `Torn` when it does not
parse or is not there, which the code does not distinguish either; `held` what each
store (with each set of tags: `stamp_digest`) holds. `Start`, `Read`, `Load`,
`Send`, `Solo`, `Save`, `Write`, `Finish` are the stages of `run`. `Read` comes
after `Start` by a step of its own, so that any transcript may have grown in
between; growth between the reads of two files adds nothing, as nothing compares
them. `Cuts` is `plan_batches`, with an envelope over the budget alone in its
batch; `Marked` and `Unanswered` are how results are
matched with items. The store may keep any of what it does not reject, confirm less
than it keeps, or not be heard at all; transcripts in `Poison` fail a request
whenever they are in it. `Save` truncates and `Write` writes, which may leave
another exporter's longer tail. `Forge` is somebody else's writing of the state
file, the subject of `--ignore-state`.

Run `sweep` has one exporter and two configurations; one transcript grows from where
it shares a batch with its neighbour (budget 2, both of length 1), to where it does
not (2), to past the budget, so that it goes out alone (3), to past the envelope limit
(4); the neighbour is poison. `sweep_pair` has two
exporters on one state file and one bad event; the property in question needs no
more than one. `FairSpec` has the daemon sweep again and again; nothing forces
transcripts to grow or requests to fail.

### 3.6 `Transcripts`, `CursorThreads`, `Discovery`

An agent writes a row in two pieces; the piece is the unit of `length`, of the
fingerprint and of the limit, so that files end in the middle of a row. `Open`
measures on the handle, `Fetch` reads what is there by then, up to the limit and one
more, and `Visit` parses. The three files are a Claude transcript; a Codex rollout
forked from another session, whose second header names the ancestor and whose clock
runs backwards, and which grows past the limit; and a file that does not match.

In `CursorThreads`, `Scan` is one composer row of the first pass, with the pruning
of the buffer when it is full; `Emit` fetches the newest candidate left and assembles
it; `Reply`, `Revise`, `Delete` are Cursor, which the exporter does not lock out. All
assignments of seven sorts of rows to four threads are the initial states: with and
without times, with ties, inline and in rows, empty, over the byte bound, NULL and
no JSON. Two candidates are kept of at most three held, so that pruning happens
while more come. The run has no deadlock check: a scan ends and the edits are used up.

### 3.7 `Restore`, `Command`, `SecureRoot`, `Binaries`

`Restore`: both clients fetch an envelope and then the bytes, between which the
store may `Accept` a newer version; `EnsureRepo` takes the checkout around the
process, else the one in the clone's place, else clones, in steps that another
restore can observe: `CloneBegins` makes the directory, `CloneConfigures` its origin,
by which others find it from then on, `CloneGrows` one tracked directory after another,
until `CloneEnds`, or `CloneFails` takes all of it away. `Relocate` maps the captured
directory below the last component with the repository's name, if it is there by then;
the root of a clone under way is. `Create`, `Write`, `Rename`. Two
restorers bring back two sessions of two repositories that are both called
`acme/widget`, on two hosts, from directories that repeat the name or do not have
it, one of them captured at its repository's root; the second version of the first
session was written by another harness.

`Command`: `CommandOf`, `Malformed` and `Conflicting` are the argument grammar, over
words; the lines of the instance reach every mode, refusal and precedence. A sweep
has an outcome, the failure counters that are not zero; `WriteRecord` is the rename
of `record_success`; `CheckHealth` is `check`. The clock ticks and may be set back,
processes are killed, and a power cut may tear the record, which was never synced.

`SecureRoot`: the walk of `open_root` from the root directory by descriptor,
following links only where root alone could have made them; `OpenChild`; the check
of the path before and after SQLite opens its file by name; and `Swap`, which
removes an entry or puts another node in its place at any time until the opening is
over. With one replacement a mismatch is always noticed; two can put back what they
took away, between the two checks, and the property allows for that.

Bounds: three restores, one mishap; a clock of three readings, one trouble; two
replacements. Each part's interesting cases (a version fetched twice, a clone seen
half made and one that is taken away, a record from the future, a swap and its
reversal) need no more. The run has no deadlock check: bounds are used up.

`RestoredWhereItRan` is stated as far as it holds. The directory is the one the session
ran in if its checkout had its repository's name and nothing below it has the same one.
The checkout and the directory chosen stay unless that very checkout was a clone still
under way that failed: `removed` is history, the places a clone was taken away from.

## 4. Runs

| Run | Instance | Checks | Distinct states |
|---|---|---|---|
| `fencing` | 2 processes, 1 revision, deleted here and by another client, `Limit` 2; a failure, a crash, a stall | `AcknowledgedDeletionHolds`, `ReceiptIsHonest`, `RequestsNeverOverlap`, `RecordsFollowGrants`, `NoUploadAfterDeletion`, `ImplementsContract` | 2 070 973 |
| `shared_body` | 2 processes, 2 identities with one object, one of them a legacy row, `Limit` 1; a damaged object | `NeededBodyIsKept`, `NoSilentCancel`, `OnlyDamageIsSetAside`, `ErasedMeansGone` | 2 252 929 |
| `delivery` | 2 processes and 1 revision, or 1 process and 2 revisions with one object, `Limit` 2, fairness; a crash | `EverythingSettles`, `DeletedBodiesLeave` | 152 045 |
| `schedule` | 4 uploads, 3 of them hopeless or unreadable, 3 deletions, 1 of them hopeless, `Limit` 2, fairness; 1 trouble | `TypeOK`, `EveryRowGetsItsTurn` | 67 455 |
| `spool` | 2 sweeps of 3 envelopes, 1 reader, fairness; 2 failures or power losses | `TypeOK`, `IndexedBodiesAreReadable`, `FinishedSweepIsIndexed`, `TraversalIsExact`, `EveryEnvelopeIsIndexed`, `ImplementsLog` | 201 266 |
| `inventory` | 2 drains, 2 operations, 2 payloads, 2 stores, fairness; 2 troubles | `TypeOK`, `AcknowledgedIsRemote`, `NothingReachesAnotherStore`, `EvidenceSettles`, `ImplementsQueue` | 349 999 |
| `sweep` | 1 exporter, 2 transcripts, 2 configurations, fairness; 1 trouble and requests that always fail | `EverythingIsHeld` | 291 924 |
| `sweep_pair` | 2 exporters, 2 transcripts; 1 trouble | `RecordedIsHeld`, `CleanSweepIsHeld` | 434 130 |
| `discovery` | 3 files, or 4 threads of 7 sorts and 1 edit | `TypeOK`, `EnvelopesAreHonest`, `QuietFilesAreTaken`, `PruningKeepsTheNewest`, `EditsAreNoticed`, `IdentityIsStable` | 1 566 082 |
| `binaries` | as in 3.7 | `TypeOK`, `TranscriptsAreWhole`, `RestoredWhereItRan`, `AnswersAreHonest`, `IndexStaysWithItsObjects`, `HealthyMeansSwept` | 875 039 |
| `v_interrupted_unlink` | 1 process, a crash | `InterruptionIsHarmless` is violated | |
| `v_wrong_twin` | 1 exporter, 2 transcripts with one session id | `RecordedIsHeld` is violated | |

The two `v_` runs each show a disagreement between the code and what the repository
says of it; section 6 describes them. `delivery` has a crash but not together with a
failed request, and `shared_body` damage but no crash: those instances are beyond a
few minutes. Failed requests and crashes are in `fencing` too, and the theorems of
`shared_body`'s properties leave nothing out. The types of `CaptureOutbox` and
`Sweep` are proved and not checked again.

## 5. Proofs

Each theorem holds for every value of the constants that its module's assumption
admits: `CaptureAssumption`, `ScheduleAssumption`, `SpoolAssumption`,
`SweepAssumption`, `InventoryAssumption`, `TranscriptsAssumption`,
`CursorAssumption`, `RestoreAssumption`, `CommandAssumption`,
`SecureRootAssumption`. They give sets their finiteness, limits their sign, models
their distinct special values and tables their shape (captured directories and the
targets of links are sequences of names), and TLC evaluates them in every run. The
number of processes, items and troubles is arbitrary. Two theorems have a hypothesis
besides, of which their sections speak: `OneFilePerSession` and `HeadersOpen`.

### 5.1 The capture outbox

`CaptureOutboxProofs` proves `TypeCorrect`. `TypeOK` alone is not inductive: that
`room` stays in `0 .. Limit` needs that no more deletions are listed than there is
room for, and that `Job(p)` is defined needs that a process in the middle of a
job has one. `TypeInv` adds this as `Fits(p)`, one lemma per action shows that it
is kept, and the theorem follows.

Two properties follow from two further invariants.

* `Fencing`: a grant's token is at most the ledger's; two live grants of a revision
  differ in their tokens; so does every request from any later grant; no recorded
  token is above the ledger's. Most steps grant, send and record nothing
  (`QuietFencing`); `GrantLease`, `Send` and `Record` have a lemma each.
  `RecordsInOrder` follows: a result is recorded only under the ledger's token.
* `Deletion`: the store serves nothing it deleted; what is recorded as
  acknowledged is deleted; a process that was told so was told the truth. The
  last part needs `Fencing`: the answer to an upload could otherwise reach a
  process waiting to have the same revision deleted.
  `AcknowledgedDeletionIsFinal` follows.

The refinement is `OutboxKeepsContract`. The abstract
variables are the tables themselves (accepted: the rows; dropped: the cancelled
ones; aside: the quarantined ones; deletion: the tombstones) and the store. What
a process knows when it writes to them was learned several steps earlier, and
`Founded` says that it is still true: a job's row is there or its deletion was
requested; so for every request on the wire; a capture being enqueued has no
tombstone, and an object being erased is needed by nobody, because the write lock
is held from the check to the commit; a process told that its upload is stored
was told the truth. All of these are kept by most steps for one reason, that rows,
receipts, tombstones and set-aside marks only accumulate (`Growing`). Then each
action is a step of the contract or a stutter: `CommitEnqueue` accepts, `Record`
delivers, confirms or withdraws, `CheckTombstone` and `CommitErasures` drop,
`SetAside` and `Backfill` set aside, the store holds and erases. With the mapping
at hand two safety properties need only the contract's nine steps
(`ContractKept`): `ReceiptsAreHonest` and `NothingIsDroppedInSilence`.

`OneRequestAtATime` and `UploadsStopAtDeletion` are for behaviours without a stall.
Inductive are: every grant in use is the current one
of its revision and has not run out (`GrantsCurrent`), and an upload's tombstone
check still holds until it is sent (`ChecksCurrent`), since only the holder of the
current grant records an acknowledgement. `NeededBodiesAreKept` and
`ErasedBodiesAreGone` follow from the invariant `Bodies`: a pending row finds its object,
an enqueue finds at its commit what it published, and what cleanup unlinked stays
unlinked until its commit. The file operations are not part of the transactions
around them; what makes these hold is that both kinds of transaction hold the write
lock throughout (`Locked`) and that an object chosen for erasing stays dispensable
(`Erasing`). `OnlyDamagedIsSetAside` follows by one more induction: a row whose
object is missing is not pending, or its deletion was requested, whatever
interruption took the object; and that is still so of a row found unusable when it is
set aside, however much later (`Excused`), as neither can be undone.

`DrainScheduleProofs` proves that a pass keeps its limit (`PassesKeepTheLimit`). It is
inductive once the list is known to hold what the pass has come to, deletions that were
requested or uploads (`Paced`). That a list is one at all, and not the arbitrary value
of a `CHOOSE`, is `FirstOfFacts`: the two ORDER BY clauses leave no ties
(`UploadsAreOrdered`, `DeletionsAreOrdered`), and in a strict order of a finite set
every rank below its size is somebody's (`EveryRankIsTaken` in `OrderLemmas`, by
counting: ranks are an injection into as many numbers as there are members).

### 5.2 The spool

The first invariant is `Sound`. `Durable`: nothing in the objects directory is ever torn,
because bytes are synced before they are linked, and what the directory was synced
with is there. `Handled(p)`: what a process holds is where its step needs it.
`Swept(p)`: what a sweep has behind it is indexed or was too large. And every row's
object is settled. A power loss is harmless because it ends the processes, leaves
the index alone and takes nothing settled. `IndexedIsReadable` follows, and
`FinishedIsIndexed` with one more induction (`Assured`): what was assured was indexed
when its sweep ended, and rows never go away. So does `SpoolImplementsLog`,
with the bodies of the log
mapped to the objects that are whole: `Publish` places a body, `PublishRow` appends,
`PowerLoss` loses bodies nothing refers to.

`TraversalsAreExact` is about the other side, the reader. `Paged` says that it has got
all the rows' numbers up to where it is, in order, and that where it goes on lies within
the watermark it was given, which lies within the table's. A page adds the next of them
(`FirstOfEntries`, `AllOfEntries`, `PagesJoin`: an ascending sequence of a set exists by
the ranks of `OrderLemmas`, its beginning holds the smallest, and concatenated to what is
before it stays ascending), and a row that arrives has a larger number than any so far
(`RowsArrive`), which is where AUTOINCREMENT is needed: a number that is used again
would be one the reader has passed. `SpoolIsTyped` follows from both invariants.

### 5.3 The sweep

`Honest` adds to `RecordedIsHeld`: fingerprints are no larger than what was read
after them (`Ordered`); what an exporter remembers its store holds, unless it read a
forged file (`Backed`); while no fault is counted, every transcript it found is in
its plan, in its retries, or remembered with its fingerprint (`Covered`). The
matching of results is in two lemmas about `Marked` and `Unanswered`: if session ids
tell transcripts apart, a marked item was confirmed (`MarkedWereConfirmed`), and one
that is not marked is counted (`UnmarkedIsCounted`). The hypothesis
`OneFilePerSession` of these theorems is needed: `v_wrong_twin` is what happens
without it. `RecordsAreHeld` and `CleanSweepsAreHeld` follow.

### 5.4 The inventory outbox

`Faithful` says that rows keep the content first accepted (`Rows`), that every
process at work is configured for the outbox's store (`Bound`; a drain's own check makes
it so once more), and that a request
is about a row and a positive answer to it is true (`Answers`); the last holds
although two processes may wait for answers about one row, as the store never
replaces content. `AcknowledgementsHold` and `OneStoreOnly` are parts of it;
`InventoryImplementsQueue` maps the steps. `InventoryIsTyped` needs that every list a
drain selects is one: ORDER BY attempts, sequence leaves no ties, as an identity has
one row (`TurnsAreOrdered`), so that every place up to the limit is taken
(`SelectsTheFirst`).

### 5.5 The sources

`FilesInv` is for the files. The walk has at most one open, which cannot shrink while
it is (`Handled`); what is known of a file is what parsing some reading of it gives, of
no more than is there now (`Kept`); a file the walk has passed and that held still was
taken (`Taken`). Files are created, removed and appended to while walks go on; that an
open one is not truncated is part of the model (section 7).
`EnvelopesClaimWhatWasRead` and `NoQuietFileIsMissed` follow.
`ThreadsInv` is for Cursor's: `PruningKeepsTheNewest` is inductive as it stands once the
newest-first order is known to be strict (its last key, the row's number, is unique) and
the first `n` of a set to be that many (`FirstPlaces`), since the newest of more rows are
among the newest of fewer and the new ones; and a row that was emitted is an earlier
state of the one there now (`Traced`), so that `EditsChangeTheFingerprint`.
`SessionsKeepTheirNames` is an action property; its hypothesis `HeadersOpen` is about
the agent, not the exporter: Codex writes its header before any row, or never. Without
it a rollout would be known by its file's name until the header arrives, and by the
header's session from then on. TLC evaluates it for the run's scripts.

### 5.6 Reconstitution, command line, durable root

These are theorems of `Binaries`, of which each part leaves the others' variables alone.

*Reconstitution.* `Careful`: a restorer that has bytes has a Claude transcript, of its
envelope's version if it asked by hash (`Checked`); its temporary file is its own and
whole before it is renamed (`Written`). `RestoredTranscriptsAreWhole` follows. `Steady`:
the checkout a restorer found stays one of the repository it looked for, and keeps the
directory that was found in it, unless a failing clone took just that one away
(`Settled`), because directories are only added to a clone until then, and because a
clone is made in a place of its own and no two
are made in one place (`Apart`). Where a session ran is found again because the last
component with the repository's name is the root itself, if none below has that name;
`SessionsComeBackWhereTheyRan` follows.

*Command line.* `Truthful`: what a process that is under way was told was not refused,
and it has printed no document yet if it will print one (`Candid`); the health record,
or what a process is about to write there, is the time at which some sweep ended
(`Witnessed`), unless it is missing or torn. `ExitAndDocumentAgree` follows, and
`HealthMeansASweep`, of the step that answers.

*Durable root.* `Guarded`: the directories on the stack were trusted when they were
passed, the last is its user's alone (`HoldsItsOwn`), and replacements add up
(`OneSwapIsSeen`): SQLite's path is compared with the descriptor before and after the
database is opened, and one replacement can upset only one comparison.
`IndexIsWhereItsObjectsAre` follows. The walk itself needs that the names still to be
entered are names, which is why link targets have their shape in the assumption
(`Walking`).

`ProgramsAreTyped` has the types of all three.

### 5.7 Only model-checked

Liveness (`EverythingSettles`, `DeletedBodiesLeave`, `EveryRowGetsItsTurn`,
`EveryEnvelopeIsIndexed`, `EvidenceSettles`, `EverythingIsHeld`): temporal proofs under
fairness are out of the prover's reach. The type of `Sweep` is a part of `Honest`.

## 6. What the code does otherwise

Shown by a run:

* `v_interrupted_unlink` — `capture_outbox.rs:627`: a cleanup interrupted between
  unlink and commit ends in a deleted row being quarantined, and exit code 3 for
  ever, when the limit lets the row be selected before cleanup repeats. "Cleanup
  repeats safely after interruption" does not hold then.
* `v_wrong_twin` — `lib.rs:403`: of two transcripts of a batch with one session id
  the store rejects the first and keeps the second; the one acceptance marks the
  first, which is then never sent again.

Met while modelling; the models contain the behaviour, and no property claims the
contrary:

* `capture_outbox.rs:670`: deletions are selected by key, count no attempts and go
  first, so that as many of them as the limit is, if they fail every time, keep every
  upload and every other deletion from being attempted.
  `docs/qualified-capture.md:23-24` promises that "attempts rotate pending work".
* `capture_outbox.rs:377`: a capture that was set aside and is enqueued again has its
  object back, but its row stays set aside; after its deletion the object stays too.
* `capture_outbox.rs:427`: a row that another drain delivered is set aside because
  its body was rightly deleted meanwhile.
* `capture_outbox.rs:616`: a delivered legacy row without content hash does not keep
  cleanup from unlinking its object.
* `capture_outbox.rs:366`: an object published by an interrupted enqueue, whose
  revision is then deleted, has no row and is neither reusable nor ever removed. The
  same happens with rows: when one identity's row of an object was delivered, deleted
  and erased, and another identity's enqueue of the same bytes is interrupted before
  `:389` resets the mark, that identity's deletion leaves the object for ever, as
  cleanup passes over rows marked erased (`:616`).
* `capture_outbox.rs:458`: after a client timeout the lease is released while the
  request may still be at the store; an upload and a deletion may then overlap. The
  store's tombstone keeps the outcome right.
* `inventory_outbox.rs:164`: an operation whose row no longer decodes cannot be
  enqueued again; it is a conflict. And `:187` sends new rows before old ones that
  were tried already.
* `lib.rs:318-320` says that items the store rejected are marked as sent; the code
  does not mark them, as `:347` says.
* `lib.rs:269`: a health record that cannot be written turns a sweep that sent
  everything into a failed one.
* `cursor.rs:346`: an edit that leaves a thread without `lastUpdatedAt` as long as it
  was does not change its fingerprint, and is not sent (`sources.rs:311`).
  `cursor.rs:226`: a thread deleted between the two passes fails the scan, and with
  it the sweep.
* `gitmeta.rs:41`: a `.git` file, as in worktrees, is not a repository; the walk goes
  on above it.
* `reconstitute.rs:571`: a restore replaces the local transcript of its session
  whatever it is, also a newer one. `:340`: a clone that was killed leaves a
  directory that later restores refuse, or whose files are not there. And as `:231` asks
  only whether the directory exists, a restore succeeds in a clone that another restore
  has still under way, for a session captured at the repository's root as soon as the
  origin is configured, and the agent is resumed without files or in a directory that
  goes away when that clone fails.
* `sources.rs:68-79`: a file that is truncated between `metadata()` and the read gets a
  fingerprint that claims more than was read. The agents only append, so the model's
  files only grow while they are open.

## 7. Not modelled

* Outbox: the destination binding and the validation of inputs (one check at entry,
  no state; the inventory outbox's binding is modelled), the schema migrations of
  `open` (their result, a ledger whose rows carry no content hash, is an initial
  state of `shared_body`), rows of the ledger or of the spool index that no longer
  decode (set aside like a row whose object is damaged), and the counters of the
  summary. `lease` is dropped by a statement whose failure is ignored; that is a
  lease left behind, which `Crash` gives.
* SQLite: its transactions are atomic and durable; its busy timeout is a wait.
* Secure file access: the check of SQLite's sidecar files, and the fallback for
  systems without `openat` (`secure_fs.rs:373`), which promises less. `verify` walks
  the path in one step.
* Parsers: titles, models and other metadata no property looks at. The encoding of
  paths, JSON and its escaping. Remotes are records, not strings: the parsing of
  their spellings is left out, as is that of git's config file.
* Configuration: defaults and the validation of single variables.
* Sources: the truncation of a transcript while it is open (section 6).
* Reconstitution: a git process that outlives the restore it was started by; resuming
  the agent, which starts another program, and the parsing
  of its command line.
* Command line: the local modes' own work, which is that of the other modules, and
  the wording of everything.
* The counters of the sweep's summary beyond what decides its verdict.
