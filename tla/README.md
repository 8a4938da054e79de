# Password Bonobo: TLA+ models of the vault, its stores and its desktop

Password Bonobo is a local-file password manager: a typed Python core that reads and
writes Password Safe V3 files, an application facade that owns one vault session, and a
Qt Quick desktop around it. This directory models the parts of it that decide whether a
user's edits survive and whether decrypted data is let go: who holds them at each moment,
which failures and crashes may happen in between, what two processes or two threads can do
to one another, and what a file that is read back may differ in.

## Inventory

Paths are relative to `src/src/`.

| Component | State | Operations | Interaction | Hard behaviour |
|---|---|---|---|---|
| `VaultApplication` (`bonobo_core/application/facade.py`) | published snapshot (phase, generation), private session, source path, suspended selector, decision token, record keys, draft revisions | create, open, begin/commit edit, search, save, close and decisions, lock, unlock, discard suspended, copy, browse | calls `VaultService`, the session and the ports under one lock | commands that fail after an irreversible step; what is published must match what is held |
| `VaultService` (`passwordsafe/service.py`) | none of its own (a lock) | create, open, save, suspend, resume, discard, change passphrase, export, restore | `VaultSession`, `PendingSessionStore`, `LocalVaultStore`, reader, writer | two looks at the source around one publication; committed operations that still raise |
| `VaultSession` (`passwordsafe/session.py`) | document, path, baseline, changes, pending identity, retired resources | add, apply, move, delete, protect, save and suspend bookkeeping | owned by the facade, driven by the service | a resumed session is dirty without changes; owners of plaintext that cannot be closed |
| `PendingSessionStore` (`passwordsafe/pending.py`) | one visible slot and one artifact per source in a private directory | publish, guard_open, open, discard, verify | other processes see its directory | rename sequences, rollbacks that fail, crashes between renames |
| `LocalVaultStore` (`passwordsafe/storage.py`) | source files, recovery slots (at most 64 identifiers) | capture, publish, publish_new, restore | other programs write the same sources | publication over an expected baseline, recovery bookkeeping, a rollback outside the lock |
| `FacadeExecutor`, `GuiThreadInvoker` (`bonobo_desktop/tasks.py`) | queue, active task, shutdown flags, terminal operation | submit, run, cancel, shutdown, synchronous GUI call | GUI thread and one worker | shutdown against queued, starting and active tasks |
| `DesktopController` (`controller.py`) | last snapshot, typed passphrase, coalesced search | one slot per command | submits to the executor, receives queued outcomes | stale generations, passphrase ownership |
| `IdleLockController` (`lifecycle.py`) | active, submitted, elapsed | event filter, poll, phase synchronisation | requests the controller's lock | one-shot request whose lock may be rejected |
| `QtClipboardPort` (`clipboard.py`) | nonce, expiry timer | copy, clear owned | GUI thread, other applications | clears only what it still owns |
| `main.py` | none | start, event loop, terminal lock | builds everything above | quitting in any phase |
| reader, writer (`reader.py`, `writer.py`) | a transaction: builder, keys, snapshot, candidate | open, verify, stage, reopen, compare | service, crypto, snapshots | limits and order of checks; what a failing step leaves open; a candidate that others change |
| model, schema (`model.py`, `schema.py`) | documents, classified fields, warnings | classify, validate, fork, compare | session, reader, writer | evidence that must follow edits |
| payloads, secrets, snapshots (`payloads.py`, `secrets.py`, `snapshots.py`) | chain values, leases, streams, locks, descriptors | retain, stream, close | session, reader threads | closing against a running stream; a close that fails half-way |
| custom fields (`custom_fields.py`) | immutable data | parse, encode | session | one grammar inside one payload |
| crypto and its native binding | contexts | key, turn a block, destroy | reader, writer, payloads | a native library |
| platform security, browser, file dialog, list model, QML, `tools/` | thin adapters | | | |

What makes them correct: the facade never loses a confirmed edit without being
told to, never publishes a phase that its session contradicts, and never keeps a pending
selector that answers to nothing; the stores let one of two versions survive, never none,
and never overwrite what they have not seen; a session's plaintext has an owner until it is
wiped; an edit changes the fields it names and no others, and only a verified revision is
published; a stream shows its payload or fails; the executor runs the terminal lock alone and
once, and neither forgets a task nor blocks for ever; a late command acts on the record the
user chose or on none. `PROJECT.json` lists the places where the code is exposed (`hazards`)
with the properties that cover each.

## Modules

| Module | Models | Instance | Theorems |
|---|---|---|---|
| `VaultApplication` | facade, service and session over two kinds of durable state, with external writers | `MCVaultApplication` | `VaultProcessProofs` |
| `VaultProcess` | the same (EXTENDS) under the life of the process: quit, terminal lock, kill, restart | `MCVaultProcess` | `VaultProcessProofs` |
| `FacadeExecutor` | the worker, the queue, shutdown, and the blocking call to the GUI thread | `MCFacadeExecutor` | `FacadeExecutorProofs` |
| `PendingSlot` | what the pending store promises: the abstract slot | | |
| `PendingStore` | the pending store link by link; implements `PendingSlot` | `MCPendingStore` | `PendingStoreProofs` |
| `LocalStore` | publication and recovery of one destination by several processes | `MCLocalStore` | `LocalStoreProofs` |
| `VaultSession` | owners of decrypted data through every service operation | `MCVaultSession` | `VaultSessionProofs` |
| `Desktop` | controller, idle lock, clipboard and editor over one worker and the facade | `MCDesktop` | `DesktopProofs` |
| `VaultFormat` | schema, validation, classification, forks: operators only | | |
| `PayloadCompare` | the comparison of two payload streams: operators only | | |
| `VaultCodec` | reader, writer, edits and the service operations that join them, over `VaultFormat` | `MCVaultCodec` | `VaultCodecProofs` |
| `PayloadStreams` | threads that stream payloads against threads that close them | `MCPayloadStreams` | `PayloadStreamsProofs` |

The same code appears at more than one grain. In `VaultApplication` a publication of either store is
one step with the outcomes its caller can see; `PendingStore` and `LocalStore` have its
steps. `VaultSession` counts leases; `PayloadStreams` has the locks and streams below one
lease. `Desktop` keeps of the facade what the GUI can see (generations, keys, phases) and
`FacadeExecutor` of the commands only that they run.

### VaultApplication

A document is the set of edits it contains; a version names one published state of a file
(the `FileBaseline` evidence); a selector is the random identifier of a pending slot.
`phase`, `session`, `sourcePath`, `suspended` and `decision` are the facade's fields of the same
names; `file` and `slot` are what is on disk. `owed` is history: the edits that were confirmed
and that nobody asked to discard.

The facade holds one lock for a whole command, so that a command is one action. Two are cut
in two, because what they read can change under them: `Lock`/`FinishSuspend` (the source is
captured again after the slot has been published) and
`ResolveReplaceSave`/`FinishReplacement` (the old vault is published, then the new one
opened). Between the halves the phase is BUSY and another program may write.

Failures are part of each action, as further disjuncts: a save that is committed and still
raises, with its pending slot removed or not; a discard that fails; a replacement that fails
before or after the old session was closed. The constants `ViewFails` and `RollbackFails`
switch on the rarer ones: a view that cannot be rendered after a mutation, and a
pending-store rollback that fails as well. A failure that restores exactly the state it
found, a stale generation or token, and a closed passphrase have no action: they change
nothing. When a refreshed projection fails after an edit, the facade fails closed and gives
up the unsaved edits; the model takes them out of `owed` there, and only there without a
request of the user.

`ExternalWrite` is the one action outside the process: another program saves its own edit
over a source in `Writers`. Fresh versions and selectors are drawn from the values nothing
refers to any more, so that small sets suffice.

### VaultProcess

`stage` follows `main.py`: RUNNING, QUITTING (admission closed, the active command done),
CLOSED or GAVE_UP (the terminal lock was asked for, or failed in its suspension). `Reborn`
keeps the disk and nothing else. `Kill` may come at any step, also between the halves of a
command.

### FacadeExecutor

One step per critical section of `_guard` and per point at which the worker or the GUI thread
can be overtaken. The GUI thread submits while its event loop runs; `Shutdown` ends the loop,
as in `main.py`, and the sweep over the snapshot of tasks, the cancellation callbacks, the
cleanup flag and the final wait are steps of their own. A task in `Invoking` asks the GUI
thread for clipboard work before it ends, which only a running loop serves. The public
signals and a task's own completion are emitted back to back by the only worker and are one
step. The outcome of a command is the same whether it returns or raises. `NothingIsCutOff` says what
`shutdown` may leave behind when it returns, which is less than the design says (Differences from
the documents).

### PendingStore and PendingSlot

A move in the private directory is a link and an unlink, two steps. `link` maps the stable
name (`slot`) and the four hidden ones of a running operation to the record they lead to; a record
is written once for one identifier, which therefore stands for it. `op` has the local variables
of `_publish_locked` that its `finally` clause looks at, `step` the place in it. A step may
fail before or after its effect, which leads into the rollback (`RemoveNew`, `Rollback`,
`Reinstate`, `Reread`, `Confirm`, `Restore`) or, after the commit point, into `Cleanup`;
a step of the rollback may fail too. `Crash` may come at any step, releases the locks and
leaves the names as they are. The caller is a service that holds at most one selector.
`kept` is history: identifiers whose suspension counts as durable; `harm` names what has gone
wrong beyond a single failure, and the properties say which harm takes them away.

`PendingSlot` has one visible identifier, which is drawn once, published at most once, and
never comes back. `KeepsPromise` is `PendingStore`'s specification under the mapping
`visible <- IF Undecided THEN op.previous ELSE link["slot"]`: until it has committed, an
operation shows the slot it set out from.

### LocalStore

A file is its content and a version (inode and timestamps) that is never used twice. Each
process runs `_publish_source`: `AcquireLock`, `Recheck`, `CreateRecovery`, `WriteSlot`,
`RecheckAgain`, `Replace`, `Verify`, `DropObsolete`, `CommitSlot`, `Unlock`, and, outside the lock
as in its `finally` clause, `Recapture`, `RestoreSlot`, `RemoveNew`, then `Answer`. `Replace`
is `os.replace` for a save and an exclusive `os.link` for a new vault, and can fail with its effect
done. `StepFails` is a fault at any stage, `Crash` the death of a process, `External` a program
that ignores the lock. `harm` names the cases the code cannot exclude: a foreign write after the
last comparison (`window`), a directory exchanged after the replacement (`unstable`), a
rollback overtaken by the next holder of the lock (`overtaken`), a rollback that fails
(`rollback`), a removal that fails (`backlog`), a destination that cannot be read again (`unread`).

### VaultSession

A document holds one lease of every payload in it; inline payloads share a buffer that the last
lease wipes, deferred ones borrow the keys and the snapshot of the vault they were read from. `heap`
has the documents, the opened vaults and the counts; `session` the live session with what it
has retired, exported, copied or frozen; `job` the service operation under way with the owners it
holds. A session method is one step, a service operation many, and any method may come between.
Any close may fail at one kind of leaf (`Faults`); the documents of one close go in the order of
their numbers, so that the last holder of a buffer that cannot be wiped is the one that stays
(`Stuck`), and a vault's keys and snapshot go only once its document has (`CloseAll`). `Collect` is the finaliser that Python's
reference counting runs once nobody holds an owner. `ForeignWrite` is another program that replaces
the source, with any part of its edits, between any two steps: the version moves, so that a
publication is refused (`Unmoved`), a suspension that has just published discards its slot
(`SourceMoved`), and a slot may be bound to a version that is gone. `session.baseline` is the version the session
goes by, `disk.binding` the one its slot is bound to, `disk.foreign` the last one another program wrote.

### Desktop

The GUI thread never reads the facade: `screen` is the last snapshot delivered to it, `events`
the Qt queue, `queue` and `worker` the executor. A command carries the generation of the screen,
runs in one step up to a blocking clipboard call and in one after it. The clipboard belongs to
every process: `_clear_owned_on_gui` compares it in one step (`ClearOwned`) and clears it in the next
(`Clear`), and `OtherApplicationCopies` may come between; the GUI thread does nothing else meanwhile
(`clearing`). `AnswersCome` relates what the GUI waits for (a search in flight, an editor that awaits its commit) to the
commands and events that will end the wait. `facade` maps the
records of the session to the keys handed out for them. `owners` has the commands whose secret buffer is
open. Timers may fire whenever they run.

### VaultFormat, VaultCodec and PayloadCompare

A field is a type and a payload. One type stands for each class of the schema tables that some rule
tells apart (eleven record types, four header types; `Strange` has those the tables do not know),
one payload for each outcome of decoding. `Frame` is one turn of `_decrypt_fields`, `Conforms` what
`_validate_schema_fields` accepts, `Warnings` what it collects, `Fork` and `Remapped` what
`_fork_document` makes of both after an edit, `EqualExact` what `documents_equal_exact` compares.
What is kept of a sequence (`Kept`, `Remapped`) is written as a concatenation of pieces, for which
there is a theory in the proofs. `VaultCodec` runs the reader's transaction in the order of its
checks with the owners it has open (`read`), the writer's with its candidate (`write`, `candidate`),
and the edits of a session. `Meddle` is another program that removes, replaces or overwrites the
candidate. `PayloadCompare` is the loop with two cursors by which payloads are compared.
`ComparesExactly` says that it finds two streams equal exactly when both yield what they declare and
yield the same bytes, whatever the chunks.

### PayloadStreams

The generator of a deferred payload: entered under the iterator's lock, registered under the
payload's lock, one step per look at a closing flag, which is read without either lock. The
decryptor's look at the content key (`Prime`, `crypto.py:561`) and the native keying from it (`Key`,
568) are two steps. `Unwound` is the unwinding of the generator: a chunk's view is released and its bytes are zeroed; with
the view exported the release raises, and the outer `finally` zeroes the bytes under it. `Shut`, `List`,
`Sever` and the final part are `close`; `NextPayload`, `WipeKeys` and `CloseSnapshot` are the
vault's. Consumers look at their chunk at a time of their own, abandon their stream, or keep a view of
a chunk exported; `seen` is what they have read: true bytes, bytes that are not the payload's, or zeros. An inline stream shows the bytes its buffer has at that moment.

## Runs

| Run | Instance | Shows |
|---|---|---|
| `vault_lifecycle` | 2 paths, one also written by others, 3 edits, 4 versions, 3 selectors | no silent loss, honest phase, one pending identity, reachable slots |
| `vault_process` | the same with failing views, kills and restarts | no session beside a slot of other work; a proper exit loses nothing owed |
| `executor` | 3 commands: 2 durability commands, 1 that needs the GUI | terminal operation alone and once, each task claimed once, no durability command cut off; shutdown ends, tasks settle |
| `pending_store` | 3 identifiers | a confirmed suspension survives every failure and crash; the caller's selector answers after every single failure; the refinement of `PendingSlot` |
| `local_store` | 2 processes, 3 identifiers, a slot of at most 2, 3 saves, 2 foreign writes, 1 crash, 1 kind of harm | the replaced content stays recoverable, no save is overwritten unseen, one artifact is left, the answer is true |
| `vault_session` | 2 edits, one perhaps suspended earlier, 5 documents and 3 vaults at once, 2 service operations, 1 failing close or foreign write | lease counts, nothing forgotten, a live session readable, clean means published, never frozen for good, a resumed session keeps its slot, everything wiped at last |
| `desktop` | 2 queries, 2 nonces, 4 commands, 3 typed texts | late commands act on the chosen record, secrets owned and timed, suspension drained, the idle watch, what the GUI waits for is on its way |
| `vault_codec` | 12 kinds of file, limits of 3 records, 16 fields and 10 bytes of text, 2 edits with 1 move, 2 operations, 2 faults | fields outside an edit kept, evidence as the reader's, writer and reader agree, nothing left open, only the verified revision published; payload comparison exact |
| `payload_streams` | 2 readers, payloads of 2 chunks, 2 attempts per close, 2 failures | what a stream shows and how it ends, open payloads intact, closed ones released; no deadlock |
| `dead_selector` | violation of `SelectorIsLive` | see Findings |
| `quit_awaiting` | violation of `QuitSuspends` | see Findings |
| `executor_deadlock` | violation of `ShutdownEnds` | see Findings |

### Bounds

- *Vault.* Two paths are needed for a replacement to leave one vault for another, and every
  interaction in the code is between the current source and one other. Two edits on one path
  and one by another program are enough for each pair of holders (session, source, slot) to
  differ; three of each let a slot, a resumed session and an external version all differ at
  once. At most four values of a version are referred to at once, and three selectors (a slot,
  the one before it, a fresh one).
- *Executor.* Two durability commands let one be active and one queued at shutdown, the third
  is caught in the GUI call. `runs` is bounded by the number of tasks.
- *Pending store.* An operation knows its new identifier and the previous one; the third is one
  that an earlier operation left behind. Since an identifier is drawn once, three also bound
  the operations: a publication, one over it, and one over that.
- *Local store.* Two processes are needed for one to overtake the other's rollback. `MaxSlot`
  stands for 64: with 2 a slot is full after one removal that failed, with the fresh identifier
  beside it. Three saves give a first publication, its successor and one over a slot in an odd
  state. `MaxHarm` bounds the *kinds* of harm in a behaviour, not how often they occur.
- *Session.* Two service operations put every operation after every other; five documents and
  three vaults are live at once only in a save over a resumed session beside an export.
  The ids of closed documents and vaults are used again. `MaxMishaps` bounds the closes that fail and the
  foreign writes together: the run has each of them at every step, but not both in one behaviour; for that
  there are the theorems. Edits are made in a fixed order (`AnyOf`): which of those not made yet comes next
  makes no difference to a session.
- *Desktop.* With four commands a queued, an active and a delivered one meet a replacement
  of the vault; two nonces are what the port and the clipboard can hold.
- *Codec.* The twelve files have each warning, each refusal, the limits met and exceeded, both
  key strengths, and damaged ends. `MaxEvents` bounds edits and faults together by 2, so that
  two edits, two faults, or one of each are explored with every pair of operations; the case of two edits
  and a fault in one behaviour is not. `CompareAssumption` takes all pairs of payloads of at
  most two chunks of at most three bytes and declared lengths of at most four.
- *Streams.* Two readers can share an inline buffer or a snapshot; with two chunks a close can
  come before, between and after them. `CloseAttempts` is 3 in the source; two keep the
  distinction between a close that is retried and one that gives up. `Named` is
  TRUE, the harder case: a directory entry that must be removed as well.

Identifiers are symmetric in `vault_lifecycle`, `vault_process`, `dead_selector`, `quit_awaiting`,
`local_store` and `desktop`, and so are the readers of `payload_streams`. The runs with liveness (`executor`, `vault_session`,
`executor_deadlock`) and the one with the refinement use no symmetry.

Deadlock is checked in `vault_process`, `quit_awaiting` and `payload_streams`. The dead selector of the
findings really stops the facade, the executor and the desktop stop after shutdown, and the other runs
stop at their bounds.

### Fairness

`FacadeExecutor` assumes weak fairness of the worker, of the GUI thread's
shutdown code and of the event loop while it runs. It says that both threads are scheduled
and that commands end; the facade's commands are finite file and crypto operations, and the
loop serves what is posted to it. Submitting and shutting down are never forced.
`VaultSession` assumes weak fairness of `Collect`, since the interpreter counts references and runs
the finaliser of an owner nobody holds. Nothing else assumes fairness, and none of it is strong.

## Findings

- **Dead selector** (`dead_selector`). `suspend` (`service.py:445`) discards the slot it has
  published when the source changed in the meantime. For a resumed session that slot has already
  replaced the one the session came from, but the facade and the session keep the old selector. The
  next lock fails, and once the session is closed the vault stays LOCKED with a selector that
  can be neither resumed, discarded nor replaced; only a restart helps. The edits are not lost
  while the session lives (`NoSilentLoss` holds).
- **Quit with an open decision** (`quit_awaiting`). The terminal lock is rejected in
  AWAITING_DECISION, and the rejection is suppressed (`main.py:69-71`): the dirty session dies with
  the process.
- **Shutdown deadlock** (`executor_deadlock`). `shutdown` waits on the GUI thread for the active
  durability task (`tasks.py:333`); that task runs the terminal lock on the worker before its event is
  set, and the lock clears the clipboard with a blocking call to the GUI thread. A dirty lock
  active at quit makes the same call. The existing tests call `shutdown` from a thread
  that is not the GUI thread, where the loop goes on. When the active command is not a durability
  command, shutdown returns, and the terminal lock then meets a loop that no longer runs.

### Differences from the documents

Two sentences of `docs/superpowers/specs/2026-09-01-vault-application-desktop-foundation-design.md` are not
true of the code. The models follow the code, and no property claims them.

- Lines 201-202: "the process does not exit while a save or pending-session synchronization is
  incomplete". `shutdown` waits for the active command only if it is a durability command
  (`tasks.py:330-333`). Behind any other, say a slow open or a copy, it returns while the worker still owes the
  terminal lock or is running it, and with it the suspension of a dirty vault; no code
  of the repository waits after that. What is left is Qt's own wait when the thread pool is destroyed,
  without an event loop for the lock's clipboard call. `NothingIsCutOff` has what can be relied
  on: every durability command that began has ended, every other task is claimed, and what is
  owed is owed by that one command.
- Lines 189-190, and `clipboard.py:5`: content that another application installs later "is never erased".
  The comparison and `clear` are two calls (`clipboard.py:90-92`) on a clipboard that belongs to
  every process. What is copied in between is erased: `Clear` does it in the model.

### Gaps the properties name

A property that would be false because of one of these says so with a condition on `harm`, on a
counter, or by leaving a detail out. None of them is a run of its own.

- After a restart the selector of a slot is known to nobody: `guard_open` refuses the source for
  ever, and no command of the new process resumes or discards the slot (`facade.py:268`).
- Reordering (`session.py:406-408`, `1108`): `_remap_warnings` keeps the old order of the
  warnings after a move, and the reader's comparison of the reopened revision (`reader.py:1281-1285`)
  takes the order into account. A vault with warnings in two records cannot be saved, suspended
  or exported after one has moved past the other, although
  `docs/superpowers/specs/2026-08-23-lossless-passwordsafe-core-design.md:162` allows the move. No
  command of the desktop moves records.
- A record whose protection mark occurs twice cannot be unprotected (`session.py:822`), so that it
  stays uneditable when the first mark protects it.
- The limits are checked when a revision is saved, not when it is edited.
- A complete candidate stays beside the vault when reopening or comparing it fails in the service
  (`service.py:356`), where the design
  (`docs/superpowers/specs/2026-08-23-lossless-passwordsafe-core-design.md:326`) has temporary candidates
  removed after handled failures. `NothingIsLeft` is about the writer's own, partial ones.
- Outside the lock (`storage.py:889`): a process that rolls back its slot after releasing the
  lock can be overtaken by the next one, whose recovery revision it then removes.
- A write in the window between the last comparison and `os.replace` is lost unseen; the code
  does not claim otherwise (`storage.py:458`).
- A crash while a publication replaces a pending slot can leave no visible slot
  (`docs/PROJECT_MEMORY.md:533`); the artifacts and the moved record are there. An `unlink` that fails
  after its `link` can leave a visible slot without its artifact.
- A predecessor that cannot be closed in an edit leaves the session with a revision it
  cannot read (`session.py:870`).
- `change_master_passphrase` on a resumed session leaves the slot bound to the version before
  (`service.py:585`), so that it cannot be resumed; the desktop does not offer it. Its content is in the source by
  then, but for what the session removed, which is what `SlotIsResumable` asks for.
- A foreign write of the source costs a resumed session its slot: bound to a version that is gone, or discarded in the
  next suspension (`service.py:444-446`). `SlotIsResumable` holds until then (`Overwritten`); what the facade
  is left with is the first finding.
- A consumer that keeps a view of its chunk exported reads zeros from it once the stream is resumed, closed or
  severed: the release of the view raises (`payloads.py:773`), and the bytes are zeroed all the same (585).
  `StreamsAreTrue` asks that such a stream does not end as a whole one.
- A fork's streams are not closed before the keys of its origin are wiped. One that looks at the content key
  (`crypto.py:561`) just before may be keyed with a wiped one (568) and show what that decrypts to. `StreamsAreTrue` allows it for a
  fork whose keys were wiped, and for no other.
- An idle lock that is refused is not asked for again until the phase changes (`lifecycle.py:144`).
- An inline payload closed after the last chunk was taken ends its stream normally
  (`payloads.py:311`).

## Theorems

Proved by TLAPS for every value of the constants, from the assumptions the modules name alone
(Python's None is none of the values; the fault switches are Booleans; bounds are natural numbers,
and `MaxSlot`, `Blocks`, `CloseAttempts`, `MaxDocs` and `MaxVaults` are positive; the edits, the
span and the numbers of the vaults in `VaultSession` are different things; the sources of
`VaultCodec` are sequences of frames, and no entry of its schema tables is None). The theorems do
not assume that the sets of processes, paths, edits, identifiers, tasks, queries, nonces, readers or
source files are finite. Each inductive invariant is defined beside its model and was checked by TLC
before it was proved.

- `VaultInvariant`: `Spec => []VaultInv`. `NoSilentLoss` is not inductive: that a save loses
  nothing depends on who is based on what. `VaultInv` adds that a session or a slot based on the
  current version of its source contains that source (`BasedOnSource`), that a session
  contains the slot whose selector it carries (`BasedOnSlot`), that a session which may be closed
  without a decision has nothing unsaved (`CleanIsSaved`), that a slot is a copy of the
  session while a suspension is half done (`SuspendPublished`), and which phases have a session
  (`PhaseInv`). The proof has one lemma per action and, under it, one step per conjunct.
  `TypeCorrect`, `EditsAreKept`, `OnePendingIdentity` and, without failing views, `PhaseIsHonest`
  follow. `EditsAreKept` covers failing views and failing rollbacks, which `vault_lifecycle` leaves out.
- `ProcessInvariant`: the same invariant through kills and restarts; every step of the process
  is a step of the lifecycle or a restart. `StagesAreOrdered` and `CleanExit` follow the terminal
  lock; `NeverShadowed` needs that rollbacks work: a slot that stays although its publication
  was reported as failed belongs to nobody.
- `ExecutorInvariant`: the inductive invariant of the executor relates where the worker is to what
  it owns (`WorkerInv`), where shutdown is to what has been swept (`ShutdownInv`), where the
  terminal operation is (`TerminalInv`), what shutdown waits for (`DrainInv`) and the queue.
  `TerminalIsAlone`, `TasksAreClaimedOnce`, `ShutdownCutsNothingOff` and `AdmissionStaysClosed` follow.
- `PendingInvariant`: `PendingInv` says for each step of a publication, a rollback, a cleanup or
  a discard which name may hold what (`PublishInv`, `RollbackInv`, `EndInv`, `DiscardInv`), what
  the caller holds (`CallerInv`) and where confirmed work is (`KeptInv`), so that a name about to
  be unlinked never holds the only entry of work still owed. `SuspensionSurvives`,
  `SelectorIsVisible`, `VisibleSlotIsWhole` and `OpeningIsGuarded` follow.
- `StoreKeepsPromise`: `PendingStore` implements `PendingSlot`. Each action is one of the abstract
  steps (draw, publish, abandon, remove) or a stutter under the mapping; the proof uses
  `PendingInv` for what the stable name shows when an operation starts and when it is decided.
- `LocalInvariant`: whoever is inside a transaction holds the lock (`LockInv`), so a step of one process
  meets the others only outside of it; the locals say how far a transaction is (`LocalsOf`); the
  destination is the baseline from the comparison to the replacement unless somebody wrote in the window
  (`BaselineOf`); its predecessor stays where the previous slot has it until the new artifact has
  it, and the slot names both in between (`RecoveryOf`). `PredecessorIsRetained` and
  `NoUpdateIsLost` follow, the second as an action property of every step.
- `PendingIsReachable`: as long as the pending store can roll back, the facade or the suspension in
  progress holds the selector of every visible slot. It is inductive relative to `VaultInv`, which says
  whose slot a command replaces or gives up. With failing rollbacks it is
  false: a slot whose publication was reported as failed, but not taken back, belongs to nobody.
- `SlotInvariant`: what the slot advertises is there, and a publication on its way has the slot
  either as it found it or naming its own artifact as well (`AdvertInv`); without crashes and failed
  removals the artifacts are exactly the advertised ones, and in the middle of a publication one more
  (`ExactInv`). It is inductive relative to `LocalInv`: unless a rollback is overtaken, whoever is in a
  transaction or its rollback is alone there, so that a step has to keep only its own part
  (`InsideSlot`). `AdvertisedIsThere` and `OneRecoveryIsLeft` follow.
- `AnswerInvariant`: whatever a transaction has captured was shown by the destination once, a new
  candidate has been shown exactly if it was published, and two running publications never have
  the same one (`Distinct`); so how far a transaction is decides what its answer says
  (`ShownOf`). `AnswersAreTrue` follows.
- `DesktopInvariant`: a command, an event, the screen and the editor each name a record by a key
  that leads to that record or to none, in the facade of now and in every later one (`KeyOf`,
  `Successor`); a snapshot under way is not newer than the facade, and the newest one on its way
  shows its phase (`LatestInv`); a command that will suspend or save was submitted as one that
  shutdown drains (`CommandOK`, `WorkerInv`). `ChosenIsActedOn`, `SecretsAreTimed`,
  `SecretsAreOwned`, `SuspensionsAreDrained` and `UnlockedIsWatched` follow. That a clear call in progress
  is the one the worker waits for is `ClearingInv`. The bounds on commands and texts play no part in it.
- `StreamsInvariant`: no part of it mentions a lock. A deferred payload has its chain value exactly
  as long as it is open (`PayloadOK`); a stream may have copied a wiped one, and then uses it
  only after it has looked at the payload again; it is keyed with a wiped key only if it reads a fork that
  the wiping of the keys has overtaken; and once a chunk was zeroed under an exported view its
  verdict is not a whole stream (`StreamOK`); a thread that closes has every stream
  that is left on its list until one of them resists (`CloserOK`); the buffer has as many leases as
  inline payloads that are not closed (`BufferOK`); a document closes its payloads before its keys and
  its keys before its snapshot (`VaultOK`). `StreamsStayTrue`, `OpenStaysIntact` and
  `ClosedStaysReleased` follow. What the locks are for is that threads do not wait on one another
  for ever, which the run checks as the absence of deadlock.
- `SessionInvariant`: `SessionInv` has thirteen parts. The count in a buffer is the number of
  documents that hold a lease of it, and the first document of a vault keeps its keys and
  snapshot (`HeapOK`); the session, what it has retired and the operation under way own
  different things (`SessionOK`, `RetiredOK`, `JobOwnsOK`), so that a close on behalf of one takes
  nothing from another; a revision is frozen exactly as long as the outcome of its operation is
  open (`FrozenOK`), which is why an edit, a lock or a discard in between is harmless; an operation goes by
  the baseline of its session, and what it has published is still there unless it was overwritten
  (`VersionOK`); the session still has what is in its slot, or removed it itself (`SlotOK`); and only a
  failed close leaves something to a finaliser (`OwnedOK`). What a close, a fork and a newly read
  vault do is proved once for any heap (`ClosesAll`, `RetainedForks`, `AuthenticatedReads`); no
  lemma on an action looks at a lease. `LeasesOwned`, `NothingForgotten`, `LiveReadable`,
  `CleanPublished`, `NeverFrozen` and `SlotResumable` follow: every safety property of the run.
- `CodecCorrect`: `CodecInv` says of every step of the reader and of the writer what it has made sure
  of (`ReadInv`, `VerifiedInv`, `TaskInv`), what it holds open (`OwnersInv`) and for whom it reads
  (`PurposeInv`); that a session's document is one the reader would hand out, except that its warnings
  may be in another order once something was moved (`DocumentInv`, `Faithful`); and that without a
  fault or an interference the candidate is what the writer made (`UndisturbedInv`). The work is in
  three facts about the operators of `VaultFormat`, for documents, files and plans of any size:
  what the reader builds is faithful (`DocumentFaithful`); what the writer accepts is read back as the
  same document (`WritableReads`); and a fork of a faithful document is faithful, differs from it in
  the fields of one type of one record, or by a record, and keeps the order of the warnings unless
  records were moved (`EditKind`). `FlattenSeq` and `FoldLeft` choose a recursive function; that there
  is one, and what it computes, is shown by induction on a set (`NatInd`, `SeqInd`), which needs no
  operator as a parameter: a set of numbers that is not empty has a least element. `CodecEvidence`,
  `CodecAgrees`, `CodecLeavesNothing`, `CodecPublishes` and `CodecKeepsFields` follow: every property
  of the run, the last two as action properties.

Only model-checked:

- the liveness properties `ShutdownEnds`, `TasksSettle` and `SecretsAreWiped`: TLAPS does not do
  liveness under fairness;
- `AnswersCome`: it counts commands and events with `SelectSeq`, a recursive operator of the standard module;
- `ComparesExactly`: `PayloadCompare` is a recursive operator, which the prover does not accept.

## Not modelled

- *Facade*: revealing a secret into an editor buffer; the text of the projected rows; which rows
  a search hides (any row may be chosen).
- *Service*: `available_recovery` and `restore` are modelled at the store only.
- *Pending store*: the creation of the private directory; artifacts of a foreign owner, which only
  make an operation fail; sources are independent of one another, so one is modelled.
- *Local store*: destinations with several hard links, a file that is not stable while it is captured
  (both are refused before any effect), path and permission checks.
- *Session*: views that only read; several edits in one `apply`. In `VaultCodec`, a save, a suspension
  and a change of passphrase write the same way up to the store, and save stands for them.
- *Desktop*: creating a vault, and unlocking or discarding from the locked screen, which submit the way
  opening does; a file dialog's nested loop; elapsed time, so a deadline may pass whenever its
  timer runs; the window's own clipboard nonce format.
- *Format*: bytes, framing, encoding and the values of fields; the grammar of custom fields. One type
  per schema class, four outcomes per payload.
- *Payloads*: a chunk is one block; flags read without a lock are read atomically, as the
  interpreter's lock makes them; the non-atomic wiping of a key, finalisers of abandoned streams,
  and a failing cleanup of a failed capture. The desktop runs one worker; the threads of
  `PayloadStreams` are what the library allows.
- *Crypto, platform security, ports, browser, list model, build tools*: a native library, the
  operating system, declarations, and adapters without a protocol of their own. What they can
  report is a failure of the command that uses them.

## What could follow

An abstract specification of the whole vault (edits move between memory, slot and source, none
disappears) that `VaultApplication` implements; `restore` and `available_recovery` in
the lifecycle; the locked screen of the desktop.
