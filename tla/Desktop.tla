-------------------------------- MODULE Desktop --------------------------------
(***************************************************************************)
(* The desktop process between the user and the facade: DesktopController  *)
(* (controller.py), IdleLockController (lifecycle.py), QtClipboardPort     *)
(* (clipboard.py) and the record editor on the GUI thread, and the one     *)
(* worker of FacadeExecutor that runs their commands on VaultApplication.  *)
(*                                                                         *)
(* The GUI thread never reads the facade.  It works on the last snapshot   *)
(* that was delivered to it, puts that snapshot's generation into each     *)
(* command, and learns of an outcome through events that Qt queues in the  *)
(* order of their emission.  A command that needs the clipboard queues a   *)
(* blocking call among these events and waits for it.  A command is one    *)
(* step up to that wait and one step after it; every step of the GUI       *)
(* thread is one slot, with everything it calls, but for the clearing of   *)
(* the clipboard, which belongs to every process: what is compared in one  *)
(* step is cleared in the next.                                            *)
(*                                                                         *)
(* Time is left out: an idle interval or a clipboard lifetime may expire   *)
(* whenever its timer runs.  What a search hides is left out as well: any  *)
(* row of the projection may be chosen.  VaultApplication has the rest of  *)
(* the facade, FacadeExecutor the rest of the executor.                    *)
(*                                                                         *)
(* An operator named Mut... is a faulty variant of the definition after    *)
(* it; nothing uses it but the sensitivity runs of the project manifest.   *)
(***************************************************************************)
EXTENDS Naturals, Sequences, SequencesExt

CONSTANTS
    Queries,    \* texts of the search field
    Nonces,     \* clipboard ownership marks, drawn fresh
    Foreign,    \* clipboard content of another application
    None,       \* Python's None; an empty clipboard
    MaxAsked,   \* bound: commands submitted in a behaviour
    MaxTyped    \* bound: passphrases and searches typed in a behaviour

ASSUME DesktopAssumption ==
    /\ MaxAsked \in Nat
    /\ MaxTyped \in Nat
    /\ None \notin Queries \cup Nonces \cup {"call", "timer"}
    /\ Foreign \notin Nonces \cup {None}

VARIABLES
    facade,     \* VaultApplication: what a command sees and publishes
    queue,      \* commands in the pool, in order
    worker,     \* the active command, and how far it is
    events,     \* Qt events for the GUI thread, in order
    screen,     \* DesktopController._snapshot
    search,     \* DesktopController._search_in_flight and _pending_search
    editor,     \* RecordEditor.qml, when it is open
    passphrase, \* DesktopController._passphrase is not empty
    idle,       \* IdleLockController
    clipboard,  \* what the system clipboard holds
    port,       \* QtClipboardPort: the nonce it owns; its timer runs while it does
    clearing,   \* who has compared the clipboard and has still to clear it
    owners,     \* SecretBuffers taken from the GUI and not closed
    down,       \* the event loop has ended and the executor is shut down
    asked,      \* history: commands submitted so far
    typed,      \* history: texts typed so far
    astray      \* history: a command acted on another record than the user chose

gui  == <<screen, search, editor, passphrase, idle>>
clip == <<clipboard, port, clearing>>
vars == <<facade, queue, worker, events, gui, clip, owners, down, asked, typed, astray>>

-----------------------------------------------------------------------------
(* Types *)

Unlocked == {"UNLOCKED_CLEAN", "UNLOCKED_DIRTY"}
Phases   == {"EMPTY", "LOCKED", "AWAITING_DECISION"} \cup Unlocked

Ops == {"open", "search", "copy", "website", "record", "save", "lock", "close", "resolve"}

Commands ==
    [op : Ops,
     id : 1..MaxAsked,                            \* also names its SecretBuffer
     generation : Nat,                            \* or the decision it answers
     key : Nat,                                   \* 0 for a new record
     meant : Nat,                                 \* history: the record shown under that key
     query : Queries \cup {None},
     choice : {"save", "discard", "cancel", None},
     drain : BOOLEAN,                             \* drain_on_shutdown
     idle : BOOLEAN]                              \* submitted by the idle controller

\* A RecordHandle is numbered when its session creates it; keys belongs to the
\* current session and maps its handles to what the GUI is told.
FacadeOK(f) ==
    /\ DOMAIN f = {"phase", "generation", "keys", "next", "handles", "decision", "owner"}
    /\ f.phase \in Phases
    /\ f.generation \in Nat
    /\ f.next \in Nat \ {0}
    /\ f.handles \in Nat
    /\ f.keys \in [DOMAIN f.keys -> 1..(f.next - 1)]
    /\ DOMAIN f.keys \subseteq 1..f.handles
    /\ f.decision \in {"close", "replace", None}
    /\ f.owner \in 0..MaxAsked                    \* passphrase kept for a decision

TypeOK ==
    /\ FacadeOK(facade)
    /\ queue \in Seq(Commands)
    /\ worker.pc \in {"free", "ready", "calling", "served"}
    /\ worker.pc # "free" => worker.command \in Commands
    /\ screen.phase \in Phases
    /\ search \in [inFlight : BOOLEAN, pending : Queries \cup {None}]
    /\ passphrase \in BOOLEAN
    /\ clipboard \in Nonces \cup {Foreign, None}
    /\ port \in Nonces \cup {None}
    /\ clearing \in {"call", "timer", None}
    /\ owners \subseteq 1..MaxAsked
    /\ down \in BOOLEAN
    /\ idle \in [{"active", "submitted", "ticking", "refused"} -> BOOLEAN]
    /\ idle.ticking => idle.active
    /\ asked \in 0..MaxAsked
    /\ typed \in 0..MaxTyped
    /\ astray \in BOOLEAN

NoKeys == [h \in {} |-> 0]

\* ApplicationSnapshot, with the handles behind its rows.
Snapshot(f) == [phase |-> f.phase, generation |-> f.generation, rows |-> f.keys]

\* The worker between two commands.
Free == [pc |-> "free"]

\* IdleLockController over a facade that has no vault yet.
Unarmed == [active |-> FALSE, ticking |-> FALSE, submitted |-> FALSE, refused |-> FALSE]

Init ==
    /\ facade = [phase |-> "EMPTY", generation |-> 0, keys |-> NoKeys, next |-> 1,
                 handles |-> 0, decision |-> None, owner |-> 0]
    /\ queue = <<>>
    /\ worker = Free
    /\ events = <<>>
    /\ screen = Snapshot(facade)
    /\ search = [inFlight |-> FALSE, pending |-> None]
    /\ editor = None
    /\ passphrase = FALSE
    /\ idle = Unarmed
    /\ clipboard = Foreign
    /\ port = None
    /\ clearing = None
    /\ owners = {}
    /\ down = FALSE
    /\ asked = 0
    /\ typed = 0
    /\ astray = FALSE

-----------------------------------------------------------------------------
(* FacadeExecutor: admission, and the worker's side *)

Request(op, generation) ==
    [op |-> op, id |-> asked + 1, generation |-> generation, key |-> 0, meant |-> 0,
     query |-> None, choice |-> None, drain |-> FALSE, idle |-> FALSE]

\* submit: the pool's queue is first in, first out.
Submit(c) ==
    /\ asked < MaxAsked
    /\ asked' = asked + 1
    /\ queue' = Append(queue, c)

Take ==
    /\ worker = Free
    /\ queue # <<>>
    /\ worker' = [command |-> Head(queue), pc |-> "ready"]
    /\ queue' = Tail(queue)
    /\ UNCHANGED <<facade, events, gui, clip, owners, down, asked, typed, astray>>

\* The task-specific outcome callback follows the public outcome.
Completion(c, outcome) ==
    CASE c.op = "search" -> <<[kind |-> "searched"]>>
      [] c.op = "record" -> <<[kind |-> "recorded", outcome |-> outcome]>>
      [] OTHER           -> <<>>

\* The idle controller's request has come to nothing.
Refused(c, phase) == idle' = [idle EXCEPT !.refused = @ \/ (c.idle /\ phase \in Unlocked)]

\* The command returns a snapshot: resultReady, then the completion.
Return(f, kept, outcome) ==
    LET c == worker.command IN
    /\ facade' = f
    /\ worker' = Free
    /\ events' = events \o <<[kind |-> "result", snapshot |-> Snapshot(f)]>> \o Completion(c, outcome)
    /\ owners' = owners \ ({c.id, facade.owner} \ {kept})
    /\ Refused(c, f.phase)

\* The command raises: commandFailed, then the completion with no result.
Raise ==
    LET c == worker.command IN
    /\ worker' = Free
    /\ events' = events \o <<[kind |-> "failed"]>> \o Completion(c, None)
    /\ owners' = owners \ {c.id}
    /\ Refused(c, facade.phase)
    /\ UNCHANGED facade

\* GuiThreadInvoker.call from the worker: f and outcome are for afterwards.
CallGui(call, f, outcome) ==
    /\ worker' = [command |-> worker.command, pc |-> "calling", after |-> f, outcome |-> outcome]
    /\ events' = Append(events, [kind |-> "call", call |-> call])
    /\ UNCHANGED <<facade, owners, idle>>

WorkerKeeps == UNCHANGED <<queue, screen, search, editor, passphrase, clip, down, asked, typed>>

-----------------------------------------------------------------------------
(* VaultApplication: publishing *)

\* _publish consumes a generation; the decision of a snapshot is gone with it.
Publish(f, phase) ==
    [f EXCEPT !.phase = phase, !.generation = @ + 1, !.decision = None, !.owner = 0]

\* _restore_failure, _restore_port_failure and _restore_snapshot.
Restored(phase) == Publish(facade, phase)

\* _commit_locked and _fail_closed, once the clipboard has been cleared.
LockedFacade == Publish([facade EXCEPT !.keys = NoKeys], "LOCKED")

\* Mutant: every session counts its record keys from one.
MutAdopted(phase) ==
    LET h == facade.handles + 1 IN
    Publish([facade EXCEPT !.keys = [x \in {h} |-> 1], !.handles = h, !.next = 2], phase)

\* _project_session and _commit_projected_session: new handles, new keys.
Adopted(phase) ==
    LET h == facade.handles + 1 IN
    Publish([facade EXCEPT !.keys = [x \in {h} |-> facade.next], !.handles = h, !.next = @ + 1], phase)

\* _refresh_active_projection after an addition: the others keep their keys.
Extended ==
    LET h == facade.handles + 1 IN
    [facade EXCEPT !.keys = [x \in DOMAIN @ \cup {h} |-> IF x = h THEN facade.next ELSE @[x]],
                   !.handles = h, !.next = @ + 1]

\* Mutant: the generation of the command is not compared.
MutCurrent(c) == facade.phase \in Unlocked

\* _validate_active_generation.
Current(c) == facade.phase \in Unlocked /\ c.generation = facade.generation

Running(op) == worker.pc = "ready" /\ worker.command.op = op

\* _resolve_handle.
Resolved(c) == {h \in DOMAIN facade.keys : facade.keys[h] = c.key}

\* begin_edit: a draft of a record that is still there, or of a new one.
BeginEdit(c) == Current(c) /\ (c.key = 0 \/ Resolved(c) # {})

ActsOn(c, handle) == astray' = (astray \/ handle # c.meant)

-----------------------------------------------------------------------------
(* VaultApplication: one command each *)

\* Every command that carries a generation or a decision and finds it stale,
\* or names a record the session does not have, raises before any effect.
RunRejected ==
    /\ worker.pc = "ready"
    /\ LET c == worker.command IN
       \/ c.op \in {"search", "save", "lock", "close"} /\ ~Current(c)
       \/ c.op \in {"copy", "website"} /\ (~Current(c) \/ Resolved(c) = {})
       \/ c.op = "record" /\ ~BeginEdit(c)
       \/ c.op = "resolve" /\ ~(facade.phase = "AWAITING_DECISION" /\ c.generation = facade.generation)
       \/ c.op = "open" /\ facade.phase \in {"AWAITING_DECISION", "LOCKED"}
    /\ Raise
    /\ WorkerKeeps
    /\ UNCHANGED astray

\* set_search, which may find that the records cannot be projected.
RunSearch ==
    /\ Running("search")
    /\ Current(worker.command)
    /\ Return(Restored(facade.phase), 0, None)
    /\ WorkerKeeps
    /\ UNCHANGED astray

\* copy_username and copy_password, through _copy_lease.
RunCopy ==
    /\ Running("copy")
    /\ LET c == worker.command IN
       /\ Current(c)
       /\ \E h \in Resolved(c) : ActsOn(c, h)
       /\ CallGui("copy", Restored(facade.phase), None)
    /\ WorkerKeeps

\* open_website.
RunWebsite ==
    /\ Running("website")
    /\ LET c == worker.command IN
       /\ Current(c)
       /\ \E h \in Resolved(c) : ActsOn(c, h)
       /\ Return(Restored(facade.phase), 0, None)
    /\ WorkerKeeps

\* commit_edit: an added record gets a key of its own.
CommitEdit(c) ==
    \/ /\ IF c.key = 0
          THEN Return(Publish(Extended, "UNLOCKED_DIRTY"), 0, "committed")
          ELSE Return(Restored("UNLOCKED_DIRTY"), 0, "committed")
       /\ IF c.key = 0 THEN ActsOn(c, 0) ELSE \E h \in Resolved(c) : ActsOn(c, h)
    \* nothing differs from the record: the snapshot as it was
    \/ c.key # 0 /\ Return(facade, 0, "committed") /\ UNCHANGED astray
    \* the session refuses the change
    \/ Return(Restored(facade.phase), 0, "rejected") /\ UNCHANGED astray
    \* protection cannot be edited here
    \/ Raise /\ UNCHANGED astray
    \* the change is made and cannot be projected
    \/ CallGui("clear", LockedFacade, "rejected") /\ UNCHANGED astray

\* commit of confirm_record: both of them in one command.
RunRecord ==
    /\ Running("record")
    /\ BeginEdit(worker.command)
    /\ CommitEdit(worker.command)
    /\ WorkerKeeps

RunSave ==
    /\ Running("save")
    /\ Current(worker.command)
    /\ \/ Return(Restored("UNLOCKED_CLEAN"), 0, None)
       \/ Return(Restored(facade.phase), 0, None)
       \/ CallGui("clear", LockedFacade, None)
    /\ WorkerKeeps
    /\ UNCHANGED astray

\* lock: a dirty session is suspended, which may fail before its end.
RunLock ==
    /\ Running("lock")
    /\ Current(worker.command)
    /\ \/ CallGui("clear", LockedFacade, None)
       \/ facade.phase = "UNLOCKED_DIRTY" /\ Return(Restored(facade.phase), 0, None)
    /\ WorkerKeeps
    /\ UNCHANGED astray

\* _await_close and _await_replacement.
Awaiting(decision, owner) ==
    [facade EXCEPT !.phase = "AWAITING_DECISION", !.generation = @ + 1,
                   !.decision = decision, !.owner = owner]

RunRequestClose ==
    /\ Running("close")
    /\ Current(worker.command)
    /\ IF facade.phase = "UNLOCKED_DIRTY"
       THEN Return(Awaiting("close", 0), 0, None)
       ELSE CallGui("clear", LockedFacade, None)
    /\ WorkerKeeps
    /\ UNCHANGED astray

\* _run_replacement over an active session clears the clipboard before the new
\* session is adopted; over none there is nothing to clear.
Replace(prior) ==
    \/ Return(Restored(prior), 0, None)
    \/ IF facade.keys = NoKeys
       THEN Return(Adopted("UNLOCKED_CLEAN"), 0, None)
       ELSE \/ CallGui("clear", Adopted("UNLOCKED_CLEAN"), None)
            \/ CallGui("clear", LockedFacade, None)

\* open, create and unlock; only unlock can resume a dirty session.
RunOpen ==
    /\ Running("open")
    /\ facade.phase # "AWAITING_DECISION"
    /\ \/ facade.phase = "UNLOCKED_DIRTY" /\ LET id == worker.command.id IN
             Return(Awaiting("replace", id), id, None)
       \/ facade.phase # "UNLOCKED_DIRTY" /\ Replace(facade.phase)
       \/ facade.phase = "LOCKED" /\ Return(Adopted("UNLOCKED_DIRTY"), 0, None)
    /\ WorkerKeeps
    /\ UNCHANGED astray

\* resolve_close; saving may fail before anything is closed.
RunResolveClose ==
    /\ Running("resolve")
    /\ LET c == worker.command IN
       /\ facade.phase = "AWAITING_DECISION"
       /\ c.generation = facade.generation
       /\ \/ c.choice \in {"save", "cancel"} /\ Return(Restored("UNLOCKED_DIRTY"), 0, None)
          \/ c.choice # "cancel" /\ facade.decision = "close" /\ CallGui("clear", LockedFacade, None)
          \/ /\ c.choice # "cancel"
             /\ facade.decision = "replace"
             /\ Replace(IF c.choice = "save" THEN "UNLOCKED_CLEAN" ELSE "UNLOCKED_DIRTY")
    /\ WorkerKeeps
    /\ UNCHANGED astray

\* The blocking call has returned.
Resume ==
    /\ worker.pc = "served"
    /\ Return(worker.after, 0, worker.outcome)
    /\ WorkerKeeps
    /\ UNCHANGED astray

Work == Take \/ RunRejected \/ RunSearch \/ RunCopy \/ RunWebsite \/ RunRecord \/ RunSave
             \/ RunLock \/ RunRequestClose \/ RunOpen \/ RunResolveClose \/ Resume

-----------------------------------------------------------------------------
(* The GUI thread delivers one event *)

\* The event loop runs, and no slot is between its two steps.
GuiIsFree == ~down /\ clearing = None

Arrived(kind) == GuiIsFree /\ events # <<>> /\ Head(events).kind = kind

GuiKeeps == UNCHANGED <<facade, down, typed, astray>>

\* Mutant: the submission is forgotten only when the vault is locked by it.
MutSynchronized(active) ==
    IF active = idle.active
    THEN idle
    ELSE [idle EXCEPT !.active = active, !.ticking = active]

\* synchronize_phase: a change of the unlocked phase starts or stops the timer.
Synchronized(active) ==
    IF active = idle.active
    THEN idle
    ELSE [active |-> active, ticking |-> active,
          submitted |-> idle.submitted /\ ~active, refused |-> idle.refused /\ ~active]

\* _accept_result and its listeners; leaving the vault view closes the editor.
AcceptResult ==
    /\ Arrived("result")
    /\ screen' = Head(events).snapshot
    /\ events' = Tail(events)
    /\ passphrase' = (passphrase /\ screen'.phase \notin {"EMPTY", "LOCKED"})
    /\ idle' = Synchronized(screen'.phase \in Unlocked)
    /\ editor' = IF screen'.phase \in {"EMPTY", "LOCKED"} THEN None ELSE editor
    /\ UNCHANGED <<queue, worker, search, clip, owners, asked>>
    /\ GuiKeeps

\* commandFailed: onCommandRejected re-enables the editor.
RejectCommand ==
    /\ Arrived("failed")
    /\ events' = Tail(events)
    /\ editor' = IF editor = None THEN None ELSE [editor EXCEPT !.awaiting = FALSE]
    /\ UNCHANGED <<queue, worker, screen, search, passphrase, idle, clip, owners, asked>>
    /\ GuiKeeps

\* _submit_pending_search with the generation on the screen.
SubmitSearch(query) ==
    /\ Submit([Request("search", screen.generation) EXCEPT !.query = query])
    /\ search' = [inFlight |-> TRUE, pending |-> None]

\* Mutant: the search is taken for finished after the kept text was submitted.
MutFinishSearch ==
    /\ Arrived("searched")
    /\ events' = Tail(events)
    /\ search' = [inFlight |-> FALSE, pending |-> None]
    /\ IF search.pending = None THEN UNCHANGED <<queue, asked>>
       ELSE Submit([Request("search", screen.generation) EXCEPT !.query = search.pending])
    /\ UNCHANGED <<worker, screen, editor, passphrase, idle, clip, owners>>
    /\ GuiKeeps

\* _finish_search: the latest text typed meanwhile follows at once.
FinishSearch ==
    /\ Arrived("searched")
    /\ events' = Tail(events)
    /\ IF search.pending = None
       THEN search' = [search EXCEPT !.inFlight = FALSE] /\ UNCHANGED <<queue, asked>>
       ELSE SubmitSearch(search.pending)
    /\ UNCHANGED <<worker, screen, editor, passphrase, idle, clip, owners>>
    /\ GuiKeeps

\* _finish_record_commit and the editor's reaction to its two signals.
FinishRecord ==
    /\ Arrived("recorded")
    /\ events' = Tail(events)
    /\ LET outcome == Head(events).outcome IN
       editor' = IF editor = None \/ outcome = None THEN editor
                 ELSE IF outcome = "committed" /\ editor.awaiting THEN None
                 ELSE [editor EXCEPT !.awaiting = FALSE]
    /\ UNCHANGED <<queue, worker, screen, search, passphrase, idle, clip, owners, asked>>
    /\ GuiKeeps

Served ==
    /\ events' = Tail(events)
    /\ worker' = [worker EXCEPT !.pc = "served"]
    /\ UNCHANGED <<queue, gui, owners, asked>>
    /\ GuiKeeps

\* QtClipboardPort.copy: a fresh nonce with the text, and the timer.
CopyToClipboard ==
    /\ Arrived("call")
    /\ Head(events).call = "copy"
    /\ \/ \E n \in Nonces \ {clipboard, port} : clipboard' = n /\ port' = n
       \* the lease or the nonce cannot be had
       \/ UNCHANGED <<clipboard, port>>
    /\ UNCHANGED clearing
    /\ Served

\* Mutant: the nonce is compared after it has been dropped.
MutClearOwned(caller) ==
    /\ port' = None
    /\ clearing' = IF port # None /\ clipboard = port' THEN caller ELSE None
    /\ UNCHANGED clipboard

\* _clear_owned_on_gui up to its comparison: ownership ends, and what is still the
\* owned content is to be cleared.
ClearOwned(caller) ==
    /\ port' = None
    /\ clearing' = IF port # None /\ clipboard = port THEN caller ELSE None
    /\ UNCHANGED clipboard

\* A clear call returns when there is nothing to clear, or else from Clear.
ClearClipboard ==
    /\ Arrived("call")
    /\ Head(events).call = "clear"
    /\ ClearOwned("call")
    /\ \/ clearing' = None /\ Served
       \/ /\ clearing' # None
          /\ UNCHANGED <<queue, worker, events, gui, owners, asked>>
          /\ GuiKeeps

\* Its end: whatever the clipboard holds by now is cleared.
Clear ==
    /\ clearing # None
    /\ clipboard' = None
    /\ clearing' = None
    /\ UNCHANGED port
    /\ \/ clearing = "call" /\ Served
       \/ /\ clearing = "timer"
          /\ UNCHANGED <<queue, worker, events, gui, owners, asked>>
          /\ GuiKeeps

Deliver == AcceptResult \/ RejectCommand \/ FinishSearch \/ FinishRecord
                        \/ CopyToClipboard \/ ClearClipboard \/ Clear

-----------------------------------------------------------------------------
(* Timers and other applications *)

ClipboardExpires ==
    /\ GuiIsFree
    /\ port # None
    /\ ClearOwned("timer")
    /\ UNCHANGED <<facade, queue, worker, events, gui, owners, down, asked, typed, astray>>

OtherApplicationCopies ==
    /\ clipboard # Foreign
    /\ clipboard' = Foreign
    /\ UNCHANGED <<facade, queue, worker, events, gui, port, clearing, owners, down, asked, typed, astray>>

\* DesktopController.lock; drain_on_shutdown is read off the screen.
RequestLock(byIdle) ==
    /\ Submit([Request("lock", screen.generation) EXCEPT
                  !.drain = (screen.phase = "UNLOCKED_DIRTY"), !.idle = byIdle])
    /\ passphrase' = FALSE

\* poll, when the interval has expired: one request, and the timer stops.
IdlePoll ==
    /\ GuiIsFree
    /\ idle.ticking
    /\ ~idle.submitted
    /\ idle' = [idle EXCEPT !.submitted = TRUE, !.ticking = FALSE]
    /\ RequestLock(TRUE)
    /\ UNCHANGED <<facade, worker, events, screen, search, editor, clip, owners, down, typed, astray>>

-----------------------------------------------------------------------------
(* The user *)

UserKeeps == GuiIsFree /\ UNCHANGED <<facade, worker, events, screen, idle, clip, down, astray>>

TypePassphrase ==
    /\ typed < MaxTyped
    /\ typed' = typed + 1
    /\ passphrase' = TRUE
    /\ UserKeeps
    /\ UNCHANGED <<queue, search, editor, owners, asked>>

\* open_vault, create_vault and unlock_vault: the buffer moves to an owner.
\* A file dialog that is dismissed closes it again, which changes no more.
OpenVault ==
    /\ passphrase
    /\ passphrase' = FALSE
    /\ \/ /\ Submit(Request("open", screen.generation))
          /\ owners' = owners \cup {asked + 1}
       \/ UNCHANGED <<queue, asked, owners>>
    /\ UserKeeps
    /\ UNCHANGED <<search, editor, typed>>

\* set_search: the text waits while another search is in flight.
SetSearch(query) ==
    /\ typed < MaxTyped
    /\ typed' = typed + 1
    /\ IF search.inFlight
       THEN search' = [search EXCEPT !.pending = query] /\ UNCHANGED <<queue, asked>>
       ELSE SubmitSearch(query)
    /\ UserKeeps
    /\ UNCHANGED <<editor, passphrase, owners>>

\* copy_username, copy_password and open_website for one row on the screen.
UseRecord(op, handle) ==
    /\ Submit([Request(op, screen.generation) EXCEPT !.key = screen.rows[handle], !.meant = handle])
    /\ UserKeeps
    /\ UNCHANGED <<search, editor, passphrase, owners, typed>>

\* openNew and openExisting; handle 0 stands for a new record.
OpenEditor(handle) ==
    /\ screen.phase \in Unlocked
    /\ editor = None
    /\ editor' = [key |-> IF handle = 0 THEN 0 ELSE screen.rows[handle],
                  meant |-> handle, awaiting |-> FALSE]
    /\ UserKeeps
    /\ UNCHANGED <<queue, search, passphrase, owners, asked, typed>>

CloseEditor ==
    /\ editor # None
    /\ ~editor.awaiting
    /\ editor' = None
    /\ UserKeeps
    /\ UNCHANGED <<queue, search, passphrase, owners, asked, typed>>

\* confirm_record: an owner for the password of a new record, or a new one.
ConfirmRecord ==
    /\ editor # None
    /\ ~editor.awaiting
    /\ Submit([Request("record", screen.generation) EXCEPT !.key = editor.key, !.meant = editor.meant])
    /\ \/ owners' = owners \cup {asked + 1}
       \/ editor.key # 0 /\ UNCHANGED owners
    /\ editor' = [editor EXCEPT !.awaiting = TRUE]
    /\ UserKeeps
    /\ UNCHANGED <<search, passphrase, typed>>

Save ==
    /\ Submit([Request("save", screen.generation) EXCEPT !.drain = TRUE])
    /\ UserKeeps
    /\ UNCHANGED <<search, editor, passphrase, owners, typed>>

Lock ==
    /\ RequestLock(FALSE)
    /\ UserKeeps
    /\ UNCHANGED <<search, editor, owners, typed>>

RequestClose ==
    /\ Submit(Request("close", screen.generation))
    /\ passphrase' = FALSE
    /\ UserKeeps
    /\ UNCHANGED <<search, editor, owners, typed>>

\* resolve_close with the token of the snapshot on the screen.
ResolveClose(choice) ==
    /\ screen.phase = "AWAITING_DECISION"
    /\ Submit([Request("resolve", screen.generation) EXCEPT
                  !.choice = choice, !.drain = (choice = "save")])
    /\ passphrase' = (passphrase /\ choice = "cancel")
    /\ UserKeeps
    /\ UNCHANGED <<search, editor, owners, typed>>

\* Mutant: canceled commands keep their secrets.
MutShutdown ==
    /\ GuiIsFree
    /\ down' = TRUE
    /\ queue' = <<>>
    /\ search' = [search EXCEPT !.pending = None]
    /\ passphrase' = FALSE
    /\ UNCHANGED <<facade, worker, events, screen, editor, idle, clip, owners, asked, typed, astray>>

\* The finally clause of main: the idle controller and the event loop are gone;
\* queued commands are canceled, which closes the secrets they own.
Shutdown ==
    /\ GuiIsFree
    /\ down' = TRUE
    /\ queue' = <<>>
    /\ owners' = owners \ {c.id : c \in Range(queue)}
    /\ search' = [search EXCEPT !.pending = None]
    /\ passphrase' = FALSE
    /\ idle' = [idle EXCEPT !.active = FALSE, !.ticking = FALSE]
    /\ UNCHANGED <<facade, worker, events, screen, editor, clip, asked, typed, astray>>

User == \/ TypePassphrase \/ OpenVault \/ Save \/ Lock \/ RequestClose
        \/ \E query \in Queries : SetSearch(query)
        \/ \E op \in {"copy", "website"}, handle \in DOMAIN screen.rows : UseRecord(op, handle)
        \/ \E handle \in DOMAIN screen.rows \cup {0} : OpenEditor(handle)
        \/ CloseEditor \/ ConfirmRecord
        \/ \E choice \in {"save", "discard", "cancel"} : ResolveClose(choice)

Next == Work \/ Deliver \/ ClipboardExpires \/ OtherApplicationCopies \/ IdlePoll \/ User \/ Shutdown

Spec == Init /\ [][Next]_vars

-----------------------------------------------------------------------------
(* Properties *)

Pipeline == Range(queue) \cup (IF worker = Free THEN {} ELSE {worker.command})

\* A click on a row, or an editor opened on one, acts on that record or on none,
\* however late the command runs and whatever vault has replaced the one on the
\* screen by then: keys are never handed out twice (facade.py _next_record_key).
ActsOnWhatWasChosen == ~astray

\* What Bonobo has put on the clipboard is under its timer as long as it is
\* there, or about to be cleared, and is gone by the time a locked or empty facade
\* is published (clipboard.py, facade.py _commit_locked and _fail_closed).
SecretIsTimed ==
    /\ clipboard \in Nonces => port = clipboard \/ clearing # None
    /\ facade.phase \in {"EMPTY", "LOCKED"} => clipboard \notin Nonces

\* No SecretBuffer is lost on its way: an open one belongs to a command that is
\* queued or active, or to the decision that waits for it, and after shutdown
\* the controller holds no passphrase (controller.py _submit_secret_command).
SecretsHaveOwners ==
    /\ TypeOK
    /\ owners \subseteq {c.id : c \in Pipeline} \cup {facade.owner}
    /\ down => ~passphrase

\* A command that suspends or saves is drained at shutdown although the choice
\* was made from the screen, which may be behind the facade (controller.py:323).
SuspensionIsDrained ==
    worker.pc \in {"calling", "served"} /\ facade.phase = "UNLOCKED_DIRTY"
        /\ worker.command.op \in {"lock", "save"} => worker.command.drain

\* While the screen shows an unlocked vault the idle controller watches it: its
\* timer can still ask for a lock, or its one request is on its way, or was
\* refused.  After a refusal nobody watches until the phase changes
\* (lifecycle.py synchronize_phase and poll).
IdleIsWatched ==
    ~down /\ screen.phase \in Unlocked =>
        /\ idle.active
        /\ \/ idle.ticking /\ ~idle.submitted
           \/ /\ idle.submitted
              /\ \/ idle.refused
                 \/ \E c \in Pipeline : c.idle
                 \/ \E e \in Range(events) : e.kind = "result" /\ e.snapshot.phase \notin Unlocked

CommandsOf(op) == Len(SelectSeq(queue, LAMBDA c : c.op = op))
                    + IF worker # Free /\ worker.command.op = op THEN 1 ELSE 0

EventsOf(kind) == Len(SelectSeq(events, LAMBDA e : e.kind = kind))

\* What the GUI waits for is on its way.  A search counts as in flight exactly as
\* long as one search, never two, is queued, active or finished and not yet
\* delivered, and a text is kept for later only then: else no text typed from now
\* on would be searched for, or an older answer would come after a newer one.  An
\* editor that awaits its commit has the command, its outcome or a rejection before
\* it, whatever other commands were rejected and whatever was confirmed meanwhile
\* (controller.py set_search, _finish_search, _finish_record_commit).
AnswersCome ==
    ~down =>
        /\ CommandsOf("search") + EventsOf("searched") = IF search.inFlight THEN 1 ELSE 0
        /\ search.pending # None => search.inFlight
        /\ editor # None /\ editor.awaiting =>
              \/ CommandsOf("record") > 0
              \/ EventsOf("failed") > 0
              \/ \E e \in Range(events) : e.kind = "recorded" /\ e.outcome # None

-----------------------------------------------------------------------------
(* The inductive invariant *)

Locking == {"EMPTY", "LOCKED"}

\* A command that the worker has finished but for its clipboard call.
Calling == worker.pc \in {"calling", "served"}

Distinct(f) == \A g, h \in DOMAIN f.keys : f.keys[g] = f.keys[h] => g = h

\* How a facade may change in one command: a key that was handed out stays with
\* its record or with none, and whatever changes takes a new generation.
Successor(f) ==
    /\ FacadeOK(f)
    /\ f = facade \/ f.generation = facade.generation + 1
    /\ f.next >= facade.next
    /\ f.handles >= facade.handles
    /\ Distinct(f)
    /\ \A h \in DOMAIN f.keys :
         \/ h \in DOMAIN facade.keys /\ f.keys[h] = facade.keys[h]
         \/ f.keys[h] >= facade.next

\* The record of a key the GUI was told of: nobody else has it, nor will have.
KeyOf(key, handle, f) ==
    /\ key \in 1..(f.next - 1)
    /\ handle \in 1..f.handles
    /\ \A h \in DOMAIN f.keys : f.keys[h] = key => h = handle

\* Commands and the editor name a record that way, or a new one.
Names(p, f) == \/ p.key = 0 /\ p.meant = 0
               \/ KeyOf(p.key, p.meant, f)

\* A snapshot is not newer than the facade, and says what the facade said then.
SnapshotOK(s, f) ==
    /\ DOMAIN s = {"phase", "generation", "rows"}
    /\ s.phase \in Phases
    /\ s.generation \in 0..f.generation
    /\ s.generation = f.generation => s.phase = f.phase
    /\ s.rows \in [DOMAIN s.rows -> Nat]
    /\ \A h \in DOMAIN s.rows : KeyOf(s.rows[h], h, f)

\* A lock that is still current suspends a dirty session and will be drained.
CommandOK(c, f) ==
    /\ Names(c, f)
    /\ c.generation \in 0..f.generation
    /\ c.op = "save" => c.drain
    /\ c.op = "lock" /\ c.generation = f.generation /\ f.phase = "UNLOCKED_DIRTY" => c.drain

QueueInv == \A i \in 1..Len(queue) : CommandOK(queue[i], facade)

EventOK(e, f, w) ==
    /\ e.kind \in {"result", "failed", "searched", "recorded", "call"}
    /\ e.kind = "result" => SnapshotOK(e.snapshot, f)
    /\ e.kind = "call" => /\ w.pc = "calling"
                          /\ e.call \in {"copy", "clear"}
                          /\ e.call = "copy" => /\ f.phase \notin Locking
                                                /\ w.after.phase \notin Locking

\* The worker appends nothing behind its call.
EventsInv ==
    /\ events \in Seq(Range(events))
    /\ \A i \in 1..Len(events) :
         /\ EventOK(events[i], facade, worker)
         /\ events[i].kind = "call" => i = Len(events)

WorkerInv ==
    /\ worker.pc = "free" => worker = Free
    /\ worker.pc = "ready" => CommandOK(worker.command, facade)
    /\ Calling =>
         /\ DOMAIN worker = {"command", "pc", "after", "outcome"}
         /\ Successor(worker.after)
         /\ worker.after.owner = 0
         /\ worker.command.op \in {"lock", "save"} /\ facade.phase = "UNLOCKED_DIRTY"
              => worker.command.drain
    /\ worker.pc = "served" /\ worker.after.phase \in Locking => clipboard \notin Nonces

EditorOK(e, f) ==
    e # None => /\ e.key \in Nat
                /\ e.meant \in Nat
                /\ e.awaiting \in BOOLEAN
                /\ Names(e, f)

GuiInv == SnapshotOK(screen, facade) /\ EditorOK(editor, facade)

\* What the GUI will have heard last, or has heard, is the phase there is.
NewestPhase(i) == IF i = 0 THEN screen.phase ELSE events[i].snapshot.phase

Newest(i) ==
    /\ i > 0 => events[i].kind = "result"
    /\ \A j \in 1..Len(events) : j > i => events[j].kind # "result"

LatestInv == \E i \in 0..Len(events) : Newest(i) /\ NewestPhase(i) = facade.phase

IdleInv ==
    ~down => /\ idle.active <=> screen.phase \in Unlocked
             /\ idle.ticking <=> idle.active /\ ~idle.submitted

\* A clear call that has compared is still at the head, and the worker waits for it.
ClearingInv ==
    clearing = "call" => worker.pc = "calling" /\ events # <<>> /\ Head(events).kind = "call"

DesktopInv ==
    /\ TypeOK
    /\ Distinct(facade)
    /\ QueueInv
    /\ EventsInv
    /\ WorkerInv
    /\ GuiInv
    /\ LatestInv
    /\ IdleInv
    /\ ClearingInv
    /\ ActsOnWhatWasChosen
    /\ SecretIsTimed
    /\ SecretsHaveOwners
    /\ IdleIsWatched

=============================================================================
