----------------------------- MODULE FacadeExecutor -----------------------------
(***************************************************************************)
(* FacadeExecutor (bonobo_desktop/tasks.py): the GUI thread submits facade *)
(* commands to a thread pool with one worker, and shuts the executor down  *)
(* when its event loop has ended, handing over one terminal operation that *)
(* must run alone, once, after the last command.                           *)
(*                                                                         *)
(* Each critical section under _guard is one step.  A command or a         *)
(* terminal operation of Invoking asks the GUI thread for clipboard work   *)
(* (GuiThreadInvoker, a BlockingQueuedConnection) before it ends, and the  *)
(* worker is blocked until the event loop of the GUI thread serves it.     *)
(* Closed outcomes that fail or succeed are published alike.               *)
(*                                                                         *)
(* An operator named Mut... is a faulty variant of the definition after it.*)
(***************************************************************************)
EXTENDS Naturals, Sequences

CONSTANTS
    Tasks,      \* the commands that may be submitted
    Drains,     \* those submitted with drain_on_shutdown
    Invoking,   \* those that need the GUI thread, and Terminal if it does
    Terminal,   \* names the terminal operation in Invoking
    None

ASSUME ExecutorAssumption ==
    /\ Drains \subseteq Tasks
    /\ Invoking \subseteq Tasks \cup {Terminal}
    /\ None \notin Tasks
    /\ Terminal \notin Tasks

VARIABLES
    queue,      \* QThreadPool: runnables no thread has taken
    tasks,      \* FacadeExecutor._tasks
    active,     \* FacadeExecutor._active_task
    shutdown,   \* FacadeExecutor._shutdown
    cleanup,    \* FacadeExecutor._shutdown_cleanup_complete
    terminal,   \* FacadeExecutor._terminal is set
    started,    \* tasks whose _started is set
    canceled,   \* tasks whose _canceled is set
    completed,  \* tasks whose _completed event is set
    published,  \* history: tasks whose outcome has been emitted
    runs,       \* history: times the terminal operation was taken for running
    worker,     \* the pool's thread: where it is, with which task
    gui         \* the GUI thread: where it is, the tasks still to sweep, the
                \* task it is canceling and the one it may have to wait for

executor == <<queue, tasks, active, shutdown, cleanup, terminal>>
claims   == <<started, canceled, completed, published>>
vars     == <<queue, tasks, active, shutdown, cleanup, terminal,
              started, canceled, completed, published, runs, worker, gui>>

WorkerPcs == {"idle", "starting", "refused", "canceling", "command", "invoking",
              "published", "terminal", "terminalInvoking", "completing"}
GuiPcs    == {"loop", "canceling", "sweep", "terminal", "waiting", "returned"}

Worker(pc) == worker.pc = pc

WorkerAt(pc) == worker' = [worker EXCEPT !.pc = pc]

GuiAt(pc) == gui' = [gui EXCEPT !.pc = pc]

Claimed == started \cup canceled

Init ==
    /\ queue = <<>>
    /\ tasks = {}
    /\ active = None
    /\ shutdown = FALSE
    /\ cleanup = FALSE
    /\ terminal = FALSE
    /\ started = {}
    /\ canceled = {}
    /\ completed = {}
    /\ published = {}
    /\ runs = 0
    /\ worker = [pc |-> "idle", task |-> None]
    /\ gui = [pc |-> "loop", sweep |-> {}, task |-> None, waitFor |-> None]

-----------------------------------------------------------------------------
(* The terminal operation *)

\* Mutant: the callback is not cleared before it is invoked.
MutTakeTerminal(nowActive, nowCleanup) ==
    /\ UNCHANGED terminal
    /\ runs' = IF nowCleanup /\ nowActive = None /\ terminal THEN runs + 1 ELSE runs

\* _take_terminal_if_ready, with the guard held.
TakeTerminal(nowActive, nowCleanup) ==
    IF nowCleanup /\ nowActive = None /\ terminal
    THEN terminal' = FALSE /\ runs' = runs + 1
    ELSE UNCHANGED <<terminal, runs>>

TerminalTaken == runs' > runs

-----------------------------------------------------------------------------
(* The worker: _CommandTask.run *)

Dequeue ==
    /\ Worker("idle")
    /\ queue # <<>>
    /\ worker' = [pc |-> "starting", task |-> Head(queue)]
    /\ queue' = Tail(queue)
    /\ UNCHANGED <<tasks, active, shutdown, cleanup, terminal, claims, runs, gui>>

\* _task_started and mark_started.
TaskStarted ==
    /\ Worker("starting")
    /\ IF shutdown \/ worker.task \in canceled
       THEN WorkerAt("refused") /\ UNCHANGED <<started, active>>
       ELSE /\ started' = started \cup {worker.task}
            /\ active' = worker.task
            /\ WorkerAt("command")
    /\ UNCHANGED <<queue, tasks, shutdown, cleanup, terminal, canceled, completed,
                   published, runs, gui>>

\* A refused start: cancel_if_pending on the worker, unless shutdown was faster.
WorkerCancels ==
    /\ Worker("refused")
    /\ IF worker.task \in Claimed
       THEN worker' = [pc |-> "idle", task |-> None] /\ UNCHANGED canceled
       ELSE canceled' = canceled \cup {worker.task} /\ WorkerAt("canceling")
    /\ UNCHANGED <<executor, started, completed, published, runs, gui>>

\* The facade command returns or raises, and its outcome is published.
CommandEnds ==
    /\ Worker("command") /\ worker.task \notin Invoking
    /\ published' = published \cup {worker.task}
    /\ WorkerAt("published")
    /\ UNCHANGED <<executor, started, canceled, completed, runs, gui>>

CommandInvokes ==
    /\ Worker("command") /\ worker.task \in Invoking
    /\ WorkerAt("invoking")
    /\ UNCHANGED <<executor, claims, runs, gui>>

\* _complete, first half: _task_done, after the outcome or after the
\* cancellation callback that "canceling" stands for.
TaskDone ==
    /\ worker.pc \in {"canceling", "published"}
    /\ tasks' = tasks \ {worker.task}
    /\ active' = IF active = worker.task THEN None ELSE active
    /\ TakeTerminal(active', cleanup)
    /\ WorkerAt(IF TerminalTaken THEN "terminal" ELSE "completing")
    /\ UNCHANGED <<queue, shutdown, cleanup, claims, gui>>

\* _run_terminal on the worker.
WorkerTerminal ==
    /\ Worker("terminal")
    /\ WorkerAt(IF Terminal \in Invoking THEN "terminalInvoking" ELSE "completing")
    /\ UNCHANGED <<executor, claims, runs, gui>>

\* Mutant: the event is not set.
MutCompleted ==
    /\ Worker("completing")
    /\ worker' = [pc |-> "idle", task |-> None]
    /\ UNCHANGED <<executor, claims, runs, gui>>

\* _complete, second half: the event is set and the thread is free again.
Completed ==
    /\ Worker("completing")
    /\ completed' = completed \cup {worker.task}
    /\ worker' = [pc |-> "idle", task |-> None]
    /\ UNCHANGED <<executor, started, canceled, published, runs, gui>>

WorkerStep ==
    \/ Dequeue
    \/ TaskStarted
    \/ WorkerCancels
    \/ CommandEnds
    \/ CommandInvokes
    \/ TaskDone
    \/ WorkerTerminal
    \/ Completed

-----------------------------------------------------------------------------
(* The GUI thread *)

Submit(t) ==
    /\ gui.pc = "loop"
    /\ t \notin tasks \cup Claimed
    /\ ~shutdown
    /\ tasks' = tasks \cup {t}
    /\ queue' = Append(queue, t)
    /\ UNCHANGED <<active, shutdown, cleanup, terminal, claims, runs, worker, gui>>

\* pool.start raises: the task is withdrawn, then canceled by its submitter.
SubmitFails(t) ==
    /\ gui.pc = "loop"
    /\ t \notin tasks \cup Claimed
    /\ ~shutdown
    /\ canceled' = canceled \cup {t}
    /\ gui' = [gui EXCEPT !.pc = "canceling", !.task = t]
    /\ UNCHANGED <<executor, started, completed, published, runs, worker>>

\* GuiThreadInvoker._invoke: only a running event loop serves it.
Invoke ==
    /\ gui.pc = "loop"
    /\ \/ /\ Worker("invoking")
          /\ published' = published \cup {worker.task}
          /\ WorkerAt("published")
       \/ /\ Worker("terminalInvoking")
          /\ UNCHANGED published
          /\ WorkerAt("completing")
    /\ UNCHANGED <<executor, started, canceled, completed, runs, gui>>

\* shutdown: admission closes and the queue is dropped under one guard.  The
\* event loop has ended (main.py), nothing is served from here on.
Shutdown(given) ==
    /\ gui.pc = "loop"
    /\ ~shutdown
    /\ shutdown' = TRUE
    /\ terminal' = given
    /\ queue' = <<>>
    /\ gui' = [gui EXCEPT !.pc = "sweep", !.sweep = tasks, !.waitFor = active]
    /\ UNCHANGED <<tasks, active, cleanup, claims, runs, worker>>

\* Mutant: a task that has entered its command is canceled as well.
MutCancelPending(t) ==
    /\ gui.pc = "sweep"
    /\ t \in gui.sweep
    /\ IF t \in canceled
       THEN gui' = [gui EXCEPT !.sweep = @ \ {t}] /\ UNCHANGED canceled
       ELSE /\ canceled' = canceled \cup {t}
            /\ gui' = [gui EXCEPT !.pc = "canceling", !.sweep = @ \ {t}, !.task = t]
    /\ UNCHANGED <<executor, started, completed, published, runs, worker>>

\* cancel_if_pending on one task of the snapshot, in any order.
CancelPending(t) ==
    /\ gui.pc = "sweep"
    /\ t \in gui.sweep
    /\ IF t \in Claimed
       THEN gui' = [gui EXCEPT !.sweep = @ \ {t}] /\ UNCHANGED canceled
       ELSE /\ canceled' = canceled \cup {t}
            /\ gui' = [gui EXCEPT !.pc = "canceling", !.sweep = @ \ {t}, !.task = t]
    /\ UNCHANGED <<executor, started, completed, published, runs, worker>>

\* The cancellation callback and _complete.  No terminal operation is ready
\* here: the cleanup is not complete.  Nobody waits for this task's event.
GuiCanceled ==
    /\ gui.pc = "canceling"
    /\ tasks' = tasks \ {gui.task}
    /\ completed' = completed \cup {gui.task}
    /\ gui' = [gui EXCEPT !.pc = IF shutdown THEN "sweep" ELSE "loop", !.task = None]
    /\ UNCHANGED <<queue, active, shutdown, cleanup, terminal, started, canceled,
                   published, runs, worker>>

CleanupComplete ==
    /\ gui.pc = "sweep"
    /\ gui.sweep = {}
    /\ cleanup' = TRUE
    /\ TakeTerminal(active, TRUE)
    /\ GuiAt(IF TerminalTaken THEN "terminal" ELSE "waiting")
    /\ UNCHANGED <<queue, tasks, active, shutdown, claims, worker>>

\* _run_terminal on the GUI thread, which serves its own invocations.
GuiTerminal ==
    /\ gui.pc = "terminal"
    /\ GuiAt("waiting")
    /\ UNCHANGED <<executor, claims, runs, worker>>

\* Mutant: shutdown returns without looking at the active task.
MutShutdownReturns ==
    /\ gui.pc = "waiting"
    /\ GuiAt("returned")
    /\ UNCHANGED <<executor, claims, runs, worker>>

\* Mutant: shutdown waits for the active task whatever its policy.
MutShutdownWaits ==
    /\ gui.pc = "waiting"
    /\ gui.waitFor # None => gui.waitFor \in completed
    /\ GuiAt("returned")
    /\ UNCHANGED <<executor, claims, runs, worker>>

\* wait_for_completion for the durability command that was active.
ShutdownReturns ==
    /\ gui.pc = "waiting"
    /\ gui.waitFor \in Drains => gui.waitFor \in completed
    /\ GuiAt("returned")
    /\ UNCHANGED <<executor, claims, runs, worker>>

GuiStep ==
    \/ \E t \in Tasks : CancelPending(t)
    \/ GuiCanceled
    \/ CleanupComplete
    \/ GuiTerminal
    \/ ShutdownReturns

-----------------------------------------------------------------------------

Next ==
    \/ WorkerStep
    \/ GuiStep
    \/ Invoke
    \/ \E t \in Tasks : Submit(t) \/ SubmitFails(t)
    \/ \E given \in BOOLEAN : Shutdown(given)

\* Both threads are scheduled, commands end, and the event loop serves what is
\* posted to it while it runs.  Nothing has to be submitted or shut down.
Fairness == WF_vars(WorkerStep) /\ WF_vars(GuiStep) /\ WF_vars(Invoke)

Spec == Init /\ [][Next]_vars /\ Fairness

-----------------------------------------------------------------------------
(* Properties *)

TypeOK ==
    /\ queue \in Seq(Tasks)
    /\ tasks \in SUBSET Tasks
    /\ active \in Tasks \cup {None}
    /\ shutdown \in BOOLEAN
    /\ cleanup \in BOOLEAN
    /\ terminal \in BOOLEAN
    /\ started \in SUBSET Tasks
    /\ canceled \in SUBSET Tasks
    /\ completed \in SUBSET Tasks
    /\ published \in SUBSET Tasks
    /\ runs \in Nat
    /\ worker \in [pc : WorkerPcs, task : Tasks \cup {None}]
    /\ gui \in [pc : GuiPcs, sweep : SUBSET Tasks, task : Tasks \cup {None},
                waitFor : Tasks \cup {None}]

TerminalOnWorker == worker.pc \in {"terminal", "terminalInvoking"}
TerminalOnGui    == gui.pc = "terminal"
CommandRunning   == worker.pc \in {"command", "invoking", "published"}

\* The terminal operation runs at most once, on one thread, after admission has
\* closed, while no command is in the facade and when no command can enter it
\* any more: every task the executor still owns has started or been canceled.
TerminalAlone ==
    /\ runs <= 1
    /\ ~(TerminalOnWorker /\ TerminalOnGui)
    /\ TerminalOnWorker \/ TerminalOnGui
         => shutdown /\ ~CommandRunning /\ active = None /\ tasks \subseteq Claimed

\* Of each task exactly one of two things happens: its command runs and its
\* outcome is published, or its cancellation callback releases what the task
\* owns (a queued passphrase).  A completed task has had one of the two.
ClaimedOnce ==
    /\ started \cap canceled = {}
    /\ published \subseteq started
    /\ completed \subseteq published \cup canceled

\* What shutdown may leave behind (tasks.py 308-333): every durability command
\* that began has ended with its outcome published, every other task has been
\* claimed, and the terminal operation has ended, unless the command that was
\* active is no durability command: then that command still owes it, or the
\* worker is running it behind that command, and nobody waits.  The design says
\* that the process waits for every suspension (README, Differences from the
\* documents); this is what can be relied on instead.
NothingIsCutOff ==
    gui.pc = "returned" =>
        /\ started \cap Drains \subseteq published
        /\ tasks \subseteq Claimed
        /\ terminal \/ TerminalOnWorker
             => worker.task = gui.waitFor /\ worker.task \in started \ Drains

\* Once admission is closed no further command enters the facade.
NoStartAfterShutdown == [][shutdown => started' = started]_vars

\* shutdown always returns.
ShutdownEnds == shutdown ~> gui.pc = "returned"

\* Every admitted task is completed, unless the process is gone first.
TasksSettle == \A t \in Tasks : t \in tasks ~> t \in completed \/ gui.pc = "returned"

-----------------------------------------------------------------------------
(* The inductive invariant behind the safety properties. *)

\* Where the worker is determines what it owns.
WorkerInv ==
    /\ worker.task = None <=> Worker("idle")
    /\ worker.task # None => worker.task \in tasks \cup Claimed
    /\ CommandRunning <=> active # None
    /\ CommandRunning => active = worker.task /\ worker.task \in started \ completed
    /\ Worker("published") => worker.task \in published
    /\ Worker("canceling") => worker.task \in canceled
    /\ worker.pc \in {"starting", "refused", "canceling"} => worker.task \notin started
    /\ worker.pc \in {"terminal", "terminalInvoking", "completing"}
         => worker.task \in published \cup canceled
    /\ started \ published \subseteq {active}

\* Where shutdown is determines what has been closed and swept.
ShutdownInv ==
    /\ ~shutdown => gui.pc \in {"loop", "canceling"} /\ ~terminal /\ runs = 0
    /\ shutdown => gui.pc # "loop" /\ tasks \ Claimed \subseteq gui.sweep
    /\ cleanup => shutdown /\ gui.sweep = {}
    /\ cleanup <=> gui.pc \in {"terminal", "waiting", "returned"}
    /\ gui.pc = "canceling" => gui.task \in canceled /\ (shutdown \/ gui.task \notin tasks)
    /\ shutdown => queue = <<>>
    /\ gui.waitFor # None => shutdown /\ gui.waitFor \in started

\* The terminal operation is in one place.
TerminalInv ==
    /\ runs <= 1
    /\ terminal => shutdown /\ runs = 0
    /\ TerminalOnWorker \/ TerminalOnGui => runs = 1 /\ cleanup /\ active = None
    /\ TerminalOnWorker => worker.task = gui.waitFor
    /\ ~(TerminalOnWorker /\ TerminalOnGui)
    /\ runs = 1 => cleanup /\ active = None
    /\ cleanup /\ terminal => active # None

\* A command that is still under way was under way when shutdown began, and
\* after the event that shutdown may wait for the worker has nothing to do.
DrainInv ==
    /\ shutdown /\ CommandRunning => worker.task = gui.waitFor
    /\ gui.waitFor # None =>
          \/ worker.task = gui.waitFor /\ gui.waitFor \notin completed
          \/ Worker("idle") /\ gui.waitFor \in completed
    /\ gui.pc = "returned" /\ gui.waitFor \in Drains => gui.waitFor \in completed

\* A task no thread has taken is queued once, owned by the executor, not started.
QueueInv ==
    /\ \A i \in DOMAIN queue : queue[i] \in tasks \ started /\ queue[i] # worker.task
    /\ \A i, j \in DOMAIN queue : queue[i] = queue[j] => i = j

ExecutorInv ==
    /\ TypeOK
    /\ ClaimedOnce
    /\ WorkerInv
    /\ ShutdownInv
    /\ TerminalInv
    /\ DrainInv
    /\ QueueInv

=============================================================================
