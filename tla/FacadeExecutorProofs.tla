------------------------- MODULE FacadeExecutorProofs -------------------------
(***************************************************************************)
(* Proofs about FacadeExecutor, for any set of commands, whichever of them *)
(* drain at shutdown or need the GUI thread.  One lemma per action: it     *)
(* preserves ExecutorInv, which implies the safety properties.             *)
(***************************************************************************)
EXTENDS FacadeExecutor, SequenceTheorems, TLAPS

USE ExecutorAssumption

\* The initial state satisfies the inductive invariant.
LEMMA InitExecutor ==
  ASSUME Init
  PROVE  ExecutorInv
  <1> USE DEF Init, ExecutorInv, Worker, Claimed, CommandRunning, TerminalOnWorker,
              TerminalOnGui, WorkerPcs, GuiPcs
  <1>1. TypeOK  BY EmptySeq DEF TypeOK
  <1>2. QueueInv  BY DEF QueueInv
  <1>3. ClaimedOnce /\ WorkerInv /\ ShutdownInv /\ TerminalInv /\ DrainInv
    BY DEF ClaimedOnce, WorkerInv, ShutdownInv, TerminalInv, DrainInv
  <1> QED  BY <1>1, <1>2, <1>3

\* A dequeued task is no longer in the queue, and has not started.
LEMMA DequeueKeeps ==
  ASSUME ExecutorInv, Dequeue
  PROVE  ExecutorInv'
  <1> USE DEF ExecutorInv, Dequeue, executor, claims, Worker, WorkerAt, GuiAt, Claimed,
              CommandRunning, TerminalOnWorker, TerminalOnGui, WorkerPcs, GuiPcs
  <1>1. TypeOK'
    BY DEF TypeOK, WorkerInv, ShutdownInv
  <1>2. ClaimedOnce'
    BY DEF TypeOK, ClaimedOnce, WorkerInv, ShutdownInv
  <1>3. WorkerInv'
    BY DEF TypeOK, ClaimedOnce, WorkerInv, ShutdownInv, TerminalInv, DrainInv, QueueInv
  <1>4. ShutdownInv'
    BY DEF TypeOK, ClaimedOnce, WorkerInv, ShutdownInv, TerminalInv, DrainInv, QueueInv
  <1>5. TerminalInv'
    BY DEF TypeOK, ClaimedOnce, WorkerInv, ShutdownInv, TerminalInv, DrainInv, QueueInv
  <1>6. DrainInv'
    BY DEF TypeOK, ClaimedOnce, WorkerInv, ShutdownInv, TerminalInv, DrainInv, QueueInv
  <1>7. QueueInv'
    BY DEF TypeOK, ClaimedOnce, WorkerInv, ShutdownInv, TerminalInv, DrainInv, QueueInv
  <1> QED  BY <1>1, <1>2, <1>3, <1>4, <1>5, <1>6, <1>7

\* A task becomes active only when admission is open.
LEMMA TaskStartedKeeps ==
  ASSUME ExecutorInv, TaskStarted
  PROVE  ExecutorInv'
  <1> USE DEF ExecutorInv, TaskStarted, executor, claims, Worker, WorkerAt, GuiAt, Claimed,
              CommandRunning, TerminalOnWorker, TerminalOnGui, WorkerPcs, GuiPcs
  <1>1. TypeOK'
    BY DEF TypeOK, WorkerInv, ShutdownInv
  <1>2. ClaimedOnce'
    BY DEF TypeOK, ClaimedOnce, WorkerInv, ShutdownInv
  <1>3. WorkerInv'
    BY DEF TypeOK, ClaimedOnce, WorkerInv, ShutdownInv, TerminalInv, DrainInv, QueueInv
  <1>4. ShutdownInv'
    BY DEF TypeOK, ClaimedOnce, WorkerInv, ShutdownInv, TerminalInv, DrainInv, QueueInv
  <1>5. TerminalInv'
    BY DEF TypeOK, ClaimedOnce, WorkerInv, ShutdownInv, TerminalInv, DrainInv, QueueInv
  <1>6. DrainInv'
    BY DEF TypeOK, ClaimedOnce, WorkerInv, ShutdownInv, TerminalInv, DrainInv, QueueInv
  <1>7. QueueInv'
    BY DEF TypeOK, ClaimedOnce, WorkerInv, ShutdownInv, TerminalInv, DrainInv, QueueInv
  <1> QED  BY <1>1, <1>2, <1>3, <1>4, <1>5, <1>6, <1>7

\* The worker cancels only what nobody has claimed.
LEMMA WorkerCancelsKeeps ==
  ASSUME ExecutorInv, WorkerCancels
  PROVE  ExecutorInv'
  <1> USE DEF ExecutorInv, WorkerCancels, executor, claims, Worker, WorkerAt, GuiAt, Claimed,
              CommandRunning, TerminalOnWorker, TerminalOnGui, WorkerPcs, GuiPcs
  <1>1. TypeOK'
    BY DEF TypeOK, WorkerInv, ShutdownInv
  <1>2. ClaimedOnce'
    BY DEF TypeOK, ClaimedOnce, WorkerInv, ShutdownInv
  <1>3. WorkerInv'
    BY DEF TypeOK, ClaimedOnce, WorkerInv, ShutdownInv, TerminalInv, DrainInv, QueueInv
  <1>4. ShutdownInv'
    BY DEF TypeOK, ClaimedOnce, WorkerInv, ShutdownInv, TerminalInv, DrainInv, QueueInv
  <1>5. TerminalInv'
    BY DEF TypeOK, ClaimedOnce, WorkerInv, ShutdownInv, TerminalInv, DrainInv, QueueInv
  <1>6. DrainInv'
    BY DEF TypeOK, ClaimedOnce, WorkerInv, ShutdownInv, TerminalInv, DrainInv, QueueInv
  <1>7. QueueInv'
    BY DEF TypeOK, ClaimedOnce, WorkerInv, ShutdownInv, TerminalInv, DrainInv, QueueInv
  <1> QED  BY <1>1, <1>2, <1>3, <1>4, <1>5, <1>6, <1>7

\* The outcome belongs to the active task.
LEMMA CommandEndsKeeps ==
  ASSUME ExecutorInv, CommandEnds
  PROVE  ExecutorInv'
  <1> USE DEF ExecutorInv, CommandEnds, executor, claims, Worker, WorkerAt, GuiAt, Claimed,
              CommandRunning, TerminalOnWorker, TerminalOnGui, WorkerPcs, GuiPcs
  <1>1. TypeOK'
    BY DEF TypeOK, WorkerInv, ShutdownInv
  <1>2. ClaimedOnce'
    BY DEF TypeOK, ClaimedOnce, WorkerInv, ShutdownInv
  <1>3. WorkerInv'
    BY DEF TypeOK, ClaimedOnce, WorkerInv, ShutdownInv, TerminalInv, DrainInv, QueueInv
  <1>4. ShutdownInv'
    BY DEF TypeOK, ClaimedOnce, WorkerInv, ShutdownInv, TerminalInv, DrainInv, QueueInv
  <1>5. TerminalInv'
    BY DEF TypeOK, ClaimedOnce, WorkerInv, ShutdownInv, TerminalInv, DrainInv, QueueInv
  <1>6. DrainInv'
    BY DEF TypeOK, ClaimedOnce, WorkerInv, ShutdownInv, TerminalInv, DrainInv, QueueInv
  <1>7. QueueInv'
    BY DEF TypeOK, ClaimedOnce, WorkerInv, ShutdownInv, TerminalInv, DrainInv, QueueInv
  <1> QED  BY <1>1, <1>2, <1>3, <1>4, <1>5, <1>6, <1>7

\* A blocked command is still active.
LEMMA CommandInvokesKeeps ==
  ASSUME ExecutorInv, CommandInvokes
  PROVE  ExecutorInv'
  <1> USE DEF ExecutorInv, CommandInvokes, executor, claims, Worker, WorkerAt, GuiAt, Claimed,
              CommandRunning, TerminalOnWorker, TerminalOnGui, WorkerPcs, GuiPcs
  <1>1. TypeOK'
    BY DEF TypeOK, WorkerInv, ShutdownInv
  <1>2. ClaimedOnce'
    BY DEF TypeOK, ClaimedOnce, WorkerInv, ShutdownInv
  <1>3. WorkerInv'
    BY DEF TypeOK, ClaimedOnce, WorkerInv, ShutdownInv, TerminalInv, DrainInv, QueueInv
  <1>4. ShutdownInv'
    BY DEF TypeOK, ClaimedOnce, WorkerInv, ShutdownInv, TerminalInv, DrainInv, QueueInv
  <1>5. TerminalInv'
    BY DEF TypeOK, ClaimedOnce, WorkerInv, ShutdownInv, TerminalInv, DrainInv, QueueInv
  <1>6. DrainInv'
    BY DEF TypeOK, ClaimedOnce, WorkerInv, ShutdownInv, TerminalInv, DrainInv, QueueInv
  <1>7. QueueInv'
    BY DEF TypeOK, ClaimedOnce, WorkerInv, ShutdownInv, TerminalInv, DrainInv, QueueInv
  <1> QED  BY <1>1, <1>2, <1>3, <1>4, <1>5, <1>6, <1>7

\* The terminal operation is taken by the task that was active last.
LEMMA TaskDoneKeeps ==
  ASSUME ExecutorInv, TaskDone
  PROVE  ExecutorInv'
  <1> USE DEF ExecutorInv, TaskDone, executor, claims, Worker, WorkerAt, GuiAt, Claimed,
              CommandRunning, TerminalOnWorker, TerminalOnGui, WorkerPcs, GuiPcs
  <1>a. \/ /\ cleanup /\ active' = None /\ terminal
           /\ terminal' = FALSE /\ runs' = runs + 1
           /\ worker' = [worker EXCEPT !.pc = "terminal"]
        \/ /\ ~(cleanup /\ active' = None /\ terminal)
           /\ terminal' = terminal /\ runs' = runs
           /\ worker' = [worker EXCEPT !.pc = "completing"]
    BY DEF TakeTerminal, TerminalTaken, TypeOK
  <1>1. TypeOK'
    <2>1. worker' \in [pc : WorkerPcs, task : Tasks \cup {None}]
      BY <1>a DEF TypeOK
    <2>2. runs' \in Nat  BY <1>a DEF TypeOK
    <2>3. terminal' \in BOOLEAN
      <3>1. terminal' = FALSE \/ terminal' = terminal  BY <1>a
      <3> QED  BY <3>1, Zenon DEF TypeOK
    <2> QED  BY <2>1, <2>2, <2>3 DEF TypeOK
  <1>2. ClaimedOnce'
    BY <1>a DEF TypeOK, ClaimedOnce, WorkerInv, ShutdownInv
  <1>3. WorkerInv'
    BY <1>a DEF TypeOK, ClaimedOnce, WorkerInv, ShutdownInv, TerminalInv, DrainInv, QueueInv
  <1>4. ShutdownInv'
    BY <1>a DEF TypeOK, ClaimedOnce, WorkerInv, ShutdownInv, TerminalInv, DrainInv, QueueInv
  <1>5. TerminalInv'
    BY <1>a DEF TypeOK, ClaimedOnce, WorkerInv, ShutdownInv, TerminalInv, DrainInv, QueueInv
  <1>6. DrainInv'
    BY <1>a DEF TypeOK, ClaimedOnce, WorkerInv, ShutdownInv, TerminalInv, DrainInv, QueueInv
  <1>7. QueueInv'
    BY <1>a DEF TypeOK, ClaimedOnce, WorkerInv, ShutdownInv, TerminalInv, DrainInv, QueueInv
  <1> QED  BY <1>1, <1>2, <1>3, <1>4, <1>5, <1>6, <1>7

\* The terminal operation on the worker.
LEMMA WorkerTerminalKeeps ==
  ASSUME ExecutorInv, WorkerTerminal
  PROVE  ExecutorInv'
  <1> USE DEF ExecutorInv, WorkerTerminal, executor, claims, Worker, WorkerAt, GuiAt, Claimed,
              CommandRunning, TerminalOnWorker, TerminalOnGui, WorkerPcs, GuiPcs
  <1>1. TypeOK'
    BY DEF TypeOK, WorkerInv, ShutdownInv
  <1>2. ClaimedOnce'
    BY DEF TypeOK, ClaimedOnce, WorkerInv, ShutdownInv
  <1>3. WorkerInv'
    BY DEF TypeOK, ClaimedOnce, WorkerInv, ShutdownInv, TerminalInv, DrainInv, QueueInv
  <1>4. ShutdownInv'
    BY DEF TypeOK, ClaimedOnce, WorkerInv, ShutdownInv, TerminalInv, DrainInv, QueueInv
  <1>5. TerminalInv'
    BY DEF TypeOK, ClaimedOnce, WorkerInv, ShutdownInv, TerminalInv, DrainInv, QueueInv
  <1>6. DrainInv'
    BY DEF TypeOK, ClaimedOnce, WorkerInv, ShutdownInv, TerminalInv, DrainInv, QueueInv
  <1>7. QueueInv'
    BY DEF TypeOK, ClaimedOnce, WorkerInv, ShutdownInv, TerminalInv, DrainInv, QueueInv
  <1> QED  BY <1>1, <1>2, <1>3, <1>4, <1>5, <1>6, <1>7

\* The event follows the outcome or the cancellation.
LEMMA CompletedKeeps ==
  ASSUME ExecutorInv, Completed
  PROVE  ExecutorInv'
  <1> USE DEF ExecutorInv, Completed, executor, claims, Worker, WorkerAt, GuiAt, Claimed,
              CommandRunning, TerminalOnWorker, TerminalOnGui, WorkerPcs, GuiPcs
  <1>1. TypeOK'
    BY DEF TypeOK, WorkerInv, ShutdownInv
  <1>2. ClaimedOnce'
    BY DEF TypeOK, ClaimedOnce, WorkerInv, ShutdownInv
  <1>3. WorkerInv'
    BY DEF TypeOK, ClaimedOnce, WorkerInv, ShutdownInv, TerminalInv, DrainInv, QueueInv
  <1>4. ShutdownInv'
    BY DEF TypeOK, ClaimedOnce, WorkerInv, ShutdownInv, TerminalInv, DrainInv, QueueInv
  <1>5. TerminalInv'
    BY DEF TypeOK, ClaimedOnce, WorkerInv, ShutdownInv, TerminalInv, DrainInv, QueueInv
  <1>6. DrainInv'
    BY DEF TypeOK, ClaimedOnce, WorkerInv, ShutdownInv, TerminalInv, DrainInv, QueueInv
  <1>7. QueueInv'
    BY DEF TypeOK, ClaimedOnce, WorkerInv, ShutdownInv, TerminalInv, DrainInv, QueueInv
  <1> QED  BY <1>1, <1>2, <1>3, <1>4, <1>5, <1>6, <1>7

\* A task canceled on the GUI thread is not the active one.
LEMMA GuiCanceledKeeps ==
  ASSUME ExecutorInv, GuiCanceled
  PROVE  ExecutorInv'
  <1> USE DEF ExecutorInv, GuiCanceled, executor, claims, Worker, WorkerAt, GuiAt, Claimed,
              CommandRunning, TerminalOnWorker, TerminalOnGui, WorkerPcs, GuiPcs
  <1>1. TypeOK'
    BY DEF TypeOK, WorkerInv, ShutdownInv
  <1>2. ClaimedOnce'
    BY DEF TypeOK, ClaimedOnce, WorkerInv, ShutdownInv
  <1>3. WorkerInv'
    BY DEF TypeOK, ClaimedOnce, WorkerInv, ShutdownInv, TerminalInv, DrainInv, QueueInv
  <1>4. ShutdownInv'
    BY DEF TypeOK, ClaimedOnce, WorkerInv, ShutdownInv, TerminalInv, DrainInv, QueueInv
  <1>5. TerminalInv'
    BY DEF TypeOK, ClaimedOnce, WorkerInv, ShutdownInv, TerminalInv, DrainInv, QueueInv
  <1>6. DrainInv'
    BY DEF TypeOK, ClaimedOnce, WorkerInv, ShutdownInv, TerminalInv, DrainInv, QueueInv
  <1>7. QueueInv'
    BY DEF TypeOK, ClaimedOnce, WorkerInv, ShutdownInv, TerminalInv, DrainInv, QueueInv
  <1> QED  BY <1>1, <1>2, <1>3, <1>4, <1>5, <1>6, <1>7

\* The GUI thread takes the terminal operation only when nothing is active.
LEMMA CleanupCompleteKeeps ==
  ASSUME ExecutorInv, CleanupComplete
  PROVE  ExecutorInv'
  <1> USE DEF ExecutorInv, CleanupComplete, executor, claims, Worker, WorkerAt, GuiAt, Claimed,
              CommandRunning, TerminalOnWorker, TerminalOnGui, WorkerPcs, GuiPcs
  <1>a. \/ /\ active = None /\ terminal
           /\ terminal' = FALSE /\ runs' = runs + 1
           /\ gui' = [gui EXCEPT !.pc = "terminal"]
        \/ /\ ~(active = None /\ terminal)
           /\ terminal' = terminal /\ runs' = runs
           /\ gui' = [gui EXCEPT !.pc = "waiting"]
    BY DEF TakeTerminal, TerminalTaken, TypeOK
  <1>1. TypeOK'
    <2>1. gui' \in [pc : GuiPcs, sweep : SUBSET Tasks, task : Tasks \cup {None},
                    waitFor : Tasks \cup {None}]
      BY <1>a DEF TypeOK
    <2>2. runs' \in Nat  BY <1>a DEF TypeOK
    <2>3. terminal' \in BOOLEAN
      <3>1. terminal' = FALSE \/ terminal' = terminal  BY <1>a
      <3> QED  BY <3>1, Zenon DEF TypeOK
    <2> QED  BY <2>1, <2>2, <2>3 DEF TypeOK
  <1>2. ClaimedOnce'
    BY <1>a DEF TypeOK, ClaimedOnce, WorkerInv, ShutdownInv
  <1>3. WorkerInv'
    BY <1>a DEF TypeOK, ClaimedOnce, WorkerInv, ShutdownInv, TerminalInv, DrainInv, QueueInv
  <1>4. ShutdownInv'
    BY <1>a DEF TypeOK, ClaimedOnce, WorkerInv, ShutdownInv, TerminalInv, DrainInv, QueueInv
  <1>5. TerminalInv'
    BY <1>a DEF TypeOK, ClaimedOnce, WorkerInv, ShutdownInv, TerminalInv, DrainInv, QueueInv
  <1>6. DrainInv'
    BY <1>a DEF TypeOK, ClaimedOnce, WorkerInv, ShutdownInv, TerminalInv, DrainInv, QueueInv
  <1>7. QueueInv'
    BY <1>a DEF TypeOK, ClaimedOnce, WorkerInv, ShutdownInv, TerminalInv, DrainInv, QueueInv
  <1> QED  BY <1>1, <1>2, <1>3, <1>4, <1>5, <1>6, <1>7

\* The terminal operation on the GUI thread.
LEMMA GuiTerminalKeeps ==
  ASSUME ExecutorInv, GuiTerminal
  PROVE  ExecutorInv'
  <1> USE DEF ExecutorInv, GuiTerminal, executor, claims, Worker, WorkerAt, GuiAt, Claimed,
              CommandRunning, TerminalOnWorker, TerminalOnGui, WorkerPcs, GuiPcs
  <1>1. TypeOK'
    BY DEF TypeOK, WorkerInv, ShutdownInv
  <1>2. ClaimedOnce'
    BY DEF TypeOK, ClaimedOnce, WorkerInv, ShutdownInv
  <1>3. WorkerInv'
    BY DEF TypeOK, ClaimedOnce, WorkerInv, ShutdownInv, TerminalInv, DrainInv, QueueInv
  <1>4. ShutdownInv'
    BY DEF TypeOK, ClaimedOnce, WorkerInv, ShutdownInv, TerminalInv, DrainInv, QueueInv
  <1>5. TerminalInv'
    BY DEF TypeOK, ClaimedOnce, WorkerInv, ShutdownInv, TerminalInv, DrainInv, QueueInv
  <1>6. DrainInv'
    BY DEF TypeOK, ClaimedOnce, WorkerInv, ShutdownInv, TerminalInv, DrainInv, QueueInv
  <1>7. QueueInv'
    BY DEF TypeOK, ClaimedOnce, WorkerInv, ShutdownInv, TerminalInv, DrainInv, QueueInv
  <1> QED  BY <1>1, <1>2, <1>3, <1>4, <1>5, <1>6, <1>7

\* shutdown returns behind the durability command.
LEMMA ShutdownReturnsKeeps ==
  ASSUME ExecutorInv, ShutdownReturns
  PROVE  ExecutorInv'
  <1> USE DEF ExecutorInv, ShutdownReturns, executor, claims, Worker, WorkerAt, GuiAt, Claimed,
              CommandRunning, TerminalOnWorker, TerminalOnGui, WorkerPcs, GuiPcs
  <1>1. TypeOK'
    BY DEF TypeOK, WorkerInv, ShutdownInv
  <1>2. ClaimedOnce'
    BY DEF TypeOK, ClaimedOnce, WorkerInv, ShutdownInv
  <1>3. WorkerInv'
    BY DEF TypeOK, ClaimedOnce, WorkerInv, ShutdownInv, TerminalInv, DrainInv, QueueInv
  <1>4. ShutdownInv'
    BY DEF TypeOK, ClaimedOnce, WorkerInv, ShutdownInv, TerminalInv, DrainInv, QueueInv
  <1>5. TerminalInv'
    BY DEF TypeOK, ClaimedOnce, WorkerInv, ShutdownInv, TerminalInv, DrainInv, QueueInv
  <1>6. DrainInv'
    BY DEF TypeOK, ClaimedOnce, WorkerInv, ShutdownInv, TerminalInv, DrainInv, QueueInv
  <1>7. QueueInv'
    BY DEF TypeOK, ClaimedOnce, WorkerInv, ShutdownInv, TerminalInv, DrainInv, QueueInv
  <1> QED  BY <1>1, <1>2, <1>3, <1>4, <1>5, <1>6, <1>7

\* An invocation served by the event loop.
LEMMA InvokeKeeps ==
  ASSUME ExecutorInv, Invoke
  PROVE  ExecutorInv'
  <1> USE DEF ExecutorInv, Invoke, executor, claims, Worker, WorkerAt, GuiAt, Claimed,
              CommandRunning, TerminalOnWorker, TerminalOnGui, WorkerPcs, GuiPcs
  <1>1. TypeOK'
    BY DEF TypeOK, WorkerInv, ShutdownInv
  <1>2. ClaimedOnce'
    BY DEF TypeOK, ClaimedOnce, WorkerInv, ShutdownInv
  <1>3. WorkerInv'
    BY DEF TypeOK, ClaimedOnce, WorkerInv, ShutdownInv, TerminalInv, DrainInv, QueueInv
  <1>4. ShutdownInv'
    BY DEF TypeOK, ClaimedOnce, WorkerInv, ShutdownInv, TerminalInv, DrainInv, QueueInv
  <1>5. TerminalInv'
    BY DEF TypeOK, ClaimedOnce, WorkerInv, ShutdownInv, TerminalInv, DrainInv, QueueInv
  <1>6. DrainInv'
    BY DEF TypeOK, ClaimedOnce, WorkerInv, ShutdownInv, TerminalInv, DrainInv, QueueInv
  <1>7. QueueInv'
    BY DEF TypeOK, ClaimedOnce, WorkerInv, ShutdownInv, TerminalInv, DrainInv, QueueInv
  <1> QED  BY <1>1, <1>2, <1>3, <1>4, <1>5, <1>6, <1>7

\* An admitted task is queued once.
LEMMA SubmitKeeps ==
  ASSUME ExecutorInv, NEW t \in Tasks, Submit(t)
  PROVE  ExecutorInv'
  <1> USE DEF ExecutorInv, Submit, executor, claims, Worker, WorkerAt, GuiAt, Claimed,
              CommandRunning, TerminalOnWorker, TerminalOnGui, WorkerPcs, GuiPcs
  <1>a. /\ Len(queue') = Len(queue) + 1
        /\ \A i \in DOMAIN queue : queue'[i] = queue[i]
        /\ queue'[Len(queue) + 1] = t
        /\ DOMAIN queue' = DOMAIN queue \cup {Len(queue) + 1}
    BY DEF TypeOK
  <1>1. TypeOK'
    BY DEF TypeOK, WorkerInv, ShutdownInv
  <1>2. ClaimedOnce'
    BY DEF TypeOK, ClaimedOnce, WorkerInv, ShutdownInv
  <1>3. WorkerInv'
    BY DEF TypeOK, ClaimedOnce, WorkerInv, ShutdownInv, TerminalInv, DrainInv, QueueInv
  <1>4. ShutdownInv'
    BY DEF TypeOK, ClaimedOnce, WorkerInv, ShutdownInv, TerminalInv, DrainInv, QueueInv
  <1>5. TerminalInv'
    BY DEF TypeOK, ClaimedOnce, WorkerInv, ShutdownInv, TerminalInv, DrainInv, QueueInv
  <1>6. DrainInv'
    BY DEF TypeOK, ClaimedOnce, WorkerInv, ShutdownInv, TerminalInv, DrainInv, QueueInv
  <1>7. QueueInv'
    <2>1. ASSUME NEW i \in DOMAIN queue'
          PROVE  queue'[i] \in tasks' \ started' /\ queue'[i] # worker'.task
      BY <1>a, <2>1 DEF TypeOK, ClaimedOnce, WorkerInv, QueueInv
    <2>2. ASSUME NEW i \in DOMAIN queue', NEW j \in DOMAIN queue', queue'[i] = queue'[j]
          PROVE  i = j
      BY <1>a, <2>2 DEF TypeOK, QueueInv
    <2> QED  BY <2>1, <2>2 DEF QueueInv
  <1> QED  BY <1>1, <1>2, <1>3, <1>4, <1>5, <1>6, <1>7

\* A task that could not be queued is not owned by the executor.
LEMMA SubmitFailsKeeps ==
  ASSUME ExecutorInv, NEW t \in Tasks, SubmitFails(t)
  PROVE  ExecutorInv'
  <1> USE DEF ExecutorInv, SubmitFails, executor, claims, Worker, WorkerAt, GuiAt, Claimed,
              CommandRunning, TerminalOnWorker, TerminalOnGui, WorkerPcs, GuiPcs
  <1>1. TypeOK'
    BY DEF TypeOK, WorkerInv, ShutdownInv
  <1>2. ClaimedOnce'
    BY DEF TypeOK, ClaimedOnce, WorkerInv, ShutdownInv
  <1>3. WorkerInv'
    BY DEF TypeOK, ClaimedOnce, WorkerInv, ShutdownInv, TerminalInv, DrainInv, QueueInv
  <1>4. ShutdownInv'
    BY DEF TypeOK, ClaimedOnce, WorkerInv, ShutdownInv, TerminalInv, DrainInv, QueueInv
  <1>5. TerminalInv'
    BY DEF TypeOK, ClaimedOnce, WorkerInv, ShutdownInv, TerminalInv, DrainInv, QueueInv
  <1>6. DrainInv'
    BY DEF TypeOK, ClaimedOnce, WorkerInv, ShutdownInv, TerminalInv, DrainInv, QueueInv
  <1>7. QueueInv'
    BY DEF TypeOK, ClaimedOnce, WorkerInv, ShutdownInv, TerminalInv, DrainInv, QueueInv
  <1> QED  BY <1>1, <1>2, <1>3, <1>4, <1>5, <1>6, <1>7

\* All that has not been claimed is in the snapshot to sweep.
LEMMA ShutdownKeeps ==
  ASSUME ExecutorInv, NEW given \in BOOLEAN, Shutdown(given)
  PROVE  ExecutorInv'
  <1> USE DEF ExecutorInv, Shutdown, executor, claims, Worker, WorkerAt, GuiAt, Claimed,
              CommandRunning, TerminalOnWorker, TerminalOnGui, WorkerPcs, GuiPcs
  <1>1. TypeOK'
    BY EmptySeq DEF TypeOK, WorkerInv, ShutdownInv
  <1>2. ClaimedOnce'
    BY EmptySeq DEF TypeOK, ClaimedOnce, WorkerInv, ShutdownInv
  <1>3. WorkerInv'
    BY EmptySeq DEF TypeOK, ClaimedOnce, WorkerInv, ShutdownInv, TerminalInv, DrainInv, QueueInv
  <1>4. ShutdownInv'
    BY EmptySeq DEF TypeOK, ClaimedOnce, WorkerInv, ShutdownInv, TerminalInv, DrainInv, QueueInv
  <1>5. TerminalInv'
    BY EmptySeq DEF TypeOK, ClaimedOnce, WorkerInv, ShutdownInv, TerminalInv, DrainInv, QueueInv
  <1>6. DrainInv'
    BY EmptySeq DEF TypeOK, ClaimedOnce, WorkerInv, ShutdownInv, TerminalInv, DrainInv, QueueInv
  <1>7. QueueInv'
    BY EmptySeq DEF TypeOK, ClaimedOnce, WorkerInv, ShutdownInv, TerminalInv, DrainInv, QueueInv
  <1> QED  BY <1>1, <1>2, <1>3, <1>4, <1>5, <1>6, <1>7

\* One task of the snapshot is claimed, by its start or by its cancellation.
LEMMA CancelPendingKeeps ==
  ASSUME ExecutorInv, NEW t \in Tasks, CancelPending(t)
  PROVE  ExecutorInv'
  <1> USE DEF ExecutorInv, executor, claims, Worker, WorkerAt, GuiAt, Claimed,
              CommandRunning, TerminalOnWorker, TerminalOnGui, WorkerPcs, GuiPcs
  <1>a. /\ gui.pc = "sweep" /\ t \in gui.sweep
        /\ UNCHANGED <<executor, started, completed, published, runs, worker>>
        /\ gui'.sweep = gui.sweep \ {t} /\ gui'.waitFor = gui.waitFor
        /\ gui' \in [pc : GuiPcs, sweep : SUBSET Tasks, task : Tasks \cup {None},
                      waitFor : Tasks \cup {None}]
        /\ \/ t \in Claimed /\ gui'.pc = "sweep" /\ canceled' = canceled
           \/ t \notin Claimed /\ gui'.pc = "canceling" /\ gui'.task = t
              /\ canceled' = canceled \cup {t}
    <2>1. CASE t \in Claimed
      <3>1. gui' = [gui EXCEPT !.sweep = @ \ {t}]  BY <2>1 DEF CancelPending
      <3> QED  BY <2>1, <3>1 DEF CancelPending, TypeOK
    <2>2. CASE t \notin Claimed
      <3>1. gui' = [gui EXCEPT !.pc = "canceling", !.sweep = @ \ {t}, !.task = t]
        BY <2>2 DEF CancelPending
      <3> QED  BY <2>2, <3>1 DEF CancelPending, TypeOK
    <2> QED  BY <2>1, <2>2
  <1>1. TypeOK'
    BY <1>a DEF TypeOK, WorkerInv, ShutdownInv
  <1>2. ClaimedOnce'
    BY <1>a DEF TypeOK, ClaimedOnce, WorkerInv, ShutdownInv
  <1>3. WorkerInv'
    BY <1>a DEF TypeOK, ClaimedOnce, WorkerInv, ShutdownInv, TerminalInv, DrainInv, QueueInv
  <1>4. ShutdownInv'
    BY <1>a DEF TypeOK, ClaimedOnce, WorkerInv, ShutdownInv, TerminalInv, DrainInv, QueueInv
  <1>5. TerminalInv'
    BY <1>a DEF TypeOK, ClaimedOnce, WorkerInv, ShutdownInv, TerminalInv, DrainInv, QueueInv
  <1>6. DrainInv'
    BY <1>a DEF TypeOK, ClaimedOnce, WorkerInv, ShutdownInv, TerminalInv, DrainInv, QueueInv
  <1>7. QueueInv'
    BY <1>a DEF TypeOK, ClaimedOnce, WorkerInv, ShutdownInv, TerminalInv, DrainInv, QueueInv
  <1> QED  BY <1>1, <1>2, <1>3, <1>4, <1>5, <1>6, <1>7

\* Every step of the executor preserves the invariant.
LEMMA NextKeeps ==
  ASSUME ExecutorInv, [Next]_vars
  PROVE  ExecutorInv'
  <1>1. CASE WorkerStep
        BY <1>1, DequeueKeeps, TaskStartedKeeps, WorkerCancelsKeeps, CommandEndsKeeps,
         CommandInvokesKeeps, TaskDoneKeeps, WorkerTerminalKeeps, CompletedKeeps DEF WorkerStep
  <1>2. CASE GuiStep
    BY <1>2, CancelPendingKeeps, GuiCanceledKeeps, CleanupCompleteKeeps, GuiTerminalKeeps,
       ShutdownReturnsKeeps DEF GuiStep
  <1>3. CASE Invoke
    BY <1>3, InvokeKeeps
  <1>4. CASE \E t \in Tasks : Submit(t) \/ SubmitFails(t)
    BY <1>4, SubmitKeeps, SubmitFailsKeeps
  <1>5. CASE \E given \in BOOLEAN : Shutdown(given)
    BY <1>5, ShutdownKeeps
  <1>6. CASE UNCHANGED vars
    BY <1>6 DEF vars, ExecutorInv, Worker, Claimed, CommandRunning, TerminalOnWorker,
         TerminalOnGui, TypeOK, ClaimedOnce, WorkerInv, ShutdownInv, TerminalInv, DrainInv, QueueInv
  <1> QED  BY <1>1, <1>2, <1>3, <1>4, <1>5, <1>6 DEF Next

\* The inductive invariant holds in every reachable state, whatever is
\* submitted and whenever shutdown comes.
THEOREM ExecutorInvariant == Spec => []ExecutorInv
  <1>1. Init => ExecutorInv  BY InitExecutor
  <1>2. ExecutorInv /\ [Next]_vars => ExecutorInv'  BY NextKeeps
  <1> QED  BY <1>1, <1>2, PTL DEF Spec

\* The terminal operation is exclusive: at most once, on one thread, with no
\* command in the facade and none that can still enter it.
THEOREM TerminalIsAlone == Spec => []TerminalAlone
  <1>1. ExecutorInv => TerminalAlone
        BY DEF ExecutorInv, TerminalAlone, TypeOK, ClaimedOnce, WorkerInv, ShutdownInv, TerminalInv,
         DrainInv, QueueInv,
           Worker, Claimed, CommandRunning, TerminalOnWorker, TerminalOnGui
  <1> QED  BY <1>1, ExecutorInvariant, PTL

\* A command runs or its cancellation callback does, never both.
THEOREM TasksAreClaimedOnce == Spec => []ClaimedOnce
  <1>1. ExecutorInv => ClaimedOnce  BY DEF ExecutorInv
  <1> QED  BY <1>1, ExecutorInvariant, PTL

\* When shutdown returns, every durability command that began is over, and a
\* terminal operation that is not belongs to a command without that policy.
THEOREM ShutdownCutsNothingOff == Spec => []NothingIsCutOff
  <1>1. ASSUME ExecutorInv, gui.pc = "returned"
        PROVE  started \cap Drains \subseteq published
    <2> SUFFICES ASSUME NEW t \in started, t \in Drains, t \notin published
                 PROVE  FALSE
      OBVIOUS
    <2>1. t = active /\ active # None
      <3>1. t \in Tasks
        BY <1>1 DEF ExecutorInv, TypeOK
      <3>2. t \in started \ published
        OBVIOUS
      <3>3. t = active
        BY <1>1, <3>2 DEF ExecutorInv, WorkerInv
      <3> QED  BY <3>1, <3>3, ExecutorAssumption
    <2>2. CommandRunning /\ worker.task = t /\ t \notin completed
      BY <1>1, <2>1 DEF ExecutorInv, WorkerInv
    <2>3. gui.waitFor = t
      BY <1>1, <2>2 DEF ExecutorInv, ShutdownInv, DrainInv
    <2> QED  BY <1>1, <2>2, <2>3 DEF ExecutorInv, DrainInv
  <1>2. ASSUME ExecutorInv, gui.pc = "returned"
        PROVE  tasks \subseteq Claimed
    BY <1>2 DEF ExecutorInv, ShutdownInv
  <1>3. ASSUME ExecutorInv, gui.pc = "returned", terminal \/ TerminalOnWorker
        PROVE  worker.task = gui.waitFor /\ worker.task \in started \ Drains
    <2>1. worker.task = gui.waitFor /\ worker.task # None /\ ~Worker("idle")
      <3>1. CASE terminal
        <4>1. active # None
          BY <1>3, <3>1 DEF ExecutorInv, ShutdownInv, TerminalInv
        <4> QED  BY <1>3, <4>1 DEF ExecutorInv, WorkerInv, ShutdownInv, DrainInv, CommandRunning, Worker
      <3>2. CASE TerminalOnWorker
        <4>1. ~Worker("idle")
          BY <3>2 DEF TerminalOnWorker, Worker
        <4> QED  BY <1>3, <3>2, <4>1 DEF ExecutorInv, WorkerInv, TerminalInv
      <3> QED  BY <1>3, <3>1, <3>2
    <2>2. gui.waitFor \in started /\ gui.waitFor \notin completed
      BY <1>3, <2>1 DEF ExecutorInv, ShutdownInv, DrainInv
    <2> QED  BY <1>3, <2>1, <2>2 DEF ExecutorInv, DrainInv
  <1>4. ExecutorInv => NothingIsCutOff
    BY <1>1, <1>2, <1>3 DEF NothingIsCutOff
  <1> QED  BY <1>4, ExecutorInvariant, PTL

\* No command enters the facade once admission is closed.
THEOREM AdmissionStaysClosed == Spec => NoStartAfterShutdown
  <1>1. [Next]_vars => [shutdown => started' = started]_vars
    BY DEF Next, vars, WorkerStep, GuiStep, Dequeue, TaskStarted, WorkerCancels, CommandEnds,
           CommandInvokes, TaskDone, WorkerTerminal, Completed, CancelPending, GuiCanceled,
           CleanupComplete, GuiTerminal, ShutdownReturns, Invoke, Submit, SubmitFails, Shutdown,
           executor, claims
  <1> QED  BY <1>1, PTL DEF Spec, NoStartAfterShutdown

==============================================================================
