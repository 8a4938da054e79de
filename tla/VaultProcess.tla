----------------------------- MODULE VaultProcess -----------------------------
(***************************************************************************)
(* The vault lifecycle under the life of the desktop process: it is killed *)
(* at any moment, or it quits through main.py, whose finally clause hands  *)
(* the facade one terminal lock before the process ends.  Memory dies with *)
(* the process; sources and pending slots do not.                          *)
(*                                                                         *)
(* Nothing but the pending directory survives: the facade is constructed   *)
(* empty (facade.py __init__), so a restarted process holds no selector.   *)
(***************************************************************************)
EXTENDS VaultApplication

VARIABLE stage   \* where the process is on its way out

processVars == <<vars, stage>>

\* QUITTING: no more commands.  CLOSED: the terminal lock has been asked for.
\* GAVE_UP: it failed while suspending, and the failure was suppressed.
Stages == {"RUNNING", "QUITTING", "CLOSED", "GAVE_UP"}

-----------------------------------------------------------------------------

ProcessInit == Init /\ stage = "RUNNING"

Run == stage = "RUNNING" /\ Command /\ UNCHANGED stage

Others == (\E p \in Paths : ExternalWrite(p)) /\ UNCHANGED stage

\* FacadeExecutor.shutdown: admission closes, the active command finishes first.
Quit ==
    /\ stage = "RUNNING"
    /\ phase # "BUSY"
    /\ stage' = "QUITTING"
    /\ UNCHANGED vars

\* Mutant: the terminal callback closes the session instead of suspending it.
MutTerminalLock ==
    /\ stage = "QUITTING"
    /\ stage' = "CLOSED"
    /\ IF Unlocked
       THEN GoLocked /\ UNCHANGED <<sourcePath, suspended, disk, owed>>
       ELSE UNCHANGED vars

\* _request_shutdown_lock: one lock with the current generation.  The facade
\* rejects it in every phase that is not unlocked; exceptions are suppressed.
TerminalLock ==
    /\ stage = "QUITTING"
    /\ \/ ~Unlocked /\ stage' = "CLOSED" /\ UNCHANGED vars
       \/ Lock /\ stage' = IF phase' = "UNLOCKED_DIRTY" THEN "GAVE_UP" ELSE "CLOSED"
       \/ phase = "UNLOCKED_DIRTY" /\ stage' = "GAVE_UP" /\ UNCHANGED vars

FinishTerminalLock ==
    /\ stage = "CLOSED"
    /\ FinishSuspend
    /\ stage' = IF phase' = "UNLOCKED_DIRTY" THEN "GAVE_UP" ELSE "CLOSED"

\* A new process after the end of the old one.  What only the old one held is
\* gone; no promise covers it here, QuitSuspends does for a proper end.
Reborn ==
    /\ phase' = "EMPTY"
    /\ session' = None
    /\ sourcePath' = None
    /\ suspended' = None
    /\ decision' = None
    /\ work' = None
    /\ stage' = "RUNNING"
    /\ owed' = {e \in owed : \E p \in Paths : e \in DocOf(file[p]) \/ e \in DocOf(slot[p])}
    /\ UNCHANGED disk

Kill == stage \in Stages /\ Reborn

Exit == stage \in {"CLOSED", "GAVE_UP"} /\ phase # "BUSY" /\ Reborn

ProcessNext == Run \/ Others \/ Quit \/ TerminalLock \/ FinishTerminalLock \/ Kill \/ Exit

ProcessSpec == ProcessInit /\ [][ProcessNext]_processVars

-----------------------------------------------------------------------------
(* Properties *)

\* Across crashes and restarts nobody works on a vault whose newer suspended
\* state is on disk without being that state: the visible slot of a session's
\* source is the one it was resumed from, or its own suspension in progress.
\* Otherwise two divergent dirty revisions of one source would exist.
PendingNeverShadowed ==
    session # None /\ slot[session.path] # None =>
        \/ slot[session.path].id = session.selector
        \/ Suspending /\ slot[session.path].id = work.selector

\* The end of a process that quit properly, outside an open decision, takes
\* nothing with it: every owed edit is in a source or a slot by then, whatever
\* other programs wrote between the shutdown request and the end.
CleanExitLosesNothing ==
    [][Exit /\ stage = "CLOSED" /\ phase # "AWAITING_DECISION" => owed' = owed]_processVars

\* When the terminal lock has been asked for and no suspension failed, no
\* session is left to die with the process: dirty state has been suspended
\* before the engine is destroyed (main.py).
QuitSuspends ==
    stage = "CLOSED" /\ phase # "BUSY" => session = None

-----------------------------------------------------------------------------
(* The invariant behind CleanExitLosesNothing. *)

\* The active command has ended when the terminal lock is asked for, and after
\* it only its own suspension can still be under way.
StageInv ==
    /\ stage \in Stages
    /\ stage = "QUITTING" => phase # "BUSY"
    /\ stage = "CLOSED" => ~Unlocked /\ ~Replacing

=============================================================================
