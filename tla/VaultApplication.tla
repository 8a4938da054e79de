--------------------------- MODULE VaultApplication ---------------------------
(***************************************************************************)
(* The lifecycle of one vault in the desktop process: the VaultApplication *)
(* facade (application/facade.py) driving VaultService (service.py) over   *)
(* two pieces of durable state, the source file of every path and the      *)
(* pending slot that a dirty lock leaves behind, while other programs may  *)
(* rewrite a source at any moment.                                         *)
(*                                                                         *)
(* The facade runs every command under one re-entrant lock, so a command   *)
(* is one action.  Two commands are cut in two, with the phase BUSY in     *)
(* between, because their code looks at the source twice: a dirty lock     *)
(* publishes the pending slot and captures the source again, and a saved   *)
(* replacement publishes the source and then authenticates the new vault.  *)
(* Commands that carry a stale generation, a stale token or a closed       *)
(* passphrase are rejected without any effect and are not represented; nor *)
(* is a failure that restores the snapshot it found.                       *)
(*                                                                         *)
(* An operator named Mut... is a faulty variant of the definition after    *)
(* it; nothing uses it but the sensitivity runs of the project manifest.   *)
(*                                                                         *)
(* Data.  A document is the set of edits it contains.  A version names one *)
(* published state of a file (FileBaseline: device, inode, size, digest);  *)
(* a selector is the 256-bit identifier of a pending slot.  Both are drawn *)
(* fresh: any value that nothing refers to any more may be drawn again.    *)
(***************************************************************************)
EXTENDS Naturals

CONSTANTS
    Paths,          \* vault locators the user can choose
    Writers,        \* the paths that other programs also write
    Edits,          \* confirmed changes, by this process or by other programs
    Versions,       \* published file states
    Selectors,      \* pending-slot identifiers
    None,           \* Python's None
    ViewFails,      \* rendering a record view may fail after a mutation
    RollbackFails   \* a pending-store rollback may fail as well

VARIABLES
    phase,       \* ApplicationSnapshot.phase
    session,     \* VaultApplication._session, a VaultSession
    sourcePath,  \* VaultApplication._source_path
    suspended,   \* VaultApplication._suspended
    decision,    \* VaultApplication._decision
    work,        \* what the BUSY command still has to do
    file,        \* the source files
    slot,        \* the pending directory: the visible slot of every path
    owed         \* history: confirmed edits that nobody asked to discard

memory == <<phase, session, sourcePath, suspended, decision, work>>
disk   == <<file, slot>>
vars   == <<phase, session, sourcePath, suspended, decision, work, file, slot, owed>>

-----------------------------------------------------------------------------
(* Types *)

Phases == {"EMPTY", "BUSY", "UNLOCKED_CLEAN", "UNLOCKED_DIRTY", "LOCKED", "AWAITING_DECISION"}

VaultFile   == [doc : SUBSET Edits, version : Versions]
PendingSlot == [id : Selectors, doc : SUBSET Edits, base : Versions]

\* VaultSession: bound path and baseline, current document, whether changes
\* is non-empty, and the pending identity kept by a resumed session.
VaultSession == [path : Paths, base : Versions, doc : SUBSET Edits,
                 changed : BOOLEAN, selector : Selectors \cup {None}]

Replacement == [action : {"create", "open"}, path : Paths]

\* A close decision has no replacement.
PendingDecision == [replacement : Replacement \cup {None}]

Continuation == [op : {"suspend"}, selector : Selectors] \cup
                [op : {"replace"}, replacement : Replacement]

ASSUME NoneAssumption ==
    /\ None \notin Paths
    /\ None \notin Selectors
    /\ None \notin VaultFile
    /\ None \notin PendingSlot
    /\ None \notin VaultSession
    /\ None \notin Replacement
    /\ None \notin PendingDecision
    /\ None \notin Continuation

ASSUME FaultAssumption == ViewFails \in BOOLEAN /\ RollbackFails \in BOOLEAN

-----------------------------------------------------------------------------
(* Reading the state *)

Dirty(s) == s.changed \/ s.selector # None

DocOf(x) == IF x = None THEN {} ELSE x.doc

\* The edit exists somewhere: in memory, in a source, in a pending slot.
Held(e) == e \in DocOf(session) \/ \E p \in Paths : e \in DocOf(file[p]) \/ e \in DocOf(slot[p])

\* The part of a document that its source file does not hold.
Unsaved(doc, p) == doc \ DocOf(file[p])

FreshVersion(p, v) ==
    /\ file[p] # None => v # file[p].version
    /\ slot[p] # None => v # slot[p].base
    /\ session # None => v # session.base

FreshSelector(id) ==
    /\ id # suspended
    /\ session # None => id # session.selector
    /\ \A p \in Paths : slot[p] # None => id # slot[p].id

Unlocked == phase \in {"UNLOCKED_CLEAN", "UNLOCKED_DIRTY"}

SourceUnchanged == file[session.path].version = session.base

-----------------------------------------------------------------------------
(* Publishing an application state *)

\* _commit_locked and _fail_closed leave the same state behind.
GoLocked ==
    /\ phase' = "LOCKED"
    /\ session' = None
    /\ decision' = None
    /\ work' = None

\* _restore_failure and _restore_snapshot, to the phase they were given.
Restore(prior) ==
    /\ phase' = prior
    /\ decision' = None
    /\ work' = None
    /\ UNCHANGED <<session, sourcePath, suspended>>

Await(replacement) ==
    /\ phase' = "AWAITING_DECISION"
    /\ decision' = [replacement |-> replacement]
    /\ UNCHANGED <<session, sourcePath, suspended, work, disk, owed>>

-----------------------------------------------------------------------------
(* The pending store, as the service sees it *)

SlotIs(p, id) == slot[p] # None /\ slot[p].id = id

\* PendingSessionStore.discard, committed.
PendingDiscarded(p, id) ==
    /\ SlotIs(p, id)
    /\ slot' = [slot EXCEPT ![p] = None]

\* PendingSessionStore.discard raising: the slot is still there, or its rename
\* to a tombstone could not be undone and it is no longer visible.
PendingDiscardFails(p, id) ==
    \/ UNCHANGED slot
    \/ RollbackFails /\ PendingDiscarded(p, id)

\* _publication_previous_locked: compare-and-swap on the expected selector.
PendingExpected(p, expected) ==
    IF expected = None THEN slot[p] = None ELSE SlotIs(p, expected)

PendingPublished(id) ==
    /\ SourceUnchanged
    /\ PendingExpected(session.path, session.selector)
    /\ FreshSelector(id)
    /\ slot' = [slot EXCEPT ![session.path] =
                   [id |-> id, doc |-> session.doc, base |-> session.base]]

\* A publication that fails and whose rollback fails too: the previous slot is
\* gone, or the new slot stays although the caller is told that it failed.
PendingPublishBreaks ==
    /\ RollbackFails
    /\ \/ \E id \in Selectors : PendingPublished(id)
       \/ SourceUnchanged /\ PendingDiscarded(session.path, session.selector)

-----------------------------------------------------------------------------
(* VaultService *)

\* Mutant: the session's baseline is not compared with the source.
MutPublishOverAnything(v) ==
    /\ FreshVersion(session.path, v)
    /\ file' = [file EXCEPT ![session.path] = [doc |-> session.doc, version |-> v]]

\* LocalVaultStore.publish over the baseline the session is bound to.
SourcePublished(v) ==
    /\ SourceUnchanged
    /\ FreshVersion(session.path, v)
    /\ file' = [file EXCEPT ![session.path] = [doc |-> session.doc, version |-> v]]

\* Mutant: the pending slot of a resumed session is forgotten, not removed.
MutSaveForgetsSlot(v) == SourcePublished(v) /\ UNCHANGED slot

\* save: the source is replaced and the pending slot of a resumed session is
\* removed; the session becomes clean and forgets its selector.
ServiceSaved(v) ==
    /\ SourcePublished(v)
    /\ IF session.selector = None
       THEN UNCHANGED slot
       ELSE PendingDiscarded(session.path, session.selector)

\* save raising _CommittedSaveError after the source was replaced: with the
\* pending identity released (cleanup of the publication failed) ...
ServiceSaveCommitted(v) ==
    \/ ServiceSaved(v) /\ suspended' = None
    \* ... or still retained (removing the pending slot failed).
    \/ /\ session.selector # None
       /\ SourcePublished(v)
       /\ PendingDiscardFails(session.path, session.selector)
       /\ suspended' = session.selector

\* Mutant: _finish_pending_cleanup is not called.
MutSavedKeepsSelector(v) == [session EXCEPT !.base = v, !.changed = FALSE]

SavedSession(v) == [session EXCEPT !.base = v, !.changed = FALSE, !.selector = None]

\* Mutant: guard_open is not asked.
MutOpenUnguarded(p) == file[p] # None

\* open: guard_open refuses a source that has a pending slot.
Openable(p) == file[p] # None /\ slot[p] = None

OpenedSession(p) == [path |-> p, base |-> file[p].version, doc |-> file[p].doc,
                     changed |-> FALSE, selector |-> None]

\* create: exclusive publication of an empty vault.
SourceCreated(p, v) ==
    /\ file[p] = None
    /\ FreshVersion(p, v)
    /\ file' = [file EXCEPT ![p] = [doc |-> {}, version |-> v]]

CreatedSession(p, v) == [path |-> p, base |-> v, doc |-> {},
                         changed |-> FALSE, selector |-> None]

\* resume: slot, artifact and source must all be the ones that were suspended.
Resumable(p, id) ==
    /\ SlotIs(p, id)
    /\ file[p].version = slot[p].base

ResumedSession(p) == [path |-> p, base |-> slot[p].base, doc |-> slot[p].doc,
                      changed |-> FALSE, selector |-> slot[p].id]

-----------------------------------------------------------------------------
(* Initial states: nothing selected, any set of vaults already on disk. *)

Init ==
    /\ phase = "EMPTY"
    /\ session = None
    /\ sourcePath = None
    /\ suspended = None
    /\ decision = None
    /\ work = None
    /\ \E existing \in SUBSET Paths, v \in Versions :
          file = [p \in Paths |-> IF p \in existing THEN [doc |-> {}, version |-> v] ELSE None]
    /\ slot = [p \in Paths |-> None]
    /\ owed = {}

-----------------------------------------------------------------------------
(* Create, open and replace *)

\* Mutant: the identity of the retired session's slot is kept.
MutAdoptKeepsSuspended(candidate) ==
    /\ phase' = "UNLOCKED_CLEAN"
    /\ session' = candidate
    /\ sourcePath' = candidate.path
    /\ decision' = None
    /\ work' = None
    /\ UNCHANGED suspended

\* Commit the candidate session: _commit_projected_session.
Adopt(candidate) ==
    /\ phase' = "UNLOCKED_CLEAN"
    /\ session' = candidate
    /\ sourcePath' = candidate.path
    /\ suspended' = None
    /\ decision' = None
    /\ work' = None

\* The candidate is authenticated; close the old session, drop its pending
\* slot, then commit the candidate, or fail closed on the old session.  The
\* user has conceded some edits of the old session, or none.
RetireAndAdopt(candidate, conceded) ==
    IF session = None
    THEN /\ Adopt(candidate)
         /\ UNCHANGED <<slot, owed>>
    ELSE /\ owed' = owed \ conceded
         /\ \/ /\ IF suspended = None
                  THEN UNCHANGED slot
                  ELSE PendingDiscarded(sourcePath, suspended)
               /\ \/ Adopt(candidate)
                  \/ GoLocked /\ suspended' = None /\ UNCHANGED sourcePath
            \/ /\ suspended # None
               /\ PendingDiscardFails(sourcePath, suspended)
               /\ GoLocked
               /\ UNCHANGED <<sourcePath, suspended>>

RunReplacement(r, prior, conceded) ==
    \* the candidate cannot be opened, created or projected
    \/ /\ Restore(prior)
       /\ UNCHANGED <<disk, owed>>
    \/ /\ r.action = "create"
       /\ \E v \in Versions : SourceCreated(r.path, v)
       /\ Restore(prior)
       /\ UNCHANGED <<slot, owed>>
    \/ /\ r.action = "create"
       /\ \E v \in Versions :
             /\ SourceCreated(r.path, v)
             /\ RetireAndAdopt(CreatedSession(r.path, v), conceded)
    \/ /\ r.action = "open"
       /\ Openable(r.path)
       /\ RetireAndAdopt(OpenedSession(r.path), conceded)
       /\ UNCHANGED file

\* create and open: dirty work asks for a decision first.
Replace(r) ==
    /\ phase \in {"EMPTY", "UNLOCKED_CLEAN", "UNLOCKED_DIRTY", "LOCKED"}
    /\ ~(suspended # None /\ session = None)
    /\ IF phase = "UNLOCKED_DIRTY" THEN Await(r) ELSE RunReplacement(r, phase, {})

-----------------------------------------------------------------------------
(* Editing *)

FreshEdit(e) == ~Held(e) /\ e \notin owed

\* begin_edit and commit_edit (_add_draft, _apply_draft) on one new edit.
CommitEdit(e) ==
    LET edited == [session EXCEPT !.doc = @ \cup {e}, !.changed = TRUE]
    IN
    /\ Unlocked
    /\ FreshEdit(e)
    /\ UNCHANGED <<sourcePath, suspended, decision, work, disk>>
    /\ \/ /\ phase' = "UNLOCKED_DIRTY"
          /\ session' = edited
          /\ owed' = owed \cup {e}
       \* the session mutated, but its own view failed: reported as a failure
       \/ /\ ViewFails
          /\ session' = edited
          /\ UNCHANGED <<phase, owed>>
       \* the refreshed projection failed: fail closed, unsaved edits are dropped
       \/ /\ ViewFails
          /\ phase' = "LOCKED"
          /\ session' = None
          /\ owed' = owed \ (Unsaved(session.doc, session.path) \ DocOf(slot[session.path]))

\* set_search projects the session afresh, and its phase with it.
SetSearch ==
    /\ Unlocked
    /\ phase' = IF Dirty(session) THEN "UNLOCKED_DIRTY" ELSE "UNLOCKED_CLEAN"
    /\ UNCHANGED <<session, sourcePath, suspended, decision, work, disk, owed>>

-----------------------------------------------------------------------------
(* Save and close *)

Save ==
    /\ Unlocked
    /\ UNCHANGED <<sourcePath, owed>>
    /\ \E v \in Versions :
          \/ /\ ServiceSaved(v)
             /\ session' = SavedSession(v)
             /\ phase' = "UNLOCKED_CLEAN"
             /\ suspended' = None
             /\ UNCHANGED <<decision, work>>
          \/ ServiceSaveCommitted(v) /\ GoLocked

RequestClose ==
    /\ Unlocked
    /\ IF phase = "UNLOCKED_DIRTY"
       THEN Await(None)
       ELSE GoLocked /\ UNCHANGED <<sourcePath, suspended, disk, owed>>

ResolveCancel ==
    /\ phase = "AWAITING_DECISION"
    /\ Restore("UNLOCKED_DIRTY")
    /\ UNCHANGED <<disk, owed>>

\* A decision answered SAVE whose publication is refused before it commits.
ResolveSaveFails ==
    /\ phase = "AWAITING_DECISION"
    /\ Restore("UNLOCKED_DIRTY")
    /\ UNCHANGED <<disk, owed>>

\* _resolve_close_only: save, then close; both of its failure paths past the
\* commit fail closed.
ResolveCloseSave ==
    /\ phase = "AWAITING_DECISION"
    /\ decision.replacement = None
    /\ \E v \in Versions : ServiceSaveCommitted(v)
    /\ GoLocked
    /\ UNCHANGED <<sourcePath, owed>>

\* _resolve_close_only: the session goes first, then its pending slot.
ResolveCloseDiscard ==
    /\ phase = "AWAITING_DECISION"
    /\ decision.replacement = None
    /\ GoLocked
    /\ owed' = owed \ Unsaved(session.doc, session.path)
    /\ UNCHANGED <<sourcePath, file>>
    /\ \/ suspended = None /\ UNCHANGED <<suspended, slot>>
       \/ suspended # None /\ PendingDiscarded(sourcePath, suspended) /\ suspended' = None
       \/ suspended # None /\ PendingDiscardFails(sourcePath, suspended) /\ UNCHANGED suspended

\* _save_then_replace, up to the snapshot it hands to _run_replacement.
ResolveReplaceSave ==
    /\ phase = "AWAITING_DECISION"
    /\ decision.replacement # None
    /\ UNCHANGED <<sourcePath, owed>>
    /\ \E v \in Versions :
          \/ /\ ServiceSaved(v)
             /\ session' = SavedSession(v)
             /\ suspended' = None
             /\ phase' = "BUSY"
             /\ decision' = None
             /\ work' = [op |-> "replace", replacement |-> decision.replacement]
          \/ ServiceSaveCommitted(v) /\ GoLocked

FinishReplacement ==
    /\ phase = "BUSY"
    /\ work.op = "replace"
    /\ RunReplacement(work.replacement, "UNLOCKED_CLEAN", {})

ResolveReplaceDiscard ==
    /\ phase = "AWAITING_DECISION"
    /\ decision.replacement # None
    /\ RunReplacement(decision.replacement, "UNLOCKED_DIRTY",
                      Unsaved(session.doc, session.path))

-----------------------------------------------------------------------------
(* Lock, unlock and explicit discard *)

\* lock: a clean session closes, a dirty one is published to the pending store.
Lock ==
    /\ Unlocked
    /\ IF phase = "UNLOCKED_CLEAN"
       THEN GoLocked /\ UNCHANGED <<sourcePath, suspended, disk, owed>>
       ELSE /\ UNCHANGED <<session, sourcePath, suspended, decision, file, owed>>
            /\ \/ \E id \in Selectors :
                     /\ PendingPublished(id)
                     /\ phase' = "BUSY"
                     /\ work' = [op |-> "suspend", selector |-> id]
               \/ PendingPublishBreaks /\ UNCHANGED <<phase, work>>

\* suspend after publication: the source is captured once more.
FinishSuspend ==
    /\ phase = "BUSY"
    /\ work.op = "suspend"
    /\ UNCHANGED <<sourcePath, file, owed>>
    /\ \/ /\ SourceUnchanged
          /\ GoLocked
          /\ suspended' = work.selector
          /\ UNCHANGED slot
       \/ /\ ~SourceUnchanged
          /\ \/ /\ PendingDiscarded(session.path, work.selector)
                /\ phase' = "UNLOCKED_DIRTY"
                /\ work' = None
                /\ UNCHANGED <<session, suspended, decision>>
             \* the slot could not be removed: it is authoritative
             \/ /\ GoLocked
                /\ suspended' = work.selector
                /\ UNCHANGED slot

Unlock ==
    /\ phase = "LOCKED"
    /\ UNCHANGED <<sourcePath, suspended, decision, work, disk, owed>>
    /\ \/ /\ suspended = None
          /\ Openable(sourcePath)
          /\ session' = OpenedSession(sourcePath)
          /\ phase' = "UNLOCKED_CLEAN"
       \/ /\ suspended # None
          /\ Resumable(sourcePath, suspended)
          /\ session' = ResumedSession(sourcePath)
          /\ phase' = "UNLOCKED_DIRTY"

DiscardSuspended ==
    /\ phase = "LOCKED"
    /\ suspended # None
    /\ UNCHANGED <<phase, session, sourcePath, decision, work, file>>
    /\ PendingDiscarded(sourcePath, suspended)
    /\ owed' = owed \ Unsaved(slot[sourcePath].doc, sourcePath)
    /\ \/ suspended' = None
       \/ RollbackFails /\ UNCHANGED suspended

-----------------------------------------------------------------------------
(* Another program saves its own edit over the source. *)

ExternalWrite(p) ==
    /\ p \in Writers
    /\ file[p] # None
    /\ \E e \in Edits, v \in Versions :
          /\ FreshEdit(e)
          /\ FreshVersion(p, v)
          /\ file' = [file EXCEPT ![p] = [doc |-> @.doc \cup {e}, version |-> v]]
          /\ owed' = owed \cup {e}
    /\ UNCHANGED <<memory, slot>>

-----------------------------------------------------------------------------

Command ==
    \/ \E r \in Replacement : Replace(r)
    \/ \E e \in Edits : CommitEdit(e)
    \/ SetSearch
    \/ Save
    \/ RequestClose
    \/ ResolveCancel
    \/ ResolveSaveFails
    \/ ResolveCloseSave
    \/ ResolveCloseDiscard
    \/ ResolveReplaceSave
    \/ ResolveReplaceDiscard
    \/ FinishReplacement
    \/ Lock
    \/ FinishSuspend
    \/ Unlock
    \/ DiscardSuspended

Next == Command \/ \E p \in Paths : ExternalWrite(p)

Spec == Init /\ [][Next]_vars

-----------------------------------------------------------------------------
(* Properties *)

\* Every variable holds a value of the program, a decision is open exactly in
\* AWAITING_DECISION and a command is half done exactly in BUSY.
TypeOK ==
    /\ phase \in Phases
    /\ session \in VaultSession \cup {None}
    /\ sourcePath \in Paths \cup {None}
    /\ suspended \in Selectors \cup {None}
    /\ decision \in PendingDecision \cup {None}
    /\ work \in Continuation \cup {None}
    /\ file \in [Paths -> VaultFile \cup {None}]
    /\ slot \in [Paths -> PendingSlot \cup {None}]
    /\ owed \in SUBSET Edits
    /\ (decision # None) <=> (phase = "AWAITING_DECISION")
    /\ (work # None) <=> (phase = "BUSY")

\* No confirmed edit disappears unless somebody asked to discard it: through
\* saves, suspensions, resumptions, replacements and every failure of theirs,
\* each edit the user confirmed, and each edit another program put into a
\* source, is still in the live session, in a source or in a pending slot.
\* (An edit whose projection fails gives up the unsaved edits: CommitEdit.)
NoSilentLoss == \A e \in owed : Held(e)

\* The published phase never misrepresents the private session: a session
\* exists exactly while the phase says so, and no phase that lets a close or a
\* replacement skip the decision covers unsaved work.  The token of a decision
\* dies with it, whichever way it ends.
PhaseMatchesSession ==
    /\ (decision # None) <=> (phase = "AWAITING_DECISION")
    /\ (session # None) <=>
          (phase \in {"UNLOCKED_CLEAN", "UNLOCKED_DIRTY", "AWAITING_DECISION", "BUSY"})
    /\ phase = "UNLOCKED_CLEAN" => ~Dirty(session)
    /\ phase \in {"UNLOCKED_DIRTY", "AWAITING_DECISION"} => Dirty(session)

\* The two copies of the pending identity, the facade's and the session's, and
\* the two copies of the locator, agree whenever a session is live: the code
\* discards by the facade's pair and publishes by the session's.
SelectorAgreement ==
    session # None => /\ suspended = session.selector
                      /\ sourcePath = session.path

\* A pending slot is never orphaned while the process lives: the facade (or the
\* suspension in progress) holds the selector of every visible slot, so that
\* the user can resume or discard it.
PendingReachable ==
    \A p \in Paths : slot[p] # None =>
        /\ sourcePath = p
        /\ \/ suspended = slot[p].id
           \/ work # None /\ work.op = "suspend" /\ work.selector = slot[p].id

\* The facade never keeps a dead selector: between commands, the slot it would
\* resume or discard is there.
SelectorIsLive ==
    phase # "BUSY" /\ suspended # None => SlotIs(sourcePath, suspended)

-----------------------------------------------------------------------------
(* The inductive invariant behind TypeOK, SelectorAgreement and NoSilentLoss.  *)

Live == {"UNLOCKED_CLEAN", "UNLOCKED_DIRTY", "AWAITING_DECISION", "BUSY"}

Replacing == phase = "BUSY" /\ work.op = "replace"
Suspending == phase = "BUSY" /\ work.op = "suspend"

\* The phase says whether a session exists, whether a locator is known and,
\* unless a failed view has hidden a mutation, whether the session is dirty.
PhaseInv ==
    /\ session # None <=> phase \in Live
    /\ phase # "EMPTY" => sourcePath # None
    /\ phase \in {"UNLOCKED_DIRTY", "AWAITING_DECISION"} \/ Suspending => Dirty(session)
    /\ ~ViewFails /\ (phase = "UNLOCKED_CLEAN" \/ Replacing) => ~Dirty(session)

\* Sessions and slots belong to existing sources.
SourceExists ==
    /\ session # None => file[session.path] # None
    /\ \A p \in Paths : slot[p] # None => file[p] # None

\* Whoever is bound to the current version of a source contains it, so that
\* publishing over that version loses nothing.
BasedOnSource ==
    /\ session # None /\ session.base = file[session.path].version
          => file[session.path].doc \subseteq session.doc
    /\ \A p \in Paths : slot[p] # None /\ slot[p].base = file[p].version
          => file[p].doc \subseteq slot[p].doc

\* A session contains the slot whose selector it carries, so that discarding
\* that slot loses nothing while the session or its publication remains.
BasedOnSlot ==
    session # None /\ slot[session.path] # None /\ slot[session.path].id = session.selector
        => slot[session.path].doc \subseteq session.doc

\* A session that may be closed without a decision has nothing to lose.
CleanIsSaved ==
    phase = "UNLOCKED_CLEAN" \/ Replacing
        => session.doc \cap owed \subseteq file[session.path].doc

\* Between the publication of a slot and the second look at the source, the
\* slot is a copy of the session.
SuspendPublished ==
    Suspending
        => /\ SlotIs(session.path, work.selector)
           /\ slot[session.path].doc = session.doc

\* Everything above at once: whatever fails, rollbacks and views included, the
\* phases, the identities and the contents of session, slot and source stay
\* related in the way that the loss argument needs.
VaultInv ==
    /\ TypeOK
    /\ PhaseInv
    /\ SelectorAgreement
    /\ SourceExists
    /\ BasedOnSource
    /\ BasedOnSlot
    /\ CleanIsSaved
    /\ SuspendPublished
    /\ NoSilentLoss

=============================================================================
