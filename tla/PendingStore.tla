------------------------------ MODULE PendingStore -----------------------------
(***************************************************************************)
(* The pending-session store (passwordsafe/pending.py) step by step: what  *)
(* publish and discard do to the names of the private directory, with a    *)
(* failure or a crash after every step, and the one caller, a service that *)
(* holds at most one selector.                                             *)
(*                                                                         *)
(* The store moves a file by linking its new name and unlinking the old    *)
(* one (_PosixPublicationAnchor.publish_new_child), so that a move is two  *)
(* steps here.  An operation runs under the process and source locks: no   *)
(* other operation interleaves, and a crash releases them.  One source is  *)
(* modelled.  A slot record is written once, for one fresh identifier, so  *)
(* the identifier stands for the record, and for the artifact it names.    *)
(* The hidden names are random: what an operation leaves under them is     *)
(* never looked at again, and is collected in strays.                      *)
(*                                                                         *)
(* An operator named Mut... is a faulty variant of the definition after    *)
(* it; nothing uses it but the sensitivity runs of the project manifest.   *)
(***************************************************************************)

CONSTANTS
    Ids,    \* the 256-bit identifiers the random source yields
    None    \* Python's None

ASSUME NoneAssumption == None \notin Ids

VARIABLES
    step,       \* the next step of the running operation
    op,         \* the local variables of the running operation
    link,       \* slot records by name: the stable name and four hidden ones
    artifacts,  \* identifiers whose artifact exists under its published name
    strays,     \* slot records that finished operations left under hidden names
    session,    \* the caller's session
    held,       \* the selector the caller holds
    kept,       \* history: identifiers whose suspension counts as durable
    harm,       \* history: what has gone wrong beyond a single failure
    spent       \* history: identifiers drawn so far

disk   == <<link, artifacts, strays>>
caller == <<session, held>>
vars   == <<step, op, disk, caller, kept, harm, spent>>

-----------------------------------------------------------------------------
(* Types *)

Names == {"slot", "write", "previous", "rollback", "discard"}

PublishSteps == {"artifact", "record", "compare", "aside", "asideUnlink", "link",
                 "linkUnlink", "validate"}
RollbackSteps == {"removeNew", "rollback", "rollbackUnlink", "reinstate",
                  "reinstateUnlink", "unroll", "unrollUnlink", "reread", "confirm"}
RestoreSteps == {"restore", "restoreUnlink"}
CleanupSteps == {"dropArtifact", "dropRecord", "cleanup", "cleanupRecord", "answer"}
DiscardSteps == {"tomb", "tombUnlink", "tombed", "untomb", "untombUnlink", "tombClear",
                 "discardAnswer"}

Steps == {"idle"} \cup PublishSteps \cup RollbackSteps \cup RestoreSteps
                  \cup CleanupSteps \cup DiscardSteps

\* new, previous, slot_published, previous_slot_moved, committed and
\* preserve_new_artifact of _publish_locked.  A discard has no new identifier;
\* its previous one is the one it removes.
Operation == [new : Ids \cup {None}, previous : Ids \cup {None}, published : BOOLEAN,
              moved : BOOLEAN, committed : BOOLEAN, preserve : BOOLEAN]

NoOperation == [new |-> None, previous |-> None, published |-> FALSE,
                moved |-> FALSE, committed |-> FALSE, preserve |-> FALSE]

Harms == {"publishCrash", "discardCrash", "rollback", "torn"}

-----------------------------------------------------------------------------
(* Steps of the directory *)

\* publish_new_child, up to its unlink: os.link refuses an existing name.
Linked(source, destination) ==
    /\ link[source] # None
    /\ link[destination] = None
    /\ link' = [link EXCEPT ![destination] = link[source]]

Unlinked(name) == link' = [link EXCEPT ![name] = None]

\* Mutant: a previous slot that was moved aside is forgotten.
MutUndo(o) ==
    IF o.published
    THEN IF o.previous = None THEN "removeNew" ELSE "rollback"
    ELSE "dropArtifact"

\* What a failed publication does next: the finally clause of _publish_locked.
Undo(o) ==
    IF o.published
    THEN IF o.previous = None THEN "removeNew" ELSE "rollback"
    ELSE IF o.moved THEN "restore" ELSE "dropArtifact"

Harmed(kind) == harm' = harm \cup {kind}

\* An unlink raises after its link succeeded: both names remain.
Torn(next) ==
    /\ Harmed("torn")
    /\ step' = next
    /\ UNCHANGED <<op, disk, caller, kept, spent>>

\* A step of a rollback raises before it has any effect.
RollbackStops(next) ==
    /\ Harmed("rollback")
    /\ step' = next
    /\ UNCHANGED <<op, disk, caller, kept, spent>>

-----------------------------------------------------------------------------
(* Reading the directory *)

\* _read_located: the record under the stable name leads to its artifact.
Whole == link["slot"] \in artifacts

\* _find_locked and verify, for the selector the caller holds.
Found(id) == id # None /\ link["slot"] = id /\ Whole

Init ==
    /\ step = "idle"
    /\ op = NoOperation
    /\ link = [n \in Names |-> None]
    /\ artifacts = {}
    /\ strays = {}
    /\ session = "none"
    /\ held = None
    /\ kept = {}
    /\ harm = {}
    /\ spent = {}

-----------------------------------------------------------------------------
(* The caller between two operations *)

\* guard_open: the source opens only where no slot is visible.
GuardOpen ==
    /\ step = "idle"
    /\ session = "none"
    /\ link["slot"] = None
    /\ session' = "open"
    /\ UNCHANGED <<step, op, disk, held, kept, harm, spent>>

\* open: the selected artifact becomes a session that keeps its selector.
OpenPending ==
    /\ step = "idle"
    /\ session = "suspended"
    /\ Found(held)
    /\ session' = "resumed"
    /\ UNCHANGED <<step, op, disk, held, kept, harm, spent>>

-----------------------------------------------------------------------------
(* publish *)

\* Mutant: the new identifier is not checked to be new.
MutBeginPublish(id) ==
    /\ step = "idle"
    /\ session \in {"open", "resumed"}
    /\ IF held = None THEN link["slot"] = None ELSE Found(held)
    /\ id # held
    /\ op' = [NoOperation EXCEPT !.new = id, !.previous = held]
    /\ spent' = spent \cup {id}
    /\ step' = "artifact"
    /\ UNCHANGED <<disk, caller, kept, harm>>

\* Preparation: the visible slot is exactly the expected one, or there is none;
\* a fresh identifier is drawn and the artifact written under a temporary name.
BeginPublish(id) ==
    /\ step = "idle"
    /\ session \in {"open", "resumed"}
    /\ IF held = None THEN link["slot"] = None ELSE Found(held)
    /\ id \notin artifacts \cup spent
    /\ op' = [NoOperation EXCEPT !.new = id, !.previous = held]
    /\ spent' = spent \cup {id}
    /\ step' = "artifact"
    /\ UNCHANGED <<disk, caller, kept, harm>>

\* Writing, synchronising, authenticating or comparing raises, the source has
\* changed, or a move has not begun: nothing is done but what was done before.
PublishFails ==
    /\ step \in {"artifact", "record", "compare", "aside", "link", "validate"}
    /\ step' = Undo(op)
    /\ UNCHANGED <<op, disk, caller, kept, harm, spent>>

\* The authenticated artifact gets its published name; a crash or a failure in
\* the middle of this move only leaves a second name behind.
PublishArtifact ==
    /\ step = "artifact"
    /\ artifacts' = artifacts \cup {op.new}
    /\ step' = "record"
    /\ UNCHANGED <<op, link, strays, caller, kept, harm, spent>>

WriteRecord ==
    /\ step = "record"
    /\ link' = [link EXCEPT !["write"] = op.new]
    /\ step' = "compare"
    /\ UNCHANGED <<op, artifacts, strays, caller, kept, harm, spent>>

\* The source is captured once more before the slot changes.
CompareSource ==
    /\ step = "compare"
    /\ step' = IF op.previous = None THEN "link" ELSE "aside"
    /\ UNCHANGED <<op, disk, caller, kept, harm, spent>>

MoveAside ==
    /\ step = "aside"
    /\ Linked("slot", "previous")
    /\ step' = "asideUnlink"
    /\ UNCHANGED <<op, artifacts, strays, caller, kept, harm, spent>>

MoveAsideUnlink ==
    /\ step = "asideUnlink"
    /\ \/ /\ Unlinked("slot")
          /\ op' = [op EXCEPT !.moved = TRUE]
          /\ step' = "link"
          /\ UNCHANGED <<artifacts, strays, caller, kept, harm, spent>>
       \/ Torn("dropArtifact")

LinkSlot ==
    /\ step = "link"
    /\ Linked("write", "slot")
    /\ step' = "linkUnlink"
    /\ UNCHANGED <<op, artifacts, strays, caller, kept, harm, spent>>

LinkSlotUnlink ==
    /\ step = "linkUnlink"
    /\ \/ /\ Unlinked("write")
          /\ op' = [op EXCEPT !.published = TRUE]
          /\ step' = "validate"
          /\ UNCHANGED <<artifacts, strays, caller, kept, harm, spent>>
       \/ Torn(Undo(op))

\* The commit point: from here on the caller is told the new selector.
Committed ==
    /\ op' = [op EXCEPT !.committed = TRUE]
    /\ kept' = (kept \ {op.previous}) \cup {op.new}
    /\ step' = IF op.previous = None THEN "answer" ELSE "cleanup"

\* Post-publication validation reads the slot back by its name.
Validate ==
    /\ step = "validate"
    /\ Found(op.new)
    /\ Committed
    /\ UNCHANGED <<disk, caller, harm, spent>>

-----------------------------------------------------------------------------
(* Rolling a published slot back: _restore_previous_slot *)

\* There was no previous slot; the removal may take effect and still raise.
RemoveNew ==
    /\ step = "removeNew"
    /\ \/ /\ Unlinked("slot")
          /\ step' = "dropArtifact"
          /\ UNCHANGED harm
       \/ /\ Unlinked("slot") \/ UNCHANGED link
          /\ step' = "confirm"
          /\ Harmed("rollback")
    /\ UNCHANGED <<op, artifacts, strays, caller, kept, spent>>

Rollback ==
    /\ step = "rollback"
    /\ \/ /\ op.previous \in artifacts
          /\ Linked("slot", "rollback")
          /\ step' = "rollbackUnlink"
          /\ UNCHANGED <<op, artifacts, strays, caller, kept, harm, spent>>
       \/ RollbackStops("confirm")

RollbackUnlink ==
    /\ step = "rollbackUnlink"
    /\ \/ /\ Unlinked("slot")
          /\ step' = "reinstate"
          /\ UNCHANGED <<op, artifacts, strays, caller, kept, harm, spent>>
       \/ RollbackStops("confirm")

\* A refused move is undone (unroll), a raising one is not.
Reinstate ==
    /\ step = "reinstate"
    /\ \/ /\ Linked("previous", "slot")
          /\ step' = "reinstateUnlink"
          /\ UNCHANGED <<op, artifacts, strays, caller, kept, harm, spent>>
       \/ RollbackStops("unroll")
       \/ RollbackStops("confirm")

ReinstateUnlink ==
    /\ step = "reinstateUnlink"
    /\ \/ /\ Unlinked("previous")
          /\ step' = "reread"
          /\ UNCHANGED <<op, artifacts, strays, caller, kept, harm, spent>>
       \/ RollbackStops("confirm")

Unroll ==
    /\ step = "unroll"
    /\ \/ /\ Linked("rollback", "slot")
          /\ step' = "unrollUnlink"
          /\ UNCHANGED <<op, artifacts, strays, caller, kept, harm, spent>>
       \/ RollbackStops("confirm")

UnrollUnlink ==
    /\ step = "unrollUnlink"
    /\ \/ /\ Unlinked("rollback")
          /\ step' = "confirm"
          /\ UNCHANGED <<op, artifacts, strays, caller, kept, harm, spent>>
       \/ RollbackStops("confirm")

\* The previous slot is read back and the rolled-back record removed; that
\* removal may fail unnoticed.
Reread ==
    /\ step = "reread"
    /\ \/ /\ Found(op.previous)
          /\ Unlinked("rollback") \/ UNCHANGED link
          /\ step' = "dropArtifact"
          /\ UNCHANGED <<op, artifacts, strays, caller, kept, harm, spent>>
       \/ RollbackStops("confirm")

\* _visible_pending_matches: the new slot is authoritative, or, when it is not
\* visible or cannot be read, both artifacts are kept.
Confirm ==
    /\ step = "confirm"
    /\ \/ /\ Found(op.new)
          /\ Committed
       \/ /\ op' = [op EXCEPT !.preserve = TRUE]
          /\ step' = "answer"
          /\ UNCHANGED kept
    /\ UNCHANGED <<disk, caller, harm, spent>>

-----------------------------------------------------------------------------
(* Putting the previous slot back before the new one was published *)

\* os.link refuses when a torn publication left the new slot in place.
Restore ==
    /\ step = "restore"
    /\ \/ /\ Linked("previous", "slot")
          /\ step' = "restoreUnlink"
          /\ UNCHANGED <<op, harm>>
       \/ /\ op' = [op EXCEPT !.preserve = TRUE]
          /\ step' = "dropRecord"
          /\ Harmed("rollback")
          /\ UNCHANGED link
    /\ UNCHANGED <<artifacts, strays, caller, kept, spent>>

\* The synchronisation after the move may fail as well.
RestoreUnlink ==
    /\ step = "restoreUnlink"
    /\ \/ /\ Unlinked("previous")
          /\ step' = "dropArtifact"
          /\ UNCHANGED <<op, harm>>
       \/ /\ Unlinked("previous") \/ UNCHANGED link
          /\ op' = [op EXCEPT !.preserve = TRUE]
          /\ step' = "dropRecord"
          /\ Harmed("rollback")
    /\ UNCHANGED <<artifacts, strays, caller, kept, spent>>

-----------------------------------------------------------------------------
(* Cleanup and answer *)

\* Every removal here is suppressed when it fails.
DropArtifact ==
    /\ step = "dropArtifact"
    /\ artifacts' \in {artifacts, artifacts \ {op.new}}
    /\ step' = IF op.published THEN "answer" ELSE "dropRecord"
    /\ UNCHANGED <<op, link, strays, caller, kept, harm, spent>>

DropRecord ==
    /\ step = "dropRecord"
    /\ Unlinked("write") \/ UNCHANGED link
    /\ step' = "answer"
    /\ UNCHANGED <<op, artifacts, strays, caller, kept, harm, spent>>

\* Mutant: the new slot's artifact is removed in place of the previous one.
MutCleanup ==
    /\ step = "cleanup"
    /\ \/ artifacts' = artifacts \ {op.new} /\ step' = "cleanupRecord"
       \/ UNCHANGED artifacts /\ step' \in {"cleanupRecord", "answer"}
    /\ UNCHANGED <<op, link, strays, caller, kept, harm, spent>>

\* Committed over a previous slot: its artifact goes first, then its record.
Cleanup ==
    /\ step = "cleanup"
    /\ \/ artifacts' = artifacts \ {op.previous} /\ step' = "cleanupRecord"
       \/ UNCHANGED artifacts /\ step' \in {"cleanupRecord", "answer"}
    /\ UNCHANGED <<op, link, strays, caller, kept, harm, spent>>

CleanupRecord ==
    /\ step = "cleanupRecord"
    /\ Unlinked("previous") \/ UNCHANGED link
    /\ step' = "answer"
    /\ UNCHANGED <<op, artifacts, strays, caller, kept, harm, spent>>

\* The hidden names of a finished operation are never used again.
Forgotten ==
    /\ strays' = strays \cup ({link[n] : n \in Names \ {"slot"}} \ {None})
    /\ link' = [n \in Names |-> IF n = "slot" THEN link["slot"] ELSE None]
    /\ op' = NoOperation
    /\ step' = "idle"

\* A commit is reported with the new selector, as success or as a committed
\* error; the service adopts it either way.  Any other end leaves the caller
\* with the session and the selector it had.
Answer ==
    /\ step = "answer"
    /\ Forgotten
    /\ IF op.committed
       THEN held' = op.new /\ session' = "suspended"
       ELSE UNCHANGED caller
    /\ UNCHANGED <<artifacts, kept, harm, spent>>

-----------------------------------------------------------------------------
(* discard *)

BeginDiscard ==
    /\ step = "idle"
    /\ session \in {"suspended", "resumed"}
    /\ Found(held)
    /\ op' = [NoOperation EXCEPT !.previous = held]
    /\ step' = "tomb"
    /\ UNCHANGED <<disk, caller, kept, harm, spent>>

Tomb ==
    /\ step = "tomb"
    /\ \/ Linked("slot", "discard") /\ step' = "tombUnlink"
       \/ UNCHANGED link /\ step' = "discardAnswer"
    /\ UNCHANGED <<op, artifacts, strays, caller, kept, harm, spent>>

TombUnlink ==
    /\ step = "tombUnlink"
    /\ \/ /\ Unlinked("slot")
          /\ step' = "tombed"
          /\ UNCHANGED <<op, artifacts, strays, caller, kept, harm, spent>>
       \/ Torn("discardAnswer")

\* Removing the artifact is the commit point of a discard.
Tombed ==
    /\ step = "tombed"
    /\ \/ /\ artifacts' = artifacts \ {op.previous}
          /\ op' = [op EXCEPT !.committed = TRUE]
          /\ kept' = kept \ {op.previous}
          /\ step' = "tombClear"
       \/ /\ step' = "untomb"
          /\ UNCHANGED <<op, artifacts, kept>>
    /\ UNCHANGED <<link, strays, caller, harm, spent>>

Untomb ==
    /\ step = "untomb"
    /\ \/ /\ Linked("discard", "slot")
          /\ step' = "untombUnlink"
          /\ UNCHANGED <<op, artifacts, strays, caller, kept, harm, spent>>
       \/ RollbackStops("discardAnswer")

\* A failure here is suppressed and leaves a second, hidden name.
UntombUnlink ==
    /\ step = "untombUnlink"
    /\ Unlinked("discard") \/ UNCHANGED link
    /\ step' = "discardAnswer"
    /\ UNCHANGED <<op, artifacts, strays, caller, kept, harm, spent>>

TombClear ==
    /\ step = "tombClear"
    /\ Unlinked("discard") \/ UNCHANGED link
    /\ step' = "discardAnswer"
    /\ UNCHANGED <<op, artifacts, strays, caller, kept, harm, spent>>

\* A discarded suspension leaves no session, a saved session goes on clean.
DiscardAnswer ==
    /\ step = "discardAnswer"
    /\ Forgotten
    /\ IF op.committed
       THEN /\ held' = None
            /\ session' = IF session = "resumed" THEN "open" ELSE "none"
       ELSE UNCHANGED caller
    /\ UNCHANGED <<artifacts, kept, harm, spent>>

-----------------------------------------------------------------------------
(* The process ends, or dies inside an operation: its locks are released and *)
(* what it knew is gone.                                                     *)

Crash ==
    /\ session # "none"
    /\ Forgotten
    /\ session' = "none"
    /\ held' = None
    /\ IF step = "idle"
       THEN UNCHANGED harm
       ELSE Harmed(IF step \in DiscardSteps THEN "discardCrash" ELSE "publishCrash")
    /\ UNCHANGED <<artifacts, kept, spent>>

-----------------------------------------------------------------------------

Publishing ==
    \/ PublishFails
    \/ PublishArtifact
    \/ WriteRecord
    \/ CompareSource
    \/ MoveAside
    \/ MoveAsideUnlink
    \/ LinkSlot
    \/ LinkSlotUnlink
    \/ Validate

RollingBack ==
    \/ RemoveNew
    \/ Rollback
    \/ RollbackUnlink
    \/ Reinstate
    \/ ReinstateUnlink
    \/ Unroll
    \/ UnrollUnlink
    \/ Reread
    \/ Confirm
    \/ Restore
    \/ RestoreUnlink

CleaningUp ==
    \/ DropArtifact
    \/ DropRecord
    \/ Cleanup
    \/ CleanupRecord
    \/ Answer

Discarding ==
    \/ BeginDiscard
    \/ Tomb
    \/ TombUnlink
    \/ Tombed
    \/ Untomb
    \/ UntombUnlink
    \/ TombClear
    \/ DiscardAnswer

Next ==
    \/ GuardOpen
    \/ OpenPending
    \/ \E id \in Ids : BeginPublish(id)
    \/ Publishing
    \/ RollingBack
    \/ CleaningUp
    \/ Discarding
    \/ Crash

Spec == Init /\ [][Next]_vars

-----------------------------------------------------------------------------
(* Properties *)

TypeOK ==
    /\ step \in Steps
    /\ op \in Operation
    /\ link \in [Names -> Ids \cup {None}]
    /\ artifacts \subseteq Ids
    /\ strays \subseteq Ids
    /\ session \in {"none", "open", "suspended", "resumed"}
    /\ held \in Ids \cup {None}
    /\ kept \subseteq Ids
    /\ harm \subseteq Harms
    /\ spent \subseteq Ids

\* A confirmed suspension is never destroyed, whatever fails and wherever the
\* process dies: until it is discarded or superseded, its artifact and a slot
\* record that leads to it are both in the directory, if only under a hidden
\* name.
ConfirmedSurvives ==
    \A id \in kept :
        /\ id \in artifacts
        /\ id \in strays \/ \E n \in Names : link[n] = id

\* Between two operations the selector the caller holds is the visible slot,
\* after every single failure: it takes a crash, a second failure inside a
\* rollback, or an unlink that fails after its link, to separate them.
SelectorAnswers ==
    step = "idle" /\ session # "none" /\ harm = {} => link["slot"] = held

\* The visible slot always leads to its artifact, crashes and failed rollbacks
\* included: a visible slot without one would make guard_open refuse every
\* vault of the user.  (An unlink that fails after its link can do it.)
VisibleIsWhole ==
    link["slot"] # None /\ "torn" \notin harm => Whole

\* No session is opened on the source itself beside confirmed suspended work,
\* by this process or by one that finds the work of an earlier one.
OpenIsGuarded ==
    session = "open" /\ harm = {} /\ step = "idle" => kept = {}

\* The refinement mapping: until it has committed, an operation shows what was
\* visible when it began,
\* which is the slot it set out from.
Undecided == step # "idle" /\ ~op.committed

Promise == INSTANCE PendingSlot WITH
    visible   <- IF Undecided THEN op.previous ELSE link["slot"],
    candidate <- IF Undecided THEN op.new ELSE None,
    spent     <- spent

\* Every step of the store keeps the promise of PendingSlot: in particular no
\* failure or crash resurrects a slot that was replaced, discarded or lost.
KeepsPromise == Promise!Spec

-----------------------------------------------------------------------------
(* The inductive invariant *)

\* What each name leads to: the stable one and the four hidden ones.
LinksAre(slot, write, previous, rollback, discard) ==
    /\ link["slot"] = slot
    /\ link["write"] = write
    /\ link["previous"] = previous
    /\ link["rollback"] = rollback
    /\ link["discard"] = discard

\* The previous slot has not been lost: it is visible or set aside.
PreviousIsThere == link["slot"] = op.previous \/ link["previous"] = op.previous

\* A publication before its commit, step by step.
PublishInv ==
    LET new == op.new
        old == op.previous
        free == ~op.published /\ ~op.moved
    IN
    /\ step \in {"artifact", "record"} => free /\ LinksAre(old, None, None, None, None)
    /\ step \in {"compare", "aside"} => free /\ LinksAre(old, new, None, None, None)
    /\ step \in {"aside", "asideUnlink"} => old # None
    /\ step = "asideUnlink" => free /\ LinksAre(old, new, old, None, None)
    /\ step \in {"link", "linkUnlink"} => ~op.published /\ (op.moved <=> old # None)
    /\ step = "link" => LinksAre(None, new, old, None, None)
    /\ step = "linkUnlink" => LinksAre(new, new, old, None, None)
    /\ step = "validate" => op.published /\ LinksAre(new, None, old, None, None)

RollbackInv ==
    LET new == op.new
        old == op.previous
    IN
    /\ step \in RollbackSteps => op.published /\ new \in artifacts
    /\ step \in RollbackSteps \ {"removeNew", "confirm"} => old # None
    /\ step = "removeNew" => old = None /\ LinksAre(new, None, None, None, None)
    /\ step = "rollback" => LinksAre(new, None, old, None, None)
    /\ step \in {"rollbackUnlink", "unrollUnlink"} => LinksAre(new, None, old, new, None)
    /\ step \in {"reinstate", "unroll"} => LinksAre(None, None, old, new, None)
    /\ step = "reinstateUnlink" => LinksAre(old, None, old, new, None)
    /\ step = "reread" => LinksAre(old, None, None, new, None)
    /\ step \in {"unroll", "unrollUnlink", "confirm"} => "rollback" \in harm
    /\ step = "restore" => link["previous"] = old /\ link["slot"] \in {None, new}
    /\ step = "restoreUnlink" => link["previous"] = old /\ link["slot"] = old
    /\ step \in RestoreSteps => new \in artifacts /\ ~op.published /\ old # None

\* Where a publication ends: committed with its own slot, rolled back to the
\* previous one, or, after further harm, with both artifacts still there.
EndInv ==
    /\ step = "dropArtifact" => ~op.committed /\ ~op.preserve
    /\ step = "dropRecord" => ~op.committed
    /\ step \in {"cleanup", "cleanupRecord"} => op.committed
    /\ step \in CleanupSteps /\ op.committed
          => link["slot"] = op.new /\ op.new \in artifacts
    /\ step \in CleanupSteps /\ op.preserve
          => op.new \in artifacts /\ "rollback" \in harm
    /\ step \in CleanupSteps /\ ~op.committed /\ ~op.preserve
          => \/ link["slot"] = op.previous
             \/ op.previous = None /\ link["slot"] = op.new /\ "torn" \in harm

DiscardInv ==
    LET old == op.previous
    IN
    /\ step \in DiscardSteps => op.new = None /\ old # None /\ old = held
    /\ step = "tomb" => LinksAre(old, None, None, None, None)
    /\ step \in {"tombUnlink", "untombUnlink"} => LinksAre(old, None, None, None, old)
    /\ step \in {"tombed", "untomb"} => LinksAre(None, None, None, None, old)
    /\ step = "tombClear" => op.committed /\ link["slot"] = None
    /\ step = "discardAnswer" =>
          IF op.committed
          THEN link["slot"] = None
          ELSE link["slot"] = old \/ ("rollback" \in harm /\ link["slot"] = None /\ link["discard"] = old)

\* The identifier that stands for the confirmed work: the visible one, or the
\* one the running operation would fall back on.
Standing == IF step = "idle" THEN link["slot"] ELSE IF op.committed THEN op.new ELSE op.previous

OperationInv ==
    /\ step = "idle" => op = NoOperation /\ LinksAre(link["slot"], None, None, None, None)
    /\ step \notin DiscardSteps \cup {"idle"}
          => op.new # None /\ op.new # op.previous /\ op.previous = held
    /\ step # "idle" /\ ~op.committed /\ op.previous # None => op.previous \in artifacts
    /\ step # "idle" /\ ~op.committed /\ op.previous # None
          => PreviousIsThere \/ step \in DiscardSteps
    /\ step # "idle" => link["slot"] \in {op.previous, op.new, None}
    /\ step \in PublishSteps \ {"artifact"} => op.new \in artifacts
    /\ op.committed => step \in CleanupSteps \cup {"tombClear", "discardAnswer"}
    /\ op.preserve => step \in {"dropRecord", "answer"}
    /\ link["write"] \in {None, op.new} /\ link["rollback"] \in {None, op.new}
    /\ link["previous"] \in {None, op.previous} /\ link["discard"] \in {None, op.previous}

CallerInv ==
    /\ held = None <=> session \in {"none", "open"}
    /\ step \notin DiscardSteps \cup {"idle"} => session \in {"open", "resumed"}
    /\ step \in DiscardSteps => session \in {"suspended", "resumed"}

KeptInv ==
    /\ kept \cup strays \cup artifacts \subseteq spent
    /\ \A n \in Names : link[n] # None => link[n] \in spent
    /\ op.new # None => op.new \in spent
    /\ op.new # None /\ ~op.committed => op.new \notin kept
    /\ op.committed => op.previous \notin kept
    /\ harm = {} => kept \subseteq {Standing}

\* Everything the loss argument needs, at every step of every operation.
PendingInv ==
    /\ TypeOK
    /\ OperationInv
    /\ PublishInv
    /\ RollbackInv
    /\ EndInv
    /\ DiscardInv
    /\ CallerInv
    /\ KeptInv
    /\ ConfirmedSurvives
    /\ SelectorAnswers
    /\ VisibleIsWhole

=============================================================================
