------------------------------- MODULE LocalStore ------------------------------
(***************************************************************************)
(* The local vault store (passwordsafe/storage.py): the transaction that   *)
(* replaces a destination file and retains its predecessor as the one      *)
(* recovery revision, run by several processes over one destination.       *)
(*                                                                         *)
(* Processes are serialised by the destination lock, an operating system   *)
(* lock that a dying process releases.  What _publish_source does in its   *)
(* finally clause happens after that lock has been released.  Any step may *)
(* fail or be the last before a crash, and a program that knows nothing of *)
(* the lock may write the destination at any time.                         *)
(*                                                                         *)
(* A file is its content and a version (inode, timestamp) that is never    *)
(* used twice; a baseline is the whole file, a digest only its content.    *)
(*                                                                         *)
(* An operator named Mut... is a faulty variant of the definition after    *)
(* it; nothing uses it but the sensitivity runs of the project manifest.   *)
(***************************************************************************)
EXTENDS Naturals, FiniteSets

CONSTANTS
    Processes,  \* running instances of the program
    Ids,        \* recovery identifiers the random source yields
    None,       \* Python's None
    MaxSlot,    \* _MAX_SLOT_IDENTIFIERS
    MaxSaves,   \* bound: publications that begin
    MaxWrites,  \* bound: writes of the destination, and candidates by others
    MaxCrashes, \* bound: crashes
    MaxHarm     \* bound: different kinds of harm in one behaviour

ASSUME LocalStoreAssumption ==
    /\ None \notin Ids \cup Nat \cup Processes
    /\ None \notin [current : Ids, obsolete : SUBSET Ids] \cup [content : Nat, version : Nat]
    /\ {MaxSlot, MaxSaves, MaxWrites, MaxCrashes, MaxHarm} \subseteq Nat
    /\ MaxSlot > 0

VARIABLES
    pc,         \* the next step of each process
    op,         \* the local variables of its _publish_source
    base,       \* the baseline its session holds, None without a session
    dest,       \* the destination file
    slot,       \* the recovery slot of the destination
    artifacts,  \* the content of each recovery artifact
    lock,       \* the holder of the destination lock
    written,    \* counters: candidates, versions, crashes
    pred,       \* history: the content the destination replaced
    shown,      \* history: contents the destination has had
    harm        \* history: what has gone wrong beyond a failing step

session == <<op, base>>
recovery == <<slot, artifacts>>
history == <<pred, shown, harm>>
vars == <<pc, session, dest, recovery, lock, written, history>>

-----------------------------------------------------------------------------
(* Types *)

Contents == 0 .. MaxSaves + MaxWrites
Versions == 0 .. MaxWrites
Files == [content : Contents, version : Versions]

\* A slot advertises one identifier and remembers those still to be removed.
Slots == [current : Ids, obsolete : SUBSET Ids]

LockedSteps == {"recheck", "recover", "slot", "recheckAgain", "replace", "verify",
                "obsolete", "commit", "unlock"}
LateSteps == {"recapture", "restoreSlot", "removeNew"}
Steps == {"idle", "staged", "answer"} \cup LockedSteps \cup LateSteps

\* mode, new_recovery, previous_slot, published_baseline, replaced, result and
\* failure of _publish_source.
Operation ==
    [mode : {"none", "save", "create", "restore"}, content : Contents \cup {None},
     new : Ids \cup {None}, previous : Slots \cup {None}, seen : Files \cup {None},
     replaced : BOOLEAN, result : Files \cup {None},
     failure : {"none", "external", "failed"}]

NoOperation ==
    [mode |-> "none", content |-> None, new |-> None, previous |-> None,
     seen |-> None, replaced |-> FALSE, result |-> None, failure |-> "none"]

Harms == {"window", "overtaken", "unstable", "rollback", "unread", "backlog"}

-----------------------------------------------------------------------------
(* Slots *)

Named(s) == IF s = None THEN {} ELSE {s.current} \cup s.obsolete

\* Mutant: only the identifier that was current is remembered.
MutTransactionSlot(id, previous) ==
    [current |-> id, obsolete |-> IF previous = None THEN {} ELSE previous.obsolete]

\* _transaction_recovery_slot: every older identifier is kept until a commit.
TransactionSlot(id, previous) ==
    [current |-> id, obsolete |-> Named(previous) \ {id}]

Live(id) == artifacts[id] # None

\* The identifiers of the slot and of running publications: a random identifier
\* is none of them.
Remembered ==
    Named(slot) \cup {op[p].new : p \in Processes}
                \cup UNION {Named(op[p].previous) : p \in Processes}

-----------------------------------------------------------------------------
(* Small steps *)

Goto(p, step) == pc' = [pc EXCEPT ![p] = step]

\* An exception inside the lock: the context manager releases it first.
Raises(p, kind) ==
    /\ op' = [op EXCEPT ![p].failure = kind]
    /\ Goto(p, "unlock")

Harmed(kind) ==
    /\ harm' = harm \cup {kind}
    /\ Cardinality(harm') <= MaxHarm

\* The vault is still to be created, or was written by an earlier program.
Init ==
    /\ pc = [p \in Processes |-> "idle"]
    /\ op = [p \in Processes |-> NoOperation]
    /\ base = [p \in Processes |-> None]
    /\ dest \in {None, [content |-> 0, version |-> 0]}
    /\ slot = None
    /\ artifacts = [id \in Ids |-> None]
    /\ lock = None
    /\ written = [content |-> 0, version |-> 0, crashes |-> 0]
    /\ pred = None
    /\ shown = IF dest = None THEN {} ELSE {dest.content}
    /\ harm = {}

-----------------------------------------------------------------------------
(* The callers: service open, create, save and restore *)

\* capture, for a vault that is opened: also after an external modification.
Open(p) ==
    /\ pc[p] = "idle"
    /\ dest \notin {None, base[p]}
    /\ base' = [base EXCEPT ![p] = dest]
    /\ UNCHANGED <<pc, op, dest, recovery, lock, written, history>>

Begin(p, mode, content) ==
    /\ op' = [op EXCEPT ![p] = [NoOperation EXCEPT !.mode = mode, !.content = content]]
    /\ Goto(p, "staged")

\* A candidate of a save or of a new vault is a new content.
BeginSave(p) ==
    /\ pc[p] = "idle"
    /\ written.content < MaxSaves
    /\ Begin(p, IF base[p] = None THEN "create" ELSE "save", written.content + 1)
    /\ written' = [written EXCEPT !.content = @ + 1]
    /\ UNCHANGED <<base, dest, recovery, lock, history>>

\* restore: the advertised revision is read again and published over a fresh
\* baseline; the artifact itself is not consumed.
BeginRestore(p) ==
    /\ pc[p] = "idle"
    /\ base[p] = None
    /\ dest # None
    /\ slot # None
    /\ Live(slot.current)
    /\ base' = [base EXCEPT ![p] = dest]
    /\ written.content < MaxSaves
    /\ Begin(p, "restore", artifacts[slot.current])
    /\ written' = [written EXCEPT !.content = @ + 1]
    /\ UNCHANGED <<dest, recovery, lock, history>>

\* The candidate cannot be captured, staged or validated.
StageFails(p) ==
    /\ pc[p] = "staged"
    /\ op' = [op EXCEPT ![p].failure = "failed"]
    /\ Goto(p, "answer")
    /\ UNCHANGED <<base, dest, recovery, lock, written, history>>

-----------------------------------------------------------------------------
(* Under the destination lock *)

\* The lock is taken although another process is still rolling back.
AcquireLock(p) ==
    /\ pc[p] = "staged"
    /\ lock = None
    /\ lock' = p
    /\ Goto(p, "recheck")
    /\ IF \E q \in Processes : pc[q] \in LateSteps
       THEN Harmed("overtaken") ELSE UNCHANGED harm
    /\ UNCHANGED <<session, dest, recovery, written, pred, shown>>

\* A fault at a stage of the transaction, before that stage has any effect.
StepFails(p) ==
    /\ pc[p] \in LockedSteps \ {"unlock", "obsolete"}
    /\ Raises(p, "failed")
    /\ IF pc[p] = "commit" THEN Harmed("backlog") ELSE UNCHANGED harm
    /\ UNCHANGED <<base, dest, recovery, lock, written, pred, shown>>

\* The destination is the baseline, and the present slot is read.
Recheck(p) ==
    /\ pc[p] = "recheck"
    /\ \/ /\ base[p] = None
          /\ Goto(p, "replace")
          /\ UNCHANGED op
       \/ /\ base[p] # None
          /\ dest = base[p]
          /\ op' = [op EXCEPT ![p].previous = slot]
          /\ Goto(p, "recover")
       \/ /\ base[p] # None
          /\ dest # base[p]
          /\ Raises(p, "external")
    /\ UNCHANGED <<base, dest, recovery, lock, written, history>>

\* _create_recovery: the destination is copied under a fresh identifier when
\* the copy has the digest of the baseline.  A failure after the link leaves an
\* artifact nobody names.
CreateRecovery(p) ==
    /\ pc[p] = "recover"
    /\ \/ \E id \in Ids :
            /\ dest.content = base[p].content
            /\ ~Live(id)
            /\ id \notin Remembered
            /\ artifacts' = [artifacts EXCEPT ![id] = dest.content]
            /\ \/ /\ op' = [op EXCEPT ![p].new = id]
                  /\ Goto(p, "slot")
                  /\ UNCHANGED harm
               \/ /\ Raises(p, "failed")
                  /\ Harmed("backlog")
       \/ /\ dest.content # base[p].content
          /\ Raises(p, "failed")
          /\ UNCHANGED <<artifacts, harm>>
    /\ UNCHANGED <<base, dest, slot, lock, written, pred, shown>>

\* The slot is replaced by one that names the new artifact first; a failing
\* synchronisation comes after that effect.
WriteSlot(p) ==
    LET new == TransactionSlot(op[p].new, op[p].previous)
    IN
    /\ pc[p] = "slot"
    /\ \/ /\ Cardinality(Named(new)) <= MaxSlot
          /\ slot' = new
          /\ \/ Goto(p, "recheckAgain") /\ UNCHANGED op
             \/ Raises(p, "failed")
       \/ /\ Cardinality(Named(new)) > MaxSlot
          /\ Raises(p, "failed")
          /\ UNCHANGED slot
    /\ UNCHANGED <<base, dest, artifacts, lock, written, history>>

\* Mutant: the second comparison is dropped.
MutRecheckAgain(p) ==
    /\ pc[p] = "recheckAgain"
    /\ Goto(p, "replace")
    /\ UNCHANGED <<session, dest, recovery, lock, written, history>>

RecheckAgain(p) ==
    /\ pc[p] = "recheckAgain"
    /\ IF dest = base[p]
       THEN Goto(p, "replace") /\ UNCHANGED op
       ELSE Raises(p, "external")
    /\ UNCHANGED <<base, dest, recovery, lock, written, history>>

\* The destination gets a content, under a version it never had.
WriteDestination(content) ==
    /\ written.version < MaxWrites
    /\ dest' = [content |-> content, version |-> written.version + 1]
    /\ written' = [written EXCEPT !.version = @ + 1]
    /\ shown' = shown \cup {content}

\* os.replace, or for a new vault os.link, which refuses an existing name.  The
\* directory may turn out to have been exchanged after the replacement, and the
\* staged name of a new vault may resist its removal: a failure with effect.
Replace(p) ==
    /\ pc[p] = "replace"
    /\ \/ /\ base[p] = None => dest = None
          /\ WriteDestination(op[p].content)
          /\ pred' = IF dest = None THEN None ELSE dest.content
          /\ \/ /\ op' = [op EXCEPT ![p].replaced = TRUE]
                /\ Goto(p, "verify")
                /\ UNCHANGED harm
             \/ /\ Raises(p, "failed")
                /\ Harmed("unstable")
       \/ /\ base[p] = None
          /\ dest # None
          /\ Raises(p, "external")
          /\ UNCHANGED <<dest, written, history>>
    /\ UNCHANGED <<base, recovery, lock>>

\* Directory synchronisation and the reading back of the published name.
Verify(p) ==
    /\ pc[p] = "verify"
    /\ \/ /\ dest.content = op[p].content
          /\ IF op[p].new = None
             THEN /\ op' = [op EXCEPT ![p].seen = dest, ![p].result = dest]
                  /\ Goto(p, "unlock")
             ELSE /\ op' = [op EXCEPT ![p].seen = dest]
                  /\ Goto(p, "obsolete")
       \/ /\ dest.content # op[p].content
          /\ Raises(p, "failed")
    /\ UNCHANGED <<base, dest, recovery, lock, written, history>>

\* _commit_recovery: superseded artifacts go first; one that cannot be removed
\* keeps every identifier in the slot.
DropObsolete(p) ==
    LET obsolete == {id \in Named(op[p].previous) \ {op[p].new} : Live(id)}
    IN
    /\ pc[p] = "obsolete"
    /\ \E removed \in SUBSET obsolete :
         /\ artifacts' = [id \in Ids |-> IF id \in removed THEN None ELSE artifacts[id]]
         /\ IF removed = obsolete
            THEN Goto(p, "commit") /\ UNCHANGED <<op, harm>>
            ELSE Raises(p, "failed") /\ Harmed("backlog")
    /\ UNCHANGED <<base, dest, slot, lock, written, pred, shown>>

\* Then the slot names the new artifact alone.
CommitSlot(p) ==
    /\ pc[p] = "commit"
    /\ slot' = [current |-> op[p].new, obsolete |-> {}]
    /\ \/ /\ op' = [op EXCEPT ![p].result = op[p].seen]
          /\ Goto(p, "unlock")
       \/ Raises(p, "failed")
    /\ UNCHANGED <<base, dest, artifacts, lock, written, history>>

-----------------------------------------------------------------------------
(* The finally clause, after the lock *)

\* Mutant: nothing is rolled back.
MutAfterUnlock(o) ==
    IF o.failure # "none" /\ o.replaced THEN "recapture" ELSE "answer"

\* What is left to do: a publication that took place is looked for again, one
\* that did not gives the slot back.
AfterUnlock(o) ==
    CASE o.failure = "none" -> "answer"
      [] o.failure # "none" /\ o.replaced -> "recapture"
      [] o.failure # "none" /\ ~o.replaced /\ o.new # None -> "restoreSlot"
      [] OTHER -> "answer"

Unlock(p) ==
    /\ pc[p] = "unlock"
    /\ lock' = None
    /\ Goto(p, AfterUnlock(op[p]))
    /\ UNCHANGED <<session, dest, recovery, written, history>>

\* The publication counts when the destination still shows the candidate; when
\* it cannot be read, it does not.
Recapture(p) ==
    /\ pc[p] = "recapture"
    /\ \/ /\ op' = [op EXCEPT ![p].result =
                       IF dest.content = op[p].content THEN dest ELSE None]
          /\ UNCHANGED harm
       \/ /\ UNCHANGED op
          /\ Harmed("unread")
    /\ Goto(p, "answer")
    /\ UNCHANGED <<base, dest, recovery, lock, written, pred, shown>>

\* Mutant: the slot is not given back.
MutRestoreSlot(p) ==
    /\ pc[p] = "restoreSlot"
    /\ Goto(p, "removeNew")
    /\ UNCHANGED <<session, dest, recovery, lock, written, history>>

\* _restore_recovery_slot, which may fail.
RestoreSlot(p) ==
    /\ pc[p] = "restoreSlot"
    /\ \/ slot' = op[p].previous /\ UNCHANGED harm
       \/ UNCHANGED slot /\ Harmed("rollback")
    /\ Goto(p, "removeNew")
    /\ UNCHANGED <<session, dest, artifacts, lock, written, pred, shown>>

RemoveNew(p) ==
    /\ pc[p] = "removeNew"
    /\ \/ artifacts' = [artifacts EXCEPT ![op[p].new] = None] /\ UNCHANGED harm
       \/ UNCHANGED artifacts /\ Harmed("backlog")
    /\ Goto(p, "answer")
    /\ UNCHANGED <<session, dest, slot, lock, written, pred, shown>>

\* Mutant: every failure is answered as one that changed nothing.
MutAnswerOf(o) == IF o.failure = "none" THEN "published" ELSE o.failure

AnswerOf(o) ==
    IF o.failure = "none" THEN "published"
    ELSE IF o.replaced /\ o.result # None THEN "committed" ELSE o.failure

\* A save adopts the published baseline, from a committed error too; a new or
\* restored vault becomes a session only on success.
Answer(p) ==
    LET answer == AnswerOf(op[p])
    IN
    /\ pc[p] = "answer"
    /\ base' = [base EXCEPT ![p] =
         IF answer = "published" \/ (answer = "committed" /\ op[p].mode = "save")
         THEN op[p].result
         ELSE IF op[p].mode = "save" THEN @ ELSE None]
    /\ op' = [op EXCEPT ![p] = NoOperation]
    /\ Goto(p, "idle")
    /\ UNCHANGED <<dest, recovery, lock, written, history>>

-----------------------------------------------------------------------------
(* The environment *)

\* A program that does not take the lock writes the destination; between the
\* last comparison and os.replace nothing can notice it.
External ==
    /\ dest # None
    /\ WriteDestination(MaxSaves + written.version + 1)
    /\ pred' = None
    /\ IF \E p \in Processes : pc[p] = "replace"
       THEN Harmed("window") ELSE UNCHANGED harm
    /\ UNCHANGED <<pc, session, recovery, lock>>

\* A process dies: the operating system releases its lock.
Crash(p) ==
    /\ pc[p] # "idle"
    /\ written.crashes < MaxCrashes
    /\ written' = [written EXCEPT !.crashes = @ + 1]
    /\ op' = [op EXCEPT ![p] = NoOperation]
    /\ base' = [base EXCEPT ![p] = None]
    /\ lock' = IF lock = p THEN None ELSE lock
    /\ Goto(p, "idle")
    /\ UNCHANGED <<dest, recovery, history>>

-----------------------------------------------------------------------------

Publish(p) ==
    \/ StageFails(p)
    \/ AcquireLock(p)
    \/ StepFails(p)
    \/ Recheck(p)
    \/ CreateRecovery(p)
    \/ WriteSlot(p)
    \/ RecheckAgain(p)
    \/ Replace(p)
    \/ Verify(p)
    \/ DropObsolete(p)
    \/ CommitSlot(p)
    \/ Unlock(p)
    \/ Recapture(p)
    \/ RestoreSlot(p)
    \/ RemoveNew(p)
    \/ Answer(p)

Next ==
    \/ \E p \in Processes :
         \/ Open(p)
         \/ BeginSave(p)
         \/ BeginRestore(p)
         \/ Publish(p)
         \/ Crash(p)
    \/ External

Spec == Init /\ [][Next]_vars

-----------------------------------------------------------------------------
(* Properties *)

TypeOK ==
    /\ pc \in [Processes -> Steps]
    /\ op \in [Processes -> Operation]
    /\ base \in [Processes -> Files \cup {None}]
    /\ dest \in Files \cup {None}
    /\ slot \in Slots \cup {None}
    /\ artifacts \in [Ids -> Contents \cup {None}]
    /\ lock \in Processes \cup {None}
    /\ pred \in Contents \cup {None}
    /\ shown \subseteq Contents
    /\ harm \subseteq Harms

\* At every step, and after every crash, the content that the destination
\* replaced is in an artifact the slot names.  It takes the two gaps the code
\* cannot close (a foreign write just before the replacement, a directory
\* exchanged just after it) or a rollback that another process overtook to lose
\* it.
PredecessorRetained ==
    /\ TypeOK
    /\ pred # None /\ harm \cap {"window", "unstable", "overtaken"} = {}
         => \E id \in Named(slot) : artifacts[id] = pred

Quiet == \A p \in Processes : pc[p] \in {"idle", "staged"}

\* Whenever nobody is in a transaction, what the slot advertises exists, after
\* crashes and foreign writes as well: available_recovery never runs into a
\* missing file unless a rollback failed or was overtaken.
AdvertisedExists ==
    Quiet /\ harm \cap {"rollback", "overtaken", "unstable"} = {} /\ slot # None
        => Live(slot.current)

\* Failing publications leave nothing behind: without a crash and a failing
\* removal there is exactly one artifact, the advertised one, so that the slot
\* cannot fill up and refuse all later publications.
OneRecovery ==
    Quiet /\ harm \subseteq {"window"} /\ written.crashes = 0
        => {id \in Ids : Live(id)} = Named(slot)

\* An answer that reports neither a publication nor a committed error means that
\* the destination never had the candidate, and one that does that it had.
\* (A foreign write, another process, or a failing read that hides the candidate
\* when it is looked for again makes the store answer with a plain failure.)
AnswerIsTrue ==
    harm \cap {"unstable", "overtaken", "unread"} = {} /\ shown \subseteq 0 .. MaxSaves
        => \A p \in Processes :
             pc[p] = "answer" /\ op[p].mode # "restore"
                => (op[p].content \in shown
                      <=> AnswerOf(op[p]) \in {"published", "committed"})

\* A replacement only overwrites the very file its author had opened or saved
\* last: no other process's save is lost.
NoLostUpdate ==
    [][\A p \in Processes :
          pc[p] = "replace" /\ pc'[p] # "replace" /\ dest' # dest
              => dest = base[p] \/ "window" \in harm]_vars

-----------------------------------------------------------------------------
(* The inductive invariant behind PredecessorRetained and NoLostUpdate.        *)

Counted == [content : 0 .. MaxSaves, version : 0 .. MaxWrites, crashes : Nat]

Clean == harm \cap {"window", "unstable", "overtaken"} = {}

Retained(s) == pred # None => \E id \in Named(s) : artifacts[id] = pred

\* Whoever is inside a transaction holds the lock, and while nobody was
\* overtaken a process that rolls back is alone.
LockInv ==
    /\ \A p \in Processes : pc[p] \in LockedSteps => lock = p
    /\ "overtaken" \notin harm =>
          \A p, q \in Processes :
              pc[p] \in LockedSteps \cup LateSteps /\ pc[q] \in LateSteps => p = q

\* The local variables of a transaction, step by step.
LocalsOf(p) ==
    /\ pc[p] # "idle" => op[p].content \in Contents
    /\ pc[p] \in {"recover", "slot", "recheckAgain"} => base[p] # None
    /\ pc[p] = "replace" => (base[p] = None <=> op[p].new = None)
    /\ pc[p] \in {"staged", "recheck", "recover"} => op[p].new = None
    /\ pc[p] \in {"slot", "recheckAgain", "obsolete", "commit", "restoreSlot", "removeNew"}
          => op[p].new # None
    /\ pc[p] \in {"staged", "recheck", "recover", "slot", "recheckAgain", "replace",
                  "restoreSlot", "removeNew"} => ~op[p].replaced
    /\ pc[p] \in {"verify", "obsolete", "commit", "recapture"} => op[p].replaced

\* Nothing but a write in the last window can separate what is about to be
\* replaced from the baseline.
BaselineOf(p) ==
    pc[p] = "replace" => base[p] = None \/ dest = base[p] \/ "window" \in harm

\* The predecessor before the replacement stays where the previous slot has it,
\* the one after it is in the new artifact, and the slot names both in between.
RecoveryOf(p) ==
    LET new == op[p].new
        previous == op[p].previous
    IN
    /\ pc[p] = "recover" => slot = previous
    /\ pc[p] \in {"slot", "recheckAgain", "replace", "unlock", "restoreSlot", "removeNew"}
         /\ new # None /\ ~op[p].replaced
          => /\ new \notin Named(previous)
             /\ Named(previous) \subseteq Named(slot)
             /\ Retained(previous)
    /\ pc[p] \in {"slot", "recheckAgain", "replace"} /\ new # None
          => artifacts[new] = base[p].content
    /\ pc[p] \in {"recheckAgain", "replace", "verify", "obsolete", "commit"} /\ new # None
          => new \in Named(slot)
    /\ pc[p] \in {"verify", "obsolete", "commit"} /\ new # None /\ pred # None
          => artifacts[new] = pred

LocalInv ==
    /\ TypeOK
    /\ written \in Counted
    /\ LockInv
    /\ \A p \in Processes : LocalsOf(p) /\ BaselineOf(p)
    /\ Clean => Retained(slot) /\ \A p \in Processes : RecoveryOf(p)

-----------------------------------------------------------------------------
(* The inductive invariant behind AdvertisedExists and OneRecovery.           *)

\* Nobody lost a rollback, or took the slot away from one.
SlotSafe == harm \cap {"rollback", "overtaken", "unstable"} = {}

\* A publication that has made its artifact and not replaced the destination.
Revocable(p) ==
    /\ pc[p] \in {"slot", "recheckAgain", "replace", "unlock", "restoreSlot", "removeNew"}
    /\ op[p].new # None
    /\ ~op[p].replaced

\* The slot is the one before or the one that names the new artifact as well.
SlotOf(p) ==
    LET new == op[p].new
        previous == op[p].previous
        both == TransactionSlot(new, previous)
    IN
    /\ pc[p] \in {"recover", "slot", "removeNew"} => slot = previous
    /\ pc[p] \in {"recheckAgain", "replace", "verify", "obsolete", "commit"} /\ new # None
          => slot = both /\ new \notin Named(previous) /\ Live(new)
    /\ Revocable(p) => /\ slot \in {previous, both}
                       /\ new \notin Named(previous)
                       /\ pc[p] # "removeNew" => Live(new)
                       /\ previous # None => Live(previous.current)
    /\ pc[p] = "unlock" /\ ~op[p].replaced => op[p].failure # "none"

AdvertInv ==
    SlotSafe =>
        /\ slot # None => Live(slot.current)
        /\ \A p \in Processes : SlotOf(p)

LiveIds == {id \in Ids : Live(id)}

\* Between its first and its last effect a publication has one artifact more.
Pending(p) ==
    \/ Revocable(p)
    \/ pc[p] \in {"verify", "obsolete"} /\ op[p].new # None

ExactInv ==
    harm \subseteq {"window"} /\ written.crashes = 0 =>
        /\ \A p \in Processes :
             /\ Pending(p) => LiveIds = Named(op[p].previous) \cup {op[p].new}
             /\ pc[p] = "commit" => LiveIds = {op[p].new}
        /\ (\A p \in Processes : ~Pending(p) /\ pc[p] # "commit") => LiveIds = Named(slot)

SlotInv == AdvertInv /\ ExactInv

-----------------------------------------------------------------------------
(* The inductive invariant behind AnswerIsTrue.                               *)

\* Neither a write nor a failing read hides what a publication has done.
Observed == harm \cap {"unstable", "overtaken", "unread"} = {} /\ shown \subseteq 0 .. MaxSaves

Seen(f) == f # None => f.content \in shown

\* A new candidate has been shown exactly if it was published.
Fresh(p) == pc[p] # "idle" /\ op[p].mode # "restore"

ShownOf(p) ==
    /\ Seen(base[p])
    /\ Seen(op[p].seen)
    /\ Seen(op[p].result)
    /\ pc[p] # "idle" /\ op[p].mode = "restore" => op[p].content \in shown
    /\ Fresh(p) => /\ op[p].content \in 0 .. written.content
                   /\ op[p].content \in shown <=> op[p].replaced
    /\ pc[p] \in {"verify", "obsolete", "commit", "unlock", "recapture"} /\ op[p].replaced
          => dest # None /\ dest.content = op[p].content
    /\ pc[p] \in {"unlock", "restoreSlot", "removeNew", "answer"} /\ ~op[p].replaced
          => op[p].failure # "none"
    /\ pc[p] = "answer" /\ op[p].replaced /\ op[p].failure # "none" => op[p].result # None

\* No two running publications have the same new candidate.
Distinct ==
    \A p, q \in Processes : Fresh(p) /\ Fresh(q) /\ p # q => op[p].content # op[q].content

AnswerInv ==
    Observed =>
        /\ Seen(dest)
        /\ \A id \in Ids : Live(id) => artifacts[id] \in shown
        /\ shown \subseteq 0 .. written.content
        /\ Distinct
        /\ \A p \in Processes : ShownOf(p)

=============================================================================
