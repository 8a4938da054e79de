------------------------------ MODULE VaultSession -----------------------------
(***************************************************************************)
(* The owners of decrypted data (passwordsafe/session.py, payloads.py,     *)
(* model.py, the aggregates of reader.py) and the service operations that  *)
(* move them (service.py): open, resume, save, change of passphrase,       *)
(* suspend and export.                                                     *)
(*                                                                         *)
(* A document holds one lease of every payload in it: inline payloads      *)
(* share a buffer that the last lease wipes, deferred payloads (the span)  *)
(* borrow the key and the snapshot of the vault they were read from.  An   *)
(* opened vault owns its first document, its keys and its snapshot.  Any   *)
(* close can fail and leave the rest to be closed later.                   *)
(*                                                                         *)
(* A method of VaultSession is one step: it holds the session's lock.  A   *)
(* service operation is many: the service lock keeps a second one out, but *)
(* not the methods of the session, which any thread may call in between,   *)
(* nor another program that writes the source.                             *)
(*                                                                         *)
(* An operator named Mut... is a faulty variant of the definition after    *)
(* it; nothing uses it but the sensitivity runs of the project manifest.   *)
(***************************************************************************)
EXTENDS Naturals, FiniteSets

CONSTANTS
    Edits,       \* the additions clients make, each with its own payload
    Earlier,     \* those of them an earlier run of the program may have suspended
    Span,        \* the deferred payloads of a document
    MaxDocs,     \* bound: documents that live at once
    MaxVaults,   \* bound: opened vaults that live at once
    MaxJobs,     \* bound: service operations
    MaxMishaps,  \* bound: closes that fail and foreign writes of the source, together
    None         \* Python's None

ASSUME VaultSessionAssumption ==
    /\ {MaxDocs, MaxVaults} \subseteq Nat \ {0}
    /\ {MaxJobs, MaxMishaps} \subseteq Nat
    /\ Earlier \subseteq Edits
    /\ None \notin Nat \cup Edits
    /\ \A content \in SUBSET Edits : None # content
    /\ Span \notin Nat \cup Edits
    /\ Edits \cap 1 .. MaxVaults = {}

VARIABLES
    heap,     \* documents, opened vaults and the lease counts of inline buffers
    session,  \* the live VaultSession
    job,      \* the service operation under way
    disk,     \* the source and the pending slot; history: the last foreign version
    count,    \* counters: service operations, failed closes, foreign writes
    made,     \* history: edits made so far
    harm      \* history: what a failed close or comparison has left behind

vars == <<heap, session, job, disk, count, made, harm>>

Docs == 1 .. MaxDocs
Vaults == 1 .. MaxVaults

\* An inline buffer belongs to an edit or to the fields read with a vault.
Buffers == Edits \cup Vaults
Leaves == Buffers \cup {Span}

NoDoc == [state |-> "closed", vault |-> None, pending |-> {}, content |-> {}]
NoVault == [doc |-> None, keys |-> FALSE, snapshot |-> FALSE]

\* The baseline is the version of the source the session goes by; its base, what
\* that version held, and removed, what the session has taken out, are history.
NoSession == [opened |-> None, document |-> None, frozen |-> None, changes |-> FALSE,
              suspended |-> FALSE, retired |-> {}, locked |-> TRUE, baseline |-> 0,
              base |-> {}, removed |-> {}]

\* The version is the capture of the source an operation compares with, and from
\* its publication on the version it has published.
NoJob == [kind |-> "none", step |-> "none", doc |-> None, copy |-> None, vault |-> None,
          source |-> None, content |-> {}, version |-> 0, committed |-> FALSE]

Doc(d) == heap.doc[d]
Vault(v) == heap.vault[v]
Active == ~session.locked
Content == Doc(session.document).content

-----------------------------------------------------------------------------
(* Owners and their closes *)

\* Closes that have failed, and writes of the source by another program.
Mishaps == count.failures + count.writes

\* A close fails at one kind of leaf, or not at all.
Faults ==
    {{}} \cup (IF Mishaps = MaxMishaps THEN {}
              ELSE {{kind} : kind \in {"inline", "span", "keys", "snapshot"}})

ClosedDoc(h, d) == h.doc[d] = NoDoc
ClosedVault(h, v) == h.vault[v] = NoVault
ClosedOwner(h, o) == IF o.kind = "doc" THEN ClosedDoc(h, o.id) ELSE ClosedVault(h, o.id)

DocOwner(d) == [kind |-> "doc", id |-> d]
VaultOwner(v) == [kind |-> "vault", id |-> v]

\* The documents among D that hold a lease of a payload.
Holders(h, D, x) == {d \in D : x \in h.doc[d].pending}

\* Closing the documents D one after another, by their numbers: the leases the
\* close of d cannot release are a span, or an inline buffer whose last lease it
\* is by then, and which therefore has to be wiped.
Stuck(h, D, d, F) ==
    {x \in h.doc[d].pending :
        IF x = Span THEN "span" \in F
        ELSE /\ "inline" \in F
             /\ h.leases[x] = Cardinality(Holders(h, D, x))
             /\ \A e \in Holders(h, D, x) : e <= d}

\* VaultDocument.close: each payload once, those that fail are tried again later.
CloseDocs(h, D, F) ==
    LET stuck(d) == Stuck(h, D, d, F)
        gone(d) == d \in D /\ stuck(d) = {}
    IN
    [leases |-> [x \in Buffers |->
                   h.leases[x] - Cardinality({d \in D : x \in h.doc[d].pending \ stuck(d)})],
     doc    |-> [d \in Docs |->
                   IF gone(d) THEN NoDoc
                   ELSE IF d \in D THEN [h.doc[d] EXCEPT !.state = "closing", !.pending = stuck(d)]
                   ELSE h.doc[d]],
     vault  |-> [v \in Vaults |->
                   IF gone(h.vault[v].doc) THEN [h.vault[v] EXCEPT !.doc = None] ELSE h.vault[v]]]

CloseDoc(h, d, F) == CloseDocs(h, {d}, F)

\* The documents that are closed with these owners.
Closing(h, owners) ==
    {d \in Docs : \/ DocOwner(d) \in owners
                  \/ \E v \in Vaults : VaultOwner(v) \in owners /\ h.vault[v].doc = d}

\* Mutant: a vault whose document has gone counts as closed.
MutCloseAll(h, owners, F) ==
    LET g == CloseDocs(h, Closing(h, owners), F)
        whole(v) == VaultOwner(v) \in owners /\ h.vault[v].doc # None /\ g.vault[v].doc = None
    IN
    [g EXCEPT !.vault = [v \in Vaults |->
        IF whole(v) THEN [doc |-> None,
                          keys |-> g.vault[v].keys /\ "keys" \in F,
                          snapshot |-> g.vault[v].snapshot /\ "snapshot" \in F]
        ELSE g.vault[v]]]

\* Each owner once. OpenedVault.close: keys and snapshot go only after the
\* document has gone.
CloseAll(h, owners, F) ==
    LET g == CloseDocs(h, Closing(h, owners), F)
    IN
    [g EXCEPT !.vault = [v \in Vaults |->
        IF VaultOwner(v) \in owners /\ g.vault[v].doc = None
        THEN [doc |-> None,
              keys |-> g.vault[v].keys /\ "keys" \in F,
              snapshot |-> g.vault[v].snapshot /\ "snapshot" \in F]
        ELSE g.vault[v]]]

Remaining(h, owners) == {o \in owners : ~ClosedOwner(h, o)}

\* A failing close is counted when something of what it should close remains.
Counted(h, owners) ==
    /\ count' = [count EXCEPT !.failures = @ + IF Remaining(h, owners) = {} THEN 0 ELSE 1]
    /\ count'.failures + count.writes <= MaxMishaps

Harmed(kind) == harm' = harm \cup {kind}

-----------------------------------------------------------------------------
(* New owners *)

Referenced(d) ==
    \/ d \in {session.document, session.frozen, job.doc, job.copy}
    \/ \E v \in Vaults : Vault(v).doc = d

FreeDocs == {d \in Docs : ClosedDoc(heap, d) /\ ~Referenced(d)}
FreeVaults == {v \in Vaults : /\ ClosedVault(heap, v)
                              /\ \A d \in Docs : Doc(d).vault # v
                              /\ v \notin {session.opened, job.vault, job.source}}
AnyOf(S) == CHOOSE x \in S : TRUE

\* Every payload of the document can be streamed.
Readable(d) ==
    /\ Doc(d).state = "open"
    /\ \A x \in Doc(d).pending \cap Buffers : heap.leases[x] > 0
    /\ Vault(Doc(d).vault).keys
    /\ Vault(Doc(d).vault).snapshot

\* Mutant: the leases are copied without being counted.
MutRetained(h, d, r, kept, content) ==
    [h EXCEPT !.doc[r] = [h.doc[d] EXCEPT !.pending = kept, !.content = content]]

\* VaultDocument.retain and _fork_document: one more lease of every payload kept.
Retained(h, d, r, kept, content) ==
    [h EXCEPT !.doc[r] = [h.doc[d] EXCEPT !.pending = kept, !.content = content],
              !.leases = [x \in Buffers |-> IF x \in kept THEN h.leases[x] + 1
                                            ELSE h.leases[x]]]

\* The reader authenticates a file and hands over its aggregate.
Authenticated(h, v, d, content) ==
    [h EXCEPT !.vault[v] = [doc |-> d, keys |-> TRUE, snapshot |-> TRUE],
              !.doc[d] = [state |-> "open", vault |-> v,
                          pending |-> {v, Span}, content |-> content],
              !.leases[v] = 1]

\* VaultSession.__init__ and _resume: a clean session over a whole vault.
Adopted(v, suspended, version, base) ==
    [NoSession EXCEPT !.opened = v, !.document = Vault(v).doc, !.locked = FALSE,
                      !.suspended = suspended, !.baseline = version, !.base = base]

\* One session has just been opened, or resumed from a slot that an earlier run of
\* the program left.
Init ==
    /\ made \in {{}, Earlier}
    /\ disk = [source |-> {}, version |-> 0, foreign |-> 0, binding |-> 0,
               slot |-> IF made = {} THEN None ELSE made]
    /\ heap = Authenticated([doc |-> [d \in Docs |-> NoDoc], vault |-> [v \in Vaults |-> NoVault],
                             leases |-> [x \in Buffers |-> 0]], 1, 1, made)
    /\ session = Adopted(1, made # {}, 0, {})
    /\ job = NoJob
    /\ count = [jobs |-> 0, failures |-> 0, writes |-> 0]
    /\ harm = {}

-----------------------------------------------------------------------------
(* Methods of the session *)

\* _require_mutable
Mutable == Active /\ session.frozen = None

\* _commit: the revision is forked, then its predecessor closed.  When that close
\* fails the fork is closed again and the session keeps what is left of the
\* predecessor.
Commit(kept, content, new) ==
    LET d == session.document
        r == AnyOf(FreeDocs)
        forked == Retained(heap, d, r, kept \cup new, content)
    IN
    /\ FreeDocs # {}
    /\ Doc(d).state = "open"
    /\ \E F, G \in Faults :
         LET once == CloseDoc(forked, d, F)
             undone == CloseDoc(once, r, G)
         IN
         IF ClosedDoc(once, d)
         THEN /\ G = {}
              /\ heap' = once
              /\ session' = [session EXCEPT !.document = r, !.changes = TRUE,
                                            !.removed = @ \cup (Content \ content)]
              /\ Counted(once, {DocOwner(d)})
              /\ UNCHANGED harm
         ELSE /\ heap' = undone
              /\ Counted(undone, {DocOwner(d)})
              /\ Harmed("edit")
              /\ UNCHANGED session

\* apply, add, protect: a field with a payload of its own enters the revision;
\* which of those not made yet makes no difference.
Edit(e) ==
    /\ Mutable
    /\ e \notin made
    /\ e = AnyOf(Edits \ made)
    /\ Commit(Doc(session.document).pending, Content \cup {e}, {e})
    /\ made' = made \cup {e}
    /\ UNCHANGED <<job, disk>>

\* delete, unprotect, RemoveField: the revision does without a payload.
Remove(e) ==
    /\ Mutable
    /\ e \in Content
    /\ Commit(Doc(session.document).pending \ {e}, Content \ {e}, {})
    /\ UNCHANGED <<job, disk, made>>

\* The edited document, unless it is still the one the vault was opened with.
Revised(h) ==
    IF h.vault[session.opened].doc = session.document THEN {} ELSE {DocOwner(session.document)}

\* _close_resources, on what the session owns after a frozen revision has gone.
Owned(h) == Revised(h) \cup {VaultOwner(session.opened)} \cup session.retired

\* The session is over; what cannot be closed is retired.
Locked(h, owners, F) ==
    LET closed == CloseAll(h, owners, F)
    IN
    /\ heap' = closed
    /\ session' = [NoSession EXCEPT !.retired = Remaining(closed, owners)]
    /\ Counted(closed, owners)

\* lock: of a clean session, or again of one whose closes have failed.
Lock ==
    /\ IF session.locked
       THEN session.retired # {}
       ELSE session.frozen = None /\ ~session.changes
    /\ \E F \in Faults :
         Locked(heap, IF session.locked THEN session.retired ELSE Owned(heap), F)
    /\ UNCHANGED <<job, disk, made, harm>>

\* discard_and_lock: a frozen revision that cannot be closed stops it.
DiscardAndLock ==
    /\ Active
    /\ \E F, G \in Faults :
         LET h == IF session.frozen = None THEN heap ELSE CloseDoc(heap, session.frozen, F)
         IN
         IF session.frozen = None \/ ClosedDoc(h, session.frozen)
         THEN Locked(h, Owned(h), G) /\ UNCHANGED harm
         ELSE /\ heap' = h
              /\ Counted(h, {DocOwner(session.frozen)})
              /\ Harmed("frozen")
              /\ UNCHANGED session
    /\ UNCHANGED <<job, disk, made>>

-----------------------------------------------------------------------------
(* Open and resume *)

Begins(kind) ==
    /\ job = NoJob
    /\ count.jobs < MaxJobs
    /\ count' = [count EXCEPT !.jobs = @ + 1]

\* A vault of the given content, in the heap and in the job.
Reads(field, content, next) ==
    LET v == AnyOf(FreeVaults)
    IN
    /\ FreeVaults # {}
    /\ FreeDocs # {}
    /\ heap' = Authenticated(heap, v, AnyOf(FreeDocs), content)
    /\ job' = [job EXCEPT ![field] = v, !.step = next]

\* VaultService.open, with no slot in the way; the session takes over the vault.
BeginOpen ==
    /\ session = NoSession
    /\ disk.slot = None
    /\ Begins("open")
    /\ job' = [NoJob EXCEPT !.kind = "open", !.step = "pending", !.content = disk.source,
                            !.version = disk.version]
    /\ UNCHANGED <<heap, session, disk, made, harm>>

\* VaultService.resume authenticates the source with the passphrase first.
BeginResume ==
    /\ session = NoSession
    /\ disk.slot # None
    /\ disk.binding = disk.version
    /\ Begins("resume")
    /\ job' = [NoJob EXCEPT !.kind = "resume", !.step = "source", !.content = disk.slot,
                            !.version = disk.version]
    /\ UNCHANGED <<heap, session, disk, made, harm>>

\* The source is still the one that was captured, or the operation fails.
Unmoved == disk.version = job.version

ReadSource ==
    /\ job.step = "source"
    /\ Unmoved
    /\ Reads("source", disk.source, "pending")
    /\ UNCHANGED <<session, disk, count, made, harm>>

\* An open reads the source, a resume the artifact of the slot.
ReadVault ==
    /\ job.step = "pending"
    /\ job.kind = "open" => Unmoved
    /\ Reads("vault", job.content, "adopt")
    /\ UNCHANGED <<session, disk, count, made, harm>>

\* The new session owns the vault, and the job no longer does.  A resume captures
\* the source once more; an open has it as it was read.
Adopt ==
    /\ job.step = "adopt"
    /\ \/ /\ job.kind = "open"
          /\ session' = Adopted(job.vault, FALSE, job.version, job.content)
       \/ /\ job.kind = "resume"
          /\ Unmoved
          /\ session' = Adopted(job.vault, TRUE, job.version, disk.source)
    /\ job' = [job EXCEPT !.vault = None, !.committed = TRUE, !.step = "end"]
    /\ UNCHANGED <<heap, disk, count, made, harm>>

-----------------------------------------------------------------------------
(* Save, change of passphrase, suspend and export *)

\* Freeze a revision: _prepare_save, or _export_snapshot, which only counts on no
\* save being under way.
Freezes(kind) ==
    LET r == AnyOf(FreeDocs)
    IN
    /\ Begins(kind)
    /\ Mutable
    /\ FreeDocs # {}
    /\ Doc(session.document).state = "open"
    /\ heap' = Retained(heap, session.document, r, Doc(session.document).pending, Content)
    /\ job' = [NoJob EXCEPT !.kind = kind, !.step = "write", !.doc = r,
                            !.version = session.baseline]
    /\ session' = IF kind = "export" THEN session ELSE [session EXCEPT !.frozen = r]
    /\ UNCHANGED <<disk, made, harm>>

BeginSave == Freezes("save")
BeginRotate == Freezes("rotate")
BeginExport == Freezes("export")

\* VaultService.suspend compares the source with the baseline before it freezes.
BeginSuspend ==
    /\ session.changes \/ session.suspended
    /\ disk.version = session.baseline
    /\ Freezes("suspend")
\* Any step can raise; what follows is the finally clause.
JobFails ==
    /\ job.step \in {"source", "pending", "adopt", "write", "copy", "reopen", "publish"}
    /\ job' = [job EXCEPT !.step = "end"]
    /\ UNCHANGED <<heap, session, disk, count, made, harm>>

\* An export works on a second copy, of the target version.
CopyExport ==
    LET r == AnyOf(FreeDocs)
    IN
    /\ job.step = "write"
    /\ job.kind = "export"
    /\ FreeDocs # {}
    /\ heap' = Retained(heap, job.doc, r, Doc(job.doc).pending, Doc(job.doc).content)
    /\ job' = [job EXCEPT !.copy = r, !.step = "copy"]
    /\ UNCHANGED <<session, disk, count, made, harm>>

\* The export writes and publishes a file of its own.
PublishExport ==
    /\ job.step = "copy"
    /\ Active
    /\ Readable(job.copy)
    /\ job' = [job EXCEPT !.committed = TRUE, !.step = "end"]
    /\ UNCHANGED <<heap, session, disk, count, made, harm>>

\* The writer streams the frozen revision with the keys of the live session.
WriteCandidate ==
    /\ job.step = "write"
    /\ job.kind # "export"
    /\ Active
    /\ Readable(job.doc)
    /\ job' = [job EXCEPT !.content = Doc(job.doc).content,
                          !.step = IF job.kind = "suspend" THEN "publish" ELSE "reopen"]
    /\ UNCHANGED <<heap, session, disk, count, made, harm>>

\* The candidate is opened again and compared with the frozen revision.
ReopenCandidate ==
    /\ job.step = "reopen"
    /\ Active
    /\ Readable(job.doc)
    /\ Reads("vault", job.content, "publish")
    /\ UNCHANGED <<session, disk, count, made, harm>>

\* The store replaces no other source than the one the session goes by.
PublishSource ==
    /\ job.step = "publish"
    /\ job.kind \in {"save", "rotate"}
    /\ Active
    /\ Unmoved
    /\ disk' = [disk EXCEPT !.source = job.content, !.version = @ + 1]
    /\ job' = [job EXCEPT !.version = disk.version + 1, !.committed = TRUE, !.step = "finish"]
    /\ UNCHANGED <<heap, session, count, made, harm>>

\* Mutant: the superseded revision is not retired.
MutRetiring(v) == {DocOwner(session.frozen), VaultOwner(session.opened)}

\* Mutant: the vault that replaces the old one is retired.
MutRetireNew(v) == {DocOwner(session.frozen), VaultOwner(v)} \cup Revised(heap)

\* What _finish_save retires: the frozen revision, the edited one, the old vault.
Retiring(v) == {DocOwner(session.frozen), VaultOwner(session.opened)} \cup Revised(heap)

\* _finish_save: the reopened vault becomes the session's; with the session locked
\* or its revision unreadable it raises, and the published file stays.
FinishSave ==
    /\ job.step = "finish"
    /\ IF Active /\ session.frozen # None /\ Readable(session.frozen)
       THEN \E F \in Faults :
              LET retiring == Retiring(job.vault)
                  closed == CloseAll(heap, retiring, F)
              IN
              /\ heap' = closed
              /\ Counted(closed, retiring)
              /\ session' = [session EXCEPT
                               !.opened = job.vault, !.document = Vault(job.vault).doc,
                               !.frozen = None, !.changes = FALSE,
                               !.baseline = job.version, !.base = job.content,
                               !.retired = @ \cup Remaining(closed, retiring)]
              /\ job' = [job EXCEPT !.vault = None,
                           !.step = IF job.kind = "save" /\ session.suspended
                                    THEN "cleanup" ELSE "end"]
       ELSE /\ job' = [job EXCEPT !.step = "end"]
            /\ UNCHANGED <<heap, session, count>>
    /\ UNCHANGED <<disk, made, harm>>

\* Comparing the published revision once more can raise on its own.
FinishSaveFails ==
    /\ job.step = "finish"
    /\ job' = [job EXCEPT !.step = "end"]
    /\ Harmed("finish")
    /\ UNCHANGED <<heap, session, disk, count, made>>

\* The saved session's pending slot goes: discard, then _finish_pending_cleanup.
CleanupPending ==
    /\ job.step = "cleanup"
    /\ \/ /\ disk' = [disk EXCEPT !.slot = None]
          /\ session' = [session EXCEPT !.suspended = FALSE]
       \* the slot cannot be discarded, or the session is locked by now
       \/ UNCHANGED <<disk, session>>
    /\ job' = [job EXCEPT !.step = "end"]
    /\ UNCHANGED <<heap, count, made, harm>>

\* The slot replaces the session's own one, which has to be bound to the same
\* source, or none.
PublishPending ==
    /\ job.step = "publish"
    /\ job.kind = "suspend"
    /\ Active
    /\ Unmoved
    /\ IF session.suspended
       THEN disk.slot # None /\ disk.binding = job.version
       ELSE disk.slot = None
    /\ disk' = [disk EXCEPT !.slot = job.content, !.binding = job.version]
    /\ job' = [job EXCEPT !.step = "capture"]
    /\ UNCHANGED <<heap, session, count, made, harm>>

\* Mutant: the slot is discarded although the source is the one it is bound to.
MutSourceMoved ==
    /\ job.step = "capture"
    /\ disk' = [disk EXCEPT !.slot = None]
    /\ job' = [job EXCEPT !.step = "end"]
    /\ UNCHANGED <<heap, session, count, made, harm>>

\* Another program has written the source since it was captured: the slot that has
\* just been published is discarded.
SourceMoved ==
    /\ job.step = "capture"
    /\ ~Unmoved
    /\ disk' = [disk EXCEPT !.slot = None]
    /\ job' = [job EXCEPT !.step = "end"]
    /\ UNCHANGED <<heap, session, count, made, harm>>

\* _finish_suspend: the frozen revision goes, then everything; what fails is
\* kept for another lock.  So it does when the source has moved and the slot
\* cannot be discarded.
FinishSuspend ==
    /\ job.step = "capture"
    /\ IF Active /\ session.frozen # None
       THEN \E F, G \in Faults :
              LET h == CloseDoc(heap, session.frozen, F)
                  frozen == Remaining(h, {DocOwner(session.frozen)})
              IN  Locked(h, Owned(h) \cup frozen, G)
       ELSE UNCHANGED <<heap, session, count>>
    /\ job' = [job EXCEPT !.committed = TRUE, !.step = "end"]
    /\ UNCHANGED <<disk, made, harm>>

\* Mutant: the finally clause forgets the frozen revision.
MutAborts == FALSE

\* Whether the finally clause calls _abort_save, and whether that does anything.
Aborts ==
    /\ job.kind \in {"save", "rotate", "suspend"}
    /\ ~job.committed
    /\ Active
    /\ session.frozen # None

\* Mutant: a failed save leaves a clean session.
MutAborted == [session EXCEPT !.frozen = None, !.changes = FALSE]

\* _abort_save: the frozen revision is gone, the changes are still unsaved.
Aborted == [session EXCEPT !.frozen = None]

\* The finally clause: what the operation still owns is closed, failures are
\* suppressed, and a save that published nothing is aborted.
EndJob ==
    LET owners == {VaultOwner(v) : v \in {job.vault, job.source} \ {None}}
                  \cup (IF job.kind = "export"
                        THEN {DocOwner(d) : d \in {job.doc, job.copy} \ {None}} ELSE {})
        frozen == IF Aborts THEN {DocOwner(session.frozen)} ELSE {}
    IN
    /\ job.step = "end"
    /\ \E F \in Faults :
         LET closed == CloseAll(heap, owners \cup frozen, F)
         IN
         /\ heap' = closed
         /\ Counted(closed, owners \cup frozen)
         /\ IF Aborts /\ Remaining(closed, frozen) = {}
            THEN session' = Aborted /\ UNCHANGED harm
            ELSE UNCHANGED session /\ IF Aborts THEN Harmed("frozen") ELSE UNCHANGED harm
    /\ job' = NoJob
    /\ UNCHANGED <<disk, made>>

-----------------------------------------------------------------------------
(* Another program *)

\* It replaces or rewrites the source, which may then lack any of the edits.
ForeignWrite ==
    /\ Mishaps < MaxMishaps
    /\ count' = [count EXCEPT !.writes = @ + 1]
    /\ \E kept \in SUBSET disk.source :
         disk' = [disk EXCEPT !.source = kept, !.version = @ + 1, !.foreign = disk.version + 1]
    /\ UNCHANGED <<heap, session, job, made, harm>>

-----------------------------------------------------------------------------
(* What nobody refers to any more is closed by its finaliser *)

Reachable ==
    {DocOwner(d) : d \in {session.document, session.frozen, job.doc, job.copy} \ {None}}
    \cup {VaultOwner(v) : v \in {session.opened, job.vault, job.source} \ {None}}
    \cup session.retired

Alive == {o \in {DocOwner(d) : d \in Docs} \cup {VaultOwner(v) : v \in Vaults} :
             ~ClosedOwner(heap, o)}

\* A document is reached from the vault that owns it.
Forgotten ==
    {o \in Alive \ Reachable :
        o.kind = "doc" => \A v \in Vaults : Vault(v).doc # o.id}

\* __del__ of documents, opened vaults and payloads.
Finalise(o) ==
    /\ o \in Forgotten
    /\ \E F \in Faults :
         /\ heap' = CloseAll(heap, {o}, F)
         /\ Counted(CloseAll(heap, {o}, F), {o})
    /\ UNCHANGED <<session, job, disk, made, harm>>

\* The client drops a locked session.
Forget ==
    /\ session # NoSession
    /\ session.locked
    /\ session' = NoSession
    /\ UNCHANGED <<heap, job, disk, count, made, harm>>

-----------------------------------------------------------------------------

Client ==
    \/ \E e \in Edits : Edit(e) \/ Remove(e)
    \/ Lock
    \/ DiscardAndLock
    \/ Forget

Service ==
    \/ JobFails
    \/ ReadSource
    \/ ReadVault
    \/ Adopt
    \/ CopyExport
    \/ PublishExport
    \/ WriteCandidate
    \/ ReopenCandidate
    \/ PublishSource
    \/ FinishSave
    \/ FinishSaveFails
    \/ CleanupPending
    \/ PublishPending
    \/ SourceMoved
    \/ FinishSuspend
    \/ EndJob

Request ==
    \/ BeginOpen
    \/ BeginResume
    \/ BeginSave
    \/ BeginRotate
    \/ BeginSuspend
    \/ BeginExport

Collect == \E o \in Forgotten : Finalise(o)

Next == Client \/ Service \/ Request \/ ForeignWrite \/ Collect

\* Finalisers run: the interpreter counts references.
Fairness == WF_vars(Collect)

Spec == Init /\ [][Next]_vars /\ Fairness

-----------------------------------------------------------------------------
(* Properties *)

Owners == [kind : {"doc"}, id : Docs] \cup [kind : {"vault"}, id : Vaults]

DocStates ==
    [state : {"open", "closing", "closed"}, vault : Vaults \cup {None},
     pending : SUBSET Leaves, content : SUBSET Edits]

Heaps ==
    [doc : [Docs -> DocStates],
     vault : [Vaults -> [doc : Docs \cup {None}, keys : BOOLEAN, snapshot : BOOLEAN]],
     leases : [Buffers -> 0 .. MaxDocs]]

Sessions ==
    [opened : Vaults \cup {None}, document : Docs \cup {None}, frozen : Docs \cup {None},
     changes : BOOLEAN, suspended : BOOLEAN, retired : SUBSET Owners, locked : BOOLEAN,
     baseline : Nat, base : SUBSET Edits, removed : SUBSET Edits]

Kinds == {"none", "open", "resume", "save", "rotate", "suspend", "export"}

Steps == {"none", "source", "pending", "adopt", "write", "copy", "reopen", "publish", "finish",
          "capture", "cleanup", "end"}

Jobs ==
    [kind : Kinds, step : Steps, doc : Docs \cup {None}, copy : Docs \cup {None},
     vault : Vaults \cup {None}, source : Vaults \cup {None}, content : SUBSET Edits,
     version : Nat, committed : BOOLEAN]

Disks ==
    [source : SUBSET Edits, version : Nat, foreign : Nat, binding : Nat,
     slot : {None} \cup SUBSET Edits]

Counts == [jobs : Nat, failures : Nat, writes : Nat]

TypeOK ==
    /\ heap \in Heaps
    /\ session \in Sessions
    /\ job \in Jobs
    /\ disk \in Disks
    /\ count \in Counts

\* The count in every inline buffer is the number of documents that will still
\* release it: it is wiped neither under a reader nor never.
LeasesAreOwned ==
    /\ TypeOK
    /\ \A x \in Buffers :
         heap.leases[x] = Cardinality({d \in Docs : x \in Doc(d).pending})

\* As long as no close fails, every live document and vault is owned by the
\* session or by the operation under way: nothing waits for a finaliser.
NothingIsForgotten == count.failures = 0 => Forgotten = {}

\* An active session can read its document: nothing that is retired, exported,
\* aborted or replaced takes a lease, a key or a snapshot from under it.  (A
\* predecessor that cannot be closed in an edit does.)
LiveIsReadable ==
    Active /\ "edit" \notin harm =>
        /\ Readable(session.document)
        /\ Doc(session.document).vault = session.opened

\* A session without changes holds what its source held when it was opened,
\* saved or re-encrypted, or what its slot holds.
CleanIsPublished ==
    Active /\ ~session.changes =>
        \/ Content = session.base
        \/ session.suspended /\ (disk.slot # None => Content = disk.slot)

\* Between two service operations the session accepts edits and saves again,
\* however the operation ended, unless its frozen revision could not be closed
\* or the published one could not be compared.
NeverStaysFrozen ==
    Active /\ job = NoJob /\ harm \cap {"frozen", "finish"} = {} => session.frozen = None

\* Another program has written the source since the version the session goes by.
Overwritten == disk.foreign > session.baseline

\* A crash never costs a resumed session what its slot held, whichever save,
\* suspension or change of passphrase has failed, at whichever step.  The slot goes
\* only with a save of its content, or once another program has overwritten the
\* source; until then it is bound to the source as it is and can be resumed, or
\* the source holds everything in it but what the session has removed.  (The
\* service must not discard, rebind or outlive it in any other order: service.py
\* save, suspend and change_master_passphrase.)
SlotIsResumable ==
    Active /\ session.suspended /\ ~Overwritten =>
        /\ disk.slot # None
        /\ \/ disk.binding = disk.version
           \/ disk.slot \subseteq disk.source \cup session.removed

\* What is left behind by failing closes is wiped once nobody holds it.
SecretsAreWiped ==
    session = NoSession /\ job = NoJob ~> Alive = {} \/ session # NoSession \/ job # NoJob

-----------------------------------------------------------------------------
(* The inductive invariant *)

\* A document borrows from one vault, and the first one of a vault keeps it whole.
HeapOK(h) ==
    /\ h \in Heaps
    /\ \A d \in Docs :
         \/ ClosedDoc(h, d)
         \/ /\ h.doc[d].state # "closed"
            /\ h.doc[d].vault \in Vaults
            /\ h.doc[d].pending \cap Vaults \subseteq {h.doc[d].vault}
    /\ \A v \in Vaults : h.vault[v].doc # None =>
         /\ h.doc[h.vault[v].doc].vault = v
         /\ h.vault[v].keys
         /\ h.vault[v].snapshot
    /\ \A x \in Buffers : h.leases[x] = Cardinality(Holders(h, Docs, x))

Original(h, d) == \E v \in Vaults : h.vault[v].doc = d

\* A live session has a whole vault and documents of its own that borrow from it.
SessionOK ==
    /\ session.locked => session = [NoSession EXCEPT !.retired = session.retired]
    /\ Active =>
         /\ session.opened \in Vaults
         /\ Vault(session.opened).keys
         /\ Vault(session.opened).snapshot
         /\ session.document \in Docs
         /\ Doc(session.document).vault = session.opened
         /\ "edit" \notin harm => Doc(session.document).state = "open"
    /\ session.frozen # None =>
         /\ session.frozen # session.document
         /\ Doc(session.frozen).vault = session.opened
         /\ ~Original(heap, session.frozen)
         /\ "frozen" \notin harm => Doc(session.frozen).state = "open"

ExportDocs == IF job.kind = "export" THEN {job.doc, job.copy} \ {None} ELSE {}
JobVaults == {job.vault, job.source} \ {None}

\* What is retired is still alive and belongs to nobody else.
RetiredOK ==
    \A o \in session.retired :
        /\ ~ClosedOwner(heap, o)
        /\ o.kind = "vault" => o.id # session.opened /\ o.id \notin JobVaults
        /\ o.kind = "doc" =>
             /\ Doc(o.id).vault # session.opened
             /\ o.id \notin ExportDocs
             /\ \A v \in Vaults : Vault(v).doc = o.id => VaultOwner(v) \in session.retired

\* So do the copies of an export, and the vaults an operation has read, which
\* nothing has been forked from yet.
JobOwnsOK ==
    /\ \A d \in ExportDocs :
         /\ ~ClosedDoc(heap, d)
         /\ ~Original(heap, d)
         /\ d \notin {session.document, session.frozen}
    /\ \A v \in JobVaults :
         /\ v # session.opened
         /\ Vault(v).doc # None
         /\ Doc(Vault(v).doc).state = "open"
         /\ \A d \in Docs : Doc(d).vault = v => d = Vault(v).doc
    /\ job.vault # None => /\ job.vault # job.source
                           /\ Doc(Vault(job.vault).doc).content = job.content

Saving == job.kind \in {"save", "rotate", "suspend"}

Undecided ==
    \/ job.step \in {"write", "reopen", "publish", "finish", "capture"}
    \/ job.step = "end" /\ ~job.committed

\* Where an operation is, and what it then holds.
StepOK ==
    /\ job.kind = "none" <=> job = NoJob
    /\ job.kind = "none" <=> job.step = "none"
    /\ job.step \in {"source", "pending", "adopt"} => job.kind \in {"open", "resume"}
    /\ job.kind \in {"open", "resume"} => job.step \in {"source", "pending", "adopt", "end"}
    /\ job.step = "source" => job.kind = "resume"
    /\ job.step \in {"reopen", "finish"} => job.kind \in {"save", "rotate"}
    /\ job.step = "publish" => Saving
    /\ job.step = "capture" => job.kind = "suspend"
    /\ job.step = "cleanup" => job.kind = "save"
    /\ job.step = "copy" => job.kind = "export"
    /\ job.kind = "export" => job.step \in {"write", "copy", "end"}
    /\ job.doc # None <=> Saving \/ job.kind = "export"
    /\ job.copy # None => job.kind = "export" /\ job.step \in {"copy", "end"}
    /\ job.step = "copy" => job.copy # None
    /\ job.source # None => job.kind = "resume" /\ job.step # "source"
    /\ job.step \in {"adopt", "finish"} => job.vault # None
    /\ job.step = "publish" /\ job.kind # "suspend" => job.vault # None
    /\ job.vault # None =>
         /\ job.step \in {"adopt", "publish", "finish", "end"}
         /\ job.kind \notin {"suspend", "export"}
    /\ job.step \in {"write", "reopen", "publish", "capture"} => ~job.committed
    /\ job.step \in {"finish", "cleanup"} => job.committed

\* Opening and resuming leave the session and the slot as they found them.
OpeningOK ==
    job.kind \in {"open", "resume"} /\ job.step # "end" =>
        /\ session = NoSession
        /\ job.kind = "resume" => job.content = disk.slot /\ disk.binding = job.version

\* A revision is frozen exactly as long as the outcome of its save is open.
FrozenOK ==
    Active =>
        /\ Saving /\ Undecided => session.frozen = job.doc
        /\ session.frozen # None /\ harm \cap {"frozen", "finish"} = {} => Saving /\ Undecided

\* What is saved or suspended is the revision of the session.
WrittenOK ==
    Active /\ Saving =>
        /\ job.step = "write" => Doc(job.doc).content = Content
        /\ job.step \in {"reopen", "publish", "finish"} => job.content = Content

\* Versions grow, and those of another program are told apart: an operation goes by
\* the baseline of its session, and what it has published is still there, or the
\* source has been overwritten.
VersionOK ==
    /\ disk.foreign <= disk.version
    /\ session.baseline <= disk.version
    /\ job.version <= disk.version
    /\ Active /\ Saving /\ job.step \in {"write", "reopen", "publish", "capture"} =>
         job.version = session.baseline
    /\ job.step = "capture" => Unmoved \/ disk.foreign > job.version
    /\ job.step = "finish" => \/ Unmoved /\ disk.source = job.content
                              \/ disk.foreign > job.version

CleanOK ==
    /\ CleanIsPublished
    /\ Active /\ ~session.changes /\ job.step = "cleanup" => Content = session.base

\* The session still has what is in its slot, or has removed it itself.
SlotOK ==
    /\ SlotIsResumable
    /\ Active /\ session.suspended =>
         /\ disk.slot # None => disk.slot \subseteq Content \cup session.removed
         /\ job.step = "finish" => disk.slot # None

\* Without a failing close nothing is retired either, nor is a frozen revision
\* left to the service.
OwnedOK ==
    count.failures = 0 =>
        /\ session.retired = {}
        /\ Forgotten = {}
        /\ Saving => ClosedDoc(heap, job.doc) \/ session.frozen = job.doc

SessionInv ==
    /\ TypeOK
    /\ HeapOK(heap)
    /\ SessionOK
    /\ RetiredOK
    /\ JobOwnsOK
    /\ StepOK
    /\ OpeningOK
    /\ FrozenOK
    /\ WrittenOK
    /\ VersionOK
    /\ CleanOK
    /\ SlotOK
    /\ OwnedOK

=============================================================================
