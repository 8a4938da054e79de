-------------------------- MODULE VaultProcessProofs --------------------------
(***************************************************************************)
(* Proofs about VaultApplication and VaultProcess.  For any paths,         *)
(* writers, edits, versions and selectors, and with every modelled         *)
(* failure, VaultInv is an invariant of the vault lifecycle; it survives   *)
(* crashes and restarts at any moment, whatever other programs do          *)
(* meanwhile, and on it rest what a proper exit keeps and what a restarted *)
(* process may open.                                                       *)
(***************************************************************************)
EXTENDS VaultProcess, TLAPS

-----------------------------------------------------------------------------
(* Records and the live session *)

LEMMA EditedSession ==
  ASSUME NEW s \in VaultSession, NEW e \in Edits,
         NEW t, t = [s EXCEPT !.doc = @ \cup {e}, !.changed = TRUE]
  PROVE  /\ t \in VaultSession
         /\ t # None
         /\ t.path = s.path
         /\ t.base = s.base
         /\ t.doc = s.doc \cup {e}
         /\ t.selector = s.selector
         /\ t.changed = TRUE
<1>1. t = [path |-> s.path, base |-> s.base, doc |-> s.doc \cup {e},
           changed |-> TRUE, selector |-> s.selector]
  BY DEF VaultSession
<1>2. /\ s.path \in Paths /\ s.base \in Versions /\ s.doc \cup {e} \in SUBSET Edits
      /\ s.selector \in Selectors \cup {None}
  BY DEF VaultSession
<1>3. t \in VaultSession
  BY <1>1, <1>2 DEF VaultSession
<1> QED
  BY <1>1, <1>3, NoneAssumption

LEMMA SessionSaved ==
  ASSUME session \in VaultSession, NEW v \in Versions
  PROVE  /\ SavedSession(v) \in VaultSession
         /\ SavedSession(v) # None
         /\ SavedSession(v).path = session.path
         /\ SavedSession(v).base = v
         /\ SavedSession(v).doc = session.doc
         /\ SavedSession(v).selector = None
         /\ SavedSession(v).changed = FALSE
<1> SUFFICES ASSUME NEW t, t = SavedSession(v)
             PROVE  /\ t \in VaultSession /\ t # None
                    /\ t.path = session.path /\ t.base = v /\ t.doc = session.doc
                    /\ t.selector = None /\ t.changed = FALSE
  OBVIOUS
<1>1. t = [session EXCEPT !.base = v, !.changed = FALSE, !.selector = None]
  BY DEF SavedSession
<1>2. t = [path |-> session.path, base |-> v, doc |-> session.doc,
           changed |-> FALSE, selector |-> None]
  BY <1>1 DEF VaultSession
<1>3. session.path \in Paths /\ session.doc \in SUBSET Edits
  BY DEF VaultSession
<1>4. t \in VaultSession
  BY <1>2, <1>3 DEF VaultSession
<1>5. t # None
  BY <1>4, NoneAssumption
<1>6. t.path = session.path /\ t.base = v /\ t.doc = session.doc /\ t.selector = None /\ t.changed = FALSE
  BY <1>2
<1> QED
  BY <1>4, <1>5, <1>6

\* In a live phase the session, the locator and the pending identity agree.
LEMMA LiveFacts ==
  ASSUME VaultInv, phase \in Live
  PROVE  /\ session \in VaultSession
         /\ session # None
         /\ session.path \in Paths
         /\ session.base \in Versions
         /\ session.doc \in SUBSET Edits
         /\ session.selector \in Selectors \cup {None}
         /\ sourcePath = session.path
         /\ suspended = session.selector
         /\ file[session.path] \in VaultFile
         /\ file[session.path] # None
<1>1. session \in VaultSession /\ session # None
  BY DEF VaultInv, TypeOK, PhaseInv
<1>2. /\ session.path \in Paths /\ session.base \in Versions /\ session.doc \in SUBSET Edits
      /\ session.selector \in Selectors \cup {None}
  BY <1>1 DEF VaultSession
<1> QED
  BY <1>1, <1>2 DEF VaultInv, TypeOK, SelectorAgreement, SourceExists

LEMMA FileFacts ==
  ASSUME NEW f \in VaultFile
  PROVE  f # None /\ f.doc \in SUBSET Edits /\ f.version \in Versions
BY NoneAssumption DEF VaultFile

LEMMA SlotFacts ==
  ASSUME NEW f \in PendingSlot
  PROVE  f # None /\ f.doc \in SUBSET Edits /\ f.base \in Versions /\ f.id \in Selectors
BY NoneAssumption DEF PendingSlot

LEMMA NewFile ==
  ASSUME NEW d \in SUBSET Edits, NEW v \in Versions
  PROVE  [doc |-> d, version |-> v] \in VaultFile
BY DEF VaultFile

LEMMA NewSlot ==
  ASSUME NEW id \in Selectors, NEW d \in SUBSET Edits, NEW v \in Versions
  PROVE  [id |-> id, doc |-> d, base |-> v] \in PendingSlot
BY DEF PendingSlot

LEMMA NewReplaceWork ==
  ASSUME NEW r \in Replacement, NEW w, w = [op |-> "replace", replacement |-> r]
  PROVE  w \in Continuation /\ w # None /\ w.op = "replace"
<1>1. w \in [op : {"replace"}, replacement : Replacement]
  OBVIOUS
<1> QED
  BY <1>1, NoneAssumption DEF Continuation

LEMMA NewSuspendWork ==
  ASSUME NEW id \in Selectors, NEW w, w = [op |-> "suspend", selector |-> id]
  PROVE  w \in Continuation /\ w # None /\ w.op = "suspend" /\ w.selector = id
<1>1. w \in [op : {"suspend"}, selector : Selectors]
  OBVIOUS
<1> QED
  BY <1>1, NoneAssumption DEF Continuation

-----------------------------------------------------------------------------
(* Initial states *)

LEMMA InitInv == Init => VaultInv
<1> SUFFICES ASSUME Init PROVE VaultInv
  OBVIOUS
<1>1. TypeOK
  BY NoneAssumption DEF Init, TypeOK, Phases, VaultFile
<1>2. /\ PhaseInv /\ SelectorAgreement /\ SourceExists /\ BasedOnSource /\ BasedOnSlot
      /\ CleanIsSaved /\ SuspendPublished /\ NoSilentLoss
  BY DEF Init, PhaseInv, Live, SelectorAgreement, SourceExists, BasedOnSource, BasedOnSlot,
         CleanIsSaved, SuspendPublished, NoSilentLoss, Replacing, Suspending
<1> QED
  BY <1>1, <1>2 DEF VaultInv

-----------------------------------------------------------------------------
(* Editing *)

LEMMA CommitEditInv ==
  ASSUME VaultInv, NEW e \in Edits, CommitEdit(e)
  PROVE  VaultInv'
<1> DEFINE edited == [session EXCEPT !.doc = @ \cup {e}, !.changed = TRUE]
<1>a. phase \in {"UNLOCKED_CLEAN", "UNLOCKED_DIRTY"} /\ work = None /\ decision = None
  BY DEF CommitEdit, Unlocked, VaultInv, TypeOK
<1>b. phase \in Live
  BY <1>a DEF Live
<1>c. /\ edited \in VaultSession
      /\ edited # None
      /\ edited.path = session.path
      /\ edited.base = session.base
      /\ edited.doc = session.doc \cup {e}
      /\ edited.selector = session.selector
      /\ edited.changed = TRUE
  BY <1>b, LiveFacts, EditedSession
<1>d. /\ UNCHANGED <<sourcePath, suspended, decision, work, file, slot>>
      /\ ~Held(e) /\ e \notin owed
      /\ \/ phase' = "UNLOCKED_DIRTY" /\ session' = edited /\ owed' = owed \cup {e}
         \/ phase' = phase /\ session' = edited /\ owed' = owed /\ ViewFails
         \/ /\ phase' = "LOCKED" /\ session' = None
            /\ owed' = owed \ (Unsaved(session.doc, session.path) \ DocOf(slot[session.path]))
  BY DEF CommitEdit, FreshEdit, disk
<1> HIDE DEF edited
<1> USE DEF VaultInv
<1>1. TypeOK'
  BY <1>a, <1>b, <1>c, <1>d, LiveFacts DEF TypeOK, Phases
<1>2. PhaseInv'
  BY <1>a, <1>b, <1>c, <1>d, LiveFacts DEF PhaseInv, Live, Dirty, Replacing, Suspending
<1>3. SelectorAgreement'
  BY <1>a, <1>b, <1>c, <1>d, LiveFacts DEF SelectorAgreement
<1>4. SourceExists'
  BY <1>a, <1>b, <1>c, <1>d, LiveFacts DEF SourceExists
<1>5. BasedOnSource'
  BY <1>a, <1>b, <1>c, <1>d, LiveFacts DEF BasedOnSource
<1>6. BasedOnSlot'
  BY <1>a, <1>b, <1>c, <1>d, LiveFacts DEF BasedOnSlot
<1>7. CleanIsSaved'
  BY <1>a, <1>b, <1>c, <1>d, LiveFacts DEF CleanIsSaved, Replacing
<1>8. SuspendPublished'
  BY <1>a, <1>b, <1>c, <1>d, LiveFacts DEF SuspendPublished, Suspending, SlotIs
<1>9. NoSilentLoss'
  BY <1>a, <1>b, <1>c, <1>d, LiveFacts DEF NoSilentLoss, Held, DocOf, Unsaved
<1> QED
  BY <1>1, <1>2, <1>3, <1>4, <1>5, <1>6, <1>7, <1>8, <1>9

LEMMA SetSearchInv ==
  ASSUME VaultInv, SetSearch
  PROVE  VaultInv'
<1>a. /\ phase \in {"UNLOCKED_CLEAN", "UNLOCKED_DIRTY"} /\ phase \in Live
      /\ phase' = IF Dirty(session) THEN "UNLOCKED_DIRTY" ELSE "UNLOCKED_CLEAN"
      /\ UNCHANGED <<session, sourcePath, suspended, decision, work, file, slot, owed>>
  BY DEF SetSearch, Unlocked, disk, Live
<1> USE DEF VaultInv
<1>1. TypeOK'
  BY <1>a DEF TypeOK, Phases
<1>2. PhaseInv'
  BY <1>a DEF PhaseInv, Live, Dirty, Replacing, Suspending
<1>3. SelectorAgreement'
  BY <1>a DEF SelectorAgreement
<1>4. SourceExists'
  BY <1>a DEF SourceExists
<1>5. BasedOnSource'
  BY <1>a DEF BasedOnSource
<1>6. BasedOnSlot'
  BY <1>a DEF BasedOnSlot
<1>7. CleanIsSaved'
  BY <1>a DEF CleanIsSaved, Replacing, PhaseInv
<1>8. SuspendPublished'
  BY <1>a DEF SuspendPublished, Suspending, SlotIs
<1>9. NoSilentLoss'
  BY <1>a DEF NoSilentLoss, Held, DocOf
<1> QED
  BY <1>1, <1>2, <1>3, <1>4, <1>5, <1>6, <1>7, <1>8, <1>9

-----------------------------------------------------------------------------
(* Save and close *)

\* Publishing the session over its source, with or without the removal of the
\* slot it was resumed from, keeps what the disk must satisfy and keeps every
\* owed edit on disk or in a session with the same document.
LEMMA SaveEffect ==
  ASSUME VaultInv, phase \in Live, NEW v \in Versions, SourcePublished(v),
         \/ UNCHANGED slot
         \/ session.selector # None /\ PendingDiscarded(session.path, session.selector)
  PROVE  /\ file' \in [Paths -> VaultFile \cup {None}]
         /\ slot' \in [Paths -> PendingSlot \cup {None}]
         /\ file'[session.path] = [doc |-> session.doc, version |-> v]
         /\ file'[session.path] # None
         /\ \A p \in Paths : slot'[p] # None => file'[p] # None
         /\ \A p \in Paths : slot'[p] # None /\ slot'[p].base = file'[p].version
               => file'[p].doc \subseteq slot'[p].doc
         /\ \A e \in owed : \E p \in Paths : e \in DocOf(file'[p]) \/ e \in DocOf(slot'[p])
<1> DEFINE new == [doc |-> session.doc, version |-> v]
<1>1. new \in VaultFile /\ new # None /\ new.doc = session.doc /\ new.version = v
  BY LiveFacts, NewFile, FileFacts
<1>2. /\ file \in [Paths -> VaultFile \cup {None}] /\ slot \in [Paths -> PendingSlot \cup {None}]
      /\ file' = [file EXCEPT ![session.path] = new]
      /\ session.path \in Paths
  BY LiveFacts DEF SourcePublished, VaultInv, TypeOK
<1> HIDE DEF new
<1>3. file' \in [Paths -> VaultFile \cup {None}] /\ file'[session.path] = new
      /\ \A p \in Paths : p # session.path => file'[p] = file[p]
  BY <1>1, <1>2
<1>4. /\ slot' \in [Paths -> PendingSlot \cup {None}]
      /\ \A p \in Paths : \/ slot'[p] = slot[p]
                          \/ /\ p = session.path
                             /\ slot'[p] = None /\ slot[p] # None /\ slot[p].id = session.selector
  <2>1. CASE UNCHANGED slot
    BY <2>1, <1>2
  <2>2. CASE PendingDiscarded(session.path, session.selector)
    BY <2>2, <1>2 DEF PendingDiscarded, SlotIs
  <2> QED
    BY <2>1, <2>2
<1>5. \A p \in Paths : slot'[p] # None => file'[p] # None
  BY <1>1, <1>3, <1>4 DEF VaultInv, SourceExists
<1>6. slot[session.path] # None => v # slot[session.path].base
  BY DEF SourcePublished, FreshVersion
<1>7. \A p \in Paths : slot'[p] # None /\ slot'[p].base = file'[p].version
               => file'[p].doc \subseteq slot'[p].doc
  BY <1>1, <1>3, <1>4, <1>6 DEF VaultInv, BasedOnSource
<1>8. file[session.path].doc \subseteq session.doc
  BY LiveFacts DEF SourcePublished, SourceUnchanged, VaultInv, BasedOnSource
<1>9. slot[session.path] # None /\ slot[session.path].id = session.selector
         => slot[session.path].doc \subseteq session.doc
  BY LiveFacts DEF VaultInv, BasedOnSlot
<1>10. \A e \in owed : \E p \in Paths : e \in DocOf(file'[p]) \/ e \in DocOf(slot'[p])
  <2> SUFFICES ASSUME NEW e \in owed
               PROVE  \E p \in Paths : e \in DocOf(file'[p]) \/ e \in DocOf(slot'[p])
    OBVIOUS
  <2>1. CASE e \in session.doc
    BY <2>1, <1>1, <1>2, <1>3 DEF DocOf
  <2>2. CASE e \notin session.doc
    <3>1. PICK p \in Paths : e \in DocOf(file[p]) \/ e \in DocOf(slot[p])
      BY <2>2, LiveFacts DEF VaultInv, NoSilentLoss, Held, DocOf
    <3>2. e \in DocOf(file[p]) => p # session.path /\ file'[p] = file[p]
      BY <2>2, <1>3, <1>8, LiveFacts DEF DocOf
    <3>3. e \in DocOf(slot[p]) => slot'[p] = slot[p]
      BY <2>2, <1>4, <1>9 DEF DocOf
    <3> QED
      BY <3>1, <3>2, <3>3
  <2> QED
    BY <2>1, <2>2
<1> QED
  BY <1>1, <1>2, <1>3, <1>4, <1>5, <1>7, <1>10 DEF new

\* A command that ends in GoLocked after the source was published.
LEMMA SaveCommittedInv ==
  ASSUME VaultInv, phase \in Live, NEW v \in Versions, ServiceSaveCommitted(v), GoLocked,
         UNCHANGED <<sourcePath, owed>>
  PROVE  VaultInv'
<1>a. /\ SourcePublished(v)
      /\ \/ UNCHANGED slot
         \/ session.selector # None /\ PendingDiscarded(session.path, session.selector)
      /\ suspended' \in Selectors \cup {None}
  BY LiveFacts DEF ServiceSaveCommitted, ServiceSaved, PendingDiscardFails
<1>b. /\ file' \in [Paths -> VaultFile \cup {None}]
      /\ slot' \in [Paths -> PendingSlot \cup {None}]
      /\ \A p \in Paths : slot'[p] # None => file'[p] # None
      /\ \A p \in Paths : slot'[p] # None /\ slot'[p].base = file'[p].version
            => file'[p].doc \subseteq slot'[p].doc
      /\ \A e \in owed : \E p \in Paths : e \in DocOf(file'[p]) \/ e \in DocOf(slot'[p])
  BY <1>a, SaveEffect
<1>c. phase' = "LOCKED" /\ session' = None /\ decision' = None /\ work' = None
      /\ sourcePath' = sourcePath /\ owed' = owed /\ sourcePath \in Paths
  BY LiveFacts DEF GoLocked
<1> USE DEF VaultInv
<1>1. TypeOK'
  BY <1>a, <1>b, <1>c DEF TypeOK, Phases
<1>2. PhaseInv'
  BY <1>a, <1>b, <1>c, NoneAssumption DEF PhaseInv, Live, Dirty, Replacing, Suspending
<1>3. SelectorAgreement'
  BY <1>a, <1>b, <1>c DEF SelectorAgreement
<1>4. SourceExists'
  BY <1>a, <1>b, <1>c DEF SourceExists
<1>5. BasedOnSource'
  BY <1>a, <1>b, <1>c DEF BasedOnSource
<1>6. BasedOnSlot'
  BY <1>a, <1>b, <1>c DEF BasedOnSlot
<1>7. CleanIsSaved'
  BY <1>a, <1>b, <1>c DEF CleanIsSaved, Replacing
<1>8. SuspendPublished'
  BY <1>a, <1>b, <1>c DEF SuspendPublished, Suspending, SlotIs
<1>9. NoSilentLoss'
  BY <1>a, <1>b, <1>c DEF NoSilentLoss, Held, DocOf
<1> QED
  BY <1>1, <1>2, <1>3, <1>4, <1>5, <1>6, <1>7, <1>8, <1>9

\* A command that goes on with the saved session, in a clean phase.
LEMMA SavedInv ==
  ASSUME VaultInv, phase \in Live, NEW v \in Versions, ServiceSaved(v),
         session' = SavedSession(v), suspended' = None, UNCHANGED <<sourcePath, owed>>,
         \/ phase' = "UNLOCKED_CLEAN" /\ work' = None /\ decision' = None
         \/ /\ phase' = "BUSY" /\ decision' = None
            /\ \E r \in Replacement : work' = [op |-> "replace", replacement |-> r]
  PROVE  VaultInv'
<1>a. /\ SourcePublished(v)
      /\ \/ UNCHANGED slot /\ session.selector = None
         \/ session.selector # None /\ PendingDiscarded(session.path, session.selector)
  BY DEF ServiceSaved
<1>b. /\ file' \in [Paths -> VaultFile \cup {None}]
      /\ slot' \in [Paths -> PendingSlot \cup {None}]
      /\ file'[session.path] = [doc |-> session.doc, version |-> v]
      /\ file'[session.path] # None
      /\ \A p \in Paths : slot'[p] # None => file'[p] # None
      /\ \A p \in Paths : slot'[p] # None /\ slot'[p].base = file'[p].version
            => file'[p].doc \subseteq slot'[p].doc
      /\ \A e \in owed : \E p \in Paths : e \in DocOf(file'[p]) \/ e \in DocOf(slot'[p])
  BY <1>a, SaveEffect
<1>c. /\ session' \in VaultSession
      /\ session' # None
      /\ session'.path = session.path
      /\ session'.base = v
      /\ session'.doc = session.doc
      /\ session'.selector = None
      /\ session'.changed = FALSE
  BY LiveFacts, SessionSaved
<1>d. /\ work' \in Continuation \cup {None}
      /\ work' # None <=> phase' = "BUSY"
      /\ phase' = "BUSY" => work'.op = "replace"
      /\ phase' \in {"UNLOCKED_CLEAN", "BUSY"}
      /\ decision' = None
  <2>1. CASE phase' = "BUSY"
    <3>1. decision' = None /\ \E r \in Replacement : work' = [op |-> "replace", replacement |-> r]
      BY <2>1
    <3>2. PICK r \in Replacement : work' = [op |-> "replace", replacement |-> r]
      BY <3>1
    <3>3. work' \in Continuation /\ work' # None /\ work'.op = "replace"
      BY <3>2, NewReplaceWork
    <3> QED
      BY <2>1, <3>1, <3>3
  <2>2. CASE phase' = "UNLOCKED_CLEAN"
    BY <2>2
  <2> QED
    BY <2>1, <2>2
<1>e. sourcePath' = sourcePath /\ sourcePath = session.path /\ sourcePath \in Paths
      /\ owed' = owed /\ suspended' = None
  BY LiveFacts
<1>f. \A p \in Paths : slot'[p] # None => slot'[p].id # None
  BY <1>b, SlotFacts, NoneAssumption
<1> USE DEF VaultInv
<1>1. TypeOK'
  BY <1>b, <1>c, <1>d, <1>e DEF TypeOK, Phases
<1>2. PhaseInv'
  BY <1>b, <1>c, <1>d, <1>e, NoneAssumption DEF PhaseInv, Live, Dirty, Replacing, Suspending
<1>3. SelectorAgreement'
  BY <1>b, <1>c, <1>d, <1>e DEF SelectorAgreement
<1>4. SourceExists'
  BY <1>b, <1>c, <1>d, <1>e DEF SourceExists
<1>5. BasedOnSource'
  BY <1>b, <1>c, <1>d, <1>e DEF BasedOnSource
<1>6. BasedOnSlot'
  BY <1>b, <1>c, <1>d, <1>e, <1>f DEF BasedOnSlot
<1>7. CleanIsSaved'
  BY <1>b, <1>c, <1>d, <1>e DEF CleanIsSaved, Replacing
<1>8. SuspendPublished'
  BY <1>b, <1>c, <1>d, <1>e DEF SuspendPublished, Suspending, SlotIs
<1>9. NoSilentLoss'
  BY <1>b, <1>c, <1>d, <1>e DEF NoSilentLoss, Held, DocOf
<1> QED
  BY <1>1, <1>2, <1>3, <1>4, <1>5, <1>6, <1>7, <1>8, <1>9

LEMMA SaveInv ==
  ASSUME VaultInv, Save
  PROVE  VaultInv'
<1>1. phase \in Live /\ work = None /\ decision = None
  BY DEF Save, Unlocked, Live, VaultInv, TypeOK
<1>2. PICK v \in Versions :
         \/ /\ ServiceSaved(v) /\ session' = SavedSession(v) /\ phase' = "UNLOCKED_CLEAN"
            /\ suspended' = None /\ UNCHANGED <<decision, work>>
         \/ ServiceSaveCommitted(v) /\ GoLocked
  BY DEF Save
<1>3. UNCHANGED <<sourcePath, owed>>
  BY DEF Save
<1> QED
  BY <1>1, <1>2, <1>3, SavedInv, SaveCommittedInv

LEMMA ResolveCloseSaveInv ==
  ASSUME VaultInv, ResolveCloseSave
  PROVE  VaultInv'
<1>1. phase \in Live
  BY DEF ResolveCloseSave, Live
<1> QED
  BY <1>1, SaveCommittedInv DEF ResolveCloseSave

LEMMA ResolveReplaceSaveInv ==
  ASSUME VaultInv, ResolveReplaceSave
  PROVE  VaultInv'
<1>1. phase \in Live /\ decision.replacement \in Replacement
  BY DEF ResolveReplaceSave, Live, VaultInv, TypeOK, PendingDecision
<1>2. PICK v \in Versions :
         \/ /\ ServiceSaved(v) /\ session' = SavedSession(v) /\ suspended' = None
            /\ phase' = "BUSY" /\ decision' = None
            /\ work' = [op |-> "replace", replacement |-> decision.replacement]
         \/ ServiceSaveCommitted(v) /\ GoLocked
  BY DEF ResolveReplaceSave
<1>3. UNCHANGED <<sourcePath, owed>>
  BY DEF ResolveReplaceSave
<1> QED
  BY <1>1, <1>2, <1>3, SavedInv, SaveCommittedInv

LEMMA RequestCloseInv ==
  ASSUME VaultInv, RequestClose
  PROVE  VaultInv'
<1>a. /\ phase \in {"UNLOCKED_CLEAN", "UNLOCKED_DIRTY"} /\ phase \in Live
      /\ work = None /\ decision = None
      /\ UNCHANGED <<sourcePath, suspended, file, slot, owed>>
      /\ \/ /\ phase = "UNLOCKED_DIRTY" /\ phase' = "AWAITING_DECISION"
            /\ decision' = [replacement |-> None]
            /\ UNCHANGED <<session, work>>
         \/ /\ phase = "UNLOCKED_CLEAN" /\ phase' = "LOCKED"
            /\ session' = None /\ decision' = None /\ work' = None
  BY DEF RequestClose, Unlocked, Live, Await, GoLocked, VaultInv, TypeOK, disk
<1>b. [replacement |-> None] \in PendingDecision /\ [replacement |-> None] # None
  BY NoneAssumption DEF PendingDecision
<1> USE DEF VaultInv
<1>1. TypeOK'
  BY <1>a, <1>b, LiveFacts DEF TypeOK, Phases
<1>2. PhaseInv'
  BY <1>a, <1>b, LiveFacts DEF PhaseInv, Live, Dirty, Replacing, Suspending
<1>3. SelectorAgreement'
  BY <1>a, <1>b, LiveFacts DEF SelectorAgreement
<1>4. SourceExists'
  BY <1>a, <1>b, LiveFacts DEF SourceExists
<1>5. BasedOnSource'
  BY <1>a, <1>b, LiveFacts DEF BasedOnSource
<1>6. BasedOnSlot'
  BY <1>a, <1>b, LiveFacts DEF BasedOnSlot
<1>7. CleanIsSaved'
  BY <1>a, <1>b, LiveFacts DEF CleanIsSaved, Replacing
<1>8. SuspendPublished'
  BY <1>a, <1>b, LiveFacts DEF SuspendPublished, Suspending, SlotIs
<1>9. NoSilentLoss'
  BY <1>a, <1>b, LiveFacts DEF NoSilentLoss, Held, DocOf, CleanIsSaved
<1> QED
  BY <1>1, <1>2, <1>3, <1>4, <1>5, <1>6, <1>7, <1>8, <1>9

LEMMA AwaitReplacementInv ==
  ASSUME VaultInv, NEW r \in Replacement, phase = "UNLOCKED_DIRTY", Await(r)
  PROVE  VaultInv'
<1>a. /\ phase' = "AWAITING_DECISION" /\ decision' = [replacement |-> r]
      /\ UNCHANGED <<session, sourcePath, suspended, work, file, slot, owed>>
      /\ work = None
  BY DEF Await, VaultInv, TypeOK, disk
<1>b. [replacement |-> r] \in PendingDecision /\ [replacement |-> r] # None
  BY NoneAssumption DEF PendingDecision
<1> USE DEF VaultInv
<1>1. TypeOK'
  BY <1>a, <1>b DEF TypeOK, Phases
<1>2. PhaseInv'
  BY <1>a, <1>b DEF PhaseInv, Live, Dirty, Replacing, Suspending
<1>3. SelectorAgreement'
  BY <1>a, <1>b DEF SelectorAgreement
<1>4. SourceExists'
  BY <1>a, <1>b DEF SourceExists
<1>5. BasedOnSource'
  BY <1>a, <1>b DEF BasedOnSource
<1>6. BasedOnSlot'
  BY <1>a, <1>b DEF BasedOnSlot
<1>7. CleanIsSaved'
  BY <1>a, <1>b DEF CleanIsSaved, Replacing
<1>8. SuspendPublished'
  BY <1>a, <1>b DEF SuspendPublished, Suspending, SlotIs
<1>9. NoSilentLoss'
  BY <1>a, <1>b DEF NoSilentLoss, Held, DocOf
<1> QED
  BY <1>1, <1>2, <1>3, <1>4, <1>5, <1>6, <1>7, <1>8, <1>9

\* Cancelling a decision, or failing before the commit of a save it allowed.
LEMMA ResolveCancelInv ==
  ASSUME VaultInv, ResolveCancel \/ ResolveSaveFails
  PROVE  VaultInv'
<1>a. /\ phase = "AWAITING_DECISION" /\ phase' = "UNLOCKED_DIRTY" /\ decision' = None
      /\ work' = None
      /\ UNCHANGED <<session, sourcePath, suspended, file, slot, owed>>
  BY DEF ResolveCancel, ResolveSaveFails, Restore, disk
<1> USE DEF VaultInv
<1>1. TypeOK'
  BY <1>a DEF TypeOK, Phases
<1>2. PhaseInv'
  BY <1>a DEF PhaseInv, Live, Dirty, Replacing, Suspending
<1>3. SelectorAgreement'
  BY <1>a DEF SelectorAgreement
<1>4. SourceExists'
  BY <1>a DEF SourceExists
<1>5. BasedOnSource'
  BY <1>a DEF BasedOnSource
<1>6. BasedOnSlot'
  BY <1>a DEF BasedOnSlot
<1>7. CleanIsSaved'
  BY <1>a DEF CleanIsSaved, Replacing
<1>8. SuspendPublished'
  BY <1>a DEF SuspendPublished, Suspending, SlotIs
<1>9. NoSilentLoss'
  BY <1>a DEF NoSilentLoss, Held, DocOf
<1> QED
  BY <1>1, <1>2, <1>3, <1>4, <1>5, <1>6, <1>7, <1>8, <1>9

\* The old slot is discarded together with the session that contains it.
LEMMA SlotOfSession ==
  ASSUME VaultInv, phase \in Live, PendingDiscarded(session.path, session.selector)
  PROVE  /\ slot' \in [Paths -> PendingSlot \cup {None}]
         /\ slot[session.path] # None
         /\ slot[session.path].id = session.selector
         /\ slot[session.path].doc \subseteq session.doc
         /\ slot'[session.path] = None
         /\ \A p \in Paths : p # session.path => slot'[p] = slot[p]
<1>1. slot \in [Paths -> PendingSlot \cup {None}] /\ session.path \in Paths /\ session # None
  BY LiveFacts DEF VaultInv, TypeOK
<1> QED
  BY <1>1 DEF PendingDiscarded, SlotIs, VaultInv, BasedOnSlot

\* What retiring a session does to the slots: nothing, or its own one is gone.
LEMMA RetiredSlot ==
  ASSUME VaultInv, phase \in Live,
         \/ UNCHANGED slot
         \/ PendingDiscarded(session.path, session.selector)
  PROVE  /\ slot' \in [Paths -> PendingSlot \cup {None}]
         /\ \A p \in Paths : slot'[p] # None => slot'[p] = slot[p]
         /\ \A p \in Paths, e \in Edits :
               e \in DocOf(slot[p]) => e \in DocOf(session) \/ e \in DocOf(slot'[p])
<1>1. CASE UNCHANGED slot
  BY <1>1 DEF VaultInv, TypeOK
<1>2. CASE PendingDiscarded(session.path, session.selector)
  BY <1>2, SlotOfSession, LiveFacts DEF DocOf
<1> QED
  BY <1>1, <1>2

LEMMA ResolveCloseDiscardInv ==
  ASSUME VaultInv, ResolveCloseDiscard
  PROVE  VaultInv'
<1>a. /\ phase \in Live /\ phase' = "LOCKED" /\ session' = None /\ decision' = None /\ work' = None
      /\ owed' = owed \ Unsaved(session.doc, session.path)
      /\ UNCHANGED <<sourcePath, file>>
      /\ suspended' \in {suspended, None}
      /\ \/ UNCHANGED slot
         \/ PendingDiscarded(sourcePath, suspended)
  BY DEF ResolveCloseDiscard, GoLocked, Live, PendingDiscardFails
<1>b. /\ slot' \in [Paths -> PendingSlot \cup {None}]
      /\ \A p \in Paths : slot'[p] # None => slot'[p] = slot[p]
      /\ \A p \in Paths, e \in Edits :
               e \in DocOf(slot[p]) => e \in DocOf(session) \/ e \in DocOf(slot'[p])
  BY <1>a, LiveFacts, RetiredSlot
<1> USE DEF VaultInv
<1>1. TypeOK'
  BY <1>a, <1>b, LiveFacts DEF TypeOK, Phases
<1>2. PhaseInv'
  BY <1>a, <1>b, LiveFacts DEF PhaseInv, Live, Dirty, Replacing, Suspending
<1>3. SelectorAgreement'
  BY <1>a, <1>b, LiveFacts DEF SelectorAgreement
<1>4. SourceExists'
  BY <1>a, <1>b, LiveFacts DEF SourceExists
<1>5. BasedOnSource'
  BY <1>a, <1>b, LiveFacts DEF BasedOnSource
<1>6. BasedOnSlot'
  BY <1>a, <1>b, LiveFacts DEF BasedOnSlot
<1>7. CleanIsSaved'
  BY <1>a, <1>b, LiveFacts DEF CleanIsSaved, Replacing
<1>8. SuspendPublished'
  BY <1>a, <1>b, LiveFacts DEF SuspendPublished, Suspending, SlotIs
<1>9. NoSilentLoss'
  BY <1>a, <1>b, LiveFacts DEF NoSilentLoss, Held, DocOf, Unsaved, TypeOK
<1> QED
  BY <1>1, <1>2, <1>3, <1>4, <1>5, <1>6, <1>7, <1>8, <1>9

-----------------------------------------------------------------------------
(* Create, open and replace *)

\* The steps of RunReplacement that leave the session alone.
LEMMA RestoreInv ==
  ASSUME VaultInv, NEW prior, Restore(prior), UNCHANGED <<slot, owed>>,
         file' \in [Paths -> VaultFile \cup {None}],
         \A p \in Paths : file[p] # None => file'[p] = file[p],
         prior \in {"EMPTY", "UNLOCKED_CLEAN", "UNLOCKED_DIRTY", "LOCKED"},
         session # None <=> prior \in Live,
         prior # "EMPTY" => sourcePath # None,
         prior = "UNLOCKED_DIRTY" => Dirty(session),
         prior = "UNLOCKED_CLEAN" /\ ~ViewFails => ~Dirty(session),
         prior = "UNLOCKED_CLEAN" => session.doc \cap owed \subseteq file[session.path].doc
  PROVE  VaultInv'
<1>a. phase' = prior /\ decision' = None /\ work' = None
      /\ UNCHANGED <<session, sourcePath, suspended>>
  BY DEF Restore
<1>b. session # None => file'[session.path] = file[session.path] /\ session.path \in Paths
  BY DEF VaultInv, TypeOK, SourceExists, VaultSession
<1> USE DEF VaultInv
<1>1. TypeOK'
  BY <1>a, <1>b DEF TypeOK, Phases
<1>2. PhaseInv'
  BY <1>a, <1>b DEF PhaseInv, Live, Dirty, Replacing, Suspending
<1>3. SelectorAgreement'
  BY <1>a, <1>b DEF SelectorAgreement
<1>4. SourceExists'
  BY <1>a, <1>b DEF SourceExists
<1>5. BasedOnSource'
  BY <1>a, <1>b DEF BasedOnSource, SourceExists
<1>6. BasedOnSlot'
  BY <1>a, <1>b DEF BasedOnSlot
<1>7. CleanIsSaved'
  BY <1>a, <1>b DEF CleanIsSaved, Replacing, Live
<1>8. SuspendPublished'
  BY <1>a, <1>b DEF SuspendPublished, Suspending, SlotIs
<1>9. NoSilentLoss'
  BY <1>a, <1>b DEF NoSilentLoss, Held, DocOf
<1> QED
  BY <1>1, <1>2, <1>3, <1>4, <1>5, <1>6, <1>7, <1>8, <1>9

\* Retiring the old session for an authenticated candidate.
LEMMA RetireAndAdoptInv ==
  ASSUME VaultInv, NEW candidate \in VaultSession, NEW conceded,
         RetireAndAdopt(candidate, conceded),
         file' \in [Paths -> VaultFile \cup {None}],
         \A p \in Paths : file[p] # None => file'[p] = file[p],
         file'[candidate.path] # None,
         candidate.doc = file'[candidate.path].doc,
         candidate.changed = FALSE, candidate.selector = None,
         \/ session = None
         \/ phase \in Live /\ session.doc \cap (owed \ conceded) \subseteq file[session.path].doc
  PROVE  VaultInv'
<1>a. candidate # None /\ candidate.path \in Paths
  BY NoneAssumption DEF VaultSession
<1>b. /\ slot' \in [Paths -> PendingSlot \cup {None}]
      /\ \A p \in Paths : slot'[p] # None => slot'[p] = slot[p]
      /\ \A p \in Paths, e \in Edits :
               e \in DocOf(slot[p]) => e \in DocOf(session) \/ e \in DocOf(slot'[p])
  <2>1. CASE session = None
    <3>1. UNCHANGED slot
      BY <2>1 DEF RetireAndAdopt
    <3> QED
      BY <3>1 DEF VaultInv, TypeOK
  <2>2. CASE session # None
    <3>1. UNCHANGED slot \/ PendingDiscarded(sourcePath, suspended)
      BY <2>2 DEF RetireAndAdopt, PendingDiscardFails
    <3>2. phase \in Live
      BY <2>2
    <3>3. UNCHANGED slot \/ PendingDiscarded(session.path, session.selector)
      BY <3>1, <3>2, LiveFacts
    <3> QED
      BY <2>2, <3>2, <3>3, RetiredSlot
  <2> QED
    BY <2>1, <2>2
<1>c. owed' = (IF session = None THEN owed ELSE owed \ conceded)
  BY DEF RetireAndAdopt
<1>d. \/ /\ phase' = "UNLOCKED_CLEAN" /\ session' = candidate /\ sourcePath' = candidate.path
         /\ suspended' = None
      \/ /\ phase' = "LOCKED" /\ session' = None /\ sourcePath' = sourcePath
         /\ suspended' \in {None, suspended}
         /\ session # None
  BY DEF RetireAndAdopt, Adopt, GoLocked
<1>e. decision' = None /\ work' = None
  BY DEF RetireAndAdopt, Adopt, GoLocked
<1>f. session # None => /\ session.path \in Paths /\ file'[session.path] = file[session.path]
                        /\ sourcePath = session.path
                        /\ session.doc \cap (owed \ conceded) \subseteq file[session.path].doc
                        /\ file[session.path] # None
  BY LiveFacts
<1>g. \A p \in Paths : slot'[p] # None => slot'[p].id # None
  BY <1>b, SlotFacts, NoneAssumption
<1>h. ASSUME NEW e \in owed'
      PROVE  \E p \in Paths : e \in DocOf(file'[p]) \/ e \in DocOf(slot'[p])
  <2>1. e \in owed /\ e \in Edits /\ (session # None => e \notin conceded)
    BY <1>c, <1>h DEF VaultInv, TypeOK
  <2>2. CASE session # None /\ e \in session.doc
    BY <2>1, <2>2, <1>f DEF DocOf
  <2>3. CASE ~(session # None /\ e \in session.doc)
    <3>1. e \notin DocOf(session)
      BY <2>3 DEF DocOf
    <3>2. PICK p \in Paths : e \in DocOf(file[p]) \/ e \in DocOf(slot[p])
      BY <2>1, <3>1 DEF VaultInv, NoSilentLoss, Held
    <3>3. e \in DocOf(file[p]) => e \in DocOf(file'[p])
      BY DEF DocOf
    <3>4. e \in DocOf(slot[p]) => e \in DocOf(slot'[p])
      BY <2>1, <3>1, <1>b
    <3> QED
      BY <3>2, <3>3, <3>4
  <2> QED
    BY <2>2, <2>3
<1> USE DEF VaultInv
<1>1. TypeOK'
  BY <1>a, <1>b, <1>c, <1>d, <1>e, <1>f DEF TypeOK, Phases
<1>2. PhaseInv'
  BY <1>a, <1>b, <1>c, <1>d, <1>e, <1>f, NoneAssumption DEF PhaseInv, Live, Dirty, Replacing, Suspending
<1>3. SelectorAgreement'
  BY <1>a, <1>b, <1>c, <1>d, <1>e, <1>f DEF SelectorAgreement
<1>4. SourceExists'
  BY <1>a, <1>b, <1>c, <1>d, <1>e, <1>f DEF SourceExists
<1>5. BasedOnSource'
  BY <1>a, <1>b, <1>c, <1>d, <1>e, <1>f DEF BasedOnSource, SourceExists
<1>6. BasedOnSlot'
  BY <1>a, <1>b, <1>c, <1>d, <1>e, <1>f, <1>g DEF BasedOnSlot
<1>7. CleanIsSaved'
  BY <1>a, <1>b, <1>c, <1>d, <1>e, <1>f DEF CleanIsSaved, Replacing
<1>8. SuspendPublished'
  BY <1>a, <1>b, <1>c, <1>d, <1>e, <1>f DEF SuspendPublished, Suspending, SlotIs
<1>9. NoSilentLoss'
  BY <1>a, <1>b, <1>c, <1>d, <1>e, <1>f, <1>h DEF NoSilentLoss, Held, DocOf
<1> QED
  BY <1>1, <1>2, <1>3, <1>4, <1>5, <1>6, <1>7, <1>8, <1>9

LEMMA RunReplacementInv ==
  ASSUME VaultInv, NEW r \in Replacement, NEW prior, NEW conceded,
         RunReplacement(r, prior, conceded),
         prior \in {"EMPTY", "UNLOCKED_CLEAN", "UNLOCKED_DIRTY", "LOCKED"},
         session # None <=> prior \in Live,
         prior # "EMPTY" => sourcePath # None,
         prior = "UNLOCKED_DIRTY" => Dirty(session),
         prior = "UNLOCKED_CLEAN" /\ ~ViewFails => ~Dirty(session),
         prior = "UNLOCKED_CLEAN" => session.doc \cap owed \subseteq file[session.path].doc,
         session # None => session.doc \cap (owed \ conceded) \subseteq file[session.path].doc
  PROVE  VaultInv'
<1>1. /\ file \in [Paths -> VaultFile \cup {None}] /\ r.path \in Paths
      /\ session # None <=> phase \in Live
  BY DEF VaultInv, TypeOK, PhaseInv, Replacement
<1>2. ASSUME NEW v \in Versions, SourceCreated(r.path, v)
      PROVE  /\ file' \in [Paths -> VaultFile \cup {None}]
             /\ \A p \in Paths : file[p] # None => file'[p] = file[p]
             /\ file'[r.path] = [doc |-> {}, version |-> v]
             /\ file'[r.path] # None
  <2>1. [doc |-> {}, version |-> v] \in VaultFile
    BY NewFile
  <2>2. [doc |-> {}, version |-> v] # None
    BY <2>1, FileFacts
  <2> QED
    BY <1>1, <1>2, <2>1, <2>2 DEF SourceCreated
<1>3. CASE Restore(prior) /\ UNCHANGED <<disk, owed>>
  BY <1>3, <1>1, RestoreInv DEF disk
<1>4. ASSUME NEW v \in Versions, SourceCreated(r.path, v), Restore(prior), UNCHANGED <<slot, owed>>
      PROVE  VaultInv'
  BY <1>4, <1>2, RestoreInv
<1>5. ASSUME NEW v \in Versions, SourceCreated(r.path, v),
             RetireAndAdopt(CreatedSession(r.path, v), conceded)
      PROVE  VaultInv'
  <2> DEFINE c == CreatedSession(r.path, v)
  <2>1. c \in VaultSession /\ c.path = r.path /\ c.doc = {} /\ c.changed = FALSE /\ c.selector = None
    BY <1>1 DEF CreatedSession, VaultSession
  <2>2. file'[r.path] = [doc |-> {}, version |-> v]
    BY <1>5, <1>2
  <2>3. file'[r.path].doc = {}
    BY <2>2
  <2>4. /\ file' \in [Paths -> VaultFile \cup {None}]
        /\ \A p \in Paths : file[p] # None => file'[p] = file[p]
        /\ file'[r.path] # None
    BY <1>5, <1>2
  <2>5. RetireAndAdopt(c, conceded)
    BY <1>5
  <2> HIDE DEF c
  <2> QED
    <3>1. file'[c.path] # None /\ c.doc = file'[c.path].doc
      BY <2>1, <2>3, <2>4
    <3>2. \/ session = None
          \/ phase \in Live /\ session.doc \cap (owed \ conceded) \subseteq file[session.path].doc
      BY <1>1
    <3> QED
      BY <2>1, <2>4, <2>5, <3>1, <3>2, RetireAndAdoptInv
<1>6. ASSUME Openable(r.path), RetireAndAdopt(OpenedSession(r.path), conceded), UNCHANGED file
      PROVE  VaultInv'
  <2> DEFINE c == OpenedSession(r.path)
  <2>1. file[r.path] \in VaultFile /\ file[r.path] # None
    BY <1>6, <1>1 DEF Openable
  <2>2. /\ c \in VaultSession /\ c.path = r.path /\ c.doc = file[r.path].doc
        /\ c.changed = FALSE /\ c.selector = None
    BY <1>1, <2>1, FileFacts DEF OpenedSession, VaultSession
  <2>3. RetireAndAdopt(c, conceded) /\ UNCHANGED file
    BY <1>6
  <2> HIDE DEF c
  <2> QED
    <3>1. file'[c.path] # None /\ c.doc = file'[c.path].doc
      BY <2>1, <2>2, <2>3
    <3>2. \/ session = None
          \/ phase \in Live /\ session.doc \cap (owed \ conceded) \subseteq file[session.path].doc
      BY <1>1
    <3>3. /\ file' \in [Paths -> VaultFile \cup {None}]
          /\ \A p \in Paths : file[p] # None => file'[p] = file[p]
      BY <1>1, <2>3
    <3> QED
      BY <2>2, <2>3, <3>1, <3>2, <3>3, RetireAndAdoptInv
<1> QED
  BY <1>3, <1>4, <1>5, <1>6 DEF RunReplacement

LEMMA ReplaceInv ==
  ASSUME VaultInv, NEW r \in Replacement, Replace(r)
  PROVE  VaultInv'
<1>1. phase \in {"EMPTY", "UNLOCKED_CLEAN", "UNLOCKED_DIRTY", "LOCKED"}
  BY DEF Replace
<1>2. CASE phase = "UNLOCKED_DIRTY"
  BY <1>2, AwaitReplacementInv DEF Replace
<1>3. CASE phase # "UNLOCKED_DIRTY"
  <2>1. RunReplacement(r, phase, {})
    BY <1>3 DEF Replace
  <2>2. /\ session # None <=> phase \in Live
        /\ phase # "EMPTY" => sourcePath # None
        /\ phase = "UNLOCKED_CLEAN" /\ ~ViewFails => ~Dirty(session)
        /\ phase = "UNLOCKED_CLEAN" => session.doc \cap owed \subseteq file[session.path].doc
    BY DEF VaultInv, PhaseInv, CleanIsSaved
  <2>3. session # None => session.doc \cap (owed \ {}) \subseteq file[session.path].doc
    BY <1>1, <1>3, <2>2 DEF Live
  <2> QED
    BY <1>1, <1>3, <2>1, <2>2, <2>3, RunReplacementInv
<1> QED
  BY <1>2, <1>3

LEMMA FinishReplacementInv ==
  ASSUME VaultInv, FinishReplacement
  PROVE  VaultInv'
<1>1. /\ phase = "BUSY" /\ work # None /\ work.op = "replace" /\ phase \in Live
      /\ RunReplacement(work.replacement, "UNLOCKED_CLEAN", {})
  BY DEF FinishReplacement, VaultInv, TypeOK, Live
<1>2. work.replacement \in Replacement
  BY <1>1 DEF VaultInv, TypeOK, Continuation
<1>3. /\ session # None /\ sourcePath # None
      /\ ~ViewFails => ~Dirty(session)
      /\ session.doc \cap owed \subseteq file[session.path].doc
  BY <1>1, LiveFacts DEF VaultInv, PhaseInv, CleanIsSaved, Replacing
<1> QED
  BY <1>1, <1>2, <1>3, RunReplacementInv DEF Live

LEMMA ResolveReplaceDiscardInv ==
  ASSUME VaultInv, ResolveReplaceDiscard
  PROVE  VaultInv'
<1> DEFINE conceded == Unsaved(session.doc, session.path)
<1>1. /\ phase = "AWAITING_DECISION" /\ phase \in Live /\ decision.replacement \in Replacement
      /\ RunReplacement(decision.replacement, "UNLOCKED_DIRTY", conceded)
  BY DEF ResolveReplaceDiscard, VaultInv, TypeOK, PendingDecision, Live
<1>2. session # None /\ sourcePath # None /\ Dirty(session)
  BY <1>1, LiveFacts DEF VaultInv, PhaseInv
<1>3. session.doc \cap (owed \ conceded) \subseteq file[session.path].doc
  BY <1>1, LiveFacts DEF Unsaved, DocOf
<1> HIDE DEF conceded
<1> QED
  BY <1>1, <1>2, <1>3, RunReplacementInv DEF Live

-----------------------------------------------------------------------------
(* Lock, unlock and explicit discard *)

\* The compare-and-swap on the expected selector only replaces a slot that the
\* session contains.
LEMMA PublishEffect ==
  ASSUME VaultInv, phase \in Live, NEW id \in Selectors, PendingPublished(id)
  PROVE  /\ slot' \in [Paths -> PendingSlot \cup {None}]
         /\ slot'[session.path] # None
         /\ slot'[session.path].id = id
         /\ slot'[session.path].doc = session.doc
         /\ slot'[session.path].base = session.base
         /\ \A p \in Paths : p # session.path => slot'[p] = slot[p]
         /\ id # session.selector
         /\ file[session.path].doc \subseteq session.doc
         /\ \A e \in DocOf(slot[session.path]) : e \in session.doc
<1> DEFINE new == [id |-> id, doc |-> session.doc, base |-> session.base]
<1>1. new \in PendingSlot /\ new # None
      /\ new.id = id /\ new.doc = session.doc /\ new.base = session.base
  BY LiveFacts, NewSlot, SlotFacts
<1>2. /\ slot \in [Paths -> PendingSlot \cup {None}]
      /\ slot' = [slot EXCEPT ![session.path] = new]
      /\ session.path \in Paths
  BY LiveFacts DEF PendingPublished, VaultInv, TypeOK
<1> HIDE DEF new
<1>3. slot' \in [Paths -> PendingSlot \cup {None}] /\ slot'[session.path] = new
      /\ \A p \in Paths : p # session.path => slot'[p] = slot[p]
  BY <1>1, <1>2
<1>4. id # session.selector
  BY LiveFacts DEF PendingPublished, FreshSelector
<1>5. file[session.path].doc \subseteq session.doc
  BY LiveFacts DEF PendingPublished, SourceUnchanged, VaultInv, BasedOnSource
<1>6. \A e \in DocOf(slot[session.path]) : e \in session.doc
  <2>1. slot[session.path] # None => slot[session.path].id = session.selector
    BY DEF PendingPublished, PendingExpected, SlotIs
  <2> QED
    BY <2>1, LiveFacts DEF DocOf, VaultInv, BasedOnSlot
<1> QED
  BY <1>1, <1>3, <1>4, <1>5, <1>6

\* The session stays; its slot was published, discarded or left alone.
LEMMA PublishingInv ==
  ASSUME VaultInv, phase = "UNLOCKED_DIRTY",
         UNCHANGED <<session, sourcePath, suspended, decision, file, owed>>,
         \/ /\ \E id \in Selectors :
                  /\ PendingPublished(id)
                  /\ \/ phase' = phase /\ work' = work
                     \/ phase' = "BUSY" /\ work' = [op |-> "suspend", selector |-> id]
         \/ /\ PendingDiscarded(session.path, session.selector)
            /\ phase' = phase /\ work' = work
  PROVE  VaultInv'
<1>1. phase \in Live /\ work = None /\ decision = None
  BY DEF Live, VaultInv, TypeOK
<1>2. ASSUME NEW id \in Selectors, PendingPublished(id),
             \/ phase' = phase /\ work' = work
             \/ phase' = "BUSY" /\ work' = [op |-> "suspend", selector |-> id]
      PROVE  VaultInv'
  <2>a. /\ slot' \in [Paths -> PendingSlot \cup {None}]
        /\ slot'[session.path] # None
        /\ slot'[session.path].id = id
        /\ slot'[session.path].doc = session.doc
        /\ slot'[session.path].base = session.base
        /\ \A p \in Paths : p # session.path => slot'[p] = slot[p]
        /\ id # session.selector
        /\ file[session.path].doc \subseteq session.doc
        /\ \A e \in DocOf(slot[session.path]) : e \in session.doc
    BY <1>1, <1>2, PublishEffect
  <2>b. \/ phase' = "UNLOCKED_DIRTY" /\ work' = None
        \/ /\ phase' = "BUSY" /\ work' \in Continuation /\ work' # None
           /\ work'.op = "suspend" /\ work'.selector = id
    BY <1>1, <1>2, NewSuspendWork
  <2> USE DEF VaultInv
  <2>1. TypeOK'
    BY <1>1, <2>a, <2>b, LiveFacts DEF TypeOK, Phases
  <2>2. PhaseInv'
    BY <1>1, <2>a, <2>b, LiveFacts DEF PhaseInv, Live, Dirty, Replacing, Suspending
  <2>3. SelectorAgreement'
    BY <1>1, <2>a, <2>b, LiveFacts DEF SelectorAgreement
  <2>4. SourceExists'
    BY <1>1, <2>a, <2>b, LiveFacts DEF SourceExists
  <2>5. BasedOnSource'
    BY <1>1, <2>a, <2>b, LiveFacts DEF BasedOnSource
  <2>6. BasedOnSlot'
    BY <1>1, <2>a, <2>b, LiveFacts DEF BasedOnSlot
  <2>7. CleanIsSaved'
    BY <1>1, <2>a, <2>b, LiveFacts DEF CleanIsSaved, Replacing
  <2>8. SuspendPublished'
    BY <1>1, <2>a, <2>b, LiveFacts DEF SuspendPublished, Suspending, SlotIs
  <2>9. NoSilentLoss'
    BY <1>1, <2>a, <2>b, LiveFacts DEF NoSilentLoss, Held, DocOf
  <2> QED
    BY <2>1, <2>2, <2>3, <2>4, <2>5, <2>6, <2>7, <2>8, <2>9

<1>3. ASSUME PendingDiscarded(session.path, session.selector), phase' = phase, work' = work
      PROVE  VaultInv'
  <2>a. /\ slot' \in [Paths -> PendingSlot \cup {None}]
        /\ \A p \in Paths : slot'[p] # None => slot'[p] = slot[p]
        /\ \A p \in Paths, e \in Edits :
              e \in DocOf(slot[p]) => e \in DocOf(session) \/ e \in DocOf(slot'[p])
    BY <1>1, <1>3, RetiredSlot
  <2> USE DEF VaultInv
  <2>1. TypeOK'
    BY <1>1, <1>3, <2>a, LiveFacts DEF TypeOK, Phases
  <2>2. PhaseInv'
    BY <1>1, <1>3, <2>a, LiveFacts DEF PhaseInv, Live, Dirty, Replacing, Suspending
  <2>3. SelectorAgreement'
    BY <1>1, <1>3, <2>a, LiveFacts DEF SelectorAgreement
  <2>4. SourceExists'
    BY <1>1, <1>3, <2>a, LiveFacts DEF SourceExists
  <2>5. BasedOnSource'
    BY <1>1, <1>3, <2>a, LiveFacts DEF BasedOnSource
  <2>6. BasedOnSlot'
    BY <1>1, <1>3, <2>a, LiveFacts DEF BasedOnSlot
  <2>7. CleanIsSaved'
    BY <1>1, <1>3, <2>a, LiveFacts DEF CleanIsSaved, Replacing
  <2>8. SuspendPublished'
    BY <1>1, <1>3, <2>a, LiveFacts DEF SuspendPublished, Suspending, SlotIs
  <2>9. NoSilentLoss'
    BY <1>1, <1>3, <2>a, LiveFacts DEF NoSilentLoss, Held, DocOf, TypeOK
  <2> QED
    BY <2>1, <2>2, <2>3, <2>4, <2>5, <2>6, <2>7, <2>8, <2>9

<1> QED
  BY <1>2, <1>3

LEMMA LockInv ==
  ASSUME VaultInv, Lock
  PROVE  VaultInv'
<1>1. CASE phase = "UNLOCKED_CLEAN"
  <2>a. /\ phase' = "LOCKED" /\ session' = None /\ decision' = None /\ work' = None
        /\ UNCHANGED <<sourcePath, suspended, file, slot, owed>>
        /\ phase \in Live
    BY <1>1 DEF Lock, GoLocked, Live, disk
  <2> USE DEF VaultInv
  <2>1. TypeOK'
    BY <1>1, <2>a, LiveFacts DEF TypeOK, Phases
  <2>2. PhaseInv'
    BY <1>1, <2>a, LiveFacts DEF PhaseInv, Live, Dirty, Replacing, Suspending
  <2>3. SelectorAgreement'
    BY <1>1, <2>a, LiveFacts DEF SelectorAgreement
  <2>4. SourceExists'
    BY <1>1, <2>a, LiveFacts DEF SourceExists
  <2>5. BasedOnSource'
    BY <1>1, <2>a, LiveFacts DEF BasedOnSource
  <2>6. BasedOnSlot'
    BY <1>1, <2>a, LiveFacts DEF BasedOnSlot
  <2>7. CleanIsSaved'
    BY <1>1, <2>a, LiveFacts DEF CleanIsSaved, Replacing
  <2>8. SuspendPublished'
    BY <1>1, <2>a, LiveFacts DEF SuspendPublished, Suspending, SlotIs
  <2>9. NoSilentLoss'
    BY <1>1, <2>a, LiveFacts DEF NoSilentLoss, Held, DocOf, CleanIsSaved
  <2> QED
    BY <2>1, <2>2, <2>3, <2>4, <2>5, <2>6, <2>7, <2>8, <2>9

<1>2. CASE phase = "UNLOCKED_DIRTY"
  <2>1. /\ UNCHANGED <<session, sourcePath, suspended, decision, file, owed>>
        /\ \/ \E id \in Selectors :
                 /\ PendingPublished(id)
                 /\ phase' = "BUSY"
                 /\ work' = [op |-> "suspend", selector |-> id]
           \/ PendingPublishBreaks /\ UNCHANGED <<phase, work>>
    BY <1>2 DEF Lock
  <2> QED
    BY <1>2, <2>1, PublishingInv DEF PendingPublishBreaks
<1> QED
  BY <1>1, <1>2 DEF Lock, Unlocked

LEMMA FinishSuspendInv ==
  ASSUME VaultInv, FinishSuspend
  PROVE  VaultInv'
<1>a. /\ phase = "BUSY" /\ work.op = "suspend" /\ work # None /\ Suspending /\ phase \in Live
      /\ decision = None
      /\ UNCHANGED <<sourcePath, file, owed>>
  BY DEF FinishSuspend, Suspending, Live, VaultInv, TypeOK
<1>b. /\ SlotIs(session.path, work.selector) /\ slot[session.path].doc = session.doc
      /\ Dirty(session)
  BY <1>a DEF VaultInv, SuspendPublished, PhaseInv
<1>c. work.selector \in Selectors
  BY <1>a DEF VaultInv, TypeOK, Continuation
<1>1. CASE GoLocked /\ suspended' = work.selector /\ UNCHANGED slot
  <2>a. phase' = "LOCKED" /\ session' = None /\ decision' = None /\ work' = None
    BY <1>1 DEF GoLocked
  <2> USE DEF VaultInv
  <2>1. TypeOK'
    BY <1>1, <1>a, <1>b, <1>c, <2>a, LiveFacts DEF TypeOK, Phases
  <2>2. PhaseInv'
    BY <1>1, <1>a, <1>b, <1>c, <2>a, LiveFacts DEF PhaseInv, Live, Dirty, Replacing, Suspending
  <2>3. SelectorAgreement'
    BY <1>1, <1>a, <1>b, <1>c, <2>a, LiveFacts DEF SelectorAgreement
  <2>4. SourceExists'
    BY <1>1, <1>a, <1>b, <1>c, <2>a, LiveFacts DEF SourceExists
  <2>5. BasedOnSource'
    BY <1>1, <1>a, <1>b, <1>c, <2>a, LiveFacts DEF BasedOnSource
  <2>6. BasedOnSlot'
    BY <1>1, <1>a, <1>b, <1>c, <2>a, LiveFacts DEF BasedOnSlot
  <2>7. CleanIsSaved'
    BY <1>1, <1>a, <1>b, <1>c, <2>a, LiveFacts DEF CleanIsSaved, Replacing
  <2>8. SuspendPublished'
    BY <1>1, <1>a, <1>b, <1>c, <2>a, LiveFacts DEF SuspendPublished, Suspending, SlotIs
  <2>9. NoSilentLoss'
    BY <1>1, <1>a, <1>b, <1>c, <2>a, LiveFacts DEF NoSilentLoss, Held, DocOf, SlotIs
  <2> QED
    BY <2>1, <2>2, <2>3, <2>4, <2>5, <2>6, <2>7, <2>8, <2>9

<1>2. CASE /\ PendingDiscarded(session.path, work.selector)
           /\ phase' = "UNLOCKED_DIRTY" /\ work' = None
           /\ UNCHANGED <<session, suspended, decision>>
  <2>a. /\ slot' \in [Paths -> PendingSlot \cup {None}]
        /\ slot'[session.path] = None
        /\ \A p \in Paths : p # session.path => slot'[p] = slot[p]
    BY <1>2, <1>a, LiveFacts DEF PendingDiscarded, VaultInv, TypeOK
  <2> USE DEF VaultInv
  <2>1. TypeOK'
    BY <1>2, <1>a, <1>b, <2>a, LiveFacts DEF TypeOK, Phases
  <2>2. PhaseInv'
    BY <1>2, <1>a, <1>b, <2>a, LiveFacts DEF PhaseInv, Live, Dirty, Replacing, Suspending
  <2>3. SelectorAgreement'
    BY <1>2, <1>a, <1>b, <2>a, LiveFacts DEF SelectorAgreement
  <2>4. SourceExists'
    BY <1>2, <1>a, <1>b, <2>a, LiveFacts DEF SourceExists
  <2>5. BasedOnSource'
    BY <1>2, <1>a, <1>b, <2>a, LiveFacts DEF BasedOnSource
  <2>6. BasedOnSlot'
    BY <1>2, <1>a, <1>b, <2>a, LiveFacts DEF BasedOnSlot
  <2>7. CleanIsSaved'
    BY <1>2, <1>a, <1>b, <2>a, LiveFacts DEF CleanIsSaved, Replacing
  <2>8. SuspendPublished'
    BY <1>2, <1>a, <1>b, <2>a, LiveFacts DEF SuspendPublished, Suspending, SlotIs
  <2>9. NoSilentLoss'
    BY <1>2, <1>a, <1>b, <2>a, LiveFacts DEF NoSilentLoss, Held, DocOf
  <2> QED
    BY <2>1, <2>2, <2>3, <2>4, <2>5, <2>6, <2>7, <2>8, <2>9

<1> QED
  BY <1>1, <1>2 DEF FinishSuspend

LEMMA UnlockInv ==
  ASSUME VaultInv, Unlock
  PROVE  VaultInv'
<1>a. /\ phase = "LOCKED" /\ work = None /\ decision = None /\ sourcePath \in Paths /\ session = None
      /\ UNCHANGED <<sourcePath, suspended, decision, work, file, slot, owed>>
      /\ file \in [Paths -> VaultFile \cup {None}]
      /\ slot \in [Paths -> PendingSlot \cup {None}]
  BY DEF Unlock, VaultInv, TypeOK, PhaseInv, Live, disk
<1>1. CASE /\ suspended = None /\ Openable(sourcePath)
           /\ session' = OpenedSession(sourcePath) /\ phase' = "UNLOCKED_CLEAN"
  <2>c. file[sourcePath] # None /\ file[sourcePath] \in VaultFile
    BY <1>1, <1>a DEF Openable
  <2>d. session' = [path |-> sourcePath, base |-> file[sourcePath].version,
                    doc |-> file[sourcePath].doc, changed |-> FALSE, selector |-> None]
    BY <1>1 DEF OpenedSession
  <2>e. session' \in VaultSession
    BY <1>a, <2>c, <2>d, FileFacts DEF VaultSession
  <2>f. session' # None /\ slot[sourcePath] = None
    BY <1>1, <2>e, NoneAssumption DEF Openable
  <2>b. /\ session'.path = sourcePath /\ session'.doc = file[sourcePath].doc
        /\ session'.selector = None /\ session'.changed = FALSE /\ session' # None
        /\ slot[sourcePath] = None
    BY <2>d, <2>f
  <2> USE DEF VaultInv
  <2>1. TypeOK'
    BY <1>1, <1>a, <2>c, <2>e, <2>b DEF TypeOK, Phases
  <2>2. PhaseInv'
    BY <1>1, <1>a, <2>c, <2>e, <2>b DEF PhaseInv, Live, Dirty, Replacing, Suspending
  <2>3. SelectorAgreement'
    BY <1>1, <1>a, <2>c, <2>e, <2>b DEF SelectorAgreement
  <2>4. SourceExists'
    BY <1>1, <1>a, <2>c, <2>e, <2>b DEF SourceExists
  <2>5. BasedOnSource'
    BY <1>1, <1>a, <2>c, <2>e, <2>b DEF BasedOnSource
  <2>6. BasedOnSlot'
    BY <1>1, <1>a, <2>c, <2>e, <2>b DEF BasedOnSlot
  <2>7. CleanIsSaved'
    BY <1>1, <1>a, <2>c, <2>e, <2>b DEF CleanIsSaved, Replacing
  <2>8. SuspendPublished'
    BY <1>1, <1>a, <2>c, <2>e, <2>b DEF SuspendPublished, Suspending, SlotIs
  <2>9. NoSilentLoss'
    BY <1>1, <1>a, <2>c, <2>e, <2>b DEF NoSilentLoss, Held, DocOf
  <2> QED
    BY <2>1, <2>2, <2>3, <2>4, <2>5, <2>6, <2>7, <2>8, <2>9

<1>2. CASE /\ suspended # None /\ Resumable(sourcePath, suspended)
           /\ session' = ResumedSession(sourcePath) /\ phase' = "UNLOCKED_DIRTY"
  <2>c. /\ slot[sourcePath] # None /\ slot[sourcePath] \in PendingSlot
        /\ slot[sourcePath].id = suspended
        /\ file[sourcePath] # None
        /\ file[sourcePath].version = slot[sourcePath].base
    BY <1>2, <1>a DEF Resumable, SlotIs, VaultInv, SourceExists
  <2>d. session' = [path |-> sourcePath, base |-> slot[sourcePath].base,
                    doc |-> slot[sourcePath].doc, changed |-> FALSE, selector |-> slot[sourcePath].id]
    BY <1>2 DEF ResumedSession
  <2>e. session' \in VaultSession
    BY <1>a, <2>c, <2>d, SlotFacts DEF VaultSession
  <2>b. /\ session'.path = sourcePath /\ session'.doc = slot[sourcePath].doc
        /\ session'.base = slot[sourcePath].base
        /\ session'.selector = suspended /\ session'.changed = FALSE /\ session' # None
    BY <2>c, <2>d, <2>e, NoneAssumption
  <2> USE DEF VaultInv
  <2>1. TypeOK'
    BY <1>2, <1>a, <2>c, <2>e, <2>b DEF TypeOK, Phases
  <2>2. PhaseInv'
    BY <1>2, <1>a, <2>c, <2>e, <2>b DEF PhaseInv, Live, Dirty, Replacing, Suspending
  <2>3. SelectorAgreement'
    BY <1>2, <1>a, <2>c, <2>e, <2>b DEF SelectorAgreement
  <2>4. SourceExists'
    BY <1>2, <1>a, <2>c, <2>e, <2>b DEF SourceExists
  <2>5. BasedOnSource'
    BY <1>2, <1>a, <2>c, <2>e, <2>b DEF BasedOnSource
  <2>6. BasedOnSlot'
    BY <1>2, <1>a, <2>c, <2>e, <2>b DEF BasedOnSlot
  <2>7. CleanIsSaved'
    BY <1>2, <1>a, <2>c, <2>e, <2>b DEF CleanIsSaved, Replacing
  <2>8. SuspendPublished'
    BY <1>2, <1>a, <2>c, <2>e, <2>b DEF SuspendPublished, Suspending, SlotIs
  <2>9. NoSilentLoss'
    BY <1>2, <1>a, <2>c, <2>e, <2>b DEF NoSilentLoss, Held, DocOf
  <2> QED
    BY <2>1, <2>2, <2>3, <2>4, <2>5, <2>6, <2>7, <2>8, <2>9

<1> QED
  BY <1>1, <1>2 DEF Unlock

LEMMA DiscardSuspendedInv ==
  ASSUME VaultInv, DiscardSuspended
  PROVE  VaultInv'
<1>a. /\ phase = "LOCKED" /\ work = None /\ decision = None /\ session = None
      /\ sourcePath \in Paths
      /\ UNCHANGED <<phase, session, sourcePath, decision, work, file>>
      /\ PendingDiscarded(sourcePath, suspended)
      /\ owed' = owed \ Unsaved(slot[sourcePath].doc, sourcePath)
      /\ suspended' \in {None, suspended}
      /\ slot \in [Paths -> PendingSlot \cup {None}]
  BY DEF DiscardSuspended, VaultInv, TypeOK, PhaseInv, Live
<1>b. /\ slot' \in [Paths -> PendingSlot \cup {None}]
      /\ slot[sourcePath] # None
      /\ slot'[sourcePath] = None
      /\ \A p \in Paths : p # sourcePath => slot'[p] = slot[p]
  BY <1>a DEF PendingDiscarded, SlotIs
<1> USE DEF VaultInv
<1>1. TypeOK'
  BY <1>a, <1>b DEF TypeOK, Phases
<1>2. PhaseInv'
  BY <1>a, <1>b DEF PhaseInv, Live, Dirty, Replacing, Suspending
<1>3. SelectorAgreement'
  BY <1>a, <1>b DEF SelectorAgreement
<1>4. SourceExists'
  BY <1>a, <1>b DEF SourceExists
<1>5. BasedOnSource'
  BY <1>a, <1>b DEF BasedOnSource
<1>6. BasedOnSlot'
  BY <1>a, <1>b DEF BasedOnSlot
<1>7. CleanIsSaved'
  BY <1>a, <1>b DEF CleanIsSaved, Replacing
<1>8. SuspendPublished'
  BY <1>a, <1>b DEF SuspendPublished, Suspending, SlotIs
<1>9. NoSilentLoss'
  BY <1>a, <1>b DEF NoSilentLoss, Held, DocOf, Unsaved, TypeOK
<1> QED
  BY <1>1, <1>2, <1>3, <1>4, <1>5, <1>6, <1>7, <1>8, <1>9

-----------------------------------------------------------------------------
(* Other programs *)

LEMMA ExternalWriteInv ==
  ASSUME VaultInv, NEW p \in Paths, ExternalWrite(p)
  PROVE  VaultInv'
<1>d. PICK e \in Edits, v \in Versions :
         /\ FreshEdit(e) /\ FreshVersion(p, v)
         /\ file' = [file EXCEPT ![p] = [doc |-> @.doc \cup {e}, version |-> v]]
         /\ owed' = owed \cup {e}
  BY DEF ExternalWrite
<1> DEFINE new == [doc |-> file[p].doc \cup {e}, version |-> v]
<1>e. /\ file \in [Paths -> VaultFile \cup {None}] /\ file[p] # None /\ file[p] \in VaultFile
      /\ UNCHANGED <<phase, session, sourcePath, suspended, decision, work, slot>>
  BY DEF ExternalWrite, memory, VaultInv, TypeOK
<1>f. new \in VaultFile /\ new # None /\ new.doc = file[p].doc \cup {e} /\ new.version = v
  BY <1>e, NewFile, FileFacts
<1>g. file' = [file EXCEPT ![p] = new]
  BY <1>d
<1> HIDE DEF new
<1>a. /\ file' \in [Paths -> VaultFile \cup {None}] /\ file'[p] = new
      /\ \A q \in Paths : q # p => file'[q] = file[q]
  BY <1>e, <1>f, <1>g
<1>b. /\ ~Held(e) /\ e \notin owed
      /\ slot[p] # None => v # slot[p].base
      /\ session # None => v # session.base
      /\ owed' = owed \cup {e}
  BY <1>d DEF FreshEdit, FreshVersion
<1>c. session # None => session.path \in Paths /\ e \notin session.doc
  BY <1>b DEF VaultInv, TypeOK, VaultSession, Held, DocOf
<1> USE DEF VaultInv
<1>1. TypeOK'
  BY <1>e, <1>f, <1>a, <1>b, <1>c DEF TypeOK, Phases
<1>2. PhaseInv'
  BY <1>e, <1>f, <1>a, <1>b, <1>c DEF PhaseInv, Live, Dirty, Replacing, Suspending, TypeOK
<1>3. SelectorAgreement'
  BY <1>e, <1>f, <1>a, <1>b, <1>c DEF SelectorAgreement
<1>4. SourceExists'
  BY <1>e, <1>f, <1>a, <1>b, <1>c DEF SourceExists
<1>5. BasedOnSource'
  BY <1>e, <1>f, <1>a, <1>b, <1>c DEF BasedOnSource
<1>6. BasedOnSlot'
  BY <1>e, <1>f, <1>a, <1>b, <1>c DEF BasedOnSlot
<1>7. CleanIsSaved'
  BY <1>e, <1>f, <1>a, <1>b, <1>c DEF CleanIsSaved, Replacing, PhaseInv, Live
<1>8. SuspendPublished'
  BY <1>e, <1>f, <1>a, <1>b, <1>c DEF SuspendPublished, Suspending, SlotIs
<1>9. NoSilentLoss'
  BY <1>e, <1>f, <1>a, <1>b, <1>c DEF NoSilentLoss, Held, DocOf
<1> QED
  BY <1>1, <1>2, <1>3, <1>4, <1>5, <1>6, <1>7, <1>8, <1>9

-----------------------------------------------------------------------------
(* Every step *)

LEMMA NextInv ==
  ASSUME VaultInv, [Next]_vars
  PROVE  VaultInv'
<1>1. CASE Next
  <2>1. ASSUME Command PROVE VaultInv'
    BY <2>1, ReplaceInv, CommitEditInv, SetSearchInv, SaveInv, RequestCloseInv, ResolveCancelInv,
       ResolveCloseSaveInv, ResolveCloseDiscardInv, ResolveReplaceSaveInv, ResolveReplaceDiscardInv,
       FinishReplacementInv, LockInv, FinishSuspendInv, UnlockInv, DiscardSuspendedInv DEF Command
  <2> QED
    BY <1>1, <2>1, ExternalWriteInv DEF Next
<1>2. CASE UNCHANGED vars
  <2>a. UNCHANGED <<phase, session, sourcePath, suspended, decision, work, file, slot, owed>>
    BY <1>2 DEF vars
  <2> USE DEF VaultInv
  <2>1. TypeOK'
    BY <2>a DEF TypeOK, Phases
  <2>2. PhaseInv'
    BY <2>a DEF PhaseInv, Live, Dirty, Replacing, Suspending
  <2>3. SelectorAgreement'
    BY <2>a DEF SelectorAgreement
  <2>4. SourceExists'
    BY <2>a DEF SourceExists
  <2>5. BasedOnSource'
    BY <2>a DEF BasedOnSource
  <2>6. BasedOnSlot'
    BY <2>a DEF BasedOnSlot
  <2>7. CleanIsSaved'
    BY <2>a DEF CleanIsSaved, Replacing
  <2>8. SuspendPublished'
    BY <2>a DEF SuspendPublished, Suspending, SlotIs
  <2>9. NoSilentLoss'
    BY <2>a DEF NoSilentLoss, Held, DocOf
  <2> QED
    BY <2>1, <2>2, <2>3, <2>4, <2>5, <2>6, <2>7, <2>8, <2>9

<1> QED
  BY <1>1, <1>2

\* Whatever the constants, the strengthened invariant holds in every reachable
\* state of the lifecycle, with every failure the model has.
THEOREM VaultInvariant == Spec => []VaultInv
<1>1. Init => VaultInv
  BY InitInv
<1>2. VaultInv /\ [Next]_vars => VaultInv'
  BY NextInv
<1> QED
  BY <1>1, <1>2, PTL DEF Spec

\* Every state of the facade, its session and the two stores is well formed, a
\* decision is open exactly in AWAITING_DECISION, a command half done in BUSY.
THEOREM TypeCorrect == Spec => []TypeOK
<1>1. VaultInv => TypeOK
  BY DEF VaultInv
<1> QED
  BY <1>1, VaultInvariant, PTL

\* No confirmed edit disappears unless somebody asked to discard it: save,
\* suspend, resume, replace and all of their failures keep it in the session, a
\* source or a pending slot.
THEOREM EditsAreKept == Spec => []NoSilentLoss
<1>1. VaultInv => NoSilentLoss
  BY DEF VaultInv
<1> QED
  BY <1>1, VaultInvariant, PTL

\* The facade's pair of pending identity and locator is the session's.
THEOREM OnePendingIdentity == Spec => []SelectorAgreement
<1>1. VaultInv => SelectorAgreement
  BY DEF VaultInv
<1> QED
  BY <1>1, VaultInvariant, PTL

\* As long as no view fails after a mutation, the phase says exactly whether a
\* session exists and whether it may be closed without asking.
THEOREM PhaseIsHonest == ~ViewFails => (Spec => []PhaseMatchesSession)
<1> SUFFICES ASSUME ~ViewFails PROVE Spec => []PhaseMatchesSession
  OBVIOUS
<1>1. VaultInv => PhaseMatchesSession
  BY DEF VaultInv, TypeOK, PhaseInv, PhaseMatchesSession, Live
<1> QED
  BY <1>1, VaultInvariant, PTL

-----------------------------------------------------------------------------
(* Every visible slot has its holder *)

\* Only the slot of the selected source can be visible: without it, none is.
LEMMA NoSlotLeft ==
  ASSUME PendingReachable, VaultInv
  PROVE  /\ \A p \in Paths : slot[p] # None => p = sourcePath
         /\ suspended = None /\ ~Suspending => \A p \in Paths : slot[p] = None
<1>1. \A p \in Paths : slot[p] # None => slot[p].id # None
  BY NoneAssumption DEF VaultInv, TypeOK, PendingSlot
<1>2. work # None => phase = "BUSY"
  BY DEF VaultInv, TypeOK
<1> QED
  BY <1>1, <1>2 DEF PendingReachable, Suspending

\* The identity, the locator and the slots as they were, outside a suspension.
LEMMA ReachKept ==
  ASSUME PendingReachable, VaultInv, UNCHANGED <<slot, suspended, sourcePath>>, ~Suspending
  PROVE  PendingReachable'
  BY DEF PendingReachable, Suspending, VaultInv, TypeOK

\* No slot is visible.
LEMMA ReachNone ==
  ASSUME \A p \in Paths : slot'[p] = None
  PROVE  PendingReachable'
  BY DEF PendingReachable

\* Removing the selected source's slot leaves none.
LEMMA DiscardedNone ==
  ASSUME PendingReachable, VaultInv, NEW id, PendingDiscarded(sourcePath, id)
  PROVE  \A p \in Paths : slot'[p] = None
<1>1. slot \in [Paths -> PendingSlot \cup {None}]
  BY DEF VaultInv, TypeOK
<1> QED
  BY <1>1, NoSlotLeft DEF PendingDiscarded

\* A save removes the slot of a resumed session, or says that it did not.
LEMMA SaveReach ==
  ASSUME PendingReachable, VaultInv, ~RollbackFails, session # None, ~Suspending,
         UNCHANGED sourcePath, NEW v \in Versions,
         (ServiceSaved(v) /\ suspended' = None) \/ ServiceSaveCommitted(v)
  PROVE  PendingReachable'
<1>1. suspended = session.selector /\ sourcePath = session.path
  BY DEF VaultInv, SelectorAgreement
<1>2. CASE ServiceSaved(v) /\ suspended' = None
  <2>1. CASE session.selector = None
    BY <1>1, <1>2, <2>1, NoSlotLeft, ReachNone DEF ServiceSaved
  <2>2. CASE session.selector # None
    BY <1>1, <1>2, <2>2, DiscardedNone, ReachNone DEF ServiceSaved
  <2> QED
    BY <2>1, <2>2
<1>3. CASE PendingDiscardFails(session.path, session.selector) /\ suspended' = session.selector
  BY <1>1, <1>3, ReachKept DEF PendingDiscardFails
<1> QED
  BY <1>2, <1>3 DEF ServiceSaveCommitted

\* Retiring a session takes its slot with it, or locks with both.
LEMMA RetireReach ==
  ASSUME PendingReachable, VaultInv, ~RollbackFails, ~Suspending,
         session = None => suspended = None, NEW candidate, NEW conceded,
         RetireAndAdopt(candidate, conceded)
  PROVE  PendingReachable'
<1>1. CASE suspended = None
  BY <1>1, NoSlotLeft, ReachNone DEF RetireAndAdopt, PendingDiscarded, PendingDiscardFails
<1>2. CASE suspended # None
  <2>1. CASE PendingDiscarded(sourcePath, suspended)
    BY <2>1, DiscardedNone, ReachNone
  <2>2. CASE PendingDiscardFails(sourcePath, suspended) /\ UNCHANGED <<sourcePath, suspended>>
    BY <2>2, ReachKept DEF PendingDiscardFails
  <2> QED
    BY <1>2, <2>1, <2>2 DEF RetireAndAdopt
<1> QED
  BY <1>1, <1>2

\* Every outcome of a replacement restores what it found, or retires the session.
LEMMA RunReplacementReach ==
  ASSUME PendingReachable, VaultInv, ~RollbackFails, ~Suspending,
         session = None => suspended = None, NEW r, NEW prior, NEW conceded,
         RunReplacement(r, prior, conceded)
  PROVE  PendingReachable'
<1>1. CASE Restore(prior) /\ UNCHANGED slot
  BY <1>1, ReachKept DEF Restore
<1>2. CASE \E candidate : RetireAndAdopt(candidate, conceded)
  BY <1>2, RetireReach
<1> QED
  BY <1>1, <1>2 DEF RunReplacement, disk

\* A suspension holds the slot it has published, until the facade does.
LEMMA SuspendReach ==
  ASSUME PendingReachable, VaultInv, ~RollbackFails, Lock \/ FinishSuspend
  PROVE  PendingReachable'
<1>1. CASE Lock
  <2>1. ~Suspending /\ session # None /\ sourcePath = session.path /\ session.path \in Paths
    BY <1>1 DEF Lock, Unlocked, Suspending, VaultInv, PhaseInv, Live, SelectorAgreement, TypeOK, VaultSession
  <2>2. CASE phase = "UNLOCKED_CLEAN"
    BY <1>1, <2>1, <2>2, ReachKept DEF Lock, disk
  <2>3. CASE phase # "UNLOCKED_CLEAN"
    <3>1. PICK id \in Selectors : /\ PendingPublished(id)
                                  /\ work' = [op |-> "suspend", selector |-> id]
                                  /\ UNCHANGED sourcePath
      BY <1>1, <2>3 DEF Lock, PendingPublishBreaks
    <3>2. slot \in [Paths -> PendingSlot \cup {None}]
      BY DEF VaultInv, TypeOK
    <3>3. slot'[sourcePath].id = id /\ \A p \in Paths : p # sourcePath => slot'[p] = None
      BY <2>1, <3>1, <3>2, NoSlotLeft DEF PendingPublished
    <3>4. work' # None /\ work'.op = "suspend" /\ work'.selector = id
      BY <3>1, NoneAssumption DEF Continuation
    <3> QED
      BY <3>1, <3>3, <3>4 DEF PendingReachable
  <2> QED
    BY <2>2, <2>3
<1>2. CASE FinishSuspend
  <2>1. Suspending /\ session # None /\ sourcePath = session.path
    BY <1>2 DEF FinishSuspend, Suspending, VaultInv, PhaseInv, Live, SelectorAgreement
  <2>2. slot[sourcePath].id = work.selector
    BY <2>1 DEF VaultInv, SuspendPublished, SlotIs
  <2>3. CASE UNCHANGED slot /\ suspended' = work.selector
    <3>1. \A p \in Paths : slot'[p] # None => p = sourcePath /\ slot'[p].id = suspended'
      BY <2>2, <2>3, NoSlotLeft
    <3> QED
      BY <1>2, <3>1 DEF FinishSuspend, PendingReachable
  <2>4. CASE PendingDiscarded(session.path, work.selector)
    BY <2>1, <2>4, DiscardedNone, ReachNone
  <2> QED
    BY <1>2, <2>3, <2>4 DEF FinishSuspend
<1> QED
  BY <1>1, <1>2

\* Every step keeps the holder of a visible slot, as long as rollbacks work.
LEMMA NextReach ==
  ASSUME PendingReachable, VaultInv, ~RollbackFails, [Next]_vars
  PROVE  PendingReachable'
<1>1. CASE phase = "BUSY" => work.op # "suspend"
  <2>0. ~Suspending
    BY <1>1 DEF Suspending
  <2>1. phase \in {"UNLOCKED_CLEAN", "UNLOCKED_DIRTY", "AWAITING_DECISION", "BUSY"} => session # None
    BY DEF VaultInv, PhaseInv, Live
  <2>2. CASE \E r \in Replacement : Replace(r)
    <3>1. PICK r \in Replacement : Replace(r)
      BY <2>2
    <3> QED
      BY <2>0, <3>1, ReachKept, RunReplacementReach DEF Replace, Await, disk
  <2>3. CASE \/ \E e \in Edits : CommitEdit(e)
             \/ SetSearch \/ RequestClose \/ ResolveCancel \/ ResolveSaveFails
             \/ Unlock \/ \E p \in Paths : ExternalWrite(p)
    BY <2>0, <2>3, ReachKept DEF CommitEdit, SetSearch, RequestClose, Await, ResolveCancel,
       ResolveSaveFails, Restore, Unlock, ExternalWrite, disk, memory
  <2>4. CASE Save \/ ResolveCloseSave \/ ResolveReplaceSave
    BY <2>0, <2>1, <2>4, SaveReach DEF Save, ResolveCloseSave, ResolveReplaceSave, Unlocked
  <2>5. CASE ResolveCloseDiscard
    BY <2>0, <2>5, ReachKept, DiscardedNone, ReachNone DEF ResolveCloseDiscard, PendingDiscardFails
  <2>6. CASE ResolveReplaceDiscard \/ FinishReplacement
    BY <2>0, <2>1, <2>6, RunReplacementReach DEF ResolveReplaceDiscard, FinishReplacement
  <2>7. CASE DiscardSuspended
    BY <2>7, DiscardedNone, ReachNone DEF DiscardSuspended
  <2>8. CASE Lock \/ FinishSuspend
    BY <2>8, SuspendReach
  <2>9. CASE UNCHANGED vars
    BY <2>0, <2>9, ReachKept DEF vars
  <2> QED
    BY <2>2, <2>3, <2>4, <2>5, <2>6, <2>7, <2>8, <2>9 DEF Next, Command
<1>2. CASE phase = "BUSY" /\ work.op = "suspend"
  <2>1. CASE FinishSuspend
    BY <2>1, SuspendReach
  <2>2. CASE (\E p \in Paths : ExternalWrite(p)) \/ UNCHANGED vars
    <3>1. UNCHANGED <<slot, sourcePath, suspended, work>>
      BY <2>2 DEF ExternalWrite, memory, vars
    <3> QED
      BY <3>1 DEF PendingReachable
  <2>3. ~(\E r \in Replacement : Replace(r)) /\ ~(\E e \in Edits : CommitEdit(e))
    BY <1>2 DEF Replace, CommitEdit, Unlocked
  <2>4. /\ ~SetSearch /\ ~Save /\ ~RequestClose /\ ~ResolveCancel /\ ~ResolveSaveFails
        /\ ~ResolveCloseSave /\ ~ResolveCloseDiscard /\ ~ResolveReplaceSave
        /\ ~ResolveReplaceDiscard /\ ~FinishReplacement /\ ~Lock /\ ~Unlock /\ ~DiscardSuspended
    BY <1>2 DEF SetSearch, Save, RequestClose, ResolveCancel, ResolveSaveFails, ResolveCloseSave,
       ResolveCloseDiscard, ResolveReplaceSave, ResolveReplaceDiscard, FinishReplacement, Lock,
       Unlock, DiscardSuspended, Unlocked
  <2> QED
    BY <2>1, <2>2, <2>3, <2>4 DEF Next, Command
<1> QED
  BY <1>1, <1>2

\* No pending slot is orphaned while the process lives: as long as the pending
\* store can roll back, the facade or the suspension in progress holds the
\* selector of every visible slot, through every failure of every command.
THEOREM PendingIsReachable == ~RollbackFails => (Spec => []PendingReachable)
<1> SUFFICES ASSUME ~RollbackFails PROVE Spec => []PendingReachable
  OBVIOUS
<1>1. Init => PendingReachable
  BY DEF Init, PendingReachable
<1>2. PendingReachable /\ VaultInv /\ [Next]_vars => PendingReachable'
  BY NextReach
<1> QED
  BY <1>1, <1>2, VaultInvariant, PTL DEF Spec

-----------------------------------------------------------------------------
(* The process: crashes, quits and restarts *)

\* A new process starts from disk alone, and owes only what is there.
LEMMA RebornInv ==
  ASSUME VaultInv, Reborn
  PROVE  VaultInv'
  <1>a. /\ phase' = "EMPTY" /\ session' = None /\ sourcePath' = None /\ suspended' = None
        /\ decision' = None /\ work' = None /\ file' = file /\ slot' = slot
        /\ owed' = {e \in owed : \E p \in Paths : e \in DocOf(file[p]) \/ e \in DocOf(slot[p])}
    BY DEF Reborn, disk
  <1> USE DEF VaultInv
  <1>1. TypeOK'
    BY <1>a, NoneAssumption DEF TypeOK, Phases
  <1>2. PhaseInv'
    BY <1>a DEF PhaseInv, Live, Replacing, Suspending
  <1>3. SelectorAgreement'
    BY <1>a DEF SelectorAgreement
  <1>4. SourceExists'
    BY <1>a DEF SourceExists
  <1>5. BasedOnSource'
    BY <1>a DEF BasedOnSource
  <1>6. BasedOnSlot'
    BY <1>a DEF BasedOnSlot
  <1>7. CleanIsSaved'
    BY <1>a DEF CleanIsSaved, Replacing
  <1>8. SuspendPublished'
    BY <1>a DEF SuspendPublished, Suspending
  <1>9. NoSilentLoss'
    BY <1>a DEF NoSilentLoss, Held, DocOf
  <1> QED
    BY <1>1, <1>2, <1>3, <1>4, <1>5, <1>6, <1>7, <1>8, <1>9

\* Every step of the process is a step of the lifecycle, a restart or neither.
LEMMA ProcessStep ==
  ASSUME [ProcessNext]_processVars
  PROVE  [Next]_vars \/ Reborn
  BY DEF ProcessNext, processVars, Run, Others, Quit, TerminalLock, FinishTerminalLock, Kill,
         Exit, Next, Command

\* The lifecycle invariant holds through crashes, quits and restarts.
THEOREM ProcessInvariant == ProcessSpec => []VaultInv
  <1>1. ProcessInit => VaultInv
    BY InitInv DEF ProcessInit
  <1>2. VaultInv /\ [ProcessNext]_processVars => VaultInv'
    BY ProcessStep, NextInv, RebornInv
  <1> QED
    BY <1>1, <1>2, PTL DEF ProcessSpec

\* What a suspension in progress may end in.
LEMMA FinishSuspendPhase ==
  ASSUME FinishSuspend
  PROVE  phase' \in {"LOCKED", "UNLOCKED_DIRTY"}
  BY DEF FinishSuspend, GoLocked

\* What a lock may end in.
LEMMA LockPhase ==
  ASSUME VaultInv, Lock
  PROVE  \/ phase' \in {"LOCKED", "UNLOCKED_DIRTY"}
         \/ phase' = "BUSY" /\ work'.op = "suspend"
  BY DEF Lock, GoLocked, Unlocked, VaultInv

\* The stages of the way out, with no command left behind the terminal lock.
THEOREM StagesAreOrdered == ProcessSpec => []StageInv
  <1> USE DEF StageInv, Stages, Unlocked, Replacing
  <1>1. ProcessInit => StageInv
    BY DEF ProcessInit, Init
  <1>2. ASSUME VaultInv, StageInv, [ProcessNext]_processVars
        PROVE  StageInv'
    <2>1. CASE Run
      BY <1>2, <2>1 DEF Run
    <2>2. CASE Others
      BY <1>2, <2>2 DEF Others, ExternalWrite, memory
    <2>3. CASE Quit
      BY <1>2, <2>3 DEF Quit, vars
    <2>4. CASE TerminalLock
      <3>1. CASE ~Unlocked /\ stage' = "CLOSED" /\ UNCHANGED vars
        BY <1>2, <2>4, <3>1 DEF vars, TerminalLock
      <3>2. CASE Lock /\ stage' = IF phase' = "UNLOCKED_DIRTY" THEN "GAVE_UP" ELSE "CLOSED"
        BY <1>2, <3>2, LockPhase
      <3>3. CASE phase = "UNLOCKED_DIRTY" /\ stage' = "GAVE_UP" /\ UNCHANGED vars
        BY <3>3
      <3> QED
        BY <2>4, <3>1, <3>2, <3>3 DEF TerminalLock
    <2>5. CASE FinishTerminalLock
      BY <1>2, <2>5, FinishSuspendPhase DEF FinishTerminalLock
    <2>6. CASE Kill \/ Exit
      BY <2>6 DEF Kill, Exit, Reborn
    <2>7. CASE UNCHANGED processVars
      BY <1>2, <2>7 DEF processVars, vars
    <2> QED
      BY <1>2, <2>1, <2>2, <2>3, <2>4, <2>5, <2>6, <2>7 DEF ProcessNext
  <1> QED
    BY <1>1, <1>2, ProcessInvariant, PTL DEF ProcessSpec

\* A proper exit outside an open decision loses no owed edit: no session is
\* left, so that whatever is held is on disk.
THEOREM CleanExit == ProcessSpec => CleanExitLosesNothing
  <1>1. ASSUME VaultInv, StageInv, [ProcessNext]_processVars
        PROVE  [Exit /\ stage = "CLOSED" /\ phase # "AWAITING_DECISION" => owed' = owed]_processVars
    <2> SUFFICES ASSUME Exit, stage = "CLOSED", phase # "AWAITING_DECISION"
                 PROVE  owed' = owed
      OBVIOUS
    <2>1. phase \notin Live
      BY <1>1 DEF Exit, StageInv, Unlocked, Live, Replacing
    <2>2. session = None
      BY <1>1, <2>1 DEF VaultInv, PhaseInv
    <2>3. \A e \in owed : \E p \in Paths : e \in DocOf(file[p]) \/ e \in DocOf(slot[p])
      BY <1>1, <2>2 DEF VaultInv, NoSilentLoss, Held, DocOf
    <2> QED
      BY <2>3 DEF Exit, Reborn
  <1> QED
    BY <1>1, ProcessInvariant, StagesAreOrdered, PTL DEF ProcessSpec, CleanExitLosesNothing

-----------------------------------------------------------------------------
(* Nobody works beside a slot that holds newer work on the same source. *)

\* A committed save leaves no slot under its source when it returns normally.
LEMMA SavedShadow ==
  ASSUME VaultInv, PendingNeverShadowed, phase \in Live, ~Suspending,
         NEW v \in Versions, ServiceSaved(v), session' = SavedSession(v)
  PROVE  slot'[session'.path] = None
  <1>1. session'.path = session.path
    <2>1. /\ session \in VaultSession
          /\ SavedSession(v) = [session EXCEPT !.base = v, !.changed = FALSE, !.selector = None]
      BY LiveFacts DEF SavedSession
    <2> QED
      BY <2>1 DEF VaultSession
  <1>2. session \in VaultSession /\ slot \in [Paths -> PendingSlot \cup {None}]
    BY LiveFacts DEF VaultInv, TypeOK
  <1>3. CASE session.selector = None
    <2>1. slot' = slot
      BY <1>3 DEF ServiceSaved
    <2>2. slot[session.path] # None => slot[session.path].id # None
      BY <1>2, NoneAssumption DEF VaultSession, PendingSlot
    <2> QED
      BY <1>1, <1>3, <2>1, <2>2, LiveFacts DEF PendingNeverShadowed
  <1>4. CASE session.selector # None
    BY <1>1, <1>2, <1>4 DEF ServiceSaved, PendingDiscarded, VaultSession
  <1> QED
    BY <1>3, <1>4

\* A replacement adopts a source that nothing shadows, or ends locked, or
\* restores the phase it was given.
LEMMA ReplacementShadow ==
  ASSUME VaultInv, PendingNeverShadowed, ~Suspending, NEW r \in Replacement, NEW prior,
         prior # "BUSY", NEW conceded, RunReplacement(r, prior, conceded)
  PROVE  PendingNeverShadowed'
  <1> USE DEF PendingNeverShadowed
  <1>1. CASE Restore(prior) /\ UNCHANGED slot
    BY <1>1 DEF Restore, Suspending
  <1>2. ASSUME NEW candidate, RetireAndAdopt(candidate, conceded), slot[candidate.path] = None,
               candidate.path \in Paths
        PROVE  PendingNeverShadowed'
    <2>1. CASE Adopt(candidate)
      <3>1. UNCHANGED slot \/ PendingDiscarded(sourcePath, suspended)
        BY <1>2, <2>1 DEF RetireAndAdopt, Adopt, GoLocked
      <3>2. slot'[candidate.path] = None
        BY <1>2, <3>1 DEF PendingDiscarded, VaultInv, TypeOK
      <3> QED
        BY <2>1, <3>2 DEF Adopt
    <2>2. CASE GoLocked
      BY <2>2 DEF GoLocked
    <2> QED
      BY <1>2, <2>1, <2>2 DEF RetireAndAdopt
  <1>3. ASSUME NEW v \in Versions, SourceCreated(r.path, v),
               RetireAndAdopt(CreatedSession(r.path, v), conceded)
        PROVE  PendingNeverShadowed'
    <2>1. CreatedSession(r.path, v).path = r.path /\ r.path \in Paths
      BY DEF CreatedSession, Replacement
    <2>2. slot[r.path] = None
      BY <1>3, <2>1 DEF SourceCreated, VaultInv, SourceExists
    <2> QED
      BY <1>2, <1>3, <2>1, <2>2
  <1>4. ASSUME Openable(r.path), RetireAndAdopt(OpenedSession(r.path), conceded)
        PROVE  PendingNeverShadowed'
    <2>1. OpenedSession(r.path).path = r.path /\ r.path \in Paths
      BY DEF OpenedSession, Replacement
    <2> QED
      BY <1>2, <1>4, <2>1 DEF Openable
  <1> QED
    BY <1>1, <1>3, <1>4 DEF RunReplacement, disk

\* With rollbacks that work, every step of the lifecycle keeps the slot of a
\* session's source its own.
LEMMA NextShadow ==
  ASSUME VaultInv, PendingNeverShadowed, ~RollbackFails, [Next]_vars
  PROVE  PendingNeverShadowed'
  <1> USE DEF PendingNeverShadowed
  <1>a. phase \in Phases /\ (session # None <=> phase \in Live)
    BY DEF VaultInv, TypeOK, PhaseInv
  <1>1. ASSUME NEW r \in Replacement, Replace(r)  PROVE  PendingNeverShadowed'
    BY <1>1, ReplacementShadow DEF Replace, Await, disk, Suspending
  <1>2. ASSUME NEW e \in Edits, CommitEdit(e)  PROVE  PendingNeverShadowed'
    <2>1. CASE session' = None
      BY <2>1
    <2>2. CASE session' = [session EXCEPT !.doc = @ \cup {e}, !.changed = TRUE]
      <3>1. session \in VaultSession /\ slot' = slot /\ ~Suspending
        BY <1>2, LiveFacts DEF CommitEdit, disk, Unlocked, Live, Suspending
      <3>2. session'.path = session.path /\ session'.selector = session.selector
        BY <2>2, <3>1 DEF VaultSession
      <3> QED
        BY <1>2, <1>a, <3>1, <3>2 DEF CommitEdit, Unlocked, Live
    <2> QED
      BY <1>2, <2>1, <2>2 DEF CommitEdit
  <1>3. CASE SetSearch
    BY <1>3 DEF SetSearch, disk, Unlocked, Suspending
  <1>4. CASE Save
    BY <1>4, <1>a, SavedShadow DEF Save, Unlocked, Live, Suspending, GoLocked
  <1>5. CASE RequestClose
    BY <1>5 DEF RequestClose, Await, GoLocked, disk, Unlocked, Suspending
  <1>6. CASE ResolveCancel \/ ResolveSaveFails
    BY <1>6 DEF ResolveCancel, ResolveSaveFails, Restore, disk, Suspending
  <1>7. CASE ResolveCloseSave \/ ResolveCloseDiscard
    BY <1>7 DEF ResolveCloseSave, ResolveCloseDiscard, GoLocked
  <1>8. CASE ResolveReplaceSave
    BY <1>8, SavedShadow DEF ResolveReplaceSave, Live, Suspending, GoLocked
  <1>9. CASE ResolveReplaceDiscard
    BY <1>9, ReplacementShadow DEF ResolveReplaceDiscard, Suspending, VaultInv, TypeOK,
       PendingDecision
  <1>10. CASE FinishReplacement
    BY <1>10, ReplacementShadow DEF FinishReplacement, Suspending, VaultInv, TypeOK, Continuation
  <1>11. CASE Lock
    <2>1. CASE GoLocked
      BY <2>1 DEF GoLocked
    <2>2. ASSUME NEW id \in Selectors, PendingPublished(id), phase' = "BUSY",
                 work' = [op |-> "suspend", selector |-> id], session' = session
          PROVE  PendingNeverShadowed'
      <3>1. session \in VaultSession /\ slot \in [Paths -> PendingSlot \cup {None}]
        BY <1>11, LiveFacts DEF Lock, Unlocked, Live, VaultInv, TypeOK
      <3>2. slot'[session.path].id = id /\ work'.op = "suspend" /\ work'.selector = id
        BY <2>2, <3>1 DEF PendingPublished, VaultSession
      <3> QED
        BY <2>2, <3>2 DEF Suspending
    <2> QED
      BY <1>11, <2>1, <2>2 DEF Lock, PendingPublishBreaks
  <1>12. CASE FinishSuspend
    <2>1. CASE GoLocked
      BY <2>1 DEF GoLocked
    <2>2. CASE PendingDiscarded(session.path, work.selector) /\ UNCHANGED session
      <3>1. session.path \in Paths /\ slot \in [Paths -> PendingSlot \cup {None}]
        BY <1>12, LiveFacts DEF FinishSuspend, Live, VaultInv, TypeOK, VaultSession
      <3> QED
        BY <2>2, <3>1 DEF PendingDiscarded
    <2> QED
      BY <1>12, <2>1, <2>2 DEF FinishSuspend
  <1>13. CASE Unlock
    BY <1>13 DEF Unlock, Openable, OpenedSession, Resumable, ResumedSession, SlotIs, disk
  <1>14. CASE DiscardSuspended
    BY <1>14, <1>a DEF DiscardSuspended, Live
  <1>15. ASSUME NEW p \in Paths, ExternalWrite(p)  PROVE  PendingNeverShadowed'
    BY <1>15 DEF ExternalWrite, memory, Suspending
  <1>16. CASE UNCHANGED vars
    BY <1>16 DEF vars, Suspending
  <1> QED
    BY <1>1, <1>2, <1>3, <1>4, <1>5, <1>6, <1>7, <1>8, <1>9, <1>10, <1>11, <1>12, <1>13, <1>14,
       <1>15, <1>16 DEF Next, Command

\* As long as the pending store can roll back, no process, restarted or not,
\* ever holds a session on a source whose slot belongs to another session.
THEOREM NeverShadowed == ~RollbackFails => (ProcessSpec => []PendingNeverShadowed)
  <1> SUFFICES ASSUME ~RollbackFails PROVE ProcessSpec => []PendingNeverShadowed
    OBVIOUS
  <1>1. ProcessInit => PendingNeverShadowed
    BY DEF ProcessInit, Init, PendingNeverShadowed
  <1>2. VaultInv /\ PendingNeverShadowed /\ [ProcessNext]_processVars => PendingNeverShadowed'
    <2>1. ASSUME Reborn PROVE PendingNeverShadowed'
      BY <2>1 DEF Reborn, PendingNeverShadowed
    <2> QED
      BY <2>1, ProcessStep, NextShadow
  <1> QED
    BY <1>1, <1>2, ProcessInvariant, PTL DEF ProcessSpec

=============================================================================
