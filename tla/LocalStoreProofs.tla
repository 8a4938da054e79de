-------------------------- MODULE LocalStoreProofs --------------------------
(***************************************************************************)
(* The transaction of the local store, for any number of processes,        *)
(* identifiers, saves, foreign writes and crashes.                         *)
(*                                                                         *)
(* LocalInv is inductive: who is inside a transaction holds the lock       *)
(* (LockInv), so that a step of one process meets the others only outside  *)
(* of it; the locals of a transaction say how far it has come (LocalsOf);  *)
(* the destination is still the baseline up to the replacement             *)
(* (BaselineOf); and its predecessor stays where the previous slot has it  *)
(* until the new artifact has it, both being named in between              *)
(* (RecoveryOf).  There is a lemma for each action, and in it a step for   *)
(* each of these parts.                                                    *)
(*                                                                         *)
(* SlotInv and AnswerInv are inductive relative to it.  Who is in a        *)
(* transaction or its rollback is alone, so that a step there has to keep  *)
(* only the part of the process that makes it (InsideSlot, OthersAnswer);  *)
(* every other step touches neither the slot nor an artifact, and shows no *)
(* content.                                                                *)
(***************************************************************************)
EXTENDS LocalStore, TLAPS

USE LocalStoreAssumption
USE DEF LocalInv, Contents, Versions, Steps, LockedSteps, LateSteps, Harms,
        Goto, session, recovery, history

\* The locals of one process keep their type under every assignment that a step
\* of _publish_source makes to them.
LEMMA OperationUpdate ==
    ASSUME NEW p \in Processes, op \in [Processes -> Operation]
    PROVE  /\ [op EXCEPT ![p].failure = "external"] \in [Processes -> Operation]
           /\ [op EXCEPT ![p].failure = "failed"] \in [Processes -> Operation]
           /\ [op EXCEPT ![p].replaced = TRUE] \in [Processes -> Operation]
           /\ slot \in Slots \cup {None}
                => [op EXCEPT ![p].previous = slot] \in [Processes -> Operation]
           /\ dest \in Files \cup {None}
                => /\ [op EXCEPT ![p].seen = dest] \in [Processes -> Operation]
                   /\ [op EXCEPT ![p].seen = dest, ![p].result = dest] \in [Processes -> Operation]
                   /\ [op EXCEPT ![p].result = IF dest.content = op[p].content THEN dest ELSE None]
                        \in [Processes -> Operation]
           /\ [op EXCEPT ![p].result = op[p].seen] \in [Processes -> Operation]
           /\ \A id \in Ids : [op EXCEPT ![p].new = id] \in [Processes -> Operation]
  <1>1. op[p] \in Operation
    OBVIOUS
  <1>2. [op[p] EXCEPT !.failure = "external"] \in Operation
    BY DEF Operation
  <1>3. [op[p] EXCEPT !.failure = "failed"] \in Operation
    BY DEF Operation
  <1>4. [op[p] EXCEPT !.replaced = TRUE] \in Operation
    BY <1>1 DEF Operation
  <1>5. slot \in Slots \cup {None} => [op[p] EXCEPT !.previous = slot] \in Operation
    BY DEF Operation
  <1>6. dest \in Files \cup {None} => [op[p] EXCEPT !.seen = dest] \in Operation
    BY DEF Operation
  <1>7. \A f \in Files \cup {None} : [op[p] EXCEPT !.result = f] \in Operation
    BY DEF Operation
  <1>8. dest \in Files \cup {None} => [op[p] EXCEPT !.seen = dest, !.result = dest] \in Operation
    BY <1>1 DEF Operation
  <1>9. op[p].seen \in Files \cup {None}
    BY DEF Operation
  <1>10. \A id \in Ids : [op[p] EXCEPT !.new = id] \in Operation
    BY DEF Operation
  <1>11. \A o \in Operation : [op EXCEPT ![p] = o] \in [Processes -> Operation]
    OBVIOUS
  <1> QED
    BY <1>2, <1>3, <1>4, <1>5, <1>6, <1>7, <1>8, <1>9, <1>10, <1>11

\* The locals are well formed when a publication or a restore begins.
LEMMA OperationBegins ==
    /\ NoOperation \in Operation
    /\ \A mode \in {"save", "create", "restore"}, content \in Contents :
          [NoOperation EXCEPT !.mode = mode, !.content = content] \in Operation
  BY DEF Operation, NoOperation

\* The types of the single locals, for steps that read one.
LEMMA OperationFields ==
    ASSUME NEW o \in Operation
    PROVE  /\ o.content \in Contents \cup {None}
           /\ o.new \in Ids \cup {None}
           /\ o.previous \in Slots \cup {None}
           /\ o.seen \in Files \cup {None}
           /\ o.result \in Files \cup {None}
           /\ o.replaced \in BOOLEAN
  BY DEF Operation

\* _transaction_recovery_slot yields a slot that names the new identifier and
\* every one the previous slot names.
LEMMA TransactionSlotType ==
    ASSUME NEW id \in Ids, NEW s \in Slots \cup {None}
    PROVE  /\ TransactionSlot(id, s) \in Slots
           /\ Named(TransactionSlot(id, s)) = Named(s) \cup {id}
           /\ Named(s) \subseteq Ids
  <1>1. Named(s) \subseteq Ids
    BY DEF Named, Slots
  <1>2. TransactionSlot(id, s) \in Slots
    BY <1>1 DEF TransactionSlot, Slots
  <1> QED
    BY <1>1, <1>2 DEF TransactionSlot, Named

-----------------------------------------------------------------------------
(* Every action keeps the invariant *)

\* capture of a destination: the session's baseline is the file as it is.
LEMMA OpenStep ==
    ASSUME LocalInv, NEW p \in Processes, Open(p)
    PROVE  LocalInv'
  <1>1. TypeOK'
    <2>1. op \in [Processes -> Operation] /\ op[p] \in Operation
      BY DEF TypeOK
    <2>2. op' = op
      BY DEF Open
    <2>3. slot \in Slots \cup {None} /\ dest \in Files \cup {None}
      BY DEF TypeOK
    <2>4. op' \in [Processes -> Operation]
      <3> HIDE DEF LocalInv
      <3> QED
        BY <2>1, <2>2, <2>3, OperationUpdate, ZenonT(60)
    <2>5. pc' \in [Processes -> Steps] /\ base' \in [Processes -> Files \cup {None}]
      BY DEF Open, TypeOK
    <2>6. dest' \in Files \cup {None} /\ pred' \in Contents \cup {None} /\ shown' \subseteq Contents
      BY DEF Open, TypeOK
    <2>7. slot' \in Slots \cup {None}
      BY DEF Open, TypeOK
    <2>8. artifacts' \in [Ids -> Contents \cup {None}]
      BY DEF Open, TypeOK
    <2>9. lock' \in Processes \cup {None} /\ harm' \subseteq Harms
      BY DEF Open, TypeOK
    <2> QED
      BY <2>4, <2>5, <2>6, <2>7, <2>8, <2>9 DEF TypeOK
  <1>2. written' \in Counted
    BY DEF Open
  <1>3. LockInv'
    BY DEF Open, LockInv
  <1>4. ASSUME NEW q \in Processes
        PROVE  LocalsOf(q)' /\ BaselineOf(q)'
    BY DEF Open, LocalsOf, BaselineOf
  <1>5. ASSUME Clean'
        PROVE  Retained(slot)' /\ \A q \in Processes : RecoveryOf(q)'
    <2>1. Clean
      BY <1>5 DEF Open, Clean
    <2>2. Retained(slot)' /\ RecoveryOf(p)'
      BY <2>1 DEF Open, Retained, RecoveryOf, NoOperation
    <2>3. ASSUME NEW q \in Processes, q # p
          PROVE  RecoveryOf(q)'
      <3>1. pc'[q] = pc[q] /\ op'[q] = op[q] /\ base'[q] = base[q]
        BY <2>3 DEF Open
      <3>2. RecoveryOf(q) /\ UNCHANGED <<slot, artifacts, pred>>
        BY <2>1 DEF Open, Goto, session, recovery, history
      <3> QED
        BY <3>1, <3>2 DEF RecoveryOf, Retained
    <2> QED
      BY <2>2, <2>3
  <1> QED
    BY <1>1, <1>2, <1>3, <1>4, <1>5

\* publish and publish_new: fresh locals, nothing on disk.
LEMMA BeginSaveStep ==
    ASSUME LocalInv, NEW p \in Processes, BeginSave(p)
    PROVE  LocalInv'
  <1>1. TypeOK'
    <2>1. op \in [Processes -> Operation] /\ op[p] \in Operation
      BY DEF TypeOK
    <2>2. op' = [op EXCEPT ![p] = [NoOperation EXCEPT
                    !.mode = IF base[p] = None THEN "create" ELSE "save",
                    !.content = written.content + 1]]
      BY DEF BeginSave, Begin
    <2>3. written.content + 1 \in Contents
      BY DEF BeginSave, Counted
    <2>4. op' \in [Processes -> Operation]
      <3> HIDE DEF LocalInv, Contents
      <3> QED
        BY <2>1, <2>2, <2>3, OperationBegins
    <2>5. pc' \in [Processes -> Steps] /\ base' \in [Processes -> Files \cup {None}]
      BY DEF BeginSave, Begin, TypeOK
    <2>6. dest' \in Files \cup {None} /\ pred' \in Contents \cup {None} /\ shown' \subseteq Contents
      BY DEF BeginSave, TypeOK
    <2>7. slot' \in Slots \cup {None}
      BY DEF BeginSave, TypeOK
    <2>8. artifacts' \in [Ids -> Contents \cup {None}]
      BY DEF BeginSave, TypeOK
    <2>9. lock' \in Processes \cup {None} /\ harm' \subseteq Harms
      BY DEF BeginSave, TypeOK
    <2> QED
      BY <2>4, <2>5, <2>6, <2>7, <2>8, <2>9 DEF TypeOK
  <1>2. written' \in Counted
    BY DEF BeginSave, Counted
  <1>3. LockInv'
    BY DEF BeginSave, Begin, LockInv
  <1>4. ASSUME NEW q \in Processes
        PROVE  LocalsOf(q)' /\ BaselineOf(q)'
    BY DEF BeginSave, Begin, LocalsOf, BaselineOf, TypeOK, NoOperation, Counted
  <1>5. ASSUME Clean'
        PROVE  Retained(slot)' /\ \A q \in Processes : RecoveryOf(q)'
    <2>1. Clean
      BY <1>5 DEF BeginSave, Clean
    <2>2. Retained(slot)' /\ RecoveryOf(p)'
      BY <2>1 DEF BeginSave, Begin, Retained, RecoveryOf
    <2>3. ASSUME NEW q \in Processes, q # p
          PROVE  RecoveryOf(q)'
      <3>1. pc'[q] = pc[q] /\ op'[q] = op[q] /\ base'[q] = base[q]
        BY <2>3 DEF BeginSave, Begin
      <3>2. RecoveryOf(q) /\ UNCHANGED <<slot, artifacts, pred>>
        BY <2>1 DEF BeginSave
      <3> QED
        BY <3>1, <3>2 DEF RecoveryOf, Retained
    <2> QED
      BY <2>2, <2>3
  <1> QED
    BY <1>1, <1>2, <1>3, <1>4, <1>5

\* restore: the candidate has the content of the advertised artifact.
LEMMA BeginRestoreStep ==
    ASSUME LocalInv, NEW p \in Processes, BeginRestore(p)
    PROVE  LocalInv'
  <1>1. TypeOK'
    <2>1. op \in [Processes -> Operation] /\ op[p] \in Operation
      BY DEF TypeOK
    <2>2. op' = [op EXCEPT ![p] = [NoOperation EXCEPT
                    !.mode = "restore",
                    !.content = artifacts[slot.current]]]
      BY DEF BeginRestore, Begin
    <2>3. artifacts[slot.current] \in Contents
      BY DEF BeginRestore, Live, TypeOK, Slots
    <2>4. op' \in [Processes -> Operation]
      <3> HIDE DEF LocalInv, Contents
      <3> QED
        BY <2>1, <2>2, <2>3, OperationBegins
    <2>5. pc' \in [Processes -> Steps] /\ base' \in [Processes -> Files \cup {None}]
      BY DEF BeginRestore, Begin, TypeOK
    <2>6. dest' \in Files \cup {None} /\ pred' \in Contents \cup {None} /\ shown' \subseteq Contents
      BY DEF BeginRestore, TypeOK
    <2>7. slot' \in Slots \cup {None}
      BY DEF BeginRestore, TypeOK
    <2>8. artifacts' \in [Ids -> Contents \cup {None}]
      BY DEF BeginRestore, TypeOK
    <2>9. lock' \in Processes \cup {None} /\ harm' \subseteq Harms
      BY DEF BeginRestore, TypeOK
    <2> QED
      BY <2>4, <2>5, <2>6, <2>7, <2>8, <2>9 DEF TypeOK
  <1>2. written' \in Counted
    BY DEF BeginRestore, Counted
  <1>3. LockInv'
    BY DEF BeginRestore, Begin, LockInv
  <1>4. ASSUME NEW q \in Processes
        PROVE  LocalsOf(q)' /\ BaselineOf(q)'
    <2>1. artifacts[slot.current] \in Contents
      BY DEF BeginRestore, Live, TypeOK, Slots
    <2>2. pc' = [pc EXCEPT ![p] = "staged"] /\ base' = [base EXCEPT ![p] = dest]
          /\ UNCHANGED <<dest, harm>>
      BY DEF BeginRestore, Begin
    <2>3. op' = [op EXCEPT ![p] =
                   [NoOperation EXCEPT !.mode = "restore", !.content = artifacts[slot.current]]]
      BY DEF BeginRestore, Begin
    <2>4. CASE q = p
      BY <2>1, <2>2, <2>3 DEF LocalsOf, BaselineOf, TypeOK, NoOperation
    <2>5. CASE q # p
      BY <2>2, <2>3, <2>5 DEF LocalsOf, BaselineOf
    <2> QED
      BY <2>4, <2>5
  <1>5. ASSUME Clean'
        PROVE  Retained(slot)' /\ \A q \in Processes : RecoveryOf(q)'
    <2>1. Clean
      BY <1>5 DEF BeginRestore, Clean
    <2>2. Retained(slot)' /\ RecoveryOf(p)'
      BY <2>1 DEF BeginRestore, Begin, Retained, RecoveryOf
    <2>3. ASSUME NEW q \in Processes, q # p
          PROVE  RecoveryOf(q)'
      <3>1. pc'[q] = pc[q] /\ op'[q] = op[q] /\ base'[q] = base[q]
        BY <2>3 DEF BeginRestore, Begin
      <3>2. RecoveryOf(q) /\ UNCHANGED <<slot, artifacts, pred>>
        BY <2>1 DEF BeginRestore
      <3> QED
        BY <3>1, <3>2 DEF RecoveryOf, Retained
    <2> QED
      BY <2>2, <2>3
  <1> QED
    BY <1>1, <1>2, <1>3, <1>4, <1>5

\* A candidate that cannot be staged leaves the transaction unbegun.
LEMMA StageFailsStep ==
    ASSUME LocalInv, NEW p \in Processes, StageFails(p)
    PROVE  LocalInv'
  <1>1. TypeOK'
    <2>1. op \in [Processes -> Operation] /\ op[p] \in Operation
      BY DEF TypeOK
    <2>2. op' = [op EXCEPT ![p].failure = "failed"]
      BY DEF StageFails
    <2>3. slot \in Slots \cup {None} /\ dest \in Files \cup {None}
      BY DEF TypeOK
    <2>4. op' \in [Processes -> Operation]
      <3> HIDE DEF LocalInv
      <3> QED
        BY <2>1, <2>2, <2>3, OperationUpdate, ZenonT(60)
    <2>5. pc' \in [Processes -> Steps] /\ base' \in [Processes -> Files \cup {None}]
      BY DEF StageFails, TypeOK
    <2>6. dest' \in Files \cup {None} /\ pred' \in Contents \cup {None} /\ shown' \subseteq Contents
      BY DEF StageFails, TypeOK
    <2>7. slot' \in Slots \cup {None}
      BY DEF StageFails, TypeOK
    <2>8. artifacts' \in [Ids -> Contents \cup {None}]
      BY DEF StageFails, TypeOK
    <2>9. lock' \in Processes \cup {None} /\ harm' \subseteq Harms
      BY DEF StageFails, TypeOK
    <2> QED
      BY <2>4, <2>5, <2>6, <2>7, <2>8, <2>9 DEF TypeOK
  <1>2. written' \in Counted
    BY DEF StageFails
  <1>3. LockInv'
    BY DEF StageFails, LockInv
  <1>4. ASSUME NEW q \in Processes
        PROVE  LocalsOf(q)' /\ BaselineOf(q)'
    BY DEF StageFails, LocalsOf, BaselineOf
  <1>5. ASSUME Clean'
        PROVE  Retained(slot)' /\ \A q \in Processes : RecoveryOf(q)'
    <2>1. Clean
      BY <1>5 DEF StageFails, Clean
    <2>2. Retained(slot)' /\ RecoveryOf(p)'
      BY <2>1 DEF StageFails, Retained, RecoveryOf, NoOperation
    <2>3. ASSUME NEW q \in Processes, q # p
          PROVE  RecoveryOf(q)'
      <3>1. pc'[q] = pc[q] /\ op'[q] = op[q] /\ base'[q] = base[q]
        BY <2>3 DEF StageFails
      <3>2. RecoveryOf(q) /\ UNCHANGED <<slot, artifacts, pred>>
        BY <2>1 DEF StageFails, Goto, session, recovery, history
      <3> QED
        BY <3>1, <3>2 DEF RecoveryOf, Retained
    <2> QED
      BY <2>2, <2>3
  <1> QED
    BY <1>1, <1>2, <1>3, <1>4, <1>5

\* The lock is free: every other process is outside a transaction.
LEMMA AcquireLockStep ==
    ASSUME LocalInv, NEW p \in Processes, AcquireLock(p)
    PROVE  LocalInv'
  <1>1. TypeOK'
    <2>1. op \in [Processes -> Operation] /\ op[p] \in Operation
      BY DEF TypeOK
    <2>2. op' = op
      BY DEF AcquireLock
    <2>3. slot \in Slots \cup {None} /\ dest \in Files \cup {None}
      BY DEF TypeOK
    <2>4. op' \in [Processes -> Operation]
      <3> HIDE DEF LocalInv
      <3> QED
        BY <2>1, <2>2, <2>3, OperationUpdate, ZenonT(60)
    <2>5. pc' \in [Processes -> Steps] /\ base' \in [Processes -> Files \cup {None}]
      BY DEF AcquireLock, TypeOK
    <2>6. dest' \in Files \cup {None} /\ pred' \in Contents \cup {None} /\ shown' \subseteq Contents
      BY DEF AcquireLock, TypeOK
    <2>7. slot' \in Slots \cup {None}
      BY DEF AcquireLock, TypeOK
    <2>8. artifacts' \in [Ids -> Contents \cup {None}]
      BY DEF AcquireLock, TypeOK
    <2>9. lock' \in Processes \cup {None} /\ harm' \subseteq Harms
      BY DEF AcquireLock, Harmed, TypeOK
    <2> QED
      BY <2>4, <2>5, <2>6, <2>7, <2>8, <2>9 DEF TypeOK
  <1>2. written' \in Counted
    BY DEF AcquireLock
  <1>3. LockInv'
    BY DEF AcquireLock, Harmed, LockInv
  <1>4. ASSUME NEW q \in Processes
        PROVE  LocalsOf(q)' /\ BaselineOf(q)'
    BY DEF AcquireLock, Harmed, LocalsOf, BaselineOf
  <1>5. ASSUME Clean'
        PROVE  Retained(slot)' /\ \A q \in Processes : RecoveryOf(q)'
    <2>1. Clean
      BY <1>5 DEF AcquireLock, Harmed, Clean
    <2>2. Retained(slot)' /\ RecoveryOf(p)'
      BY <2>1 DEF AcquireLock, Retained, RecoveryOf, NoOperation
    <2>3. ASSUME NEW q \in Processes, q # p
          PROVE  RecoveryOf(q)'
      <3>1. pc'[q] = pc[q] /\ op'[q] = op[q] /\ base'[q] = base[q]
        BY <2>3 DEF AcquireLock
      <3>2. RecoveryOf(q) /\ UNCHANGED <<slot, artifacts, pred>>
        BY <2>1 DEF AcquireLock
      <3> QED
        BY <3>1, <3>2 DEF RecoveryOf, Retained
    <2> QED
      BY <2>2, <2>3
  <1> QED
    BY <1>1, <1>2, <1>3, <1>4, <1>5

\* A fault inside the transaction only moves the process on.
LEMMA StepFailsStep ==
    ASSUME LocalInv, NEW p \in Processes, StepFails(p)
    PROVE  LocalInv'
  <1>1. TypeOK'
    <2>1. op \in [Processes -> Operation] /\ op[p] \in Operation
      BY DEF TypeOK
    <2>2. op' = [op EXCEPT ![p].failure = "failed"]
      BY DEF StepFails, Raises
    <2>3. slot \in Slots \cup {None} /\ dest \in Files \cup {None}
      BY DEF TypeOK
    <2>4. op' \in [Processes -> Operation]
      <3> HIDE DEF LocalInv
      <3> QED
        BY <2>1, <2>2, <2>3, OperationUpdate, ZenonT(60)
    <2>5. pc' \in [Processes -> Steps] /\ base' \in [Processes -> Files \cup {None}]
      BY DEF StepFails, Raises, TypeOK
    <2>6. dest' \in Files \cup {None} /\ pred' \in Contents \cup {None} /\ shown' \subseteq Contents
      BY DEF StepFails, TypeOK
    <2>7. slot' \in Slots \cup {None}
      BY DEF StepFails, TypeOK
    <2>8. artifacts' \in [Ids -> Contents \cup {None}]
      BY DEF StepFails, TypeOK
    <2>9. lock' \in Processes \cup {None} /\ harm' \subseteq Harms
      BY DEF StepFails, Harmed, TypeOK
    <2> QED
      BY <2>4, <2>5, <2>6, <2>7, <2>8, <2>9 DEF TypeOK
  <1>2. written' \in Counted
    BY DEF StepFails
  <1>3. LockInv'
    BY DEF StepFails, Raises, Harmed, LockInv
  <1>4. ASSUME NEW q \in Processes
        PROVE  LocalsOf(q)' /\ BaselineOf(q)'
    BY DEF StepFails, Raises, Harmed, LocalsOf, BaselineOf
  <1>5. ASSUME Clean'
        PROVE  Retained(slot)' /\ \A q \in Processes : RecoveryOf(q)'
    <2>1. Clean
      BY <1>5 DEF StepFails, Harmed, Clean
    <2>2. Retained(slot)' /\ RecoveryOf(p)'
      <3>1. UNCHANGED <<slot, artifacts, pred>>
        BY DEF StepFails, Named
      <3>2. op'[p].new = op[p].new /\ op'[p].previous = op[p].previous
        BY DEF StepFails, Raises, Named
      <3>3. op'[p].replaced = op[p].replaced
        BY DEF StepFails, Raises, Named
      <3>4. pc'[p] = "unlock" /\ pc[p] \in LockedSteps \ {"unlock", "obsolete"}
        BY DEF StepFails, Raises, TypeOK, Named
      <3>5. LocalsOf(p) /\ RecoveryOf(p) /\ Retained(slot) /\ slot \in Slots \cup {None} /\ artifacts \in [Ids -> Contents \cup {None}]
        BY <2>1 DEF TypeOK
      <3> HIDE DEF LocalInv
      <3>6. Retained(slot)'
        BY <3>1, <3>5 DEF Retained
      <3>7. RecoveryOf(p)'
        BY <3>1, <3>2, <3>3, <3>4, <3>5 DEF Retained, RecoveryOf, LocalsOf
      <3> QED
        BY <3>6, <3>7
    <2>3. ASSUME NEW q \in Processes, q # p
          PROVE  RecoveryOf(q)'
      <3>1. pc'[q] = pc[q] /\ op'[q] = op[q] /\ base'[q] = base[q]
        BY <2>3 DEF StepFails, Raises
      <3>2. pc[q] \notin LockedSteps \cup LateSteps
        BY <1>5, <2>3 DEF StepFails, Harmed, LockInv, Clean
      <3> QED
        BY <3>1, <3>2 DEF RecoveryOf
    <2> QED
      BY <2>2, <2>3
  <1> QED
    BY <1>1, <1>2, <1>3, <1>4, <1>5

\* The first comparison: the destination is the baseline from here on.
LEMMA RecheckStep ==
    ASSUME LocalInv, NEW p \in Processes, Recheck(p)
    PROVE  LocalInv'
  <1>1. TypeOK'
    <2>1. op \in [Processes -> Operation] /\ op[p] \in Operation
      BY DEF TypeOK
    <2>2. \/ op' = op
         \/ op' = [op EXCEPT ![p].previous = slot]
         \/ op' = [op EXCEPT ![p].failure = "external"]
      BY DEF Recheck, Raises
    <2>3. slot \in Slots \cup {None} /\ dest \in Files \cup {None}
      BY DEF TypeOK
    <2>4. op' \in [Processes -> Operation]
      <3> HIDE DEF LocalInv
      <3> QED
        BY <2>1, <2>2, <2>3, OperationUpdate, ZenonT(60)
    <2>5. pc' \in [Processes -> Steps] /\ base' \in [Processes -> Files \cup {None}]
      BY DEF Recheck, Raises, TypeOK
    <2>6. dest' \in Files \cup {None} /\ pred' \in Contents \cup {None} /\ shown' \subseteq Contents
      BY DEF Recheck, TypeOK
    <2>7. slot' \in Slots \cup {None}
      BY DEF Recheck, TypeOK
    <2>8. artifacts' \in [Ids -> Contents \cup {None}]
      BY DEF Recheck, TypeOK
    <2>9. lock' \in Processes \cup {None} /\ harm' \subseteq Harms
      BY DEF Recheck, TypeOK
    <2> QED
      BY <2>4, <2>5, <2>6, <2>7, <2>8, <2>9 DEF TypeOK
  <1>2. written' \in Counted
    BY DEF Recheck
  <1>3. LockInv'
    BY DEF Recheck, Raises, LockInv, TypeOK
  <1>4. ASSUME NEW q \in Processes
        PROVE  LocalsOf(q)' /\ BaselineOf(q)'
    BY DEF Recheck, Raises, LocalsOf, BaselineOf, TypeOK, Operation
  <1>5. ASSUME Clean'
        PROVE  Retained(slot)' /\ \A q \in Processes : RecoveryOf(q)'
    <2>1. Clean
      BY <1>5 DEF Recheck, Clean
    <2>2. Retained(slot)' /\ RecoveryOf(p)'
      <3>1. op[p] \in Operation /\ op \in [Processes -> Operation]
        BY DEF TypeOK
      <3>2. UNCHANGED <<slot, artifacts, pred>>
        BY DEF Recheck, Named
      <3>3. op'[p].new = None
        BY <3>1 DEF Recheck, Raises, LocalsOf, Operation, Named
      <3>4. pc'[p] = "recover" => op'[p].previous = slot
        BY DEF Recheck, Raises, TypeOK, Operation, Named
      <3>5. LocalsOf(p) /\ RecoveryOf(p) /\ Retained(slot) /\ slot \in Slots \cup {None} /\ artifacts \in [Ids -> Contents \cup {None}]
        BY <2>1 DEF TypeOK
      <3> HIDE DEF LocalInv
      <3>6. Retained(slot)'
        BY <3>2, <3>5 DEF Retained
      <3>7. RecoveryOf(p)'
        BY <3>2, <3>3, <3>4 DEF RecoveryOf
      <3> QED
        BY <3>6, <3>7
    <2>3. ASSUME NEW q \in Processes, q # p
          PROVE  RecoveryOf(q)'
      <3>1. pc'[q] = pc[q] /\ op'[q] = op[q] /\ base'[q] = base[q]
        BY <2>3 DEF Recheck, Raises, TypeOK
      <3>2. pc[q] \notin LockedSteps \cup LateSteps
        BY <1>5, <2>3 DEF Recheck, LockInv, Clean
      <3> QED
        BY <3>1, <3>2 DEF RecoveryOf
    <2> QED
      BY <2>2, <2>3
  <1> QED
    BY <1>1, <1>2, <1>3, <1>4, <1>5

\* The copy under a fresh identifier has the content of the baseline.
LEMMA CreateRecoveryStep ==
    ASSUME LocalInv, NEW p \in Processes, CreateRecovery(p)
    PROVE  LocalInv'
  <1>1. TypeOK'
    <2>1. op \in [Processes -> Operation] /\ op[p] \in Operation
      BY DEF TypeOK
    <2>2. \/ \E id \in Ids : op' = [op EXCEPT ![p].new = id]
         \/ op' = [op EXCEPT ![p].failure = "failed"]
      BY DEF CreateRecovery, Raises
    <2>3. op' \in [Processes -> Operation]
      <3> HIDE DEF LocalInv
      <3>1. \A id \in Ids : [op EXCEPT ![p].new = id] \in [Processes -> Operation]
        BY <2>1, OperationUpdate
      <3>2. [op EXCEPT ![p].failure = "failed"] \in [Processes -> Operation]
        BY <2>1, OperationUpdate
      <3> QED
        BY <2>2, <3>1, <3>2
    <2>4. pc' \in [Processes -> Steps] /\ base' \in [Processes -> Files \cup {None}]
      BY DEF CreateRecovery, Raises, TypeOK
    <2>5. dest' \in Files \cup {None} /\ pred' \in Contents \cup {None} /\ shown' \subseteq Contents
      BY DEF CreateRecovery, TypeOK
    <2>6. slot' \in Slots \cup {None}
      BY DEF CreateRecovery, TypeOK
    <2>7. artifacts' \in [Ids -> Contents \cup {None}]
      <3>1. base[p] \in Files
        BY DEF CreateRecovery, LocalsOf, TypeOK
      <3>2. base[p].content \in Contents
        BY <3>1 DEF Files
      <3>3. \/ UNCHANGED artifacts
            \/ \E id \in Ids : artifacts' = [artifacts EXCEPT ![id] = base[p].content]
        BY DEF CreateRecovery
      <3> QED
        BY <3>2, <3>3 DEF TypeOK
    <2>8. lock' \in Processes \cup {None} /\ harm' \subseteq Harms
      BY DEF CreateRecovery, Harmed, TypeOK
    <2> QED
      BY <2>3, <2>4, <2>5, <2>6, <2>7, <2>8 DEF TypeOK
  <1>2. written' \in Counted
    BY DEF CreateRecovery
  <1>3. LockInv'
    BY DEF CreateRecovery, Raises, Harmed, LockInv, TypeOK
  <1>4. ASSUME NEW q \in Processes
        PROVE  LocalsOf(q)' /\ BaselineOf(q)'
    BY DEF CreateRecovery, Raises, Harmed, LocalsOf, BaselineOf, TypeOK, Operation
  <1>5. ASSUME Clean'
        PROVE  Retained(slot)' /\ \A q \in Processes : RecoveryOf(q)'
    <2>1. Clean
      BY <1>5 DEF CreateRecovery, Harmed, Clean
    <2>2. Retained(slot)' /\ RecoveryOf(p)'
      <3>1. op[p] \in Operation /\ op \in [Processes -> Operation]
        BY DEF TypeOK
      <3>2. UNCHANGED <<slot, pred, base>> /\ op[p].new = None /\ slot = op[p].previous
            /\ pc[p] = "recover" /\ ~op[p].replaced
        BY <2>1 DEF CreateRecovery, LocalsOf, RecoveryOf
      <3>3. op'[p].previous = op[p].previous /\ ~op'[p].replaced
        BY <3>1, <3>2 DEF CreateRecovery, Raises, Operation
      <3>4. \/ \E id \in Ids :
                 /\ id \notin Named(slot)
                 /\ artifacts' = [artifacts EXCEPT ![id] = base[p].content]
                 /\ \/ op'[p].new = id /\ pc'[p] = "slot"
                    \/ op'[p].new = None /\ pc'[p] = "unlock"
            \/ UNCHANGED artifacts /\ op'[p].new = None /\ pc'[p] = "unlock"
        <4>1. CASE \E id \in Ids : artifacts' = [artifacts EXCEPT ![id] = dest.content]
                                  /\ dest.content = base[p].content /\ id \notin Remembered
                                  /\ \/ op' = [op EXCEPT ![p].new = id] /\ Goto(p, "slot")
                                     \/ Raises(p, "failed")
          <5>1. PICK id \in Ids : /\ artifacts' = [artifacts EXCEPT ![id] = dest.content]
                                  /\ dest.content = base[p].content
                                  /\ id \notin Remembered
                                  /\ \/ op' = [op EXCEPT ![p].new = id] /\ Goto(p, "slot")
                                     \/ Raises(p, "failed")
            BY <4>1
          <5>2. id \notin Named(slot)
            BY <5>1 DEF Remembered
          <5>3. \/ op'[p].new = id /\ pc'[p] = "slot"
                \/ op'[p].new = None /\ pc'[p] = "unlock"
            BY <5>1, <3>2 DEF Raises, TypeOK, Operation
          <5> QED
            BY <5>1, <5>2, <5>3
        <4>2. CASE UNCHANGED artifacts /\ Raises(p, "failed")
          BY <4>2, <3>2 DEF Raises, TypeOK
        <4> QED
          BY <4>1, <4>2 DEF CreateRecovery
      <3>5. LocalsOf(p) /\ RecoveryOf(p) /\ Retained(slot) /\ slot \in Slots \cup {None} /\ artifacts \in [Ids -> Contents \cup {None}]
        BY <2>1 DEF TypeOK
      <3>6. Named(slot) \subseteq Ids /\ Named(op[p].previous) \subseteq Ids
        BY <3>1, <3>5, OperationFields DEF Named, Slots
      <3> HIDE DEF LocalInv
      <3>7. Retained(slot)'
        BY <3>2, <3>4, <3>5, <3>6 DEF Retained
      <3>8. RecoveryOf(p)'
        BY <3>2, <3>3, <3>4, <3>5, <3>6 DEF Retained, RecoveryOf
      <3> QED
        BY <3>7, <3>8
    <2>3. ASSUME NEW q \in Processes, q # p
          PROVE  RecoveryOf(q)'
      <3>1. pc'[q] = pc[q] /\ op'[q] = op[q] /\ base'[q] = base[q]
        BY <2>3 DEF CreateRecovery, Raises, TypeOK
      <3>2. pc[q] \notin LockedSteps \cup LateSteps
        BY <1>5, <2>3 DEF CreateRecovery, Harmed, LockInv, Clean
      <3> QED
        BY <3>1, <3>2 DEF RecoveryOf
    <2> QED
      BY <2>2, <2>3
  <1> QED
    BY <1>1, <1>2, <1>3, <1>4, <1>5

\* The new slot names the new artifact and the previous ones.
LEMMA WriteSlotStep ==
    ASSUME LocalInv, NEW p \in Processes, WriteSlot(p)
    PROVE  LocalInv'
  <1>1. TypeOK'
    <2>1. op \in [Processes -> Operation] /\ op[p] \in Operation
      BY DEF TypeOK
    <2>2. \/ op' = op
         \/ op' = [op EXCEPT ![p].failure = "failed"]
      BY DEF WriteSlot, Raises
    <2>3. slot \in Slots \cup {None} /\ dest \in Files \cup {None}
      BY DEF TypeOK
    <2>4. op' \in [Processes -> Operation]
      <3> HIDE DEF LocalInv
      <3> QED
        BY <2>1, <2>2, <2>3, OperationUpdate, ZenonT(60)
    <2>5. pc' \in [Processes -> Steps] /\ base' \in [Processes -> Files \cup {None}]
      BY DEF WriteSlot, Raises, TypeOK
    <2>6. dest' \in Files \cup {None} /\ pred' \in Contents \cup {None} /\ shown' \subseteq Contents
      BY DEF WriteSlot, TypeOK
    <2>7. slot' \in Slots \cup {None}
      BY OperationFields, TransactionSlotType DEF WriteSlot, TypeOK, LocalsOf
    <2>8. artifacts' \in [Ids -> Contents \cup {None}]
      BY DEF WriteSlot, TypeOK
    <2>9. lock' \in Processes \cup {None} /\ harm' \subseteq Harms
      BY DEF WriteSlot, TypeOK
    <2> QED
      BY <2>4, <2>5, <2>6, <2>7, <2>8, <2>9 DEF TypeOK
  <1>2. written' \in Counted
    BY DEF WriteSlot
  <1>3. LockInv'
    BY DEF WriteSlot, Raises, LockInv, TypeOK
  <1>4. ASSUME NEW q \in Processes
        PROVE  LocalsOf(q)' /\ BaselineOf(q)'
    BY DEF WriteSlot, Raises, LocalsOf, BaselineOf, TypeOK, Operation
  <1>5. ASSUME Clean'
        PROVE  Retained(slot)' /\ \A q \in Processes : RecoveryOf(q)'
    <2>1. Clean
      BY <1>5 DEF WriteSlot, Clean
    <2>2. Retained(slot)' /\ RecoveryOf(p)'
      <3>1. op[p] \in Operation /\ op \in [Processes -> Operation]
        BY DEF TypeOK
      <3>2. UNCHANGED <<artifacts, pred, base>>
        BY DEF WriteSlot
      <3>3. op'[p].new = op[p].new /\ op'[p].previous = op[p].previous
        BY <3>1 DEF WriteSlot, Raises, Operation
      <3>4. ~op[p].replaced /\ ~op'[p].replaced /\ op[p].new # None
        BY <3>1 DEF WriteSlot, Raises, LocalsOf, Operation
      <3>5. pc'[p] \in {"recheckAgain", "unlock"} /\ pc[p] = "slot"
        BY DEF WriteSlot, Raises, TypeOK
      <3>6. op[p].new \in Ids /\ op[p].previous \in Slots \cup {None}
        BY <3>1, <3>4, OperationFields
      <3>7. UNCHANGED slot \/ (Named(slot') = Named(op[p].previous) \cup {op[p].new})
        <4> HIDE DEF LocalInv
        <4> QED
          BY <3>6, TransactionSlotType DEF WriteSlot
      <3>8. pc'[p] = "recheckAgain" => op[p].new \in Named(slot')
        BY <3>6, TransactionSlotType DEF WriteSlot, Raises, TypeOK
      <3>9. LocalsOf(p) /\ RecoveryOf(p) /\ Retained(slot) /\ slot \in Slots \cup {None} /\ artifacts \in [Ids -> Contents \cup {None}]
        BY <2>1 DEF TypeOK
      <3> HIDE DEF LocalInv
      <3>10. Retained(slot)'
        BY <3>2, <3>4, <3>5, <3>7, <3>9 DEF Retained, RecoveryOf
      <3>11. RecoveryOf(p)'
        BY <3>2, <3>3, <3>4, <3>5, <3>7, <3>8, <3>9 DEF Retained, RecoveryOf
      <3> QED
        BY <3>10, <3>11
    <2>3. ASSUME NEW q \in Processes, q # p
          PROVE  RecoveryOf(q)'
      <3>1. pc'[q] = pc[q] /\ op'[q] = op[q] /\ base'[q] = base[q]
        BY <2>3 DEF WriteSlot, Raises, TypeOK
      <3>2. pc[q] \notin LockedSteps \cup LateSteps
        BY <1>5, <2>3 DEF WriteSlot, LockInv, Clean
      <3> QED
        BY <3>1, <3>2 DEF RecoveryOf
    <2> QED
      BY <2>2, <2>3
  <1> QED
    BY <1>1, <1>2, <1>3, <1>4, <1>5

\* The second comparison.
LEMMA RecheckAgainStep ==
    ASSUME LocalInv, NEW p \in Processes, RecheckAgain(p)
    PROVE  LocalInv'
  <1>1. TypeOK'
    <2>1. op \in [Processes -> Operation] /\ op[p] \in Operation
      BY DEF TypeOK
    <2>2. \/ op' = op
         \/ op' = [op EXCEPT ![p].failure = "external"]
      BY DEF RecheckAgain, Raises
    <2>3. slot \in Slots \cup {None} /\ dest \in Files \cup {None}
      BY DEF TypeOK
    <2>4. op' \in [Processes -> Operation]
      <3> HIDE DEF LocalInv
      <3> QED
        BY <2>1, <2>2, <2>3, OperationUpdate, ZenonT(60)
    <2>5. pc' \in [Processes -> Steps] /\ base' \in [Processes -> Files \cup {None}]
      BY DEF RecheckAgain, Raises, TypeOK
    <2>6. dest' \in Files \cup {None} /\ pred' \in Contents \cup {None} /\ shown' \subseteq Contents
      BY DEF RecheckAgain, TypeOK
    <2>7. slot' \in Slots \cup {None}
      BY DEF RecheckAgain, TypeOK
    <2>8. artifacts' \in [Ids -> Contents \cup {None}]
      BY DEF RecheckAgain, TypeOK
    <2>9. lock' \in Processes \cup {None} /\ harm' \subseteq Harms
      BY DEF RecheckAgain, TypeOK
    <2> QED
      BY <2>4, <2>5, <2>6, <2>7, <2>8, <2>9 DEF TypeOK
  <1>2. written' \in Counted
    BY DEF RecheckAgain
  <1>3. LockInv'
    BY DEF RecheckAgain, Raises, LockInv, TypeOK
  <1>4. ASSUME NEW q \in Processes
        PROVE  LocalsOf(q)' /\ BaselineOf(q)'
    BY DEF RecheckAgain, Raises, LocalsOf, BaselineOf, TypeOK, Operation
  <1>5. ASSUME Clean'
        PROVE  Retained(slot)' /\ \A q \in Processes : RecoveryOf(q)'
    <2>1. Clean
      BY <1>5 DEF RecheckAgain, Clean
    <2>2. Retained(slot)' /\ RecoveryOf(p)'
      <3>1. op[p] \in Operation /\ op \in [Processes -> Operation]
        BY DEF TypeOK
      <3>2. UNCHANGED <<slot, artifacts, pred>>
        BY DEF RecheckAgain, Named
      <3>3. op'[p].new = op[p].new /\ op'[p].previous = op[p].previous
        BY <3>1 DEF RecheckAgain, Raises, Operation, Named
      <3>4. base' = base /\ ~op[p].replaced /\ ~op'[p].replaced
        BY <3>1 DEF RecheckAgain, Raises, LocalsOf, Operation, Named
      <3>5. pc'[p] \in {"replace", "unlock"} /\ pc[p] = "recheckAgain"
        BY DEF RecheckAgain, Raises, TypeOK, Named
      <3>6. LocalsOf(p) /\ RecoveryOf(p) /\ Retained(slot) /\ slot \in Slots \cup {None} /\ artifacts \in [Ids -> Contents \cup {None}]
        BY <2>1 DEF TypeOK
      <3> HIDE DEF LocalInv
      <3>7. Retained(slot)'
        BY <3>2, <3>6 DEF Retained
      <3>8. RecoveryOf(p)'
        BY <3>2, <3>3, <3>4, <3>5, <3>6 DEF Retained, RecoveryOf
      <3> QED
        BY <3>7, <3>8
    <2>3. ASSUME NEW q \in Processes, q # p
          PROVE  RecoveryOf(q)'
      <3>1. pc'[q] = pc[q] /\ op'[q] = op[q] /\ base'[q] = base[q]
        BY <2>3 DEF RecheckAgain, Raises, TypeOK
      <3>2. pc[q] \notin LockedSteps \cup LateSteps
        BY <1>5, <2>3 DEF RecheckAgain, LockInv, Clean
      <3> QED
        BY <3>1, <3>2 DEF RecoveryOf
    <2> QED
      BY <2>2, <2>3
  <1> QED
    BY <1>1, <1>2, <1>3, <1>4, <1>5

\* os.replace: what it overwrites is in the new artifact.
LEMMA ReplaceStep ==
    ASSUME LocalInv, NEW p \in Processes, Replace(p)
    PROVE  LocalInv'
  <1>1. TypeOK'
    <2>1. op \in [Processes -> Operation] /\ op[p] \in Operation
      BY DEF TypeOK
    <2>2. \/ op' = op
         \/ op' = [op EXCEPT ![p].replaced = TRUE]
         \/ op' = [op EXCEPT ![p].failure = "failed"]
         \/ op' = [op EXCEPT ![p].failure = "external"]
      BY DEF Replace, Raises
    <2>3. op' \in [Processes -> Operation]
      <3> HIDE DEF LocalInv
      <3>1. /\ [op EXCEPT ![p].replaced = TRUE] \in [Processes -> Operation]
            /\ [op EXCEPT ![p].failure = "failed"] \in [Processes -> Operation]
            /\ [op EXCEPT ![p].failure = "external"] \in [Processes -> Operation]
        BY <2>1, OperationUpdate
      <3> QED
        BY <2>1, <2>2, <3>1
    <2>4. pc' \in [Processes -> Steps] /\ base' \in [Processes -> Files \cup {None}]
      BY DEF Replace, Raises, TypeOK
    <2>5. dest' \in Files \cup {None} /\ pred' \in Contents \cup {None} /\ shown' \subseteq Contents
      BY DEF Replace, WriteDestination, TypeOK, Files, Counted, LocalsOf
    <2>6. slot' \in Slots \cup {None}
      BY DEF Replace, TypeOK
    <2>7. artifacts' \in [Ids -> Contents \cup {None}]
      BY DEF Replace, TypeOK
    <2>8. lock' \in Processes \cup {None} /\ harm' \subseteq Harms
      BY DEF Replace, Harmed, TypeOK
    <2> QED
      BY <2>3, <2>4, <2>5, <2>6, <2>7, <2>8 DEF TypeOK
  <1>2. written' \in Counted
    BY DEF Replace, WriteDestination, Counted
  <1>3. LockInv'
    BY DEF Replace, Raises, Harmed, LockInv, TypeOK
  <1>4. ASSUME NEW q \in Processes
        PROVE  LocalsOf(q)' /\ BaselineOf(q)'
    BY DEF Replace, Raises, LocalsOf, BaselineOf, TypeOK, Operation, LockInv
  <1>5. ASSUME Clean'
        PROVE  Retained(slot)' /\ \A q \in Processes : RecoveryOf(q)'
    <2>1. Clean
      BY <1>5 DEF Replace, Harmed, Clean
    <2>2. Retained(slot)' /\ RecoveryOf(p)'
      <3>1. op[p] \in Operation /\ op \in [Processes -> Operation]
        BY DEF TypeOK
      <3>2. UNCHANGED <<slot, artifacts, base>>
        BY DEF Replace, Named
      <3>3. op'[p].new = op[p].new /\ op'[p].previous = op[p].previous
        BY <3>1 DEF Replace, Raises, Operation, Named
      <3>4. pc[p] = "replace" /\ ~op[p].replaced
        BY DEF Replace, LocalsOf, Named
      <3>5. \/ pc'[p] = "verify" /\ op'[p].replaced /\ pred' = (IF dest = None THEN None ELSE dest.content)
            \/ pc'[p] = "unlock" /\ op[p].new = None /\ UNCHANGED pred
        <4>1. CASE op' = [op EXCEPT ![p].replaced = TRUE] /\ Goto(p, "verify")
                   /\ pred' = IF dest = None THEN None ELSE dest.content
          <5>1. op'[p].replaced
            BY <3>1, <4>1
          <5>2. pc'[p] = "verify"
            BY <4>1 DEF TypeOK
          <5> QED
            BY <4>1, <5>1, <5>2
        <4>2. CASE Harmed("unstable")
          BY <1>5, <4>2 DEF Harmed, Clean
        <4>3. CASE base[p] = None /\ Raises(p, "external") /\ UNCHANGED history
          BY <3>4, <4>3 DEF Raises, TypeOK, LocalsOf
        <4> QED
          BY <4>1, <4>2, <4>3 DEF Replace
      <3>6. IF op[p].new = None
            THEN base[p] = None /\ (dest = None \/ UNCHANGED pred)
            ELSE base[p] # None /\ dest = base[p]
        BY <2>1 DEF Replace, Clean, LocalsOf, BaselineOf
      <3>7. LocalsOf(p) /\ RecoveryOf(p) /\ Retained(slot) /\ slot \in Slots \cup {None} /\ artifacts \in [Ids -> Contents \cup {None}]
        BY <2>1 DEF TypeOK
      <3> HIDE DEF LocalInv
      <3>8. Retained(slot)'
        BY <3>2, <3>4, <3>5, <3>6, <3>7 DEF Retained, RecoveryOf
      <3>9. RecoveryOf(p)'
        BY <3>2, <3>3, <3>4, <3>5, <3>6, <3>7 DEF RecoveryOf
      <3> QED
        BY <3>8, <3>9
    <2>3. ASSUME NEW q \in Processes, q # p
          PROVE  RecoveryOf(q)'
      <3>1. pc'[q] = pc[q] /\ op'[q] = op[q] /\ base'[q] = base[q]
        BY <2>3 DEF Replace, Raises, TypeOK
      <3>2. pc[q] \notin LockedSteps \cup LateSteps
        BY <1>5, <2>3 DEF Replace, Harmed, LockInv, Clean
      <3> QED
        BY <3>1, <3>2 DEF RecoveryOf
    <2> QED
      BY <2>2, <2>3
  <1> QED
    BY <1>1, <1>2, <1>3, <1>4, <1>5

\* Synchronisation and reading back change no file.
LEMMA VerifyStep ==
    ASSUME LocalInv, NEW p \in Processes, Verify(p)
    PROVE  LocalInv'
  <1>1. TypeOK'
    <2>1. op \in [Processes -> Operation] /\ op[p] \in Operation
      BY DEF TypeOK
    <2>2. \/ op' = [op EXCEPT ![p].seen = dest]
         \/ op' = [op EXCEPT ![p].seen = dest, ![p].result = dest]
         \/ op' = [op EXCEPT ![p].failure = "failed"]
      BY DEF Verify, Raises
    <2>3. slot \in Slots \cup {None} /\ dest \in Files \cup {None}
      BY DEF TypeOK
    <2>4. op' \in [Processes -> Operation]
      <3> HIDE DEF LocalInv
      <3>1. /\ [op EXCEPT ![p].seen = dest] \in [Processes -> Operation]
            /\ [op EXCEPT ![p].seen = dest, ![p].result = dest] \in [Processes -> Operation]
            /\ [op EXCEPT ![p].failure = "failed"] \in [Processes -> Operation]
        BY <2>1, <2>3, OperationUpdate
      <3> QED
        BY <2>2, <3>1
    <2>5. pc' \in [Processes -> Steps] /\ base' \in [Processes -> Files \cup {None}]
      BY DEF Verify, Raises, TypeOK
    <2>6. dest' \in Files \cup {None} /\ pred' \in Contents \cup {None} /\ shown' \subseteq Contents
      BY DEF Verify, TypeOK
    <2>7. slot' \in Slots \cup {None}
      BY DEF Verify, TypeOK
    <2>8. artifacts' \in [Ids -> Contents \cup {None}]
      BY DEF Verify, TypeOK
    <2>9. lock' \in Processes \cup {None} /\ harm' \subseteq Harms
      BY DEF Verify, TypeOK
    <2> QED
      BY <2>4, <2>5, <2>6, <2>7, <2>8, <2>9 DEF TypeOK
  <1>2. written' \in Counted
    BY DEF Verify
  <1>3. LockInv'
    BY DEF Verify, Raises, LockInv, TypeOK
  <1>4. ASSUME NEW q \in Processes
        PROVE  LocalsOf(q)' /\ BaselineOf(q)'
    BY DEF Verify, Raises, LocalsOf, BaselineOf, TypeOK, Operation
  <1>5. ASSUME Clean'
        PROVE  Retained(slot)' /\ \A q \in Processes : RecoveryOf(q)'
    <2>1. Clean
      BY <1>5 DEF Verify, Clean
    <2>2. Retained(slot)' /\ RecoveryOf(p)'
      <3>1. op[p] \in Operation /\ op \in [Processes -> Operation]
        BY DEF TypeOK
      <3>2. UNCHANGED <<slot, artifacts, pred>>
        BY DEF Verify, Named
      <3>3. op'[p].new = op[p].new /\ op'[p].previous = op[p].previous
        BY <3>1 DEF Verify, Raises, Operation, Named
      <3>4. op'[p].replaced = op[p].replaced
        BY <3>1 DEF Verify, Raises, Operation, Named
      <3>5. pc'[p] \in {"unlock", "obsolete"} /\ pc[p] = "verify" /\ op[p].replaced
        BY DEF Verify, Raises, TypeOK, LocalsOf, Named
      <3>6. LocalsOf(p) /\ RecoveryOf(p) /\ Retained(slot) /\ slot \in Slots \cup {None} /\ artifacts \in [Ids -> Contents \cup {None}]
        BY <2>1 DEF TypeOK
      <3> HIDE DEF LocalInv
      <3>7. Retained(slot)'
        BY <3>2, <3>6 DEF Retained
      <3>8. RecoveryOf(p)'
        BY <3>2, <3>3, <3>4, <3>5, <3>6 DEF RecoveryOf
      <3> QED
        BY <3>7, <3>8
    <2>3. ASSUME NEW q \in Processes, q # p
          PROVE  RecoveryOf(q)'
      <3>1. pc'[q] = pc[q] /\ op'[q] = op[q] /\ base'[q] = base[q]
        BY <2>3 DEF Verify, Raises, TypeOK
      <3>2. pc[q] \notin LockedSteps \cup LateSteps
        BY <1>5, <2>3 DEF Verify, LockInv, Clean
      <3> QED
        BY <3>1, <3>2 DEF RecoveryOf
    <2> QED
      BY <2>2, <2>3
  <1> QED
    BY <1>1, <1>2, <1>3, <1>4, <1>5

\* Only artifacts of the previous slot are removed, the new one stays.
LEMMA DropObsoleteStep ==
    ASSUME LocalInv, NEW p \in Processes, DropObsolete(p)
    PROVE  LocalInv'
  <1>1. TypeOK'
    <2>1. op \in [Processes -> Operation] /\ op[p] \in Operation
      BY DEF TypeOK
    <2>2. \/ op' = op
         \/ op' = [op EXCEPT ![p].failure = "failed"]
      BY DEF DropObsolete, Raises
    <2>3. slot \in Slots \cup {None} /\ dest \in Files \cup {None}
      BY DEF TypeOK
    <2>4. op' \in [Processes -> Operation]
      <3> HIDE DEF LocalInv
      <3> QED
        BY <2>1, <2>2, <2>3, OperationUpdate, ZenonT(60)
    <2>5. pc' \in [Processes -> Steps] /\ base' \in [Processes -> Files \cup {None}]
      BY DEF DropObsolete, Raises, TypeOK
    <2>6. dest' \in Files \cup {None} /\ pred' \in Contents \cup {None} /\ shown' \subseteq Contents
      BY DEF DropObsolete, TypeOK
    <2>7. slot' \in Slots \cup {None}
      BY DEF DropObsolete, TypeOK
    <2>8. artifacts' \in [Ids -> Contents \cup {None}]
      BY DEF DropObsolete, TypeOK
    <2>9. lock' \in Processes \cup {None} /\ harm' \subseteq Harms
      BY DEF DropObsolete, Raises, Harmed, TypeOK
    <2> QED
      BY <2>4, <2>5, <2>6, <2>7, <2>8, <2>9 DEF TypeOK
  <1>2. written' \in Counted
    BY DEF DropObsolete
  <1>3. LockInv'
    BY DEF DropObsolete, Raises, Harmed, LockInv, TypeOK
  <1>4. ASSUME NEW q \in Processes
        PROVE  LocalsOf(q)' /\ BaselineOf(q)'
    BY DEF DropObsolete, Raises, Harmed, LocalsOf, BaselineOf, TypeOK, Operation
  <1>5. ASSUME Clean'
        PROVE  Retained(slot)' /\ \A q \in Processes : RecoveryOf(q)'
    <2>1. Clean
      BY <1>5 DEF DropObsolete, Harmed, Clean
    <2>2. Retained(slot)' /\ RecoveryOf(p)'
      <3>1. op[p] \in Operation /\ op \in [Processes -> Operation]
        BY DEF TypeOK
      <3>2. UNCHANGED <<slot, pred>>
        BY DEF DropObsolete
      <3>3. op'[p].new = op[p].new /\ op'[p].previous = op[p].previous
        BY <3>1 DEF DropObsolete, Raises, Operation
      <3>4. op'[p].replaced /\ op[p].new # None /\ op[p].new \in Ids
        BY <3>1 DEF DropObsolete, Raises, LocalsOf, Operation
      <3>5. pc'[p] \in {"unlock", "commit"} /\ pc[p] = "obsolete"
        BY DEF DropObsolete, Raises, TypeOK
      <3>6. artifacts'[op[p].new] = artifacts[op[p].new]
        BY <3>1, OperationFields DEF DropObsolete, LocalsOf
      <3>7. LocalsOf(p) /\ RecoveryOf(p) /\ Retained(slot) /\ slot \in Slots \cup {None} /\ artifacts \in [Ids -> Contents \cup {None}]
        BY <2>1 DEF TypeOK
      <3> HIDE DEF LocalInv
      <3>8. Retained(slot)'
        BY <3>2, <3>4, <3>5, <3>6, <3>7 DEF Retained, RecoveryOf
      <3>9. RecoveryOf(p)'
        BY <3>2, <3>3, <3>4, <3>5, <3>6, <3>7 DEF RecoveryOf
      <3> QED
        BY <3>8, <3>9
    <2>3. ASSUME NEW q \in Processes, q # p
          PROVE  RecoveryOf(q)'
      <3>1. pc'[q] = pc[q] /\ op'[q] = op[q] /\ base'[q] = base[q]
        BY <2>3 DEF DropObsolete, Raises, TypeOK
      <3>2. pc[q] \notin LockedSteps \cup LateSteps
        BY <1>5, <2>3 DEF DropObsolete, Harmed, LockInv, Clean
      <3> QED
        BY <3>1, <3>2 DEF RecoveryOf
    <2> QED
      BY <2>2, <2>3
  <1> QED
    BY <1>1, <1>2, <1>3, <1>4, <1>5

\* The slot may forget the identifiers whose artifacts are gone.
LEMMA CommitSlotStep ==
    ASSUME LocalInv, NEW p \in Processes, CommitSlot(p)
    PROVE  LocalInv'
  <1>1. TypeOK'
    <2>1. op \in [Processes -> Operation] /\ op[p] \in Operation
      BY DEF TypeOK
    <2>2. \/ op' = [op EXCEPT ![p].result = op[p].seen]
         \/ op' = [op EXCEPT ![p].failure = "failed"]
      BY DEF CommitSlot, Raises
    <2>3. slot \in Slots \cup {None} /\ dest \in Files \cup {None}
      BY DEF TypeOK
    <2>4. op' \in [Processes -> Operation]
      <3> HIDE DEF LocalInv
      <3> QED
        BY <2>1, <2>2, <2>3, OperationUpdate, ZenonT(60)
    <2>5. pc' \in [Processes -> Steps] /\ base' \in [Processes -> Files \cup {None}]
      BY DEF CommitSlot, Raises, TypeOK
    <2>6. dest' \in Files \cup {None} /\ pred' \in Contents \cup {None} /\ shown' \subseteq Contents
      BY DEF CommitSlot, TypeOK
    <2>7. slot' \in Slots \cup {None}
      BY <2>1, OperationFields DEF CommitSlot, Slots, LocalsOf
    <2>8. artifacts' \in [Ids -> Contents \cup {None}]
      BY DEF CommitSlot, TypeOK
    <2>9. lock' \in Processes \cup {None} /\ harm' \subseteq Harms
      BY DEF CommitSlot, TypeOK
    <2> QED
      BY <2>4, <2>5, <2>6, <2>7, <2>8, <2>9 DEF TypeOK
  <1>2. written' \in Counted
    BY DEF CommitSlot
  <1>3. LockInv'
    BY DEF CommitSlot, Raises, LockInv, TypeOK
  <1>4. ASSUME NEW q \in Processes
        PROVE  LocalsOf(q)' /\ BaselineOf(q)'
    BY DEF CommitSlot, Raises, LocalsOf, BaselineOf, TypeOK, Operation, Counted
  <1>5. ASSUME Clean'
        PROVE  Retained(slot)' /\ \A q \in Processes : RecoveryOf(q)'
    <2>1. Clean
      BY <1>5 DEF CommitSlot, Clean
    <2>2. Retained(slot)' /\ RecoveryOf(p)'
      <3>1. op[p] \in Operation /\ op \in [Processes -> Operation]
        BY DEF TypeOK
      <3>2. UNCHANGED <<artifacts, pred>>
        BY DEF CommitSlot
      <3>3. op'[p].replaced /\ op[p].new # None
        BY <3>1 DEF CommitSlot, Raises, LocalsOf, BaselineOf, Operation
      <3>4. pc'[p] = "unlock" /\ pc[p] = "commit"
        BY DEF CommitSlot, Raises, TypeOK
      <3>5. op[p].new \in Named(slot')
        BY <3>1, OperationFields DEF CommitSlot, LocalsOf, Named
      <3>6. LocalsOf(p) /\ RecoveryOf(p) /\ Retained(slot) /\ slot \in Slots \cup {None} /\ artifacts \in [Ids -> Contents \cup {None}]
        BY <2>1 DEF TypeOK
      <3> HIDE DEF LocalInv
      <3>7. Retained(slot)'
        BY <3>2, <3>3, <3>4, <3>5, <3>6 DEF Retained, RecoveryOf
      <3>8. RecoveryOf(p)'
        BY <3>3, <3>4 DEF RecoveryOf
      <3> QED
        BY <3>7, <3>8
    <2>3. ASSUME NEW q \in Processes, q # p
          PROVE  RecoveryOf(q)'
      <3>1. pc'[q] = pc[q] /\ op'[q] = op[q] /\ base'[q] = base[q]
        BY <2>3 DEF CommitSlot, Raises, TypeOK
      <3>2. pc[q] \notin LockedSteps \cup LateSteps
        BY <1>5, <2>3 DEF CommitSlot, LockInv, Clean
      <3> QED
        BY <3>1, <3>2 DEF RecoveryOf
    <2> QED
      BY <2>2, <2>3
  <1> QED
    BY <1>1, <1>2, <1>3, <1>4, <1>5

\* After the release the process still has to look again or to roll back.
LEMMA UnlockStep ==
    ASSUME LocalInv, NEW p \in Processes, Unlock(p)
    PROVE  LocalInv'
  <1>1. TypeOK'
    <2>1. op \in [Processes -> Operation] /\ op[p] \in Operation
      BY DEF TypeOK
    <2>2. op' = op
      BY DEF Unlock
    <2>3. slot \in Slots \cup {None} /\ dest \in Files \cup {None}
      BY DEF TypeOK
    <2>4. op' \in [Processes -> Operation]
      <3> HIDE DEF LocalInv
      <3> QED
        BY <2>1, <2>2, <2>3, OperationUpdate, ZenonT(60)
    <2>5. pc' \in [Processes -> Steps] /\ base' \in [Processes -> Files \cup {None}]
      BY DEF Unlock, AfterUnlock, TypeOK
    <2>6. dest' \in Files \cup {None} /\ pred' \in Contents \cup {None} /\ shown' \subseteq Contents
      BY DEF Unlock, TypeOK
    <2>7. slot' \in Slots \cup {None}
      BY DEF Unlock, TypeOK
    <2>8. artifacts' \in [Ids -> Contents \cup {None}]
      BY DEF Unlock, TypeOK
    <2>9. lock' \in Processes \cup {None} /\ harm' \subseteq Harms
      BY DEF Unlock, TypeOK
    <2> QED
      BY <2>4, <2>5, <2>6, <2>7, <2>8, <2>9 DEF TypeOK
  <1>2. written' \in Counted
    BY DEF Unlock
  <1>3. LockInv'
    BY DEF Unlock, AfterUnlock, LockInv, TypeOK
  <1>4. ASSUME NEW q \in Processes
        PROVE  LocalsOf(q)' /\ BaselineOf(q)'
    BY DEF Unlock, AfterUnlock, LocalsOf, BaselineOf
  <1>5. ASSUME Clean'
        PROVE  Retained(slot)' /\ \A q \in Processes : RecoveryOf(q)'
    <2>1. Clean
      BY <1>5 DEF Unlock, Clean
    <2>2. Retained(slot)' /\ RecoveryOf(p)'
      BY <2>1 DEF Unlock, AfterUnlock, Retained, RecoveryOf, LocalsOf, BaselineOf, Operation, NoOperation
    <2>3. ASSUME NEW q \in Processes, q # p
          PROVE  RecoveryOf(q)'
      <3>1. pc'[q] = pc[q] /\ op'[q] = op[q] /\ base'[q] = base[q]
        BY <2>3 DEF Unlock
      <3>2. pc[q] \notin LockedSteps \cup LateSteps
        BY <1>5, <2>3 DEF Unlock, LockInv, Clean
      <3> QED
        BY <3>1, <3>2 DEF RecoveryOf
    <2> QED
      BY <2>2, <2>3
  <1> QED
    BY <1>1, <1>2, <1>3, <1>4, <1>5

\* The destination is looked at once more, outside the lock.
LEMMA RecaptureStep ==
    ASSUME LocalInv, NEW p \in Processes, Recapture(p)
    PROVE  LocalInv'
  <1>1. TypeOK'
    <2>1. op \in [Processes -> Operation] /\ op[p] \in Operation
      BY DEF TypeOK
    <2>2. \/ op' = op
         \/ op' = [op EXCEPT ![p].result = IF dest.content = op[p].content THEN dest ELSE None]
      BY DEF Recapture
    <2>3. slot \in Slots \cup {None} /\ dest \in Files \cup {None}
      BY DEF TypeOK
    <2>4. op' \in [Processes -> Operation]
      <3> HIDE DEF LocalInv
      <3> QED
        BY <2>1, <2>2, <2>3, OperationUpdate, ZenonT(60)
    <2>5. pc' \in [Processes -> Steps] /\ base' \in [Processes -> Files \cup {None}]
      BY DEF Recapture, TypeOK
    <2>6. dest' \in Files \cup {None} /\ pred' \in Contents \cup {None} /\ shown' \subseteq Contents
      BY DEF Recapture, TypeOK
    <2>7. slot' \in Slots \cup {None}
      BY DEF Recapture, TypeOK
    <2>8. artifacts' \in [Ids -> Contents \cup {None}]
      BY DEF Recapture, TypeOK
    <2>9. lock' \in Processes \cup {None} /\ harm' \subseteq Harms
      BY DEF Recapture, Harmed, TypeOK
    <2> QED
      BY <2>4, <2>5, <2>6, <2>7, <2>8, <2>9 DEF TypeOK
  <1>2. written' \in Counted
    BY DEF Recapture
  <1>3. LockInv'
    BY DEF Recapture, Harmed, LockInv
  <1>4. ASSUME NEW q \in Processes
        PROVE  LocalsOf(q)' /\ BaselineOf(q)'
    BY DEF Recapture, Harmed, LocalsOf, BaselineOf, TypeOK, Operation
  <1>5. ASSUME Clean'
        PROVE  Retained(slot)' /\ \A q \in Processes : RecoveryOf(q)'
    <2>1. Clean
      BY <1>5 DEF Recapture, Harmed, Clean
    <2>2. Retained(slot)' /\ RecoveryOf(p)'
      BY <2>1 DEF Recapture, Retained, RecoveryOf, NoOperation
    <2>3. ASSUME NEW q \in Processes, q # p
          PROVE  RecoveryOf(q)'
      <3>1. pc'[q] = pc[q] /\ op'[q] = op[q] /\ base'[q] = base[q]
        BY <2>3 DEF Recapture, TypeOK
      <3>2. pc[q] \notin LockedSteps \cup LateSteps
        BY <1>5, <2>3 DEF Recapture, Harmed, LockInv, Clean
      <3> QED
        BY <3>1, <3>2 DEF RecoveryOf
    <2> QED
      BY <2>2, <2>3
  <1> QED
    BY <1>1, <1>2, <1>3, <1>4, <1>5

\* The previous slot comes back, whose artifact has the predecessor.
LEMMA RestoreSlotStep ==
    ASSUME LocalInv, NEW p \in Processes, RestoreSlot(p)
    PROVE  LocalInv'
  <1>1. TypeOK'
    <2>1. op \in [Processes -> Operation] /\ op[p] \in Operation
      BY DEF TypeOK
    <2>2. op' = op
      BY DEF RestoreSlot
    <2>3. slot \in Slots \cup {None} /\ dest \in Files \cup {None}
      BY DEF TypeOK
    <2>4. op' \in [Processes -> Operation]
      <3> HIDE DEF LocalInv
      <3> QED
        BY <2>1, <2>2, <2>3, OperationUpdate, ZenonT(60)
    <2>5. pc' \in [Processes -> Steps] /\ base' \in [Processes -> Files \cup {None}]
      BY DEF RestoreSlot, TypeOK
    <2>6. dest' \in Files \cup {None} /\ pred' \in Contents \cup {None} /\ shown' \subseteq Contents
      BY DEF RestoreSlot, TypeOK
    <2>7. slot' \in Slots \cup {None}
      BY OperationFields DEF RestoreSlot, TypeOK
    <2>8. artifacts' \in [Ids -> Contents \cup {None}]
      BY DEF RestoreSlot, TypeOK
    <2>9. lock' \in Processes \cup {None} /\ harm' \subseteq Harms
      BY DEF RestoreSlot, Harmed, TypeOK
    <2> QED
      BY <2>4, <2>5, <2>6, <2>7, <2>8, <2>9 DEF TypeOK
  <1>2. written' \in Counted
    BY DEF RestoreSlot
  <1>3. LockInv'
    BY DEF RestoreSlot, Harmed, LockInv
  <1>4. ASSUME NEW q \in Processes
        PROVE  LocalsOf(q)' /\ BaselineOf(q)'
    BY DEF RestoreSlot, Harmed, LocalsOf, BaselineOf
  <1>5. ASSUME Clean'
        PROVE  Retained(slot)' /\ \A q \in Processes : RecoveryOf(q)'
    <2>1. Clean
      BY <1>5 DEF RestoreSlot, Harmed, Clean
    <2>2. Retained(slot)' /\ RecoveryOf(p)'
      <3>1. UNCHANGED <<artifacts, pred>> /\ op' = op
        BY DEF RestoreSlot, Named
      <3>2. pc[p] = "restoreSlot" /\ pc'[p] = "removeNew"
        BY DEF RestoreSlot, TypeOK, Named
      <3>3. op[p].new # None /\ ~op[p].replaced
        BY DEF RestoreSlot, LocalsOf, Named
      <3>4. UNCHANGED slot \/ slot' = op[p].previous
        BY DEF RestoreSlot, Named
      <3>5. LocalsOf(p) /\ RecoveryOf(p) /\ Retained(slot) /\ slot \in Slots \cup {None} /\ artifacts \in [Ids -> Contents \cup {None}]
        BY <2>1 DEF TypeOK
      <3> HIDE DEF LocalInv
      <3>6. Retained(slot)'
        BY <3>1, <3>2, <3>3, <3>4, <3>5 DEF Retained, RecoveryOf
      <3>7. RecoveryOf(p)'
        BY <3>1, <3>2, <3>4, <3>5 DEF Retained, RecoveryOf
      <3> QED
        BY <3>6, <3>7
    <2>3. ASSUME NEW q \in Processes, q # p
          PROVE  RecoveryOf(q)'
      <3>1. pc'[q] = pc[q] /\ op'[q] = op[q] /\ base'[q] = base[q]
        BY <2>3 DEF RestoreSlot
      <3>2. pc[q] \notin LockedSteps \cup LateSteps
        BY <1>5, <2>3 DEF RestoreSlot, Harmed, LockInv, Clean
      <3> QED
        BY <3>1, <3>2 DEF RecoveryOf
    <2> QED
      BY <2>2, <2>3
  <1> QED
    BY <1>1, <1>2, <1>3, <1>4, <1>5

\* The new artifact goes when the slot no longer names it.
LEMMA RemoveNewStep ==
    ASSUME LocalInv, NEW p \in Processes, RemoveNew(p)
    PROVE  LocalInv'
  <1>1. TypeOK'
    <2>1. op \in [Processes -> Operation] /\ op[p] \in Operation
      BY DEF TypeOK
    <2>2. op' = op
      BY DEF RemoveNew
    <2>3. slot \in Slots \cup {None} /\ dest \in Files \cup {None}
      BY DEF TypeOK
    <2>4. op' \in [Processes -> Operation]
      <3> HIDE DEF LocalInv
      <3> QED
        BY <2>1, <2>2, <2>3, OperationUpdate, ZenonT(60)
    <2>5. pc' \in [Processes -> Steps] /\ base' \in [Processes -> Files \cup {None}]
      BY DEF RemoveNew, TypeOK
    <2>6. dest' \in Files \cup {None} /\ pred' \in Contents \cup {None} /\ shown' \subseteq Contents
      BY DEF RemoveNew, TypeOK
    <2>7. slot' \in Slots \cup {None}
      BY DEF RemoveNew, TypeOK
    <2>8. artifacts' \in [Ids -> Contents \cup {None}]
      BY DEF RemoveNew, TypeOK
    <2>9. lock' \in Processes \cup {None} /\ harm' \subseteq Harms
      BY DEF RemoveNew, Harmed, TypeOK
    <2> QED
      BY <2>4, <2>5, <2>6, <2>7, <2>8, <2>9 DEF TypeOK
  <1>2. written' \in Counted
    BY DEF RemoveNew
  <1>3. LockInv'
    BY DEF RemoveNew, Harmed, LockInv
  <1>4. ASSUME NEW q \in Processes
        PROVE  LocalsOf(q)' /\ BaselineOf(q)'
    BY DEF RemoveNew, Harmed, LocalsOf, BaselineOf
  <1>5. ASSUME Clean'
        PROVE  Retained(slot)' /\ \A q \in Processes : RecoveryOf(q)'
    <2>1. Clean
      BY <1>5 DEF RemoveNew, Harmed, Clean
    <2>2. Retained(slot)' /\ RecoveryOf(p)'
      <3>1. op[p] \in Operation /\ op \in [Processes -> Operation]
        BY DEF TypeOK
      <3>2. UNCHANGED <<slot, pred>> /\ op' = op
        BY DEF RemoveNew, Named
      <3>3. pc[p] = "removeNew" /\ pc'[p] = "answer"
        BY DEF RemoveNew, TypeOK, Named
      <3>4. op[p].new # None /\ ~op[p].replaced
        BY DEF RemoveNew, LocalsOf, Named
      <3>5. \A id \in Ids \ {op[p].new} : artifacts'[id] = artifacts[id]
        BY DEF RemoveNew, TypeOK, Named
      <3>6. LocalsOf(p) /\ RecoveryOf(p) /\ Retained(slot) /\ slot \in Slots \cup {None} /\ artifacts \in [Ids -> Contents \cup {None}]
        BY <2>1 DEF TypeOK
      <3>7. Named(slot) \subseteq Ids /\ Named(op[p].previous) \subseteq Ids
        BY <3>1, <3>6, OperationFields DEF Named, Slots
      <3> HIDE DEF LocalInv
      <3>8. Retained(slot)'
        BY <3>2, <3>3, <3>4, <3>5, <3>6, <3>7 DEF Retained, RecoveryOf
      <3>9. RecoveryOf(p)'
        BY <3>3 DEF RecoveryOf
      <3> QED
        BY <3>8, <3>9
    <2>3. ASSUME NEW q \in Processes, q # p
          PROVE  RecoveryOf(q)'
      <3>1. pc'[q] = pc[q] /\ op'[q] = op[q] /\ base'[q] = base[q]
        BY <2>3 DEF RemoveNew
      <3>2. pc[q] \notin LockedSteps \cup LateSteps
        BY <1>5, <2>3 DEF RemoveNew, Harmed, LockInv, Clean
      <3> QED
        BY <3>1, <3>2 DEF RecoveryOf
    <2> QED
      BY <2>2, <2>3
  <1> QED
    BY <1>1, <1>2, <1>3, <1>4, <1>5

\* The answer changes the session's baseline only.
LEMMA AnswerStep ==
    ASSUME LocalInv, NEW p \in Processes, Answer(p)
    PROVE  LocalInv'
  <1>1. TypeOK'
    <2>1. op \in [Processes -> Operation] /\ op[p] \in Operation
      BY DEF TypeOK
    <2>2. op' = [op EXCEPT ![p] = NoOperation]
      BY DEF Answer
    <2>3. op' \in [Processes -> Operation]
      <3> HIDE DEF LocalInv
      <3> QED
        BY <2>1, <2>2, OperationBegins
    <2>4. pc' \in [Processes -> Steps] /\ base' \in [Processes -> Files \cup {None}]
      BY OperationFields DEF Answer, TypeOK
    <2>5. dest' \in Files \cup {None} /\ pred' \in Contents \cup {None} /\ shown' \subseteq Contents
      BY DEF Answer, TypeOK
    <2>6. slot' \in Slots \cup {None}
      BY DEF Answer, TypeOK
    <2>7. artifacts' \in [Ids -> Contents \cup {None}]
      BY DEF Answer, TypeOK
    <2>8. lock' \in Processes \cup {None} /\ harm' \subseteq Harms
      BY DEF Answer, TypeOK
    <2> QED
      BY <2>3, <2>4, <2>5, <2>6, <2>7, <2>8 DEF TypeOK
  <1>2. written' \in Counted
    BY DEF Answer
  <1>3. LockInv'
    BY DEF Answer, LockInv
  <1>4. ASSUME NEW q \in Processes
        PROVE  LocalsOf(q)' /\ BaselineOf(q)'
    BY DEF Answer, LocalsOf, BaselineOf, TypeOK
  <1>5. ASSUME Clean'
        PROVE  Retained(slot)' /\ \A q \in Processes : RecoveryOf(q)'
    <2>1. Clean
      BY <1>5 DEF Answer, Clean
    <2>2. Retained(slot)' /\ RecoveryOf(p)'
      BY <2>1 DEF Answer, Retained, RecoveryOf
    <2>3. ASSUME NEW q \in Processes, q # p
          PROVE  RecoveryOf(q)'
      <3>1. pc'[q] = pc[q] /\ op'[q] = op[q] /\ base'[q] = base[q]
        BY <2>3 DEF Answer
      <3>2. RecoveryOf(q) /\ UNCHANGED <<slot, artifacts, pred>>
        BY <2>1 DEF Answer
      <3> QED
        BY <3>1, <3>2 DEF RecoveryOf, Retained
    <2> QED
      BY <2>2, <2>3
  <1> QED
    BY <1>1, <1>2, <1>3, <1>4, <1>5

\* A process dies: its locals and its lock are gone, the disk stays.
LEMMA CrashStep ==
    ASSUME LocalInv, NEW p \in Processes, Crash(p)
    PROVE  LocalInv'
  <1>1. TypeOK'
    <2>1. op \in [Processes -> Operation] /\ op[p] \in Operation
      BY DEF TypeOK
    <2>2. op' = [op EXCEPT ![p] = NoOperation]
      BY DEF Crash
    <2>3. op' \in [Processes -> Operation]
      <3> HIDE DEF LocalInv
      <3> QED
        BY <2>1, <2>2, OperationBegins
    <2>4. pc' \in [Processes -> Steps] /\ base' \in [Processes -> Files \cup {None}]
      BY DEF Crash, TypeOK
    <2>5. dest' \in Files \cup {None} /\ pred' \in Contents \cup {None} /\ shown' \subseteq Contents
      BY DEF Crash, TypeOK
    <2>6. slot' \in Slots \cup {None}
      BY DEF Crash, TypeOK
    <2>7. artifacts' \in [Ids -> Contents \cup {None}]
      BY DEF Crash, TypeOK
    <2>8. lock' \in Processes \cup {None} /\ harm' \subseteq Harms
      BY DEF Crash, TypeOK
    <2> QED
      BY <2>3, <2>4, <2>5, <2>6, <2>7, <2>8 DEF TypeOK
  <1>2. written' \in Counted
    BY DEF Crash, Counted
  <1>3. LockInv'
    BY DEF Crash, LockInv, TypeOK
  <1>4. ASSUME NEW q \in Processes
        PROVE  LocalsOf(q)' /\ BaselineOf(q)'
    BY DEF Crash, LocalsOf, BaselineOf, TypeOK
  <1>5. ASSUME Clean'
        PROVE  Retained(slot)' /\ \A q \in Processes : RecoveryOf(q)'
    <2>1. Clean
      BY <1>5 DEF Crash, Clean
    <2>2. Retained(slot)' /\ RecoveryOf(p)'
      BY <2>1 DEF Crash, Retained, RecoveryOf, TypeOK
    <2>3. ASSUME NEW q \in Processes, q # p
          PROVE  RecoveryOf(q)'
      <3>1. pc'[q] = pc[q] /\ op'[q] = op[q] /\ base'[q] = base[q]
        BY <2>3 DEF Crash
      <3>2. RecoveryOf(q) /\ UNCHANGED <<slot, artifacts, pred>>
        BY <2>1 DEF Crash, Goto, session, recovery, history
      <3> QED
        BY <3>1, <3>2 DEF RecoveryOf, Retained
    <2> QED
      BY <2>2, <2>3
  <1> QED
    BY <1>1, <1>2, <1>3, <1>4, <1>5

\* A foreign write has no predecessor to retain; one in the last window is harm.
LEMMA ExternalStep ==
    ASSUME LocalInv, External
    PROVE  LocalInv'
  <1>1. /\ UNCHANGED <<pc, op, base, slot, artifacts, lock>>
        /\ pred' = None
        /\ harm \subseteq harm'
        /\ harm' \subseteq harm \cup {"window"}
        /\ (\E p \in Processes : pc[p] = "replace") => "window" \in harm'
    BY DEF External, Harmed
  <1>2. /\ written.version < MaxWrites
        /\ dest' = [content |-> MaxSaves + written.version + 1, version |-> written.version + 1]
        /\ written' = [written EXCEPT !.version = @ + 1]
        /\ shown' = shown \cup {MaxSaves + written.version + 1}
    BY DEF External, WriteDestination
  <1>3. /\ MaxSaves + written.version + 1 \in Contents
        /\ written.version + 1 \in Versions
        /\ written' \in Counted
    BY <1>2 DEF Counted
  <1>4. TypeOK'
    BY <1>1, <1>2, <1>3 DEF TypeOK, Files
  <1>5. LockInv'
    BY <1>1 DEF LockInv
  <1>6. ASSUME NEW p \in Processes
        PROVE  LocalsOf(p)' /\ BaselineOf(p)'
    BY <1>1 DEF LocalsOf, BaselineOf
  <1>7. ASSUME Clean'
        PROVE  Retained(slot)' /\ \A p \in Processes : RecoveryOf(p)'
    <2>1. Clean
      BY <1>1, <1>7 DEF Clean
    <2>2. \A p \in Processes : RecoveryOf(p)
      BY <2>1
    <2> QED
      BY <1>1, <2>2 DEF Retained, RecoveryOf
  <1> QED
    BY <1>3, <1>4, <1>5, <1>6, <1>7

-----------------------------------------------------------------------------
(* The invariant and what follows from it *)

\* A vault that is there or not yet there, without a slot.
LEMMA InitInv == Init => LocalInv
  <1> SUFFICES ASSUME Init
               PROVE  LocalInv
    OBVIOUS
  <1>1. TypeOK
    <2>1. NoOperation \in Operation
      BY OperationBegins
    <2>2. dest \in Files \cup {None} /\ shown \subseteq Contents
      BY DEF Init, Files
    <2> QED
      BY <2>1, <2>2 DEF Init, TypeOK
  <1>2. written \in Counted
    BY DEF Init, Counted
  <1>3. /\ LockInv
        /\ \A p \in Processes : LocalsOf(p) /\ BaselineOf(p) /\ RecoveryOf(p)
    BY DEF Init, LockInv, LocalsOf, BaselineOf, RecoveryOf
  <1>4. Retained(slot)
    BY DEF Init, Retained
  <1> QED
    BY <1>1, <1>2, <1>3, <1>4

\* A step of something else.
LEMMA StutterInv == LocalInv /\ UNCHANGED vars => LocalInv'
  BY DEF vars, TypeOK, LockInv, LocalsOf, BaselineOf, Clean, Retained, RecoveryOf

\* Every step keeps the invariant.
LEMMA NextInv == LocalInv /\ Next => LocalInv'
  <1> SUFFICES ASSUME LocalInv, Next
               PROVE  LocalInv'
    OBVIOUS
  <1>1. CASE External
    BY <1>1, ExternalStep
  <1>2. CASE \E p \in Processes : Open(p) \/ BeginSave(p) \/ BeginRestore(p) \/ Publish(p) \/ Crash(p)
    <2> HIDE DEF LocalInv
    <2>1. PICK p \in Processes : Open(p) \/ BeginSave(p) \/ BeginRestore(p) \/ Publish(p) \/ Crash(p)
      BY <1>2
    <2>2. CASE Publish(p)
      BY <2>2, StageFailsStep, AcquireLockStep, StepFailsStep, RecheckStep, CreateRecoveryStep,
         WriteSlotStep, RecheckAgainStep, ReplaceStep, VerifyStep, DropObsoleteStep,
         CommitSlotStep, UnlockStep, RecaptureStep, RestoreSlotStep, RemoveNewStep, AnswerStep
         DEF Publish
    <2> QED
      BY <2>1, <2>2, OpenStep, BeginSaveStep, BeginRestoreStep, CrashStep
  <1> QED
    BY <1>1, <1>2 DEF Next

\* The inductive invariant holds in every state, for any number of processes,
\* identifiers, saves, foreign writes and crashes.
THEOREM LocalInvariant == Spec => []LocalInv
  <1> HIDE DEF LocalInv
  <1>1. Init => LocalInv
    BY InitInv
  <1>2. LocalInv /\ [Next]_vars => LocalInv'
    BY NextInv, StutterInv
  <1> QED
    BY <1>1, <1>2, PTL DEF Spec

\* Every variable of the store keeps its type, the transaction's locals included.
THEOREM LocalTypeCorrect == Spec => []TypeOK
  <1>1. LocalInv => TypeOK
    OBVIOUS
  <1> QED
    BY <1>1, LocalInvariant, PTL

\* Whatever fails or crashes in storage.py's _publish_source, the content the
\* destination replaced is in an artifact the recovery slot names, unless one of
\* the three gaps of the code was hit.
THEOREM PredecessorIsRetained == Spec => []PredecessorRetained
  <1>1. LocalInv => PredecessorRetained
    BY DEF PredecessorRetained, Clean, Retained
  <1> QED
    BY <1>1, LocalInvariant, PTL

\* os.replace never overwrites a file its author did not open or save last, but
\* for a foreign write after the last comparison.
THEOREM NoUpdateIsLost == Spec => NoLostUpdate
  <1> DEFINE Lossless ==
        \A p \in Processes :
          pc[p] = "replace" /\ pc'[p] # "replace" /\ dest' # dest
              => dest = base[p] \/ "window" \in harm
  <1>1. LocalInv /\ [Next]_vars => [Lossless]_vars
    <2> SUFFICES ASSUME LocalInv, Next
                 PROVE  Lossless
      OBVIOUS
    <2> SUFFICES ASSUME NEW p \in Processes, pc[p] = "replace", pc'[p] # "replace", dest' # dest
                 PROVE  dest = base[p] \/ "window" \in harm
      OBVIOUS
    <2>1. Replace(p)
      <3>1. ~External
        BY DEF External
      <3>2. PICK q \in Processes : Open(q) \/ BeginSave(q) \/ BeginRestore(q) \/ Publish(q) \/ Crash(q)
        BY <3>1 DEF Next
      <3>3. Replace(q)
        BY <3>2 DEF Open, BeginSave, BeginRestore, Publish, Crash, StageFails, AcquireLock,
             StepFails, Recheck, CreateRecovery, WriteSlot, RecheckAgain, Verify, DropObsolete,
             CommitSlot, Unlock, Recapture, RestoreSlot, RemoveNew, Answer
      <3>4. q = p
        BY <3>3 DEF Replace, Raises, TypeOK
      <3> QED
        BY <3>3, <3>4
    <2>2. base[p] = None => dest = None
      BY <2>1 DEF Replace
    <2> QED
      BY <2>2 DEF BaselineOf
  <1> QED
    BY <1>1, LocalInvariant, PTL DEF Spec, NoLostUpdate

-----------------------------------------------------------------------------
(* What the slot advertises, and what is left behind *)

HIDE DEF LocalInv

\* What the invariant of a transaction says of the process that makes a step.
LEMMA LocalFacts ==
    ASSUME LocalInv, NEW p \in Processes
    PROVE  /\ TypeOK
           /\ LocalsOf(p)
           /\ written \in Counted
           /\ op[p] \in Operation
           /\ op[p].new \in Ids \cup {None}
           /\ op[p].previous \in Slots \cup {None}
           /\ op[p].replaced \in BOOLEAN
           /\ Named(op[p].previous) \subseteq Ids
           /\ Named(slot) \subseteq Ids
           /\ base[p] \in Files \cup {None}
           /\ op[p].new # None => Named(TransactionSlot(op[p].new, op[p].previous))
                                    = Named(op[p].previous) \cup {op[p].new}
  <1>1. TypeOK /\ LocalsOf(p) /\ written \in Counted
    BY DEF LocalInv
  <1>2. op[p] \in Operation /\ base[p] \in Files \cup {None} /\ slot \in Slots \cup {None}
    BY <1>1 DEF TypeOK
  <1>3. /\ op[p].new \in Ids \cup {None}
        /\ op[p].previous \in Slots \cup {None}
        /\ op[p].replaced \in BOOLEAN
    BY <1>2, OperationFields
  <1>4. Named(op[p].previous) \subseteq Ids /\ Named(slot) \subseteq Ids
    BY <1>2, <1>3 DEF Named, Slots
  <1>5. op[p].new # None => Named(TransactionSlot(op[p].new, op[p].previous))
                              = Named(op[p].previous) \cup {op[p].new}
    BY <1>3, TransactionSlotType
  <1> QED
    BY <1>1, <1>2, <1>3, <1>4, <1>5

\* While nobody was overtaken, a process in a transaction or its rollback is alone.
LEMMA Alone ==
    ASSUME LocalInv, "overtaken" \notin harm, NEW p \in Processes, NEW q \in Processes, p # q,
           pc[p] \in LockedSteps \cup LateSteps
    PROVE  pc[q] \notin LockedSteps \cup LateSteps
  <1>1. LockInv
    BY DEF LocalInv
  <1>2. pc[q] \notin LateSteps
    BY <1>1 DEF LockInv
  <1>3. pc[q] \notin LockedSteps
    <2> SUFFICES ASSUME pc[q] \in LockedSteps
                 PROVE  FALSE
      OBVIOUS
    <2>1. pc[p] \notin LateSteps
      BY <1>1 DEF LockInv
    <2>2. lock = p /\ lock = q
      BY <1>1, <2>1 DEF LockInv
    <2> QED
      BY <2>2
  <1> QED
    BY <1>2, <1>3

\* A process outside a transaction says nothing about the slot.
LEMMA OutsideSlot ==
    ASSUME NEW q \in Processes, pc[q] \notin (LockedSteps \ {"recheck"}) \cup LateSteps
    PROVE  SlotOf(q) /\ ~Pending(q) /\ pc[q] # "commit"
  BY DEF SlotOf, Revocable, Pending

\* The parts of the invariant that a step of one process in a transaction is about.
OwnAdvert(p) ==
    /\ slot # None => Live(slot.current)
    /\ SlotOf(p)

OwnExact(p) ==
    /\ Pending(p) => LiveIds = Named(op[p].previous) \cup {op[p].new}
    /\ pc[p] = "commit" => LiveIds = {op[p].new}
    /\ ~Pending(p) /\ pc[p] # "commit" => LiveIds = Named(slot)

\* The others are outside the transaction: the step's own parts are enough.
LEMMA InsideSlot ==
    ASSUME LocalInv, SlotInv, NEW p \in Processes,
           pc[p] \in LockedSteps \cup LateSteps,
           \A q \in Processes \ {p} : pc'[q] = pc[q],
           harm \subseteq harm', written'.crashes = written.crashes,
           SlotSafe' /\ OwnAdvert(p) => OwnAdvert(p)',
           harm' \subseteq {"window"} /\ OwnAdvert(p) /\ OwnExact(p) => OwnExact(p)'
    PROVE  SlotInv'
  <1>1. ASSUME SlotSafe'
        PROVE  /\ SlotSafe
               /\ OwnAdvert(p)
               /\ \A q \in Processes \ {p} : /\ pc[q] \notin LockedSteps \cup LateSteps
                                             /\ pc'[q] \notin LockedSteps \cup LateSteps
    <2>1. SlotSafe /\ "overtaken" \notin harm
      BY <1>1 DEF SlotSafe
    <2>2. OwnAdvert(p)
      BY <2>1 DEF SlotInv, AdvertInv, OwnAdvert
    <2> QED
      BY <2>1, <2>2, Alone
  <1>2. AdvertInv'
    <2> SUFFICES ASSUME SlotSafe'
                 PROVE  (slot # None => Live(slot.current))' /\ \A q \in Processes : SlotOf(q)'
      BY DEF AdvertInv
    <2>1. OwnAdvert(p)'
      BY <1>1
    <2>2. ASSUME NEW q \in Processes \ {p}
          PROVE  SlotOf(q)'
      <3>1. pc'[q] \notin LockedSteps \cup LateSteps
        BY <1>1
      <3> QED
        BY <3>1 DEF SlotOf, Revocable
    <2> QED
      BY <2>1, <2>2 DEF OwnAdvert
  <1>3. ExactInv'
    <2> SUFFICES ASSUME harm' \subseteq {"window"}, written'.crashes = 0
                 PROVE  /\ \A q \in Processes :
                             /\ Pending(q)' => (LiveIds = Named(op[q].previous) \cup {op[q].new})'
                             /\ pc'[q] = "commit" => (LiveIds = {op[q].new})'
                        /\ (\A q \in Processes : ~Pending(q)' /\ pc'[q] # "commit")
                              => (LiveIds = Named(slot))'
      BY DEF ExactInv
    <2>1. SlotSafe'
      BY DEF SlotSafe
    <2>2. ASSUME NEW q \in Processes \ {p}
          PROVE  ~Pending(q) /\ pc[q] # "commit" /\ ~Pending(q)' /\ pc'[q] # "commit"
      <3>1. pc[q] \notin LockedSteps \cup LateSteps /\ pc'[q] \notin LockedSteps \cup LateSteps
        BY <1>1, <2>1
      <3> QED
        BY <3>1 DEF Pending, Revocable
    <2>3. harm \subseteq {"window"} /\ written.crashes = 0
      OBVIOUS
    <2>4. OwnExact(p)
      BY <2>2, <2>3 DEF SlotInv, ExactInv, OwnExact
    <2>5. OwnExact(p)'
      BY <1>1, <2>1, <2>4
    <2> QED
      BY <2>2, <2>5 DEF OwnExact
  <1> QED
    BY <1>2, <1>3 DEF SlotInv

\* Outside the lock a process changes neither the slot nor an artifact; a crash
\* may happen anywhere.
LEMMA OutsideStepSlot ==
    ASSUME SlotInv, NEW p \in Processes, UNCHANGED recovery,
           pc'[p] \in {"idle", "staged", "answer", "recheck"},
           \A q \in Processes \ {p} : pc'[q] = pc[q] /\ op'[q] = op[q],
           harm \subseteq harm',
           written'.crashes # 0
             \/ (written.crashes = 0 /\ pc[p] \in {"idle", "staged", "answer"})
    PROVE  SlotInv'
  <1>1. \A q \in Processes \ {p} : /\ SlotOf(q)' <=> SlotOf(q)
                                   /\ Pending(q)' <=> Pending(q)
    BY DEF SlotOf, Pending, Revocable, Live
  <1>2. SlotOf(p)' /\ ~Pending(p)' /\ pc'[p] # "commit"
    BY DEF SlotOf, Pending, Revocable
  <1>3. AdvertInv'
    <2> SUFFICES ASSUME SlotSafe'
                 PROVE  (slot # None => Live(slot.current))' /\ \A q \in Processes : SlotOf(q)'
      BY DEF AdvertInv
    <2>1. SlotSafe
      BY DEF SlotSafe
    <2> QED
      BY <1>1, <1>2, <2>1 DEF SlotInv, AdvertInv, Live
  <1>4. ExactInv'
    <2> SUFFICES ASSUME harm' \subseteq {"window"}, written'.crashes = 0
                 PROVE  /\ \A q \in Processes :
                             /\ Pending(q)' => (LiveIds = Named(op[q].previous) \cup {op[q].new})'
                             /\ pc'[q] = "commit" => (LiveIds = {op[q].new})'
                        /\ (\A q \in Processes : ~Pending(q)' /\ pc'[q] # "commit")
                              => (LiveIds = Named(slot))'
      BY DEF ExactInv
    <2>1. LiveIds' = LiveIds /\ slot' = slot
      BY DEF LiveIds, Live
    <2>2. ~Pending(p) /\ pc[p] # "commit"
      BY DEF Pending, Revocable
    <2>3. /\ \A q \in Processes :
               /\ Pending(q) => LiveIds = Named(op[q].previous) \cup {op[q].new}
               /\ pc[q] = "commit" => LiveIds = {op[q].new}
          /\ (\A q \in Processes : ~Pending(q) /\ pc[q] # "commit") => LiveIds = Named(slot)
      BY DEF SlotInv, ExactInv
    <2>4. ASSUME NEW q \in Processes
          PROVE  /\ Pending(q)' => (LiveIds = Named(op[q].previous) \cup {op[q].new})'
                 /\ pc'[q] = "commit" => (LiveIds = {op[q].new})'
      BY <1>1, <1>2, <2>1, <2>3 DEF Named
    <2>5. (\A q \in Processes : ~Pending(q)' /\ pc'[q] # "commit") => (LiveIds = Named(slot))'
      BY <1>1, <2>1, <2>2, <2>3 DEF Named
    <2> QED
      BY <2>4, <2>5
  <1> QED
    BY <1>3, <1>4 DEF SlotInv

-----------------------------------------------------------------------------
(* Every action keeps what the slot advertises *)

\* The steps of a session outside the transaction.
LEMMA OutsideActionsSlot ==
    ASSUME LocalInv, SlotInv, NEW p \in Processes,
           Open(p) \/ BeginSave(p) \/ BeginRestore(p) \/ StageFails(p) \/ AcquireLock(p)
             \/ Answer(p) \/ Crash(p)
    PROVE  SlotInv'
  <1>1. TypeOK /\ written \in Counted
    BY LocalFacts
  <1>2. UNCHANGED recovery /\ harm \subseteq harm'
    BY DEF Open, BeginSave, BeginRestore, StageFails, AcquireLock, Answer, Crash, Harmed
  <1>3. pc'[p] \in {"idle", "staged", "answer", "recheck"}
    BY <1>1 DEF Open, BeginSave, BeginRestore, Begin, StageFails, AcquireLock, Answer, Crash, TypeOK
  <1>4. ASSUME NEW q \in Processes \ {p}
        PROVE  pc'[q] = pc[q] /\ op'[q] = op[q]
    <2>1. CASE Open(p)
      BY <2>1 DEF Open
    <2>2. CASE AcquireLock(p)
      BY <1>1, <2>2 DEF AcquireLock, TypeOK
    <2>3. CASE BeginSave(p) \/ BeginRestore(p)
      BY <1>1, <2>3 DEF BeginSave, BeginRestore, Begin, TypeOK
    <2>4. CASE StageFails(p) \/ Answer(p) \/ Crash(p)
      BY <1>1, <2>4 DEF StageFails, Answer, Crash, TypeOK
    <2> QED
      BY <2>1, <2>2, <2>3, <2>4
  <1>5. \/ written'.crashes # 0
        \/ written'.crashes = written.crashes /\ pc[p] \in {"idle", "staged", "answer"}
    BY <1>1 DEF Open, BeginSave, BeginRestore, StageFails, AcquireLock, Answer, Crash, Counted
  <1>6. written'.crashes # 0
        \/ (written.crashes = 0 /\ pc[p] \in {"idle", "staged", "answer"})
    BY <1>5
  <1> QED
    BY <1>2, <1>3, <1>4, <1>6, OutsideStepSlot

\* A foreign write does not touch the recovery files.
LEMMA ExternalSlot ==
    ASSUME LocalInv, SlotInv, External
    PROVE  SlotInv'
  <1>1. UNCHANGED <<pc, op, slot, artifacts>> /\ harm \subseteq harm' /\ written'.crashes = written.crashes
    <2>1. written \in Counted
      BY DEF LocalInv
    <2> QED
      BY <2>1 DEF External, Harmed, WriteDestination, Counted
  <1>2. \A q \in Processes : (SlotOf(q)' <=> SlotOf(q)) /\ (Pending(q)' <=> Pending(q))
    BY <1>1 DEF SlotOf, Pending, Revocable, Live
  <1>3. AdvertInv'
    BY <1>1, <1>2 DEF SlotInv, AdvertInv, SlotSafe, Live
  <1>4. LiveIds' = LiveIds
    BY <1>1 DEF LiveIds, Live
  <1>5. ExactInv'
    BY <1>1, <1>2, <1>4 DEF SlotInv, ExactInv, Named
  <1> QED
    BY <1>3, <1>5 DEF SlotInv

\* A fault gives up a transaction whose artifact and slot remain to be rolled
\* back, or have their place in the slot.
LEMMA StepFailsSlot ==
    ASSUME LocalInv, SlotInv, NEW p \in Processes, StepFails(p)
    PROVE  SlotInv'
  <1>1. TypeOK /\ LocalsOf(p) /\ op[p] \in Operation
    BY LocalFacts
  <1>2. /\ pc[p] \in LockedSteps \ {"unlock", "obsolete"}
        /\ \A q \in Processes \ {p} : pc'[q] = pc[q]
        /\ pc'[p] = "unlock"
        /\ op'[p].new = op[p].new /\ op'[p].previous = op[p].previous
        /\ op'[p].replaced = op[p].replaced /\ op'[p].failure = "failed"
        /\ UNCHANGED <<slot, artifacts, written>>
        /\ harm \subseteq harm' /\ (pc[p] = "commit" => "backlog" \in harm')
    BY <1>1 DEF StepFails, Raises, Harmed, TypeOK, Operation
  <1>3. ASSUME SlotSafe', OwnAdvert(p)
        PROVE  OwnAdvert(p)'
    BY <1>1, <1>2, <1>3 DEF OwnAdvert, SlotOf, Revocable, Live, LocalsOf, TransactionSlot, Named
  <1>4. ASSUME harm' \subseteq {"window"}, OwnAdvert(p), OwnExact(p)
        PROVE  OwnExact(p)'
    <2>1. pc[p] # "commit" /\ LiveIds' = LiveIds
      BY <1>2, <1>4 DEF LiveIds, Live
    <2>2. Pending(p)' => Pending(p)
      BY <1>1, <1>2, <2>1 DEF Pending, Revocable, LocalsOf
    <2>3. Pending(p) /\ ~Pending(p)' => pc[p] = "verify" /\ op[p].new # None
      BY <1>1, <1>2, <2>1 DEF Pending, Revocable, LocalsOf
    <2>4. pc[p] = "verify" /\ op[p].new # None
             => Named(slot) = Named(op[p].previous) \cup {op[p].new}
      BY <1>4, LocalFacts DEF OwnAdvert, SlotOf
    <2> QED
      BY <1>2, <1>4, <2>1, <2>2, <2>3, <2>4 DEF OwnExact, Named
  <1> QED
    BY <1>2, <1>3, <1>4, InsideSlot

\* The comparison with the baseline reads the slot.
LEMMA RecheckSlot ==
    ASSUME LocalInv, SlotInv, NEW p \in Processes, Recheck(p)
    PROVE  SlotInv'
  <1>1. TypeOK /\ LocalsOf(p) /\ op[p] \in Operation
    BY LocalFacts
  <1>2. /\ pc[p] = "recheck" /\ op[p].new = None /\ ~op[p].replaced
        /\ \A q \in Processes \ {p} : pc'[q] = pc[q]
        /\ pc'[p] \in {"replace", "recover", "unlock"}
        /\ op'[p].new = None /\ op'[p].replaced = op[p].replaced
        /\ pc'[p] = "recover" => op'[p].previous = slot
        /\ pc'[p] = "unlock" => op'[p].failure = "external"
        /\ UNCHANGED <<slot, artifacts, written, harm>>
    BY <1>1 DEF Recheck, Raises, TypeOK, Operation, LocalsOf
  <1>3. ASSUME SlotSafe', OwnAdvert(p)
        PROVE  OwnAdvert(p)'
    BY <1>2, <1>3 DEF OwnAdvert, SlotOf, Revocable, Live
  <1>4. ASSUME harm' \subseteq {"window"}, OwnAdvert(p), OwnExact(p)
        PROVE  OwnExact(p)'
    BY <1>2, <1>4 DEF OwnExact, Pending, Revocable, LiveIds, Live, Named
  <1> QED
    BY <1>2, <1>3, <1>4, InsideSlot

\* A fresh artifact, which the slot does not name yet.
LEMMA CreateRecoverySlot ==
    ASSUME LocalInv, SlotInv, NEW p \in Processes, CreateRecovery(p)
    PROVE  SlotInv'
  <1>1. TypeOK /\ LocalsOf(p) /\ op[p] \in Operation /\ base[p] \in Files \cup {None}
        /\ pc[p] = "recover" /\ op[p].new = None /\ ~op[p].replaced /\ base[p] # None
    BY LocalFacts DEF CreateRecovery, LocalsOf
  <1>2. \A q \in Processes \ {p} : pc'[q] = pc[q]
    BY <1>1 DEF CreateRecovery, Raises, TypeOK
  <1>3. harm \subseteq harm' /\ UNCHANGED <<slot, written>>
    BY DEF CreateRecovery, Harmed
  <1>4. op'[p].previous = op[p].previous /\ op'[p].replaced = op[p].replaced
    BY <1>1 DEF CreateRecovery, Raises, TypeOK, Operation
  <1>5. CASE pc'[p] = "slot"
    <2>1. PICK id \in Ids : /\ dest.content = base[p].content
                            /\ ~Live(id)
                            /\ id \notin Remembered
                            /\ artifacts' = [artifacts EXCEPT ![id] = dest.content]
                            /\ op' = [op EXCEPT ![p].new = id]
                            /\ UNCHANGED harm
      BY <1>1, <1>5 DEF CreateRecovery, Raises, TypeOK
    <2>2. dest.content # None
      BY <1>1, <2>1 DEF Files
    <2>3. op'[p].new = id /\ id # None /\ id \notin Named(slot)
      BY <1>1, <2>1 DEF TypeOK, Operation, Remembered
    <2>4. \A i \in Ids : Live(i)' <=> Live(i) \/ i = id
      BY <1>1, <2>1, <2>2 DEF Live, TypeOK
    <2>5. slot # None => slot.current \in Ids
      BY <1>1 DEF TypeOK, Slots
    <2>6. ASSUME SlotSafe', OwnAdvert(p)
          PROVE  OwnAdvert(p)'
      <3>1. slot' = op'[p].previous /\ slot' = slot
        BY <1>1, <1>3, <1>4, <2>6 DEF OwnAdvert, SlotOf
      <3>2. (slot # None => Live(slot.current))'
        BY <1>3, <2>4, <2>5, <2>6 DEF OwnAdvert
      <3>3. op'[p].new \notin Named(slot')
        BY <1>3, <2>3 DEF Named
      <3>4. Live(op[p].new)'
        BY <2>3, <2>4
      <3> QED
        BY <1>5, <3>1, <3>2, <3>3, <3>4 DEF OwnAdvert, SlotOf, Revocable
    <2>7. ASSUME harm' \subseteq {"window"}, OwnAdvert(p), OwnExact(p)
          PROVE  OwnExact(p)'
      <3>1. LiveIds = Named(slot)
        BY <1>1, <2>7 DEF OwnExact, Pending, Revocable
      <3>2. LiveIds' = LiveIds \cup {id}
        BY <2>4 DEF LiveIds
      <3>3. slot = op'[p].previous
        BY <1>1, <1>4, <2>7 DEF OwnAdvert, SlotOf
      <3>4. Pending(p)' /\ pc'[p] # "commit"
        BY <1>1, <1>4, <1>5, <2>3 DEF Pending, Revocable
      <3> QED
        BY <2>3, <3>1, <3>2, <3>3, <3>4 DEF OwnExact, Named
    <2> QED
      BY <1>1, <1>2, <1>3, <2>6, <2>7, InsideSlot
  <1>6. CASE pc'[p] # "slot"
    <2>1. op'[p].new = None /\ pc'[p] = "unlock" /\ op'[p].failure = "failed"
      BY <1>1, <1>6 DEF CreateRecovery, Raises, TypeOK, Operation
    <2>2. \A i \in Ids : Live(i) => Live(i)'
      BY <1>1 DEF CreateRecovery, Live, TypeOK, Files
    <2>3. "backlog" \in harm' \/ artifacts' = artifacts
      BY <1>1, <1>6 DEF CreateRecovery, Harmed, TypeOK
    <2>4. slot # None => slot.current \in Ids
      BY <1>1 DEF TypeOK, Slots
    <2>5. ASSUME SlotSafe', OwnAdvert(p)
          PROVE  OwnAdvert(p)'
      <3>1. (slot # None => Live(slot.current))'
        BY <1>3, <2>2, <2>4, <2>5 DEF OwnAdvert
      <3> QED
        BY <2>1, <3>1 DEF OwnAdvert, SlotOf, Revocable
    <2>6. ASSUME harm' \subseteq {"window"}, OwnAdvert(p), OwnExact(p)
          PROVE  OwnExact(p)'
      <3>1. artifacts' = artifacts
        BY <2>3, <2>6
      <3> QED
        BY <1>1, <1>3, <2>1, <2>6, <3>1 DEF OwnExact, Pending, Revocable, LiveIds, Live, Named
    <2> QED
      BY <1>1, <1>2, <1>3, <2>5, <2>6, InsideSlot
  <1> QED
    BY <1>5, <1>6

\* The slot names the new artifact first and everything it named before.
LEMMA WriteSlotSlot ==
    ASSUME LocalInv, SlotInv, NEW p \in Processes, WriteSlot(p)
    PROVE  SlotInv'
  <1>1. /\ TypeOK
        /\ op[p] \in Operation
        /\ pc[p] = "slot"
        /\ op[p].new # None
        /\ ~op[p].replaced
    BY LocalFacts DEF WriteSlot, LocalsOf
  <1>2. /\ \A q \in Processes \ {p} : pc'[q] = pc[q]
        /\ pc'[p] \in {"recheckAgain", "unlock"}
        /\ op'[p].new = op[p].new /\ op'[p].previous = op[p].previous
        /\ op'[p].replaced = op[p].replaced
        /\ pc'[p] = "unlock" => op'[p].failure = "failed"
        /\ pc'[p] = "recheckAgain" => slot' = TransactionSlot(op[p].new, op[p].previous)
        /\ slot' = slot \/ slot' = TransactionSlot(op[p].new, op[p].previous)
        /\ UNCHANGED <<artifacts, written, harm>>
    BY <1>1 DEF WriteSlot, Raises, TypeOK, Operation
  <1>3. Revocable(p) /\ Revocable(p)'
    BY <1>1, <1>2 DEF Revocable
  <1>4. TransactionSlot(op[p].new, op[p].previous).current = op[p].new
    BY DEF TransactionSlot
  <1>5. ASSUME SlotSafe', OwnAdvert(p)
        PROVE  OwnAdvert(p)'
    <2>1. /\ slot = op[p].previous
          /\ op[p].new \notin Named(op[p].previous)
          /\ Live(op[p].new)
          /\ op[p].previous # None => Live(op[p].previous.current)
      BY <1>1, <1>3, <1>5 DEF OwnAdvert, SlotOf
    <2>2. \A id : Live(id)' <=> Live(id)
      BY <1>2 DEF Live
    <2>3. (slot # None => Live(slot.current))'
      BY <1>2, <1>4, <2>1, <2>2
    <2>4. SlotOf(p)'
      BY <1>1, <1>2, <2>1, <2>2 DEF SlotOf, Named, TransactionSlot
    <2> QED
      BY <2>3, <2>4 DEF OwnAdvert
  <1>6. ASSUME harm' \subseteq {"window"}, OwnAdvert(p), OwnExact(p)
        PROVE  OwnExact(p)'
    BY <1>1, <1>2, <1>3, <1>6 DEF OwnExact, Pending, LiveIds, Live, Named
  <1> QED
    BY <1>1, <1>2, <1>5, <1>6, InsideSlot

\* The second comparison changes no file.
LEMMA RecheckAgainSlot ==
    ASSUME LocalInv, SlotInv, NEW p \in Processes, RecheckAgain(p)
    PROVE  SlotInv'
  <1>1. /\ TypeOK
        /\ op[p] \in Operation
        /\ pc[p] = "recheckAgain"
        /\ op[p].new # None
        /\ ~op[p].replaced
    BY LocalFacts DEF RecheckAgain, LocalsOf
  <1>2. /\ \A q \in Processes \ {p} : pc'[q] = pc[q]
        /\ pc'[p] \in {"replace", "unlock"}
        /\ op'[p].new = op[p].new /\ op'[p].previous = op[p].previous
        /\ op'[p].replaced = op[p].replaced
        /\ pc'[p] = "unlock" => op'[p].failure = "external"
        /\ UNCHANGED <<slot, artifacts, written, harm>>
    BY <1>1 DEF RecheckAgain, Raises, TypeOK, Operation
  <1>3. Revocable(p) /\ Revocable(p)'
    BY <1>1, <1>2 DEF Revocable
  <1>4. ASSUME SlotSafe', OwnAdvert(p)
        PROVE  OwnAdvert(p)'
    BY <1>1, <1>2, <1>3, <1>4 DEF OwnAdvert, SlotOf, Live, Named, TransactionSlot
  <1>5. ASSUME harm' \subseteq {"window"}, OwnAdvert(p), OwnExact(p)
        PROVE  OwnExact(p)'
    BY <1>1, <1>2, <1>3, <1>5 DEF OwnExact, Pending, LiveIds, Live, Named
  <1> QED
    BY <1>1, <1>2, <1>4, <1>5, InsideSlot

\* The replacement leaves the recovery files as they are; where its effect is
\* not known, nothing is claimed.
LEMMA ReplaceSlot ==
    ASSUME LocalInv, SlotInv, NEW p \in Processes, Replace(p)
    PROVE  SlotInv'
  <1>1. /\ TypeOK
        /\ op[p] \in Operation
        /\ written \in Counted
        /\ pc[p] = "replace"
        /\ base[p] = None <=> op[p].new = None
        /\ ~op[p].replaced
    BY LocalFacts DEF Replace, LocalsOf
  <1>2. /\ \A q \in Processes \ {p} : pc'[q] = pc[q]
        /\ UNCHANGED <<slot, artifacts>>
        /\ harm \subseteq harm'
        /\ written'.crashes = written.crashes
        /\ op'[p].new = op[p].new /\ op'[p].previous = op[p].previous
    BY <1>1 DEF Replace, Raises, Harmed, WriteDestination, TypeOK, Operation, Counted
  <1>3. \/ pc'[p] = "verify" /\ op'[p].replaced
        \/ "unstable" \in harm'
        \/ /\ pc'[p] = "unlock"
           /\ op'[p].failure = "external"
           /\ op[p].new = None
           /\ ~op'[p].replaced
    BY <1>1 DEF Replace, Raises, Harmed, TypeOK, Operation
  <1>4. ASSUME SlotSafe', OwnAdvert(p)
        PROVE  OwnAdvert(p)'
    <2>1. "unstable" \notin harm'
      BY <1>4 DEF SlotSafe
    <2>2. CASE pc'[p] = "verify" /\ op'[p].replaced
      BY <1>1, <1>2, <1>4, <2>2 DEF OwnAdvert, SlotOf, Revocable, Live, Named, TransactionSlot
    <2>3. CASE pc'[p] = "unlock" /\ op'[p].failure = "external" /\ op'[p].new = None
      BY <1>2, <1>4, <2>3 DEF OwnAdvert, SlotOf, Revocable, Live
    <2> QED
      BY <1>2, <1>3, <2>1, <2>2, <2>3
  <1>5. ASSUME harm' \subseteq {"window"}, OwnAdvert(p), OwnExact(p)
        PROVE  OwnExact(p)'
    <2>1. Pending(p) <=> Pending(p)'
      BY <1>1, <1>2, <1>3, <1>5 DEF Pending, Revocable
    <2>2. pc[p] # "commit" /\ pc'[p] # "commit"
      BY <1>1, <1>3, <1>5
    <2> QED
      BY <1>2, <1>5, <2>1, <2>2 DEF OwnExact, LiveIds, Live, Named
  <1> QED
    BY <1>1, <1>2, <1>4, <1>5, InsideSlot

\* Reading the destination back changes no file.
LEMMA VerifySlot ==
    ASSUME LocalInv, SlotInv, NEW p \in Processes, Verify(p)
    PROVE  SlotInv'
  <1>1. /\ TypeOK
        /\ op[p] \in Operation
        /\ pc[p] = "verify"
        /\ op[p].replaced
    BY LocalFacts DEF Verify, LocalsOf
  <1>2. /\ \A q \in Processes \ {p} : pc'[q] = pc[q]
        /\ UNCHANGED <<slot, artifacts, written, harm>>
        /\ pc'[p] \in {"unlock", "obsolete"}
        /\ pc'[p] = "obsolete" => op[p].new # None
        /\ op'[p].new = op[p].new /\ op'[p].previous = op[p].previous
        /\ op'[p].replaced
    BY <1>1 DEF Verify, Raises, TypeOK, Operation
  <1>3. ASSUME SlotSafe', OwnAdvert(p)
        PROVE  OwnAdvert(p)'
    BY <1>1, <1>2, <1>3 DEF OwnAdvert, SlotOf, Revocable, Live, Named, TransactionSlot
  <1>4. ASSUME harm' \subseteq {"window"}, OwnAdvert(p), OwnExact(p)
        PROVE  OwnExact(p)'
    <2>1. op[p].new # None => Named(slot) = Named(op[p].previous) \cup {op[p].new}
      BY <1>1, <1>4, LocalFacts DEF OwnAdvert, SlotOf
    <2>2. Pending(p) <=> op[p].new # None
      BY <1>1 DEF Pending, Revocable
    <2>3. Pending(p)' => op[p].new # None
      BY <1>2 DEF Pending, Revocable
    <2>4. pc[p] # "commit" /\ pc'[p] # "commit" /\ LiveIds' = LiveIds
      BY <1>1, <1>2 DEF LiveIds, Live
    <2> QED
      BY <1>2, <1>4, <2>1, <2>2, <2>3, <2>4 DEF OwnExact, Named
  <1> QED
    BY <1>1, <1>2, <1>3, <1>4, InsideSlot

\* The superseded artifacts go; the new one, which the slot advertises, stays.
LEMMA DropObsoleteSlot ==
    ASSUME LocalInv, SlotInv, NEW p \in Processes, DropObsolete(p)
    PROVE  SlotInv'
  <1> DEFINE old == {id \in Named(op[p].previous) \ {op[p].new} : Live(id)}
  <1>1. /\ TypeOK
        /\ op[p] \in Operation
        /\ pc[p] = "obsolete"
        /\ op[p].new # None
        /\ op[p].new \in Ids
        /\ op[p].replaced
        /\ Named(op[p].previous) \subseteq Ids
    BY LocalFacts DEF DropObsolete, LocalsOf
  <1>2. PICK removed \in SUBSET old :
          /\ artifacts' = [id \in Ids |-> IF id \in removed THEN None ELSE artifacts[id]]
          /\ IF removed = old
             THEN Goto(p, "commit") /\ UNCHANGED <<op, harm>>
             ELSE Raises(p, "failed") /\ Harmed("backlog")
    BY DEF DropObsolete
  <1>3. /\ \A q \in Processes \ {p} : pc'[q] = pc[q]
        /\ UNCHANGED <<slot, written>>
        /\ harm \subseteq harm'
    BY <1>1, <1>2 DEF DropObsolete, Raises, Harmed, TypeOK
  <1>4. /\ op'[p].new = op[p].new /\ op'[p].previous = op[p].previous
        /\ op'[p].replaced
        /\ \/ pc'[p] = "commit" /\ removed = old
           \/ pc'[p] = "unlock" /\ "backlog" \in harm'
    BY <1>1, <1>2 DEF Raises, Harmed, TypeOK, Operation
  <1>5. \A id \in Ids : Live(id)' <=> Live(id) /\ id \notin removed
    BY <1>2 DEF Live
  <1>6. ASSUME OwnAdvert(p)
        PROVE  /\ slot' = TransactionSlot(op[p].new, op[p].previous)
               /\ slot.current = op[p].new
               /\ op[p].new \notin Named(op[p].previous)
               /\ Live(op[p].new) /\ Live(op[p].new)'
    <2>1. /\ slot = TransactionSlot(op[p].new, op[p].previous)
          /\ op[p].new \notin Named(op[p].previous)
          /\ Live(op[p].new)
      BY <1>1, <1>6 DEF OwnAdvert, SlotOf
    <2>2. slot.current = op[p].new
      BY <2>1 DEF TransactionSlot
    <2>3. op[p].new \notin removed
      BY <1>2
    <2> QED
      BY <1>1, <1>3, <1>4, <1>5, <2>1, <2>2, <2>3
  <1>7. ASSUME SlotSafe', OwnAdvert(p)
        PROVE  OwnAdvert(p)'
    <2>1. (slot # None => Live(slot.current))'
      BY <1>3, <1>4, <1>6, <1>7
    <2>2. SlotOf(p)'
      BY <1>4, <1>6, <1>7 DEF SlotOf, Revocable, Named, TransactionSlot
    <2> QED
      BY <2>1, <2>2 DEF OwnAdvert
  <1>8. ASSUME harm' \subseteq {"window"}, OwnAdvert(p), OwnExact(p)
        PROVE  OwnExact(p)'
    <2>1. LiveIds = Named(op[p].previous) \cup {op[p].new}
      BY <1>1, <1>8 DEF OwnExact, Pending
    <2>2. pc'[p] = "commit" /\ removed = old
      BY <1>4, <1>8
    <2>3. LiveIds' = {op[p].new}
      BY <1>1, <1>5, <1>6, <1>8, <2>1, <2>2 DEF LiveIds
    <2>4. ~Pending(p)'
      BY <2>2 DEF Pending, Revocable
    <2> QED
      BY <1>4, <2>2, <2>3, <2>4 DEF OwnExact
  <1> QED
    BY <1>1, <1>3, <1>7, <1>8, InsideSlot

\* The slot names the new artifact alone.
LEMMA CommitSlotSlot ==
    ASSUME LocalInv, SlotInv, NEW p \in Processes, CommitSlot(p)
    PROVE  SlotInv'
  <1>1. /\ TypeOK
        /\ op[p] \in Operation
        /\ pc[p] = "commit"
        /\ op[p].new # None
        /\ op[p].replaced
    BY LocalFacts DEF CommitSlot, LocalsOf
  <1>2. /\ \A q \in Processes \ {p} : pc'[q] = pc[q]
        /\ pc'[p] = "unlock"
        /\ op'[p].new = op[p].new
        /\ op'[p].replaced
        /\ slot' = [current |-> op[p].new, obsolete |-> {}]
        /\ UNCHANGED <<artifacts, written, harm>>
    BY <1>1 DEF CommitSlot, Raises, TypeOK, Operation
  <1>3. ASSUME SlotSafe', OwnAdvert(p)
        PROVE  OwnAdvert(p)'
    BY <1>1, <1>2, <1>3 DEF OwnAdvert, SlotOf, Revocable, Live
  <1>4. ASSUME harm' \subseteq {"window"}, OwnAdvert(p), OwnExact(p)
        PROVE  OwnExact(p)'
    <2>1. LiveIds' = {op[p].new}
      BY <1>1, <1>2, <1>4 DEF OwnExact, LiveIds, Live
    <2>2. Named(slot)' = {op[p].new}
      <3>1. slot' # None
        BY <1>1, <1>2, LocalFacts
      <3> QED
        BY <1>2, <3>1 DEF Named
    <2> QED
      BY <1>2, <2>1, <2>2 DEF OwnExact, Pending, Revocable
  <1> QED
    BY <1>1, <1>2, <1>3, <1>4, InsideSlot

\* What is still to be rolled back is exactly what was begun.
LEMMA UnlockSlot ==
    ASSUME LocalInv, SlotInv, NEW p \in Processes, Unlock(p)
    PROVE  SlotInv'
  <1>1. /\ TypeOK
        /\ op[p].replaced \in BOOLEAN
        /\ pc[p] = "unlock"
    BY LocalFacts DEF Unlock
  <1>2. /\ \A q \in Processes \ {p} : pc'[q] = pc[q]
        /\ pc'[p] = AfterUnlock(op[p])
        /\ UNCHANGED <<slot, artifacts, written, harm, op>>
    BY <1>1 DEF Unlock, TypeOK
  <1>3. /\ pc'[p] \in {"answer", "recapture", "restoreSlot"}
        /\ pc'[p] = "restoreSlot" => ~op[p].replaced /\ op[p].new # None
        /\ op[p].failure # "none" /\ ~op[p].replaced /\ op[p].new # None => pc'[p] = "restoreSlot"
    BY <1>1, <1>2 DEF AfterUnlock
  <1>4. Revocable(p)' => Revocable(p) /\ pc'[p] # "removeNew"
    BY <1>1, <1>2, <1>3 DEF Revocable
  <1>5. ASSUME SlotSafe', OwnAdvert(p)
        PROVE  OwnAdvert(p)'
    BY <1>1, <1>2, <1>3, <1>4, <1>5 DEF OwnAdvert, SlotOf, Live, Named, TransactionSlot
  <1>6. ASSUME harm' \subseteq {"window"}, OwnAdvert(p), OwnExact(p)
        PROVE  OwnExact(p)'
    <2>1. ~op[p].replaced => op[p].failure # "none"
      BY <1>1, <1>6 DEF OwnAdvert, SlotOf
    <2>2. Pending(p)' <=> Pending(p)
      BY <1>1, <1>2, <1>3, <2>1 DEF Pending, Revocable
    <2>3. pc[p] # "commit" /\ pc'[p] # "commit"
      BY <1>1, <1>3
    <2> QED
      BY <1>2, <1>6, <2>2, <2>3 DEF OwnExact, LiveIds, Live, Named
  <1> QED
    BY <1>1, <1>2, <1>5, <1>6, InsideSlot

\* A publication that is looked for again is past every recovery step.
LEMMA RecaptureSlot ==
    ASSUME LocalInv, SlotInv, NEW p \in Processes, Recapture(p)
    PROVE  SlotInv'
  <1>1. TypeOK /\ pc[p] = "recapture"
    BY LocalFacts DEF Recapture
  <1>2. /\ \A q \in Processes \ {p} : pc'[q] = pc[q]
        /\ pc'[p] = "answer"
        /\ UNCHANGED <<slot, artifacts, written>>
        /\ harm \subseteq harm'
    BY <1>1 DEF Recapture, Harmed, TypeOK
  <1>3. ASSUME SlotSafe', OwnAdvert(p)
        PROVE  OwnAdvert(p)'
    BY <1>2, <1>3 DEF OwnAdvert, SlotOf, Revocable, Live
  <1>4. ASSUME harm' \subseteq {"window"}, OwnAdvert(p), OwnExact(p)
        PROVE  OwnExact(p)'
    BY <1>1, <1>2, <1>4 DEF OwnExact, Pending, Revocable, LiveIds, Live, Named
  <1> QED
    BY <1>1, <1>2, <1>3, <1>4, InsideSlot

\* The slot is given back, or the failure to do so is on record.
LEMMA RestoreSlotSlot ==
    ASSUME LocalInv, SlotInv, NEW p \in Processes, RestoreSlot(p)
    PROVE  SlotInv'
  <1>1. /\ TypeOK
        /\ pc[p] = "restoreSlot"
        /\ op[p].new # None
        /\ ~op[p].replaced
    BY LocalFacts DEF RestoreSlot, LocalsOf
  <1>2. /\ \A q \in Processes \ {p} : pc'[q] = pc[q]
        /\ pc'[p] = "removeNew"
        /\ UNCHANGED <<op, artifacts, written>>
        /\ harm \subseteq harm'
        /\ slot' = op[p].previous \/ "rollback" \in harm'
    BY <1>1 DEF RestoreSlot, Harmed, TypeOK
  <1>3. Revocable(p) /\ Revocable(p)'
    BY <1>1, <1>2 DEF Revocable
  <1>4. ASSUME SlotSafe', OwnAdvert(p)
        PROVE  OwnAdvert(p)'
    <2>1. slot' = op'[p].previous
      BY <1>2, <1>4 DEF SlotSafe
    <2>2. /\ op[p].new \notin Named(op[p].previous)
          /\ op[p].previous # None => Live(op[p].previous.current)
      BY <1>3, <1>4 DEF OwnAdvert, SlotOf
    <2> QED
      BY <1>2, <2>1, <2>2 DEF OwnAdvert, SlotOf, Live, Named
  <1>5. ASSUME harm' \subseteq {"window"}, OwnAdvert(p), OwnExact(p)
        PROVE  OwnExact(p)'
    BY <1>1, <1>2, <1>3, <1>5 DEF OwnExact, Pending, LiveIds, Live, Named
  <1> QED
    BY <1>1, <1>2, <1>4, <1>5, InsideSlot

\* The artifact of the failed publication goes last, when nothing names it.
LEMMA RemoveNewSlot ==
    ASSUME LocalInv, SlotInv, NEW p \in Processes, RemoveNew(p)
    PROVE  SlotInv'
  <1>1. /\ TypeOK
        /\ pc[p] = "removeNew"
        /\ op[p].new \in Ids
        /\ op[p].new # None
        /\ ~op[p].replaced
        /\ slot # None => slot.current \in Ids
        /\ Named(op[p].previous) \subseteq Ids
    BY LocalFacts DEF RemoveNew, LocalsOf, TypeOK, Slots
  <1>2. /\ \A q \in Processes \ {p} : pc'[q] = pc[q]
        /\ pc'[p] = "answer"
        /\ UNCHANGED <<op, slot, written>>
        /\ harm \subseteq harm'
        /\ \/ \A id \in Ids : Live(id)' <=> Live(id) /\ id # op[p].new
           \/ artifacts' = artifacts /\ "backlog" \in harm'
    BY <1>1 DEF RemoveNew, Harmed, TypeOK, Live
  <1>3. Revocable(p) /\ ~Revocable(p)'
    BY <1>1, <1>2 DEF Revocable
  <1>4. ASSUME OwnAdvert(p)
        PROVE  slot = op[p].previous /\ op[p].new \notin Named(slot)
    BY <1>1, <1>3, <1>4 DEF OwnAdvert, SlotOf
  <1>5. ASSUME SlotSafe', OwnAdvert(p)
        PROVE  OwnAdvert(p)'
    <2>1. slot # None => slot.current # op[p].new
      BY <1>4, <1>5 DEF Named
    <2>2. (slot # None => Live(slot.current))'
      BY <1>1, <1>2, <1>5, <2>1 DEF OwnAdvert, Live
    <2> QED
      BY <1>2, <1>3, <2>2 DEF OwnAdvert, SlotOf
  <1>6. ASSUME harm' \subseteq {"window"}, OwnAdvert(p), OwnExact(p)
        PROVE  OwnExact(p)'
    <2>1. LiveIds = Named(slot) \cup {op[p].new}
      BY <1>3, <1>4, <1>6 DEF OwnExact, Pending
    <2>2. LiveIds' = LiveIds \ {op[p].new}
      BY <1>2, <1>6 DEF LiveIds
    <2>3. LiveIds' = Named(slot)'
      BY <1>2, <1>4, <1>6, <2>1, <2>2 DEF Named
    <2> QED
      BY <1>2, <1>3, <2>3 DEF OwnExact, Pending
  <1> QED
    BY <1>1, <1>2, <1>5, <1>6, InsideSlot

\* Every step keeps it.
LEMMA NextSlot == LocalInv /\ SlotInv /\ [Next]_vars => SlotInv'
  <1> SUFFICES ASSUME LocalInv, SlotInv, [Next]_vars
               PROVE  SlotInv'
    OBVIOUS
  <1>1. CASE UNCHANGED vars
    BY <1>1, ZenonT(60) DEF vars, SlotInv, AdvertInv, ExactInv, SlotSafe, SlotOf, Revocable, Pending,
         LiveIds, Live, Named
  <1>2. CASE External
    BY <1>2, ExternalSlot
  <1>3. CASE \E p \in Processes : Open(p) \/ BeginSave(p) \/ BeginRestore(p) \/ Publish(p) \/ Crash(p)
    <2>1. PICK p \in Processes : Open(p) \/ BeginSave(p) \/ BeginRestore(p) \/ Publish(p) \/ Crash(p)
      BY <1>3
    <2>2. CASE Publish(p)
      BY <2>2, OutsideActionsSlot, StepFailsSlot, RecheckSlot, CreateRecoverySlot, WriteSlotSlot,
         RecheckAgainSlot, ReplaceSlot, VerifySlot, DropObsoleteSlot, CommitSlotSlot, UnlockSlot,
         RecaptureSlot, RestoreSlotSlot, RemoveNewSlot
         DEF Publish
    <2> QED
      BY <2>1, <2>2, OutsideActionsSlot
  <1> QED
    BY <1>1, <1>2, <1>3 DEF Next

\* While no rollback failed or was overtaken and no directory was exchanged, the
\* slot advertises an artifact that exists, and without crashes and failing
\* removals the artifacts are those the slot names and the one in progress.
THEOREM SlotInvariant == Spec => []SlotInv
  <1>1. Init => SlotInv
    BY DEF Init, SlotInv, AdvertInv, ExactInv, SlotOf, Revocable, Pending, LiveIds, Live, Named
  <1> QED
    BY <1>1, NextSlot, LocalInvariant, PTL DEF Spec

\* Whenever nobody is in a transaction, the revision that available_recovery
\* reports can be opened, after crashes and foreign writes as well.
THEOREM AdvertisedIsThere == Spec => []AdvertisedExists
  <1>1. SlotInv => AdvertisedExists
    BY DEF SlotInv, AdvertInv, SlotSafe, AdvertisedExists
  <1> QED
    BY <1>1, SlotInvariant, PTL

\* Failing publications of storage.py leave no artifact behind that the slot
\* does not name, so that they cannot exhaust it.
THEOREM OneRecoveryIsLeft == Spec => []OneRecovery
  <1>1. SlotInv => OneRecovery
    BY DEF SlotInv, ExactInv, OneRecovery, Quiet, Pending, Revocable, LiveIds
  <1> QED
    BY <1>1, SlotInvariant, PTL

-----------------------------------------------------------------------------
(* What a publication answers *)

\* The parts of the invariant that a step of one process is about.
OwnAnswer(p) ==
    /\ Seen(dest)
    /\ \A id \in Ids : Live(id) => artifacts[id] \in shown
    /\ shown \subseteq 0 .. written.content
    /\ ShownOf(p)

\* A step shows no content but its own candidate, and invents no candidate that
\* another publication has: the others keep their parts.
LEMMA OthersAnswer ==
    ASSUME LocalInv, AnswerInv, NEW p \in Processes,
           \A q \in Processes \ {p} : pc'[q] = pc[q] /\ op'[q] = op[q] /\ base'[q] = base[q],
           harm \subseteq harm', shown \subseteq shown',
           written' \in Counted, written.content <= written'.content,
           dest' = dest \/ pc[p] \in LockedSteps,
           \A c \in shown' \ shown : Fresh(p) /\ c = op[p].content,
           Fresh(p)' => \/ Fresh(p) /\ op'[p].content = op[p].content
                        \/ op'[p].content \in Nat /\ op'[p].content > written.content,
           Observed /\ Observed' /\ OwnAnswer(p) => OwnAnswer(p)'
    PROVE  AnswerInv'
  <1> SUFFICES ASSUME Observed'
               PROVE  /\ Seen(dest)'
                      /\ (\A id \in Ids : Live(id) => artifacts[id] \in shown)'
                      /\ (shown \subseteq 0 .. written.content)'
                      /\ Distinct'
                      /\ \A q \in Processes : ShownOf(q)'
    BY DEF AnswerInv
  <1>1. Observed /\ "overtaken" \notin harm
    BY DEF Observed
  <1>2. OwnAnswer(p) /\ Distinct /\ \A q \in Processes : ShownOf(q)
    BY <1>1 DEF AnswerInv, OwnAnswer
  <1>3. OwnAnswer(p)'
    BY <1>1, <1>2
  <1>4. written \in Counted
    BY LocalFacts
  <1>5. ASSUME NEW q \in Processes \ {p}, Fresh(q)
        PROVE  op[q].content \in 0 .. written.content
    BY <1>2, <1>5 DEF ShownOf
  <1>6. Distinct'
    <2>1. ASSUME NEW q \in Processes \ {p}, Fresh(p)', Fresh(q)'
          PROVE  op'[q].content # op'[p].content
      <3>1. Fresh(q) /\ op'[q] = op[q]
        BY <2>1 DEF Fresh
      <3>2. CASE Fresh(p) /\ op'[p].content = op[p].content
        BY <1>2, <3>1, <3>2 DEF Distinct
      <3>3. CASE op'[p].content \in Nat /\ op'[p].content > written.content
        BY <1>4, <1>5, <3>1, <3>3 DEF Counted
      <3> QED
        BY <2>1, <3>2, <3>3
    <2>2. ASSUME NEW q \in Processes \ {p}, NEW r \in Processes \ {p}, q # r, Fresh(q)', Fresh(r)'
          PROVE  op'[q].content # op'[r].content
      BY <1>2, <2>2 DEF Fresh, Distinct
    <2> QED
      BY <2>1, <2>2 DEF Distinct
  <1>7. ASSUME NEW q \in Processes \ {p}
        PROVE  ShownOf(q)'
    <2>1. ShownOf(q) /\ pc'[q] = pc[q] /\ op'[q] = op[q] /\ base'[q] = base[q]
      BY <1>2
    <2>2. Seen(base[q])' /\ Seen(op[q].seen)' /\ Seen(op[q].result)'
      BY <2>1 DEF ShownOf, Seen
    <2>3. pc'[q] # "idle" /\ op'[q].mode = "restore" => op'[q].content \in shown'
      BY <2>1 DEF ShownOf
    <2>4. ASSUME Fresh(q)'
          PROVE  /\ op'[q].content \in 0 .. written'.content
                 /\ op'[q].content \in shown' <=> op'[q].replaced
      <3>1. Fresh(q)
        BY <2>1, <2>4 DEF Fresh
      <3>2. op[q].content \in 0 .. written.content /\ (op[q].content \in shown <=> op[q].replaced)
        BY <2>1, <3>1 DEF ShownOf
      <3>3. op[q].content \notin shown' \ shown
        BY <1>2, <3>1 DEF Distinct
      <3>4. op[q].content \in 0 .. written'.content
        BY <1>4, <3>2 DEF Counted
      <3> QED
        BY <2>1, <3>2, <3>3, <3>4
    <2>5. pc'[q] \in {"verify", "obsolete", "commit", "unlock", "recapture"} /\ op'[q].replaced
            => dest' # None /\ dest'.content = op'[q].content
      <3>1. CASE dest' = dest
        BY <2>1, <3>1 DEF ShownOf
      <3>2. CASE pc[p] \in LockedSteps
        BY <1>1, <2>1, <3>2, Alone
      <3> QED
        BY <3>1, <3>2
    <2>6. /\ pc'[q] \in {"unlock", "restoreSlot", "removeNew", "answer"} /\ ~op'[q].replaced
               => op'[q].failure # "none"
          /\ pc'[q] = "answer" /\ op'[q].replaced /\ op'[q].failure # "none"
               => op'[q].result # None
      BY <2>1 DEF ShownOf
    <2> QED
      BY <2>2, <2>3, <2>4, <2>5, <2>6 DEF ShownOf
  <1> QED
    BY <1>3, <1>6, <1>7 DEF OwnAnswer

\* The same, for a step that shows nothing new and begins no publication.
LEMMA QuietAnswer ==
    ASSUME LocalInv, AnswerInv, NEW p \in Processes,
           \A q \in Processes \ {p} : pc'[q] = pc[q] /\ op'[q] = op[q] /\ base'[q] = base[q],
           harm \subseteq harm', UNCHANGED <<dest, shown>>, written'.content = written.content,
           written' \in Counted,
           \A id \in Ids : artifacts'[id] \in {artifacts[id], None},
           pc'[p] # "idle" => /\ pc[p] # "idle"
                              /\ op'[p].mode = op[p].mode
                              /\ op'[p].content = op[p].content,
           Observed /\ Observed' /\ OwnAnswer(p) => ShownOf(p)'
    PROVE  AnswerInv'
  <1>1. Fresh(p)' => Fresh(p) /\ op'[p].content = op[p].content
    BY DEF Fresh
  <1>2. ASSUME Observed, Observed', OwnAnswer(p)
        PROVE  OwnAnswer(p)'
    <2>1. Seen(dest)' /\ (shown \subseteq 0 .. written.content)'
      BY <1>2 DEF OwnAnswer, Seen
    <2>2. (\A id \in Ids : Live(id) => artifacts[id] \in shown)'
      BY <1>2 DEF OwnAnswer, Seen, Live
    <2> QED
      BY <1>2, <2>1, <2>2 DEF OwnAnswer
  <1>3. written \in Counted
    BY LocalFacts
  <1>4. written.content <= written'.content
    BY <1>3 DEF Counted
  <1> QED
    BY <1>1, <1>2, <1>4, OthersAnswer

\* An open session has seen the destination as it is.
LEMMA OpenAnswer ==
    ASSUME LocalInv, AnswerInv, NEW p \in Processes, Open(p)
    PROVE  AnswerInv'
  <1>1. TypeOK /\ written \in Counted
    BY LocalFacts
  <1>2. /\ pc[p] = "idle" /\ base'[p] = dest
        /\ \A q \in Processes \ {p} : base'[q] = base[q]
        /\ UNCHANGED <<pc, op, dest, artifacts, written, shown, harm>>
    BY <1>1 DEF Open, TypeOK
  <1>3. ASSUME OwnAnswer(p)
        PROVE  ShownOf(p)'
    BY <1>2, <1>3 DEF OwnAnswer, ShownOf, Fresh, Seen
  <1> QED
    BY <1>1, <1>2, <1>3, QuietAnswer

\* A new candidate is one that no content and no other publication has.
LEMMA BeginSaveAnswer ==
    ASSUME LocalInv, AnswerInv, NEW p \in Processes, BeginSave(p)
    PROVE  AnswerInv'
  <1> DEFINE mode == IF base[p] = None THEN "create" ELSE "save"
  <1>1. TypeOK /\ written \in Counted
    BY LocalFacts
  <1>2. /\ pc[p] = "idle" /\ pc'[p] = "staged"
        /\ \A q \in Processes \ {p} : pc'[q] = pc[q] /\ op'[q] = op[q] /\ base'[q] = base[q]
        /\ op'[p] = [NoOperation EXCEPT !.mode = mode, !.content = written.content + 1]
        /\ UNCHANGED <<base, dest, artifacts, shown, harm>>
    BY <1>1 DEF BeginSave, Begin, TypeOK
  <1>3. /\ op'[p].mode # "restore" /\ op'[p].content = written.content + 1
        /\ op'[p].seen = None /\ op'[p].result = None /\ ~op'[p].replaced
    BY <1>2 DEF NoOperation
  <1>4. written'.content = written.content + 1 /\ written' \in Counted
    BY <1>1 DEF BeginSave, Counted
  <1>5. written.content \in Nat
    BY <1>1 DEF Counted
  <1>6. ASSUME OwnAnswer(p)
        PROVE  OwnAnswer(p)'
    <2>1. Seen(dest)' /\ (\A id \in Ids : Live(id) => artifacts[id] \in shown)' /\ Seen(base[p])'
      BY <1>2, <1>6 DEF OwnAnswer, ShownOf, Seen, Live
    <2>2. (shown \subseteq 0 .. written.content)'
      BY <1>2, <1>4, <1>5, <1>6 DEF OwnAnswer
    <2>3. op'[p].content \in 0 .. written'.content /\ op'[p].content \notin shown'
      <3>1. shown \subseteq 0 .. written.content
        BY <1>6 DEF OwnAnswer
      <3> QED
        BY <1>2, <1>3, <1>4, <1>5, <3>1
    <2>4. ShownOf(p)'
      BY <1>2, <1>3, <2>1, <2>3 DEF ShownOf, Fresh, Seen
    <2> QED
      BY <2>1, <2>2, <2>4 DEF OwnAnswer
  <1>7. op'[p].content \in Nat /\ op'[p].content > written.content /\ written.content <= written'.content
    BY <1>3, <1>4, <1>5
  <1> QED
    BY <1>2, <1>4, <1>6, <1>7, OthersAnswer

\* A restored content has been in the destination before.
LEMMA BeginRestoreAnswer ==
    ASSUME LocalInv, AnswerInv, NEW p \in Processes, BeginRestore(p)
    PROVE  AnswerInv'
  <1>1. TypeOK /\ written \in Counted
    BY LocalFacts
  <1>2. /\ pc[p] = "idle" /\ pc'[p] = "staged"
        /\ \A q \in Processes \ {p} : pc'[q] = pc[q] /\ op'[q] = op[q] /\ base'[q] = base[q]
        /\ op'[p] = [NoOperation EXCEPT !.mode = "restore", !.content = artifacts[slot.current]]
        /\ base'[p] = dest
        /\ UNCHANGED <<dest, artifacts, shown, harm>>
    BY <1>1 DEF BeginRestore, Begin, TypeOK
  <1>3. /\ op'[p].mode = "restore" /\ op'[p].content = artifacts[slot.current]
        /\ op'[p].seen = None /\ op'[p].result = None
    BY <1>2 DEF NoOperation
  <1>4. written'.content = written.content + 1 /\ written' \in Counted
    BY <1>1 DEF BeginRestore, Counted
  <1>5. written.content \in Nat
    BY <1>1 DEF Counted
  <1>6. ASSUME OwnAnswer(p)
        PROVE  OwnAnswer(p)'
    <2>1. Seen(dest)' /\ (\A id \in Ids : Live(id) => artifacts[id] \in shown)'
      BY <1>2, <1>6 DEF OwnAnswer, Seen, Live
    <2>2. (shown \subseteq 0 .. written.content)'
      BY <1>2, <1>4, <1>5, <1>6 DEF OwnAnswer
    <2>3. op'[p].content \in shown'
      <3>1. slot.current \in Ids /\ Live(slot.current)
        BY <1>1 DEF BeginRestore, TypeOK, Slots
      <3> QED
        BY <1>2, <1>3, <1>6, <3>1 DEF OwnAnswer
    <2>4. ShownOf(p)'
      BY <1>2, <1>3, <2>1, <2>3 DEF ShownOf, Fresh, Seen
    <2> QED
      BY <2>1, <2>2, <2>4 DEF OwnAnswer
  <1>7. ~Fresh(p)' /\ written.content <= written'.content
    BY <1>3, <1>4, <1>5 DEF Fresh
  <1> QED
    BY <1>2, <1>4, <1>6, <1>7, OthersAnswer

\* Nothing was published.
LEMMA StageFailsAnswer ==
    ASSUME LocalInv, AnswerInv, NEW p \in Processes, StageFails(p)
    PROVE  AnswerInv'
  <1>1. TypeOK /\ written \in Counted /\ op[p] \in Operation /\ pc[p] = "staged" /\ ~op[p].replaced
    BY LocalFacts DEF StageFails, LocalsOf
  <1>2. /\ pc'[p] = "answer" /\ op'[p] = [op[p] EXCEPT !.failure = "failed"]
        /\ \A q \in Processes \ {p} : pc'[q] = pc[q] /\ op'[q] = op[q]
        /\ UNCHANGED <<base, dest, artifacts, written, shown, harm>>
    BY <1>1 DEF StageFails, TypeOK
  <1>3. /\ op'[p].mode = op[p].mode /\ op'[p].content = op[p].content
        /\ op'[p].seen = op[p].seen /\ op'[p].result = op[p].result
        /\ ~op'[p].replaced /\ op'[p].failure = "failed"
    BY <1>1, <1>2 DEF Operation
  <1>4. ASSUME OwnAnswer(p)
        PROVE  ShownOf(p)'
    BY <1>1, <1>2, <1>3, <1>4 DEF OwnAnswer, ShownOf, Fresh, Seen
  <1> QED
    BY <1>1, <1>2, <1>3, <1>4, QuietAnswer

\* The lock changes nothing that was published.
LEMMA AcquireLockAnswer ==
    ASSUME LocalInv, AnswerInv, NEW p \in Processes, AcquireLock(p)
    PROVE  AnswerInv'
  <1>1. TypeOK /\ written \in Counted /\ pc[p] = "staged"
    BY LocalFacts DEF AcquireLock
  <1>2. /\ pc'[p] = "recheck"
        /\ \A q \in Processes \ {p} : pc'[q] = pc[q]
        /\ UNCHANGED <<op, base, dest, artifacts, written, shown>>
        /\ harm \subseteq harm'
    BY <1>1 DEF AcquireLock, Harmed, TypeOK
  <1>3. ASSUME OwnAnswer(p)
        PROVE  ShownOf(p)'
    BY <1>1, <1>2, <1>3 DEF OwnAnswer, ShownOf, Fresh, Seen
  <1> QED
    BY <1>1, <1>2, <1>3, QuietAnswer

\* A fault keeps what is known of the candidate.
LEMMA StepFailsAnswer ==
    ASSUME LocalInv, AnswerInv, NEW p \in Processes, StepFails(p)
    PROVE  AnswerInv'
  <1>1. /\ TypeOK /\ written \in Counted /\ op[p] \in Operation
        /\ pc[p] \in LockedSteps \ {"unlock", "obsolete"}
        /\ op[p].replaced => pc[p] \in {"verify", "commit"}
    BY LocalFacts DEF StepFails, LocalsOf
  <1>2. /\ pc'[p] = "unlock" /\ op'[p] = [op[p] EXCEPT !.failure = "failed"]
        /\ \A q \in Processes \ {p} : pc'[q] = pc[q] /\ op'[q] = op[q]
        /\ UNCHANGED <<base, dest, artifacts, written, shown>>
        /\ harm \subseteq harm'
    BY <1>1 DEF StepFails, Raises, Harmed, TypeOK
  <1>3. /\ op'[p].mode = op[p].mode /\ op'[p].content = op[p].content
        /\ op'[p].seen = op[p].seen /\ op'[p].result = op[p].result
        /\ op'[p].replaced = op[p].replaced /\ op'[p].failure = "failed"
    BY <1>1, <1>2 DEF Operation
  <1>4. ASSUME OwnAnswer(p)
        PROVE  ShownOf(p)'
    BY <1>1, <1>2, <1>3, <1>4 DEF OwnAnswer, ShownOf, Fresh, Seen
  <1> QED
    BY <1>1, <1>2, <1>3, <1>4, QuietAnswer

\* Either comparison fails before anything is published.
LEMMA RecheckAnswer ==
    ASSUME LocalInv, AnswerInv, NEW p \in Processes, Recheck(p) \/ RecheckAgain(p)
    PROVE  AnswerInv'
  <1>1. /\ TypeOK /\ written \in Counted /\ op[p] \in Operation
        /\ pc[p] \in {"recheck", "recheckAgain"} /\ ~op[p].replaced
    BY LocalFacts DEF Recheck, RecheckAgain, LocalsOf
  <1>2. /\ \A q \in Processes \ {p} : pc'[q] = pc[q] /\ op'[q] = op[q]
        /\ pc'[p] \in {"replace", "recover", "unlock"}
        /\ UNCHANGED <<base, dest, artifacts, written, shown, harm>>
    BY <1>1 DEF Recheck, RecheckAgain, Raises, TypeOK
  <1>3. /\ op'[p].mode = op[p].mode /\ op'[p].content = op[p].content
        /\ op'[p].seen = op[p].seen /\ op'[p].result = op[p].result
        /\ ~op'[p].replaced
        /\ pc'[p] = "unlock" => op'[p].failure = "external"
    BY <1>1 DEF Recheck, RecheckAgain, Raises, TypeOK, Operation
  <1>4. ASSUME OwnAnswer(p)
        PROVE  ShownOf(p)'
    BY <1>1, <1>2, <1>3, <1>4 DEF OwnAnswer, ShownOf, Fresh, Seen
  <1> QED
    BY <1>1, <1>2, <1>3, <1>4, QuietAnswer

\* The artifact is a copy of what the destination shows.
LEMMA CreateRecoveryAnswer ==
    ASSUME LocalInv, AnswerInv, NEW p \in Processes, CreateRecovery(p)
    PROVE  AnswerInv'
  <1>1. /\ TypeOK /\ written \in Counted /\ op[p] \in Operation
        /\ pc[p] = "recover" /\ ~op[p].replaced
    BY LocalFacts DEF CreateRecovery, LocalsOf
  <1>2. /\ \A q \in Processes \ {p} : pc'[q] = pc[q] /\ op'[q] = op[q]
        /\ pc'[p] \in {"slot", "unlock"}
        /\ UNCHANGED <<base, dest, written, shown>>
        /\ harm \subseteq harm'
    BY <1>1 DEF CreateRecovery, Raises, Harmed, TypeOK
  <1>3. /\ op'[p].mode = op[p].mode /\ op'[p].content = op[p].content
        /\ op'[p].seen = op[p].seen /\ op'[p].result = op[p].result
        /\ ~op'[p].replaced
        /\ pc'[p] = "unlock" => op'[p].failure = "failed"
    BY <1>1 DEF CreateRecovery, Raises, TypeOK, Operation
  <1>4. ASSUME NEW id \in Ids, artifacts'[id] # artifacts[id]
        PROVE  artifacts'[id] \in shown \/ ~Observed \/ ~OwnAnswer(p)
    <2>1. artifacts'[id] = base[p].content /\ base[p] # None
      BY <1>1, <1>4, LocalFacts DEF CreateRecovery, TypeOK, LocalsOf
    <2> QED
      BY <2>1 DEF OwnAnswer, ShownOf, Seen
  <1>5. ASSUME Observed, OwnAnswer(p)
        PROVE  OwnAnswer(p)'
    <2>1. Seen(dest)' /\ (shown \subseteq 0 .. written.content)'
      BY <1>2, <1>5 DEF OwnAnswer, Seen
    <2>2. (\A id \in Ids : Live(id) => artifacts[id] \in shown)'
      BY <1>2, <1>4, <1>5 DEF OwnAnswer, Live
    <2>3. ShownOf(p)'
      BY <1>1, <1>2, <1>3, <1>5 DEF OwnAnswer, ShownOf, Fresh, Seen
    <2> QED
      BY <2>1, <2>2, <2>3 DEF OwnAnswer
  <1>6. Fresh(p)' => Fresh(p) /\ op'[p].content = op[p].content
    BY <1>1, <1>3 DEF Fresh
  <1>7. written.content <= written'.content
    BY <1>1, <1>2 DEF Counted
  <1> QED
    BY <1>1, <1>2, <1>5, <1>6, <1>7, OthersAnswer

\* The slot is no part of the answer.
LEMMA WriteSlotAnswer ==
    ASSUME LocalInv, AnswerInv, NEW p \in Processes, WriteSlot(p)
    PROVE  AnswerInv'
  <1>1. /\ TypeOK /\ written \in Counted /\ op[p] \in Operation
        /\ pc[p] = "slot" /\ ~op[p].replaced
    BY LocalFacts DEF WriteSlot, LocalsOf
  <1>2. /\ \A q \in Processes \ {p} : pc'[q] = pc[q] /\ op'[q] = op[q]
        /\ pc'[p] \in {"recheckAgain", "unlock"}
        /\ UNCHANGED <<base, dest, artifacts, written, shown, harm>>
    BY <1>1 DEF WriteSlot, Raises, TypeOK
  <1>3. /\ op'[p].mode = op[p].mode /\ op'[p].content = op[p].content
        /\ op'[p].seen = op[p].seen /\ op'[p].result = op[p].result
        /\ ~op'[p].replaced
        /\ pc'[p] = "unlock" => op'[p].failure = "failed"
    BY <1>1 DEF WriteSlot, Raises, TypeOK, Operation
  <1>4. ASSUME OwnAnswer(p)
        PROVE  ShownOf(p)'
    BY <1>1, <1>2, <1>3, <1>4 DEF OwnAnswer, ShownOf, Fresh, Seen
  <1> QED
    BY <1>1, <1>2, <1>3, <1>4, QuietAnswer

\* The destination shows the candidate, the one content that is new.
LEMMA ReplaceAnswer ==
    ASSUME LocalInv, AnswerInv, NEW p \in Processes, Replace(p)
    PROVE  AnswerInv'
  <1>1. /\ TypeOK /\ written \in Counted /\ op[p] \in Operation /\ op[p].content \in Contents
        /\ pc[p] = "replace" /\ ~op[p].replaced
    BY LocalFacts DEF Replace, LocalsOf
  <1>2. /\ \A q \in Processes \ {p} : pc'[q] = pc[q] /\ op'[q] = op[q]
        /\ UNCHANGED <<base, artifacts>>
        /\ harm \subseteq harm' /\ shown \subseteq shown'
        /\ shown' \ shown \subseteq {op[p].content}
        /\ written' \in Counted
        /\ written'.content = written.content
    BY <1>1 DEF Replace, Raises, Harmed, WriteDestination, TypeOK, Counted
  <1>3. /\ op'[p].mode = op[p].mode /\ op'[p].content = op[p].content
        /\ op'[p].seen = op[p].seen /\ op'[p].result = op[p].result
        /\ pc'[p] \in {"verify", "unlock"}
    BY <1>1 DEF Replace, Raises, TypeOK, Operation
  <1>4. \/ /\ pc'[p] = "verify" /\ op'[p].replaced
           /\ dest' # None /\ dest'.content = op[p].content
           /\ shown' = shown \cup {op[p].content}
        \/ "unstable" \in harm'
        \/ /\ pc'[p] = "unlock" /\ op'[p].failure = "external" /\ ~op'[p].replaced
           /\ UNCHANGED <<dest, shown>>
    <2>1. CASE pc'[p] = "verify"
      <3>1. WriteDestination(op[p].content) /\ op' = [op EXCEPT ![p].replaced = TRUE]
        BY <1>1, <2>1 DEF Replace, Raises, TypeOK
      <3>2. dest' # None
        BY <1>1, <3>1, LocalStoreAssumption DEF WriteDestination, Counted
      <3> QED
        BY <1>1, <2>1, <3>1, <3>2 DEF WriteDestination, TypeOK, Operation
    <2>2. CASE pc'[p] = "unlock"
      BY <1>1, <2>2 DEF Replace, Raises, Harmed, TypeOK, Operation
    <2> QED
      BY <1>3, <2>1, <2>2
  <1>5. ASSUME Observed', OwnAnswer(p)
        PROVE  /\ OwnAnswer(p)'
               /\ \A c \in shown' \ shown : Fresh(p)
    <2>1. "unstable" \notin harm'
      BY <1>5 DEF Observed
    <2>2. op[p].mode = "restore" => op[p].content \in shown
      BY <1>1, <1>5 DEF OwnAnswer, ShownOf
    <2>3. op[p].content \in 0 .. written.content
      BY <1>1, <1>5, <2>2 DEF OwnAnswer, ShownOf, Fresh
    <2>4. (shown \subseteq 0 .. written.content)' /\ (\A id \in Ids : Live(id) => artifacts[id] \in shown)'
      BY <1>2, <1>5, <2>3 DEF OwnAnswer, Live
    <2>5. Seen(dest)'
      BY <1>4, <1>5, <2>1 DEF OwnAnswer, Seen
    <2>6. ShownOf(p)'
      <3>1. Seen(base[p])' /\ Seen(op[p].seen)' /\ Seen(op[p].result)'
        BY <1>2, <1>3, <1>5 DEF OwnAnswer, ShownOf, Seen
      <3>2. op'[p].mode = "restore" => op'[p].content \in shown'
        BY <1>2, <1>3, <2>2
      <3>3. Fresh(p)' => /\ op'[p].content \in 0 .. written'.content
                         /\ op'[p].content \in shown' <=> op'[p].replaced
        <4>1. CASE pc'[p] = "verify" /\ op'[p].replaced /\ shown' = shown \cup {op[p].content}
          BY <1>2, <1>3, <2>3, <4>1
        <4>2. CASE ~op'[p].replaced /\ UNCHANGED shown
          <5>1. Fresh(p)' => Fresh(p)
            BY <1>1, <1>3 DEF Fresh
          <5>2. Fresh(p) => op[p].content \notin shown
            BY <1>1, <1>5 DEF OwnAnswer, ShownOf
          <5> QED
            BY <1>2, <1>3, <2>3, <4>2, <5>1, <5>2
        <4> QED
          BY <1>4, <2>1, <4>1, <4>2
      <3>4. /\ pc'[p] \in {"verify", "obsolete", "commit", "unlock", "recapture"} /\ op'[p].replaced
                 => dest' # None /\ dest'.content = op'[p].content
            /\ pc'[p] \in {"unlock", "restoreSlot", "removeNew", "answer"} /\ ~op'[p].replaced
                 => op'[p].failure # "none"
        BY <1>3, <1>4, <2>1
      <3> QED
        BY <1>3, <3>1, <3>2, <3>3, <3>4 DEF ShownOf
    <2>7. \A c \in shown' \ shown : Fresh(p)
      BY <1>1, <1>2, <2>2 DEF Fresh
    <2> QED
      BY <2>4, <2>5, <2>6, <2>7 DEF OwnAnswer
  <1>6. Fresh(p)' => Fresh(p) /\ op'[p].content = op[p].content
    BY <1>1, <1>3 DEF Fresh
  <1>7. written.content <= written'.content
    BY <1>1, <1>2 DEF Counted
  <1>8. CASE Observed'
    <2>1. Observed
      BY <1>2, <1>8 DEF Observed
    <2>2. OwnAnswer(p)
      BY <2>1 DEF AnswerInv, OwnAnswer
    <2>3. \A c \in shown' \ shown : Fresh(p) /\ c = op[p].content
      BY <1>2, <1>5, <1>8, <2>2
    <2> QED
      BY <1>1, <1>2, <1>5, <1>6, <1>7, <2>3, OthersAnswer
  <1>9. CASE ~Observed'
    BY <1>9 DEF AnswerInv
  <1> QED
    BY <1>8, <1>9

\* The destination is read back as the publication's result.
LEMMA VerifyAnswer ==
    ASSUME LocalInv, AnswerInv, NEW p \in Processes, Verify(p)
    PROVE  AnswerInv'
  <1>1. /\ TypeOK /\ written \in Counted /\ op[p] \in Operation
        /\ pc[p] = "verify" /\ op[p].replaced
    BY LocalFacts DEF Verify, LocalsOf
  <1>2. /\ \A q \in Processes \ {p} : pc'[q] = pc[q] /\ op'[q] = op[q]
        /\ pc'[p] \in {"obsolete", "unlock"}
        /\ UNCHANGED <<base, dest, artifacts, written, shown, harm>>
    BY <1>1 DEF Verify, Raises, TypeOK
  <1>3. /\ op'[p].mode = op[p].mode /\ op'[p].content = op[p].content
        /\ op'[p].seen \in {op[p].seen, dest} /\ op'[p].result \in {op[p].result, dest}
        /\ op'[p].replaced
    BY <1>1 DEF Verify, Raises, TypeOK, Operation
  <1>4. ASSUME OwnAnswer(p)
        PROVE  ShownOf(p)'
    BY <1>1, <1>2, <1>3, <1>4 DEF OwnAnswer, ShownOf, Fresh, Seen
  <1> QED
    BY <1>1, <1>2, <1>3, <1>4, QuietAnswer

\* Removing artifacts shows nothing.
LEMMA DropObsoleteAnswer ==
    ASSUME LocalInv, AnswerInv, NEW p \in Processes, DropObsolete(p)
    PROVE  AnswerInv'
  <1>1. /\ TypeOK /\ written \in Counted /\ op[p] \in Operation
        /\ pc[p] = "obsolete" /\ op[p].replaced
    BY LocalFacts DEF DropObsolete, LocalsOf
  <1>2. /\ \A q \in Processes \ {p} : pc'[q] = pc[q] /\ op'[q] = op[q]
        /\ pc'[p] \in {"commit", "unlock"}
        /\ UNCHANGED <<base, dest, written, shown>>
        /\ harm \subseteq harm'
        /\ \A id \in Ids : artifacts'[id] \in {artifacts[id], None}
    BY <1>1 DEF DropObsolete, Raises, Harmed, TypeOK
  <1>3. /\ op'[p].mode = op[p].mode /\ op'[p].content = op[p].content
        /\ op'[p].seen = op[p].seen /\ op'[p].result = op[p].result
        /\ op'[p].replaced
    BY <1>1 DEF DropObsolete, Raises, TypeOK, Operation
  <1>4. ASSUME OwnAnswer(p)
        PROVE  ShownOf(p)'
    BY <1>1, <1>2, <1>3, <1>4 DEF OwnAnswer, ShownOf, Fresh, Seen
  <1> QED
    BY <1>1, <1>2, <1>3, <1>4, QuietAnswer

\* The result is the file that was read back.
LEMMA CommitSlotAnswer ==
    ASSUME LocalInv, AnswerInv, NEW p \in Processes, CommitSlot(p)
    PROVE  AnswerInv'
  <1>1. /\ TypeOK /\ written \in Counted /\ op[p] \in Operation
        /\ pc[p] = "commit" /\ op[p].replaced
    BY LocalFacts DEF CommitSlot, LocalsOf
  <1>2. /\ \A q \in Processes \ {p} : pc'[q] = pc[q] /\ op'[q] = op[q]
        /\ pc'[p] = "unlock"
        /\ UNCHANGED <<base, dest, artifacts, written, shown, harm>>
    BY <1>1 DEF CommitSlot, Raises, TypeOK
  <1>3. /\ op'[p].mode = op[p].mode /\ op'[p].content = op[p].content
        /\ op'[p].seen = op[p].seen /\ op'[p].result \in {op[p].result, op[p].seen}
        /\ op'[p].replaced
    BY <1>1 DEF CommitSlot, Raises, TypeOK, Operation
  <1>4. ASSUME OwnAnswer(p)
        PROVE  ShownOf(p)'
    BY <1>1, <1>2, <1>3, <1>4 DEF OwnAnswer, ShownOf, Fresh, Seen
  <1> QED
    BY <1>1, <1>2, <1>3, <1>4, QuietAnswer

\* A publication that took place and failed afterwards is looked for again.
LEMMA UnlockAnswer ==
    ASSUME LocalInv, AnswerInv, NEW p \in Processes, Unlock(p)
    PROVE  AnswerInv'
  <1>1. /\ TypeOK /\ written \in Counted /\ op[p].replaced \in BOOLEAN
        /\ pc[p] = "unlock"
    BY LocalFacts DEF Unlock
  <1>2. /\ \A q \in Processes \ {p} : pc'[q] = pc[q]
        /\ pc'[p] = AfterUnlock(op[p])
        /\ UNCHANGED <<op, base, dest, artifacts, written, shown, harm>>
    BY <1>1 DEF Unlock, TypeOK
  <1>3. /\ pc'[p] \in {"answer", "recapture", "restoreSlot"}
        /\ op[p].replaced /\ op[p].failure # "none" => pc'[p] = "recapture"
    BY <1>1, <1>2 DEF AfterUnlock
  <1>4. ASSUME OwnAnswer(p)
        PROVE  ShownOf(p)'
    BY <1>1, <1>2, <1>3, <1>4 DEF OwnAnswer, ShownOf, Fresh, Seen
  <1> QED
    BY <1>1, <1>2, <1>3, <1>4, QuietAnswer

\* The candidate is found where it was put.
LEMMA RecaptureAnswer ==
    ASSUME LocalInv, AnswerInv, NEW p \in Processes, Recapture(p)
    PROVE  AnswerInv'
  <1>1. /\ TypeOK /\ written \in Counted /\ op[p] \in Operation
        /\ pc[p] = "recapture" /\ op[p].replaced
    BY LocalFacts DEF Recapture, LocalsOf
  <1>2. /\ \A q \in Processes \ {p} : pc'[q] = pc[q] /\ op'[q] = op[q]
        /\ pc'[p] = "answer"
        /\ UNCHANGED <<base, dest, artifacts, written, shown>>
        /\ harm \subseteq harm'
    BY <1>1 DEF Recapture, Harmed, TypeOK
  <1>3. /\ op'[p].mode = op[p].mode /\ op'[p].content = op[p].content
        /\ op'[p].seen = op[p].seen
        /\ op'[p].result \in {op[p].result, dest, None}
        /\ op'[p].replaced
    BY <1>1 DEF Recapture, TypeOK, Operation
  <1>4. ASSUME Observed', OwnAnswer(p)
        PROVE  ShownOf(p)'
    <2>1. dest # None /\ dest.content = op[p].content
      BY <1>1, <1>4 DEF OwnAnswer, ShownOf
    <2>2. "unread" \notin harm'
      BY <1>4 DEF Observed
    <2>3. op'[p].result = dest
      BY <1>1, <2>1, <2>2 DEF Recapture, Harmed, TypeOK, Operation
    <2> QED
      BY <1>1, <1>2, <1>3, <1>4, <2>1, <2>3 DEF OwnAnswer, ShownOf, Fresh, Seen
  <1> QED
    BY <1>1, <1>2, <1>3, <1>4, QuietAnswer

\* The rollback belongs to a publication that did not take place.
LEMMA RollbackAnswer ==
    ASSUME LocalInv, AnswerInv, NEW p \in Processes, RestoreSlot(p) \/ RemoveNew(p)
    PROVE  AnswerInv'
  <1>1. /\ TypeOK /\ written \in Counted /\ op[p] \in Operation
        /\ pc[p] \in {"restoreSlot", "removeNew"} /\ ~op[p].replaced
    BY LocalFacts DEF RestoreSlot, RemoveNew, LocalsOf
  <1>2. /\ \A q \in Processes \ {p} : pc'[q] = pc[q]
        /\ pc'[p] \in {"removeNew", "answer"}
        /\ UNCHANGED <<op, base, dest, written, shown>>
        /\ harm \subseteq harm'
        /\ \A id \in Ids : artifacts'[id] \in {artifacts[id], None}
    BY <1>1 DEF RestoreSlot, RemoveNew, Harmed, TypeOK
  <1>3. ASSUME OwnAnswer(p)
        PROVE  ShownOf(p)'
    BY <1>1, <1>2, <1>3 DEF OwnAnswer, ShownOf, Fresh, Seen
  <1> QED
    BY <1>1, <1>2, <1>3, QuietAnswer

\* The session adopts a baseline that it has seen; a process that died has none.
LEMMA AnswerAnswer ==
    ASSUME LocalInv, AnswerInv, NEW p \in Processes, Answer(p) \/ Crash(p)
    PROVE  AnswerInv'
  <1>1. TypeOK /\ written \in Counted
    BY LocalFacts
  <1>2. /\ \A q \in Processes \ {p} : pc'[q] = pc[q] /\ op'[q] = op[q] /\ base'[q] = base[q]
        /\ pc'[p] = "idle" /\ op'[p] = NoOperation
        /\ base'[p] \in {op[p].result, base[p], None}
        /\ UNCHANGED <<dest, artifacts, shown, harm>>
        /\ written'.content = written.content /\ written' \in Counted
    BY <1>1 DEF Answer, Crash, TypeOK, Counted
  <1>3. ASSUME OwnAnswer(p)
        PROVE  ShownOf(p)'
    BY <1>1, <1>2, <1>3 DEF OwnAnswer, ShownOf, Fresh, Seen, NoOperation
  <1> QED
    BY <1>1, <1>2, <1>3, QuietAnswer

\* A foreign content ends the observation.
LEMMA ExternalAnswer ==
    ASSUME LocalInv, External
    PROVE  AnswerInv'
  <1>1. written.version \in Nat
    BY DEF LocalInv, Counted
  <1>2. MaxSaves + written.version + 1 \in shown'
    BY DEF External, WriteDestination
  <1>3. ~Observed'
    BY <1>1, <1>2 DEF Observed
  <1> QED
    BY <1>3 DEF AnswerInv

\* Every step keeps it.
LEMMA NextAnswer == LocalInv /\ AnswerInv /\ [Next]_vars => AnswerInv'
  <1> SUFFICES ASSUME LocalInv, AnswerInv, [Next]_vars
               PROVE  AnswerInv'
    OBVIOUS
  <1>1. CASE UNCHANGED vars
    BY <1>1 DEF vars, AnswerInv, Observed, Seen, Live, Distinct, Fresh, ShownOf
  <1>2. CASE External
    BY <1>2, ExternalAnswer
  <1>3. CASE \E p \in Processes : Open(p) \/ BeginSave(p) \/ BeginRestore(p) \/ Publish(p) \/ Crash(p)
    <2>1. PICK p \in Processes : Open(p) \/ BeginSave(p) \/ BeginRestore(p) \/ Publish(p) \/ Crash(p)
      BY <1>3
    <2>2. CASE Publish(p)
      BY <2>2, StageFailsAnswer, AcquireLockAnswer, StepFailsAnswer, RecheckAnswer,
         CreateRecoveryAnswer, WriteSlotAnswer, ReplaceAnswer, VerifyAnswer, DropObsoleteAnswer,
         CommitSlotAnswer, UnlockAnswer, RecaptureAnswer, RollbackAnswer, AnswerAnswer
         DEF Publish
    <2> QED
      BY <2>1, <2>2, OpenAnswer, BeginSaveAnswer, BeginRestoreAnswer, AnswerAnswer
  <1> QED
    BY <1>1, <1>2, <1>3 DEF Next

\* Contents that were never hidden have been in the destination exactly if they
\* were published.
THEOREM AnswerInvariant == Spec => []AnswerInv
  <1>1. Init => AnswerInv
    BY DEF Init, AnswerInv, Seen, Live, Distinct, Fresh, ShownOf, NoOperation
  <1> QED
    BY <1>1, NextAnswer, LocalInvariant, PTL DEF Spec

\* What publish and publish_new answer, a plain or a committed error included,
\* says truly whether the destination has had the candidate.
THEOREM AnswersAreTrue == Spec => []AnswerIsTrue
  <1>1. LocalInv /\ AnswerInv => AnswerIsTrue
    <2> SUFFICES ASSUME LocalInv, AnswerInv, Observed,
                        NEW p \in Processes, pc[p] = "answer", op[p].mode # "restore"
                 PROVE  op[p].content \in shown <=> AnswerOf(op[p]) \in {"published", "committed"}
      BY DEF AnswerIsTrue, Observed
    <2>1. /\ op[p].content \in shown <=> op[p].replaced
          /\ op[p].replaced /\ op[p].failure # "none" => op[p].result # None
          /\ ~op[p].replaced => op[p].failure # "none"
      BY DEF AnswerInv, ShownOf, Fresh
    <2>2. op[p].failure \in {"none", "external", "failed"}
      BY LocalFacts DEF Operation
    <2> QED
      BY <2>1, <2>2 DEF AnswerOf
  <1> QED
    BY <1>1, AnswerInvariant, LocalInvariant, PTL

=============================================================================
