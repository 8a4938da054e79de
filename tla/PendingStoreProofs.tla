-------------------------- MODULE PendingStoreProofs --------------------------
(***************************************************************************)
(* What PendingStore keeps, for every set of identifiers and every bound.  *)
(*                                                                         *)
(* PendingInv (in PendingStore) says at which step of a publication, a     *)
(* rollback, a cleanup or a discard each name may hold what, and so that   *)
(* a name the code is about to unlink never holds the only entry of a      *)
(* session it still owes its caller.  One lemma per action shows that the  *)
(* action keeps it, conjunct by conjunct; NextInv puts them together.      *)
(*                                                                         *)
(* PendingStore implements PendingSlot: under the refinement mapping an    *)
(* operation that has not committed shows the slot it set out from and the *)
(* identifier it has drawn.  What happens in the directory is therefore a  *)
(* stutter; an operation begins with Draw, commits with Publish or Remove, *)
(* and one that ends undecided, or dies, is whichever of the abstract      *)
(* steps the visible slot shows.                                           *)
(***************************************************************************)
EXTENDS PendingStore, TLAPS

USE NoneAssumption DEF PendingInv, disk, caller, Names, Steps, PublishSteps, RollbackSteps,
    RestoreSteps, CleanupSteps, DiscardSteps, LinksAre, PreviousIsThere, Standing,
    NoOperation

\* The flags of an operation may be raised.
LEMMA OperationUpdate ==
    ASSUME NEW o \in Operation
    PROVE  /\ [o EXCEPT !.moved = TRUE] \in Operation
           /\ [o EXCEPT !.published = TRUE] \in Operation
           /\ [o EXCEPT !.committed = TRUE] \in Operation
           /\ [o EXCEPT !.preserve = TRUE] \in Operation
  BY DEF Operation

\* Unlinking a name that holds nothing owed loses nothing.
LEMMA UnlinkKeeps ==
    ASSUME NEW name \in Names, TypeOK, ConfirmedSurvives, link[name] \notin kept,
           link' = link \/ link' = [link EXCEPT ![name] = None],
           UNCHANGED <<artifacts, strays, kept>>
    PROVE  ConfirmedSurvives'
  <1> SUFFICES ASSUME NEW id \in kept
               PROVE  id \in artifacts /\ (id \in strays \/ \E n \in Names : link'[n] = id)
    BY DEF ConfirmedSurvives
  <1>1. id \in artifacts /\ (id \in strays \/ \E n \in Names : link[n] = id)
    BY DEF ConfirmedSurvives
  <1>2. ASSUME NEW n \in Names, link[n] = id
        PROVE  link'[n] = id
    BY <1>2 DEF TypeOK
  <1> QED
    BY <1>1, <1>2

\* Nor does removing an artifact that is not owed.
LEMMA DropKeeps ==
    ASSUME NEW gone, gone \notin kept, ConfirmedSurvives,
           artifacts' = artifacts \/ artifacts' = artifacts \ {gone},
           UNCHANGED <<link, strays, kept>>
    PROVE  ConfirmedSurvives'
  BY DEF ConfirmedSurvives

-----------------------------------------------------------------------------
(* One lemma per action *)

LEMMA GuardOpenStep ==
    ASSUME PendingInv, GuardOpen
    PROVE  PendingInv'
  <1> USE DEF GuardOpen
  <1>1. TypeOK'
    <2>1. op' \in Operation
      BY DEF TypeOK
    <2>2. harm' \subseteq Harms
      BY DEF TypeOK
    <2>3. link' \in [Names -> Ids \cup {None}]
      BY DEF TypeOK
    <2> QED
      BY <2>1, <2>2, <2>3 DEF TypeOK, Operation, OperationInv
  <1>2. OperationInv'
    BY DEF OperationInv
  <1>3. PublishInv'
    BY DEF PublishInv, OperationInv
  <1>4. RollbackInv'
    BY DEF RollbackInv, OperationInv
  <1>5. EndInv'
    BY DEF EndInv, OperationInv
  <1>6. DiscardInv'
    BY DEF DiscardInv, OperationInv
  <1>7. CallerInv'
    BY DEF CallerInv, OperationInv
  <1>8. KeptInv'
    BY DEF KeptInv, OperationInv
  <1>9. ConfirmedSurvives'
    BY DEF ConfirmedSurvives, OperationInv
  <1>10. SelectorAnswers'
    BY DEF SelectorAnswers, OperationInv, TypeOK, CallerInv
  <1>11. VisibleIsWhole'
    BY DEF VisibleIsWhole, OperationInv, Whole
  <1> QED
    BY <1>1, <1>2, <1>3, <1>4, <1>5, <1>6, <1>7, <1>8, <1>9, <1>10, <1>11

LEMMA OpenPendingStep ==
    ASSUME PendingInv, OpenPending
    PROVE  PendingInv'
  <1> USE DEF OpenPending, Found, Whole
  <1>1. TypeOK'
    <2>1. op' \in Operation
      BY DEF TypeOK
    <2>2. harm' \subseteq Harms
      BY DEF TypeOK
    <2>3. link' \in [Names -> Ids \cup {None}]
      BY DEF TypeOK
    <2> QED
      BY <2>1, <2>2, <2>3 DEF TypeOK, Operation, OperationInv
  <1>2. OperationInv'
    BY DEF OperationInv
  <1>3. PublishInv'
    BY DEF PublishInv, OperationInv
  <1>4. RollbackInv'
    BY DEF RollbackInv, OperationInv
  <1>5. EndInv'
    BY DEF EndInv, OperationInv
  <1>6. DiscardInv'
    BY DEF DiscardInv, OperationInv
  <1>7. CallerInv'
    BY DEF CallerInv, OperationInv
  <1>8. KeptInv'
    BY DEF KeptInv, OperationInv
  <1>9. ConfirmedSurvives'
    BY DEF ConfirmedSurvives, OperationInv
  <1>10. SelectorAnswers'
    BY DEF SelectorAnswers, OperationInv
  <1>11. VisibleIsWhole'
    BY DEF VisibleIsWhole, OperationInv, Whole
  <1> QED
    BY <1>1, <1>2, <1>3, <1>4, <1>5, <1>6, <1>7, <1>8, <1>9, <1>10, <1>11

LEMMA BeginPublishStep ==
    ASSUME NEW id \in Ids, PendingInv, BeginPublish(id)
    PROVE  PendingInv'
  <1> USE DEF BeginPublish, Found, Whole
  <1>1. TypeOK'
    <2>1. op' \in Operation
      BY DEF TypeOK, OperationInv, Operation, NoOperation
    <2>2. harm' \subseteq Harms
      BY DEF TypeOK
    <2>3. link' \in [Names -> Ids \cup {None}]
      BY DEF TypeOK
    <2> QED
      BY <2>1, <2>2, <2>3 DEF TypeOK, Operation, OperationInv
  <1>2. OperationInv'
    BY DEF OperationInv
  <1>3. PublishInv'
    BY DEF PublishInv, OperationInv
  <1>4. RollbackInv'
    BY DEF RollbackInv, OperationInv
  <1>5. EndInv'
    BY DEF EndInv, OperationInv
  <1>6. DiscardInv'
    BY DEF DiscardInv, OperationInv
  <1>7. CallerInv'
    BY DEF CallerInv, OperationInv
  <1>8. KeptInv'
    BY DEF KeptInv, OperationInv
  <1>9. ConfirmedSurvives'
    BY DEF ConfirmedSurvives, OperationInv
  <1>10. SelectorAnswers'
    BY DEF SelectorAnswers, OperationInv
  <1>11. VisibleIsWhole'
    BY DEF VisibleIsWhole, OperationInv, Whole
  <1> QED
    BY <1>1, <1>2, <1>3, <1>4, <1>5, <1>6, <1>7, <1>8, <1>9, <1>10, <1>11

LEMMA PublishFailsStep ==
    ASSUME PendingInv, PublishFails
    PROVE  PendingInv'
  <1> USE DEF PublishFails, Undo
  <1>1. TypeOK'
    <2>1. op' \in Operation
      BY DEF TypeOK
    <2>2. harm' \subseteq Harms
      BY DEF TypeOK
    <2>3. link' \in [Names -> Ids \cup {None}]
      BY DEF TypeOK
    <2> QED
      BY <2>1, <2>2, <2>3 DEF TypeOK, Operation, OperationInv
  <1>2. OperationInv'
    BY DEF OperationInv
  <1>3. PublishInv'
    BY DEF PublishInv, OperationInv
  <1>4. RollbackInv'
    BY DEF RollbackInv, OperationInv, TypeOK, PublishInv
  <1>5. EndInv'
    BY DEF EndInv, OperationInv, TypeOK, PublishInv
  <1>6. DiscardInv'
    BY DEF DiscardInv, OperationInv
  <1>7. CallerInv'
    BY DEF CallerInv, OperationInv
  <1>8. KeptInv'
    BY DEF KeptInv, OperationInv
  <1>9. ConfirmedSurvives'
    BY DEF ConfirmedSurvives, OperationInv
  <1>10. SelectorAnswers'
    BY DEF SelectorAnswers, OperationInv
  <1>11. VisibleIsWhole'
    BY DEF VisibleIsWhole, OperationInv, Whole
  <1> QED
    BY <1>1, <1>2, <1>3, <1>4, <1>5, <1>6, <1>7, <1>8, <1>9, <1>10, <1>11

LEMMA PublishArtifactStep ==
    ASSUME PendingInv, PublishArtifact
    PROVE  PendingInv'
  <1> USE DEF PublishArtifact
  <1>1. TypeOK'
    <2>1. op' \in Operation
      BY DEF TypeOK
    <2>2. harm' \subseteq Harms
      BY DEF TypeOK
    <2>3. link' \in [Names -> Ids \cup {None}]
      BY DEF TypeOK
    <2> QED
      BY <2>1, <2>2, <2>3 DEF TypeOK, Operation, OperationInv
  <1>2. OperationInv'
    BY DEF OperationInv
  <1>3. PublishInv'
    BY DEF PublishInv, OperationInv
  <1>4. RollbackInv'
    BY DEF RollbackInv, OperationInv
  <1>5. EndInv'
    BY DEF EndInv, OperationInv
  <1>6. DiscardInv'
    BY DEF DiscardInv, OperationInv
  <1>7. CallerInv'
    BY DEF CallerInv, OperationInv
  <1>8. KeptInv'
    BY DEF KeptInv, OperationInv
  <1>9. ConfirmedSurvives'
    BY DEF ConfirmedSurvives, OperationInv
  <1>10. SelectorAnswers'
    BY DEF SelectorAnswers, OperationInv
  <1>11. VisibleIsWhole'
    BY DEF VisibleIsWhole, OperationInv, Whole
  <1> QED
    BY <1>1, <1>2, <1>3, <1>4, <1>5, <1>6, <1>7, <1>8, <1>9, <1>10, <1>11

LEMMA WriteRecordStep ==
    ASSUME PendingInv, WriteRecord
    PROVE  PendingInv'
  <1> USE DEF WriteRecord
  <1>1. TypeOK'
    <2>1. op' \in Operation
      BY DEF TypeOK
    <2>2. harm' \subseteq Harms
      BY DEF TypeOK
    <2>3. link' \in [Names -> Ids \cup {None}]
      BY DEF TypeOK, OperationInv
    <2> QED
      BY <2>1, <2>2, <2>3 DEF TypeOK, Operation, OperationInv
  <1>2. OperationInv'
    BY DEF OperationInv
  <1>3. PublishInv'
    BY DEF PublishInv, OperationInv, TypeOK
  <1>4. RollbackInv'
    BY DEF RollbackInv, OperationInv
  <1>5. EndInv'
    BY DEF EndInv, OperationInv
  <1>6. DiscardInv'
    BY DEF DiscardInv, OperationInv
  <1>7. CallerInv'
    BY DEF CallerInv, OperationInv
  <1>8. KeptInv'
    BY DEF KeptInv, OperationInv
  <1>9. ConfirmedSurvives'
    BY DEF ConfirmedSurvives, OperationInv, TypeOK, PublishInv
  <1>10. SelectorAnswers'
    BY DEF SelectorAnswers, OperationInv
  <1>11. VisibleIsWhole'
    BY DEF VisibleIsWhole, OperationInv, Whole
  <1> QED
    BY <1>1, <1>2, <1>3, <1>4, <1>5, <1>6, <1>7, <1>8, <1>9, <1>10, <1>11

LEMMA CompareSourceStep ==
    ASSUME PendingInv, CompareSource
    PROVE  PendingInv'
  <1> USE DEF CompareSource
  <1>1. TypeOK'
    <2>1. op' \in Operation
      BY DEF TypeOK
    <2>2. harm' \subseteq Harms
      BY DEF TypeOK
    <2>3. link' \in [Names -> Ids \cup {None}]
      BY DEF TypeOK
    <2> QED
      BY <2>1, <2>2, <2>3 DEF TypeOK, Operation, OperationInv
  <1>2. OperationInv'
    BY DEF OperationInv
  <1>3. PublishInv'
    BY DEF PublishInv, OperationInv
  <1>4. RollbackInv'
    BY DEF RollbackInv, OperationInv
  <1>5. EndInv'
    BY DEF EndInv, OperationInv
  <1>6. DiscardInv'
    BY DEF DiscardInv, OperationInv
  <1>7. CallerInv'
    BY DEF CallerInv, OperationInv
  <1>8. KeptInv'
    BY DEF KeptInv, OperationInv
  <1>9. ConfirmedSurvives'
    BY DEF ConfirmedSurvives, OperationInv
  <1>10. SelectorAnswers'
    BY DEF SelectorAnswers, OperationInv
  <1>11. VisibleIsWhole'
    BY DEF VisibleIsWhole, OperationInv, Whole
  <1> QED
    BY <1>1, <1>2, <1>3, <1>4, <1>5, <1>6, <1>7, <1>8, <1>9, <1>10, <1>11

LEMMA MoveAsideStep ==
    ASSUME PendingInv, MoveAside
    PROVE  PendingInv'
  <1> USE DEF MoveAside, Linked
  <1>1. TypeOK'
    <2>1. op' \in Operation
      BY DEF TypeOK
    <2>2. harm' \subseteq Harms
      BY DEF TypeOK
    <2>3. link' \in [Names -> Ids \cup {None}]
      BY DEF TypeOK
    <2> QED
      BY <2>1, <2>2, <2>3 DEF TypeOK, Operation, OperationInv
  <1>2. OperationInv'
    BY DEF OperationInv, TypeOK, PublishInv
  <1>3. PublishInv'
    BY DEF PublishInv, OperationInv, TypeOK
  <1>4. RollbackInv'
    BY DEF RollbackInv, OperationInv
  <1>5. EndInv'
    BY DEF EndInv, OperationInv
  <1>6. DiscardInv'
    BY DEF DiscardInv, OperationInv
  <1>7. CallerInv'
    BY DEF CallerInv, OperationInv
  <1>8. KeptInv'
    BY DEF KeptInv, OperationInv
  <1>9. ConfirmedSurvives'
    BY DEF ConfirmedSurvives, OperationInv, TypeOK
  <1>10. SelectorAnswers'
    BY DEF SelectorAnswers, OperationInv
  <1>11. VisibleIsWhole'
    BY DEF VisibleIsWhole, OperationInv, Whole
  <1> QED
    BY <1>1, <1>2, <1>3, <1>4, <1>5, <1>6, <1>7, <1>8, <1>9, <1>10, <1>11

LEMMA MoveAsideUnlinkStep ==
    ASSUME PendingInv, MoveAsideUnlink
    PROVE  PendingInv'
  <1> USE DEF MoveAsideUnlink, Unlinked, Torn, Harmed
  <1>1. TypeOK'
    <2>1. op' \in Operation
      BY DEF TypeOK, OperationInv, Operation, NoOperation
    <2>2. harm' \subseteq Harms
      BY DEF TypeOK, Harms
    <2>3. link' \in [Names -> Ids \cup {None}]
      BY DEF TypeOK
    <2> QED
      BY <2>1, <2>2, <2>3 DEF TypeOK, Operation, OperationInv
  <1>2. OperationInv'
    BY DEF OperationInv, TypeOK, Operation, PublishInv
  <1>3. PublishInv'
    BY DEF PublishInv, OperationInv, TypeOK, Operation
  <1>4. RollbackInv'
    BY DEF RollbackInv, OperationInv
  <1>5. EndInv'
    BY DEF EndInv, OperationInv, TypeOK, PublishInv
  <1>6. DiscardInv'
    BY DEF DiscardInv, OperationInv
  <1>7. CallerInv'
    BY DEF CallerInv, OperationInv
  <1>8. KeptInv'
    BY DEF KeptInv, OperationInv, TypeOK, Operation
  <1>9. ConfirmedSurvives'
    BY DEF ConfirmedSurvives, OperationInv, TypeOK, PublishInv
  <1>10. SelectorAnswers'
    BY DEF SelectorAnswers, OperationInv
  <1>11. VisibleIsWhole'
    BY DEF VisibleIsWhole, OperationInv, Whole, TypeOK
  <1> QED
    BY <1>1, <1>2, <1>3, <1>4, <1>5, <1>6, <1>7, <1>8, <1>9, <1>10, <1>11

LEMMA LinkSlotStep ==
    ASSUME PendingInv, LinkSlot
    PROVE  PendingInv'
  <1> USE DEF LinkSlot, Linked
  <1>1. TypeOK'
    <2>1. op' \in Operation
      BY DEF TypeOK
    <2>2. harm' \subseteq Harms
      BY DEF TypeOK
    <2>3. link' \in [Names -> Ids \cup {None}]
      BY DEF TypeOK
    <2> QED
      BY <2>1, <2>2, <2>3 DEF TypeOK, Operation, OperationInv
  <1>2. OperationInv'
    BY DEF OperationInv, TypeOK, PublishInv
  <1>3. PublishInv'
    BY DEF PublishInv, OperationInv, TypeOK
  <1>4. RollbackInv'
    BY DEF RollbackInv, OperationInv
  <1>5. EndInv'
    BY DEF EndInv, OperationInv
  <1>6. DiscardInv'
    BY DEF DiscardInv, OperationInv
  <1>7. CallerInv'
    BY DEF CallerInv, OperationInv
  <1>8. KeptInv'
    BY DEF KeptInv, OperationInv
  <1>9. ConfirmedSurvives'
    BY DEF ConfirmedSurvives, OperationInv, TypeOK
  <1>10. SelectorAnswers'
    BY DEF SelectorAnswers, OperationInv
  <1>11. VisibleIsWhole'
    BY DEF VisibleIsWhole, OperationInv, Whole
  <1> QED
    BY <1>1, <1>2, <1>3, <1>4, <1>5, <1>6, <1>7, <1>8, <1>9, <1>10, <1>11

LEMMA LinkSlotUnlinkStep ==
    ASSUME PendingInv, LinkSlotUnlink
    PROVE  PendingInv'
  <1> USE DEF LinkSlotUnlink, Unlinked, Undo, Torn, Harmed
  <1>1. TypeOK'
    <2>1. op' \in Operation
      BY DEF TypeOK, OperationInv, Operation, NoOperation
    <2>2. harm' \subseteq Harms
      BY DEF TypeOK, Harms
    <2>3. link' \in [Names -> Ids \cup {None}]
      BY DEF TypeOK
    <2> QED
      BY <2>1, <2>2, <2>3 DEF TypeOK, Operation, OperationInv
  <1>2. OperationInv'
    BY DEF OperationInv, TypeOK, Operation
  <1>3. PublishInv'
    BY DEF PublishInv, OperationInv, TypeOK, Operation
  <1>4. RollbackInv'
    BY DEF RollbackInv, OperationInv, TypeOK, PublishInv
  <1>5. EndInv'
    BY DEF EndInv, OperationInv, TypeOK, PublishInv
  <1>6. DiscardInv'
    BY DEF DiscardInv, OperationInv
  <1>7. CallerInv'
    BY DEF CallerInv, OperationInv
  <1>8. KeptInv'
    BY DEF KeptInv, OperationInv, TypeOK, Operation
  <1>9. ConfirmedSurvives'
    BY DEF ConfirmedSurvives, OperationInv, TypeOK, PublishInv
  <1>10. SelectorAnswers'
    BY DEF SelectorAnswers, OperationInv
  <1>11. VisibleIsWhole'
    BY DEF VisibleIsWhole, OperationInv, Whole, TypeOK
  <1> QED
    BY <1>1, <1>2, <1>3, <1>4, <1>5, <1>6, <1>7, <1>8, <1>9, <1>10, <1>11

LEMMA ValidateStep ==
    ASSUME PendingInv, Validate
    PROVE  PendingInv'
  <1> USE DEF Validate, Committed, Found, Whole
  <1>1. TypeOK'
    <2>1. op' \in Operation
      BY OperationUpdate DEF TypeOK
    <2>2. harm' \subseteq Harms
      BY DEF TypeOK
    <2>3. link' \in [Names -> Ids \cup {None}]
      BY DEF TypeOK
    <2> QED
      BY <2>1, <2>2, <2>3 DEF TypeOK, Operation, OperationInv
  <1>2. OperationInv'
    BY DEF OperationInv
  <1>3. PublishInv'
    BY DEF PublishInv, OperationInv
  <1>4. RollbackInv'
    BY DEF RollbackInv, OperationInv
  <1>5. EndInv'
    BY DEF EndInv, OperationInv
  <1>6. DiscardInv'
    BY DEF DiscardInv, OperationInv
  <1>7. CallerInv'
    BY DEF CallerInv, OperationInv
  <1>8. KeptInv'
    BY DEF KeptInv, OperationInv
  <1>9. ConfirmedSurvives'
    BY DEF ConfirmedSurvives, OperationInv
  <1>10. SelectorAnswers'
    BY DEF SelectorAnswers, OperationInv
  <1>11. VisibleIsWhole'
    BY DEF VisibleIsWhole, OperationInv, Whole
  <1> QED
    BY <1>1, <1>2, <1>3, <1>4, <1>5, <1>6, <1>7, <1>8, <1>9, <1>10, <1>11

LEMMA RemoveNewStep ==
    ASSUME PendingInv, RemoveNew
    PROVE  PendingInv'
  <1> USE DEF RemoveNew, Unlinked, Harmed
  <1>1. TypeOK'
    <2>1. op' \in Operation
      BY DEF TypeOK
    <2>2. harm' \subseteq Harms
      BY DEF TypeOK, Harms
    <2>3. link' \in [Names -> Ids \cup {None}]
      BY DEF TypeOK
    <2> QED
      BY <2>1, <2>2, <2>3 DEF TypeOK, Operation, OperationInv
  <1>2. OperationInv'
    BY DEF OperationInv, TypeOK, RollbackInv
  <1>3. PublishInv'
    BY DEF PublishInv, OperationInv
  <1>4. RollbackInv'
    BY DEF RollbackInv, OperationInv
  <1>5. EndInv'
    BY DEF EndInv, OperationInv, TypeOK, RollbackInv
  <1>6. DiscardInv'
    BY DEF DiscardInv, OperationInv
  <1>7. CallerInv'
    BY DEF CallerInv, OperationInv
  <1>8. KeptInv'
    BY DEF KeptInv, OperationInv, TypeOK
  <1>9. ConfirmedSurvives'
    <2>1. link["slot"] \notin kept
      BY DEF TypeOK, RollbackInv, OperationInv, KeptInv
    <2> QED
      BY <2>1, UnlinkKeeps DEF TypeOK
  <1>10. SelectorAnswers'
    BY DEF SelectorAnswers, OperationInv
  <1>11. VisibleIsWhole'
    BY DEF VisibleIsWhole, OperationInv, Whole, TypeOK
  <1> QED
    BY <1>1, <1>2, <1>3, <1>4, <1>5, <1>6, <1>7, <1>8, <1>9, <1>10, <1>11

LEMMA RollbackStep ==
    ASSUME PendingInv, Rollback
    PROVE  PendingInv'
  <1> USE DEF Rollback, Linked, RollbackStops, Harmed
  <1>1. TypeOK'
    <2>1. op' \in Operation
      BY DEF TypeOK
    <2>2. harm' \subseteq Harms
      BY DEF TypeOK, Harms
    <2>3. link' \in [Names -> Ids \cup {None}]
      BY DEF TypeOK
    <2> QED
      BY <2>1, <2>2, <2>3 DEF TypeOK, Operation, OperationInv
  <1>2. OperationInv'
    BY DEF OperationInv, TypeOK, RollbackInv
  <1>3. PublishInv'
    BY DEF PublishInv, OperationInv
  <1>4. RollbackInv'
    BY DEF RollbackInv, OperationInv, TypeOK
  <1>5. EndInv'
    BY DEF EndInv, OperationInv
  <1>6. DiscardInv'
    BY DEF DiscardInv, OperationInv
  <1>7. CallerInv'
    BY DEF CallerInv, OperationInv
  <1>8. KeptInv'
    BY DEF KeptInv, OperationInv, TypeOK
  <1>9. ConfirmedSurvives'
    BY DEF ConfirmedSurvives, OperationInv, TypeOK
  <1>10. SelectorAnswers'
    BY DEF SelectorAnswers, OperationInv
  <1>11. VisibleIsWhole'
    BY DEF VisibleIsWhole, OperationInv, Whole, TypeOK
  <1> QED
    BY <1>1, <1>2, <1>3, <1>4, <1>5, <1>6, <1>7, <1>8, <1>9, <1>10, <1>11

LEMMA RollbackUnlinkStep ==
    ASSUME PendingInv, RollbackUnlink
    PROVE  PendingInv'
  <1> USE DEF RollbackUnlink, Unlinked, RollbackStops, Harmed
  <1>1. TypeOK'
    <2>1. op' \in Operation
      BY DEF TypeOK
    <2>2. harm' \subseteq Harms
      BY DEF TypeOK, Harms
    <2>3. link' \in [Names -> Ids \cup {None}]
      BY DEF TypeOK
    <2> QED
      BY <2>1, <2>2, <2>3 DEF TypeOK, Operation, OperationInv
  <1>2. OperationInv'
    BY DEF OperationInv, TypeOK, RollbackInv
  <1>3. PublishInv'
    BY DEF PublishInv, OperationInv
  <1>4. RollbackInv'
    BY DEF RollbackInv, OperationInv, TypeOK
  <1>5. EndInv'
    BY DEF EndInv, OperationInv
  <1>6. DiscardInv'
    BY DEF DiscardInv, OperationInv
  <1>7. CallerInv'
    BY DEF CallerInv, OperationInv
  <1>8. KeptInv'
    BY DEF KeptInv, OperationInv, TypeOK
  <1>9. ConfirmedSurvives'
    BY DEF ConfirmedSurvives, OperationInv, TypeOK, RollbackInv
  <1>10. SelectorAnswers'
    BY DEF SelectorAnswers, OperationInv
  <1>11. VisibleIsWhole'
    BY DEF VisibleIsWhole, OperationInv, Whole, TypeOK
  <1> QED
    BY <1>1, <1>2, <1>3, <1>4, <1>5, <1>6, <1>7, <1>8, <1>9, <1>10, <1>11

LEMMA ReinstateStep ==
    ASSUME PendingInv, Reinstate
    PROVE  PendingInv'
  <1> USE DEF Reinstate, Linked, RollbackStops, Harmed
  <1>1. TypeOK'
    <2>1. op' \in Operation
      BY DEF TypeOK
    <2>2. harm' \subseteq Harms
      BY DEF TypeOK, Harms
    <2>3. link' \in [Names -> Ids \cup {None}]
      BY DEF TypeOK
    <2> QED
      BY <2>1, <2>2, <2>3 DEF TypeOK, Operation, OperationInv
  <1>2. OperationInv'
    BY DEF OperationInv, TypeOK, RollbackInv
  <1>3. PublishInv'
    BY DEF PublishInv, OperationInv
  <1>4. RollbackInv'
    BY DEF RollbackInv, OperationInv, TypeOK
  <1>5. EndInv'
    BY DEF EndInv, OperationInv
  <1>6. DiscardInv'
    BY DEF DiscardInv, OperationInv
  <1>7. CallerInv'
    BY DEF CallerInv, OperationInv
  <1>8. KeptInv'
    BY DEF KeptInv, OperationInv, TypeOK
  <1>9. ConfirmedSurvives'
    BY DEF ConfirmedSurvives, OperationInv, TypeOK
  <1>10. SelectorAnswers'
    BY DEF SelectorAnswers, OperationInv
  <1>11. VisibleIsWhole'
    BY DEF VisibleIsWhole, OperationInv, Whole, TypeOK
  <1> QED
    BY <1>1, <1>2, <1>3, <1>4, <1>5, <1>6, <1>7, <1>8, <1>9, <1>10, <1>11

LEMMA ReinstateUnlinkStep ==
    ASSUME PendingInv, ReinstateUnlink
    PROVE  PendingInv'
  <1> USE DEF ReinstateUnlink, Unlinked, RollbackStops, Harmed
  <1>1. TypeOK'
    <2>1. op' \in Operation
      BY DEF TypeOK
    <2>2. harm' \subseteq Harms
      BY DEF TypeOK, Harms
    <2>3. link' \in [Names -> Ids \cup {None}]
      BY DEF TypeOK
    <2> QED
      BY <2>1, <2>2, <2>3 DEF TypeOK, Operation, OperationInv
  <1>2. OperationInv'
    BY DEF OperationInv, TypeOK, RollbackInv
  <1>3. PublishInv'
    BY DEF PublishInv, OperationInv
  <1>4. RollbackInv'
    BY DEF RollbackInv, OperationInv, TypeOK
  <1>5. EndInv'
    BY DEF EndInv, OperationInv
  <1>6. DiscardInv'
    BY DEF DiscardInv, OperationInv
  <1>7. CallerInv'
    BY DEF CallerInv, OperationInv
  <1>8. KeptInv'
    BY DEF KeptInv, OperationInv, TypeOK
  <1>9. ConfirmedSurvives'
    BY DEF ConfirmedSurvives, OperationInv, TypeOK, RollbackInv
  <1>10. SelectorAnswers'
    BY DEF SelectorAnswers, OperationInv
  <1>11. VisibleIsWhole'
    BY DEF VisibleIsWhole, OperationInv, Whole, TypeOK
  <1> QED
    BY <1>1, <1>2, <1>3, <1>4, <1>5, <1>6, <1>7, <1>8, <1>9, <1>10, <1>11

LEMMA UnrollStep ==
    ASSUME PendingInv, Unroll
    PROVE  PendingInv'
  <1> USE DEF Unroll, Linked, RollbackStops, Harmed
  <1>1. TypeOK'
    <2>1. op' \in Operation
      BY DEF TypeOK
    <2>2. harm' \subseteq Harms
      BY DEF TypeOK, Harms
    <2>3. link' \in [Names -> Ids \cup {None}]
      BY DEF TypeOK
    <2> QED
      BY <2>1, <2>2, <2>3 DEF TypeOK, Operation, OperationInv
  <1>2. OperationInv'
    BY DEF OperationInv, TypeOK, RollbackInv
  <1>3. PublishInv'
    BY DEF PublishInv, OperationInv
  <1>4. RollbackInv'
    BY DEF RollbackInv, OperationInv, TypeOK
  <1>5. EndInv'
    BY DEF EndInv, OperationInv
  <1>6. DiscardInv'
    BY DEF DiscardInv, OperationInv
  <1>7. CallerInv'
    BY DEF CallerInv, OperationInv
  <1>8. KeptInv'
    BY DEF KeptInv, OperationInv, TypeOK
  <1>9. ConfirmedSurvives'
    BY DEF ConfirmedSurvives, OperationInv, TypeOK
  <1>10. SelectorAnswers'
    BY DEF SelectorAnswers, OperationInv
  <1>11. VisibleIsWhole'
    BY DEF VisibleIsWhole, OperationInv, Whole, TypeOK, RollbackInv
  <1> QED
    BY <1>1, <1>2, <1>3, <1>4, <1>5, <1>6, <1>7, <1>8, <1>9, <1>10, <1>11

LEMMA UnrollUnlinkStep ==
    ASSUME PendingInv, UnrollUnlink
    PROVE  PendingInv'
  <1> USE DEF UnrollUnlink, Unlinked, RollbackStops, Harmed
  <1>1. TypeOK'
    <2>1. op' \in Operation
      BY DEF TypeOK
    <2>2. harm' \subseteq Harms
      BY DEF TypeOK, Harms
    <2>3. link' \in [Names -> Ids \cup {None}]
      BY DEF TypeOK
    <2> QED
      BY <2>1, <2>2, <2>3 DEF TypeOK, Operation, OperationInv
  <1>2. OperationInv'
    BY DEF OperationInv, TypeOK
  <1>3. PublishInv'
    BY DEF PublishInv, OperationInv
  <1>4. RollbackInv'
    BY DEF RollbackInv, OperationInv
  <1>5. EndInv'
    BY DEF EndInv, OperationInv
  <1>6. DiscardInv'
    BY DEF DiscardInv, OperationInv
  <1>7. CallerInv'
    BY DEF CallerInv, OperationInv
  <1>8. KeptInv'
    BY DEF KeptInv, OperationInv, TypeOK
  <1>9. ConfirmedSurvives'
    BY DEF ConfirmedSurvives, OperationInv, TypeOK, RollbackInv
  <1>10. SelectorAnswers'
    BY DEF SelectorAnswers, OperationInv
  <1>11. VisibleIsWhole'
    BY DEF VisibleIsWhole, OperationInv, Whole, TypeOK
  <1> QED
    BY <1>1, <1>2, <1>3, <1>4, <1>5, <1>6, <1>7, <1>8, <1>9, <1>10, <1>11

LEMMA RereadStep ==
    ASSUME PendingInv, Reread
    PROVE  PendingInv'
  <1> USE DEF Reread, Unlinked, RollbackStops, Harmed, Found, Whole
  <1>1. TypeOK'
    <2>1. op' \in Operation
      BY DEF TypeOK
    <2>2. harm' \subseteq Harms
      BY DEF TypeOK, Harms
    <2>3. link' \in [Names -> Ids \cup {None}]
      BY DEF TypeOK
    <2> QED
      BY <2>1, <2>2, <2>3 DEF TypeOK, Operation, OperationInv
  <1>2. OperationInv'
    BY DEF OperationInv, TypeOK
  <1>3. PublishInv'
    BY DEF PublishInv, OperationInv
  <1>4. RollbackInv'
    BY DEF RollbackInv, OperationInv
  <1>5. EndInv'
    BY DEF EndInv, OperationInv, TypeOK
  <1>6. DiscardInv'
    BY DEF DiscardInv, OperationInv
  <1>7. CallerInv'
    BY DEF CallerInv, OperationInv
  <1>8. KeptInv'
    BY DEF KeptInv, OperationInv, TypeOK
  <1>9. ConfirmedSurvives'
    <2>1. link["rollback"] \notin kept
      BY DEF TypeOK, RollbackInv, OperationInv, KeptInv
    <2> QED
      BY <2>1, UnlinkKeeps DEF TypeOK
  <1>10. SelectorAnswers'
    BY DEF SelectorAnswers, OperationInv
  <1>11. VisibleIsWhole'
    BY DEF VisibleIsWhole, OperationInv, Whole, TypeOK
  <1> QED
    BY <1>1, <1>2, <1>3, <1>4, <1>5, <1>6, <1>7, <1>8, <1>9, <1>10, <1>11

LEMMA ConfirmStep ==
    ASSUME PendingInv, Confirm
    PROVE  PendingInv'
  <1> USE DEF Confirm, Committed, Found, Whole
  <1>1. TypeOK'
    <2>1. op' \in Operation
      BY DEF TypeOK, OperationInv, Operation, NoOperation
    <2>2. harm' \subseteq Harms
      BY DEF TypeOK
    <2>3. link' \in [Names -> Ids \cup {None}]
      BY DEF TypeOK
    <2> QED
      BY <2>1, <2>2, <2>3 DEF TypeOK, Operation, OperationInv
  <1>2. OperationInv'
    BY DEF OperationInv, TypeOK, Operation
  <1>3. PublishInv'
    BY DEF PublishInv, OperationInv
  <1>4. RollbackInv'
    BY DEF RollbackInv, OperationInv
  <1>5. EndInv'
    BY DEF EndInv, OperationInv, TypeOK, Operation, RollbackInv
  <1>6. DiscardInv'
    BY DEF DiscardInv, OperationInv
  <1>7. CallerInv'
    BY DEF CallerInv, OperationInv
  <1>8. KeptInv'
    BY DEF KeptInv, OperationInv, TypeOK, Operation
  <1>9. ConfirmedSurvives'
    BY DEF ConfirmedSurvives, OperationInv
  <1>10. SelectorAnswers'
    BY DEF SelectorAnswers, OperationInv
  <1>11. VisibleIsWhole'
    BY DEF VisibleIsWhole, OperationInv, Whole
  <1> QED
    BY <1>1, <1>2, <1>3, <1>4, <1>5, <1>6, <1>7, <1>8, <1>9, <1>10, <1>11

LEMMA RestoreStep ==
    ASSUME PendingInv, Restore
    PROVE  PendingInv'
  <1> USE DEF Restore, Linked, Harmed
  <1>1. TypeOK'
    <2>1. op' \in Operation
      BY OperationUpdate DEF TypeOK
    <2>2. harm' \subseteq Harms
      BY DEF TypeOK, Harms
    <2>3. link' \in [Names -> Ids \cup {None}]
      BY DEF TypeOK
    <2> QED
      BY <2>1, <2>2, <2>3 DEF TypeOK, Operation, OperationInv
  <1>2. OperationInv'
    BY DEF OperationInv, TypeOK, Operation, RollbackInv
  <1>3. PublishInv'
    BY DEF PublishInv, OperationInv
  <1>4. RollbackInv'
    BY DEF RollbackInv, OperationInv, TypeOK
  <1>5. EndInv'
    BY DEF EndInv, OperationInv, TypeOK, Operation, RollbackInv
  <1>6. DiscardInv'
    BY DEF DiscardInv, OperationInv
  <1>7. CallerInv'
    BY DEF CallerInv, OperationInv
  <1>8. KeptInv'
    BY DEF KeptInv, OperationInv, TypeOK, Operation
  <1>9. ConfirmedSurvives'
    BY DEF ConfirmedSurvives, OperationInv, TypeOK
  <1>10. SelectorAnswers'
    BY DEF SelectorAnswers, OperationInv
  <1>11. VisibleIsWhole'
    BY DEF VisibleIsWhole, OperationInv, Whole, TypeOK
  <1> QED
    BY <1>1, <1>2, <1>3, <1>4, <1>5, <1>6, <1>7, <1>8, <1>9, <1>10, <1>11

LEMMA RestoreUnlinkStep ==
    ASSUME PendingInv, RestoreUnlink
    PROVE  PendingInv'
  <1> USE DEF RestoreUnlink, Unlinked, Harmed
  <1>1. TypeOK'
    <2>1. op' \in Operation
      BY OperationUpdate DEF TypeOK
    <2>2. harm' \subseteq Harms
      BY DEF TypeOK, Harms
    <2>3. link' \in [Names -> Ids \cup {None}]
      BY DEF TypeOK
    <2> QED
      BY <2>1, <2>2, <2>3 DEF TypeOK, Operation, OperationInv
  <1>2. OperationInv'
    BY DEF OperationInv, TypeOK, Operation, RollbackInv
  <1>3. PublishInv'
    BY DEF PublishInv, OperationInv
  <1>4. RollbackInv'
    BY DEF RollbackInv, OperationInv
  <1>5. EndInv'
    BY DEF EndInv, OperationInv, TypeOK, Operation, RollbackInv
  <1>6. DiscardInv'
    BY DEF DiscardInv, OperationInv
  <1>7. CallerInv'
    BY DEF CallerInv, OperationInv
  <1>8. KeptInv'
    BY DEF KeptInv, OperationInv, TypeOK, Operation
  <1>9. ConfirmedSurvives'
    BY DEF ConfirmedSurvives, OperationInv, TypeOK, RollbackInv
  <1>10. SelectorAnswers'
    BY DEF SelectorAnswers, OperationInv
  <1>11. VisibleIsWhole'
    BY DEF VisibleIsWhole, OperationInv, Whole, TypeOK
  <1> QED
    BY <1>1, <1>2, <1>3, <1>4, <1>5, <1>6, <1>7, <1>8, <1>9, <1>10, <1>11

LEMMA DropArtifactStep ==
    ASSUME PendingInv, DropArtifact
    PROVE  PendingInv'
  <1> USE DEF DropArtifact
  <1>1. TypeOK'
    <2>1. op' \in Operation
      BY DEF TypeOK
    <2>2. harm' \subseteq Harms
      BY DEF TypeOK
    <2>3. link' \in [Names -> Ids \cup {None}]
      BY DEF TypeOK
    <2> QED
      BY <2>1, <2>2, <2>3 DEF TypeOK, Operation, OperationInv
  <1>2. OperationInv'
    BY DEF OperationInv
  <1>3. PublishInv'
    BY DEF PublishInv, OperationInv
  <1>4. RollbackInv'
    BY DEF RollbackInv, OperationInv
  <1>5. EndInv'
    BY DEF EndInv, OperationInv
  <1>6. DiscardInv'
    BY DEF DiscardInv, OperationInv
  <1>7. CallerInv'
    BY DEF CallerInv, OperationInv
  <1>8. KeptInv'
    BY DEF KeptInv, OperationInv
  <1>9. ConfirmedSurvives'
    <2>1. op.new \notin kept
      BY DEF TypeOK, EndInv, OperationInv, KeptInv
    <2> QED
      BY <2>1, DropKeeps DEF TypeOK
  <1>10. SelectorAnswers'
    BY DEF SelectorAnswers, OperationInv
  <1>11. VisibleIsWhole'
    BY DEF VisibleIsWhole, OperationInv, Whole, TypeOK, EndInv
  <1> QED
    BY <1>1, <1>2, <1>3, <1>4, <1>5, <1>6, <1>7, <1>8, <1>9, <1>10, <1>11

LEMMA DropRecordStep ==
    ASSUME PendingInv, DropRecord
    PROVE  PendingInv'
  <1> USE DEF DropRecord, Unlinked
  <1>1. TypeOK'
    <2>1. op' \in Operation
      BY DEF TypeOK
    <2>2. harm' \subseteq Harms
      BY DEF TypeOK
    <2>3. link' \in [Names -> Ids \cup {None}]
      BY DEF TypeOK
    <2> QED
      BY <2>1, <2>2, <2>3 DEF TypeOK, Operation, OperationInv
  <1>2. OperationInv'
    BY DEF OperationInv, TypeOK
  <1>3. PublishInv'
    BY DEF PublishInv, OperationInv
  <1>4. RollbackInv'
    BY DEF RollbackInv, OperationInv
  <1>5. EndInv'
    BY DEF EndInv, OperationInv, TypeOK
  <1>6. DiscardInv'
    BY DEF DiscardInv, OperationInv
  <1>7. CallerInv'
    BY DEF CallerInv, OperationInv
  <1>8. KeptInv'
    BY DEF KeptInv, OperationInv, TypeOK
  <1>9. ConfirmedSurvives'
    <2>1. link["write"] \notin kept
      BY DEF TypeOK, EndInv, OperationInv, KeptInv
    <2> QED
      BY <2>1, UnlinkKeeps DEF TypeOK
  <1>10. SelectorAnswers'
    BY DEF SelectorAnswers, OperationInv
  <1>11. VisibleIsWhole'
    BY DEF VisibleIsWhole, OperationInv, Whole, TypeOK
  <1> QED
    BY <1>1, <1>2, <1>3, <1>4, <1>5, <1>6, <1>7, <1>8, <1>9, <1>10, <1>11

LEMMA CleanupStep ==
    ASSUME PendingInv, Cleanup
    PROVE  PendingInv'
  <1> USE DEF Cleanup
  <1>1. TypeOK'
    <2>1. op' \in Operation
      BY DEF TypeOK
    <2>2. harm' \subseteq Harms
      BY DEF TypeOK
    <2>3. link' \in [Names -> Ids \cup {None}]
      BY DEF TypeOK
    <2> QED
      BY <2>1, <2>2, <2>3 DEF TypeOK, Operation, OperationInv
  <1>2. OperationInv'
    BY DEF OperationInv, TypeOK, EndInv
  <1>3. PublishInv'
    BY DEF PublishInv, OperationInv
  <1>4. RollbackInv'
    BY DEF RollbackInv, OperationInv
  <1>5. EndInv'
    BY DEF EndInv, OperationInv
  <1>6. DiscardInv'
    BY DEF DiscardInv, OperationInv
  <1>7. CallerInv'
    BY DEF CallerInv, OperationInv
  <1>8. KeptInv'
    BY DEF KeptInv, OperationInv
  <1>9. ConfirmedSurvives'
    <2>1. op.previous \notin kept
      BY DEF TypeOK, EndInv, OperationInv, KeptInv
    <2> QED
      BY <2>1, DropKeeps DEF TypeOK
  <1>10. SelectorAnswers'
    BY DEF SelectorAnswers, OperationInv
  <1>11. VisibleIsWhole'
    BY DEF VisibleIsWhole, OperationInv, Whole, TypeOK, EndInv
  <1> QED
    BY <1>1, <1>2, <1>3, <1>4, <1>5, <1>6, <1>7, <1>8, <1>9, <1>10, <1>11

LEMMA CleanupRecordStep ==
    ASSUME PendingInv, CleanupRecord
    PROVE  PendingInv'
  <1> USE DEF CleanupRecord, Unlinked
  <1>1. TypeOK'
    <2>1. op' \in Operation
      BY DEF TypeOK
    <2>2. harm' \subseteq Harms
      BY DEF TypeOK
    <2>3. link' \in [Names -> Ids \cup {None}]
      BY DEF TypeOK
    <2> QED
      BY <2>1, <2>2, <2>3 DEF TypeOK, Operation, OperationInv
  <1>2. OperationInv'
    BY DEF OperationInv, TypeOK, EndInv
  <1>3. PublishInv'
    BY DEF PublishInv, OperationInv
  <1>4. RollbackInv'
    BY DEF RollbackInv, OperationInv
  <1>5. EndInv'
    BY DEF EndInv, OperationInv, TypeOK
  <1>6. DiscardInv'
    BY DEF DiscardInv, OperationInv
  <1>7. CallerInv'
    BY DEF CallerInv, OperationInv
  <1>8. KeptInv'
    BY DEF KeptInv, OperationInv, TypeOK
  <1>9. ConfirmedSurvives'
    <2>1. link["previous"] \notin kept
      BY DEF TypeOK, EndInv, OperationInv, KeptInv
    <2> QED
      BY <2>1, UnlinkKeeps DEF TypeOK
  <1>10. SelectorAnswers'
    BY DEF SelectorAnswers, OperationInv
  <1>11. VisibleIsWhole'
    BY DEF VisibleIsWhole, OperationInv, Whole, TypeOK
  <1> QED
    BY <1>1, <1>2, <1>3, <1>4, <1>5, <1>6, <1>7, <1>8, <1>9, <1>10, <1>11

LEMMA AnswerStep ==
    ASSUME PendingInv, Answer
    PROVE  PendingInv'
  <1> USE DEF Answer, Forgotten
  <1>1. TypeOK'
    <2>1. op' \in Operation
      BY DEF TypeOK, OperationInv, Operation, NoOperation
    <2>2. harm' \subseteq Harms
      BY DEF TypeOK
    <2>3. link' \in [Names -> Ids \cup {None}]
      BY DEF TypeOK
    <2> QED
      BY <2>1, <2>2, <2>3 DEF TypeOK, Operation, OperationInv
  <1>2. OperationInv'
    BY DEF OperationInv
  <1>3. PublishInv'
    BY DEF PublishInv, OperationInv
  <1>4. RollbackInv'
    BY DEF RollbackInv, OperationInv
  <1>5. EndInv'
    BY DEF EndInv, OperationInv
  <1>6. DiscardInv'
    BY DEF DiscardInv, OperationInv
  <1>7. CallerInv'
    BY DEF CallerInv, OperationInv
  <1>8. KeptInv'
    BY DEF KeptInv, OperationInv, TypeOK, EndInv
  <1>9. ConfirmedSurvives'
    BY DEF ConfirmedSurvives, OperationInv
  <1>10. SelectorAnswers'
    BY DEF SelectorAnswers, OperationInv, TypeOK, EndInv
  <1>11. VisibleIsWhole'
    BY DEF VisibleIsWhole, OperationInv, Whole
  <1> QED
    BY <1>1, <1>2, <1>3, <1>4, <1>5, <1>6, <1>7, <1>8, <1>9, <1>10, <1>11

LEMMA BeginDiscardStep ==
    ASSUME PendingInv, BeginDiscard
    PROVE  PendingInv'
  <1> USE DEF BeginDiscard, Found, Whole
  <1>1. TypeOK'
    <2>1. op' \in Operation
      BY DEF TypeOK, OperationInv, Operation, NoOperation
    <2>2. harm' \subseteq Harms
      BY DEF TypeOK
    <2>3. link' \in [Names -> Ids \cup {None}]
      BY DEF TypeOK
    <2> QED
      BY <2>1, <2>2, <2>3 DEF TypeOK, Operation, OperationInv
  <1>2. OperationInv'
    BY DEF OperationInv
  <1>3. PublishInv'
    BY DEF PublishInv, OperationInv
  <1>4. RollbackInv'
    BY DEF RollbackInv, OperationInv
  <1>5. EndInv'
    BY DEF EndInv, OperationInv
  <1>6. DiscardInv'
    BY DEF DiscardInv, OperationInv
  <1>7. CallerInv'
    BY DEF CallerInv, OperationInv
  <1>8. KeptInv'
    BY DEF KeptInv, OperationInv
  <1>9. ConfirmedSurvives'
    BY DEF ConfirmedSurvives, OperationInv
  <1>10. SelectorAnswers'
    BY DEF SelectorAnswers, OperationInv
  <1>11. VisibleIsWhole'
    BY DEF VisibleIsWhole, OperationInv, Whole
  <1> QED
    BY <1>1, <1>2, <1>3, <1>4, <1>5, <1>6, <1>7, <1>8, <1>9, <1>10, <1>11

LEMMA TombStep ==
    ASSUME PendingInv, Tomb
    PROVE  PendingInv'
  <1> USE DEF Tomb, Linked
  <1>1. TypeOK'
    <2>1. op' \in Operation
      BY DEF TypeOK
    <2>2. harm' \subseteq Harms
      BY DEF TypeOK
    <2>3. link' \in [Names -> Ids \cup {None}]
      BY DEF TypeOK
    <2> QED
      BY <2>1, <2>2, <2>3 DEF TypeOK, Operation, OperationInv
  <1>2. OperationInv'
    BY DEF OperationInv, TypeOK, DiscardInv
  <1>3. PublishInv'
    BY DEF PublishInv, OperationInv
  <1>4. RollbackInv'
    BY DEF RollbackInv, OperationInv
  <1>5. EndInv'
    BY DEF EndInv, OperationInv
  <1>6. DiscardInv'
    BY DEF DiscardInv, OperationInv, TypeOK
  <1>7. CallerInv'
    BY DEF CallerInv, OperationInv
  <1>8. KeptInv'
    BY DEF KeptInv, OperationInv, TypeOK
  <1>9. ConfirmedSurvives'
    BY DEF ConfirmedSurvives, OperationInv, TypeOK
  <1>10. SelectorAnswers'
    BY DEF SelectorAnswers, OperationInv
  <1>11. VisibleIsWhole'
    BY DEF VisibleIsWhole, OperationInv, Whole, TypeOK
  <1> QED
    BY <1>1, <1>2, <1>3, <1>4, <1>5, <1>6, <1>7, <1>8, <1>9, <1>10, <1>11

LEMMA TombUnlinkStep ==
    ASSUME PendingInv, TombUnlink
    PROVE  PendingInv'
  <1> USE DEF TombUnlink, Unlinked, Torn, Harmed
  <1>1. TypeOK'
    <2>1. op' \in Operation
      BY DEF TypeOK
    <2>2. harm' \subseteq Harms
      BY DEF TypeOK, Harms
    <2>3. link' \in [Names -> Ids \cup {None}]
      BY DEF TypeOK
    <2> QED
      BY <2>1, <2>2, <2>3 DEF TypeOK, Operation, OperationInv
  <1>2. OperationInv'
    BY DEF OperationInv, TypeOK
  <1>3. PublishInv'
    BY DEF PublishInv, OperationInv
  <1>4. RollbackInv'
    BY DEF RollbackInv, OperationInv
  <1>5. EndInv'
    BY DEF EndInv, OperationInv
  <1>6. DiscardInv'
    BY DEF DiscardInv, OperationInv, TypeOK
  <1>7. CallerInv'
    BY DEF CallerInv, OperationInv
  <1>8. KeptInv'
    BY DEF KeptInv, OperationInv, TypeOK
  <1>9. ConfirmedSurvives'
    BY DEF ConfirmedSurvives, OperationInv, TypeOK, DiscardInv
  <1>10. SelectorAnswers'
    BY DEF SelectorAnswers, OperationInv
  <1>11. VisibleIsWhole'
    BY DEF VisibleIsWhole, OperationInv, Whole, TypeOK
  <1> QED
    BY <1>1, <1>2, <1>3, <1>4, <1>5, <1>6, <1>7, <1>8, <1>9, <1>10, <1>11

LEMMA TombedStep ==
    ASSUME PendingInv, Tombed
    PROVE  PendingInv'
  <1> USE DEF Tombed
  <1>1. TypeOK'
    <2>1. op' \in Operation
      BY OperationUpdate DEF TypeOK
    <2>2. harm' \subseteq Harms
      BY DEF TypeOK
    <2>3. link' \in [Names -> Ids \cup {None}]
      BY DEF TypeOK
    <2> QED
      BY <2>1, <2>2, <2>3 DEF TypeOK, Operation, OperationInv
  <1>2. OperationInv'
    BY DEF OperationInv, TypeOK, Operation
  <1>3. PublishInv'
    BY DEF PublishInv, OperationInv
  <1>4. RollbackInv'
    BY DEF RollbackInv, OperationInv
  <1>5. EndInv'
    BY DEF EndInv, OperationInv
  <1>6. DiscardInv'
    BY DEF DiscardInv, OperationInv, TypeOK, Operation
  <1>7. CallerInv'
    BY DEF CallerInv, OperationInv
  <1>8. KeptInv'
    BY DEF KeptInv, OperationInv, TypeOK, Operation
  <1>9. ConfirmedSurvives'
    BY DEF ConfirmedSurvives, OperationInv
  <1>10. SelectorAnswers'
    BY DEF SelectorAnswers, OperationInv
  <1>11. VisibleIsWhole'
    BY DEF VisibleIsWhole, OperationInv, Whole, TypeOK, DiscardInv
  <1> QED
    BY <1>1, <1>2, <1>3, <1>4, <1>5, <1>6, <1>7, <1>8, <1>9, <1>10, <1>11

LEMMA UntombStep ==
    ASSUME PendingInv, Untomb
    PROVE  PendingInv'
  <1> USE DEF Untomb, Linked, RollbackStops, Harmed
  <1>1. TypeOK'
    <2>1. op' \in Operation
      BY DEF TypeOK
    <2>2. harm' \subseteq Harms
      BY DEF TypeOK, Harms
    <2>3. link' \in [Names -> Ids \cup {None}]
      BY DEF TypeOK
    <2> QED
      BY <2>1, <2>2, <2>3 DEF TypeOK, Operation, OperationInv
  <1>2. OperationInv'
    BY DEF OperationInv, TypeOK, DiscardInv
  <1>3. PublishInv'
    BY DEF PublishInv, OperationInv
  <1>4. RollbackInv'
    BY DEF RollbackInv, OperationInv
  <1>5. EndInv'
    BY DEF EndInv, OperationInv
  <1>6. DiscardInv'
    BY DEF DiscardInv, OperationInv, TypeOK
  <1>7. CallerInv'
    BY DEF CallerInv, OperationInv
  <1>8. KeptInv'
    BY DEF KeptInv, OperationInv, TypeOK
  <1>9. ConfirmedSurvives'
    BY DEF ConfirmedSurvives, OperationInv, TypeOK
  <1>10. SelectorAnswers'
    BY DEF SelectorAnswers, OperationInv
  <1>11. VisibleIsWhole'
    BY DEF VisibleIsWhole, OperationInv, Whole, TypeOK
  <1> QED
    BY <1>1, <1>2, <1>3, <1>4, <1>5, <1>6, <1>7, <1>8, <1>9, <1>10, <1>11

LEMMA UntombUnlinkStep ==
    ASSUME PendingInv, UntombUnlink
    PROVE  PendingInv'
  <1> USE DEF UntombUnlink, Unlinked
  <1>1. TypeOK'
    <2>1. op' \in Operation
      BY DEF TypeOK
    <2>2. harm' \subseteq Harms
      BY DEF TypeOK
    <2>3. link' \in [Names -> Ids \cup {None}]
      BY DEF TypeOK
    <2> QED
      BY <2>1, <2>2, <2>3 DEF TypeOK, Operation, OperationInv
  <1>2. OperationInv'
    BY DEF OperationInv, TypeOK
  <1>3. PublishInv'
    BY DEF PublishInv, OperationInv
  <1>4. RollbackInv'
    BY DEF RollbackInv, OperationInv
  <1>5. EndInv'
    BY DEF EndInv, OperationInv
  <1>6. DiscardInv'
    BY DEF DiscardInv, OperationInv, TypeOK
  <1>7. CallerInv'
    BY DEF CallerInv, OperationInv
  <1>8. KeptInv'
    BY DEF KeptInv, OperationInv, TypeOK
  <1>9. ConfirmedSurvives'
    BY DEF ConfirmedSurvives, OperationInv, TypeOK, DiscardInv
  <1>10. SelectorAnswers'
    BY DEF SelectorAnswers, OperationInv
  <1>11. VisibleIsWhole'
    BY DEF VisibleIsWhole, OperationInv, Whole, TypeOK
  <1> QED
    BY <1>1, <1>2, <1>3, <1>4, <1>5, <1>6, <1>7, <1>8, <1>9, <1>10, <1>11

LEMMA TombClearStep ==
    ASSUME PendingInv, TombClear
    PROVE  PendingInv'
  <1> USE DEF TombClear, Unlinked
  <1>1. TypeOK'
    <2>1. op' \in Operation
      BY DEF TypeOK
    <2>2. harm' \subseteq Harms
      BY DEF TypeOK
    <2>3. link' \in [Names -> Ids \cup {None}]
      BY DEF TypeOK
    <2> QED
      BY <2>1, <2>2, <2>3 DEF TypeOK, Operation, OperationInv
  <1>2. OperationInv'
    BY DEF OperationInv, TypeOK
  <1>3. PublishInv'
    BY DEF PublishInv, OperationInv
  <1>4. RollbackInv'
    BY DEF RollbackInv, OperationInv
  <1>5. EndInv'
    BY DEF EndInv, OperationInv
  <1>6. DiscardInv'
    BY DEF DiscardInv, OperationInv, TypeOK
  <1>7. CallerInv'
    BY DEF CallerInv, OperationInv
  <1>8. KeptInv'
    BY DEF KeptInv, OperationInv, TypeOK
  <1>9. ConfirmedSurvives'
    <2>1. link["discard"] \notin kept
      BY DEF TypeOK, DiscardInv, OperationInv, KeptInv
    <2> QED
      BY <2>1, UnlinkKeeps DEF TypeOK
  <1>10. SelectorAnswers'
    BY DEF SelectorAnswers, OperationInv
  <1>11. VisibleIsWhole'
    BY DEF VisibleIsWhole, OperationInv, Whole, TypeOK
  <1> QED
    BY <1>1, <1>2, <1>3, <1>4, <1>5, <1>6, <1>7, <1>8, <1>9, <1>10, <1>11

LEMMA DiscardAnswerStep ==
    ASSUME PendingInv, DiscardAnswer
    PROVE  PendingInv'
  <1> USE DEF DiscardAnswer, Forgotten
  <1>1. TypeOK'
    <2>1. op' \in Operation
      BY DEF TypeOK, OperationInv, Operation, NoOperation
    <2>2. harm' \subseteq Harms
      BY DEF TypeOK
    <2>3. link' \in [Names -> Ids \cup {None}]
      BY DEF TypeOK
    <2> QED
      BY <2>1, <2>2, <2>3 DEF TypeOK, Operation, OperationInv
  <1>2. OperationInv'
    BY DEF OperationInv
  <1>3. PublishInv'
    BY DEF PublishInv, OperationInv
  <1>4. RollbackInv'
    BY DEF RollbackInv, OperationInv
  <1>5. EndInv'
    BY DEF EndInv, OperationInv
  <1>6. DiscardInv'
    BY DEF DiscardInv, OperationInv
  <1>7. CallerInv'
    BY DEF CallerInv, OperationInv
  <1>8. KeptInv'
    BY DEF KeptInv, OperationInv, TypeOK, DiscardInv
  <1>9. ConfirmedSurvives'
    BY DEF ConfirmedSurvives, OperationInv
  <1>10. SelectorAnswers'
    BY DEF SelectorAnswers, OperationInv, TypeOK, DiscardInv
  <1>11. VisibleIsWhole'
    BY DEF VisibleIsWhole, OperationInv, Whole
  <1> QED
    BY <1>1, <1>2, <1>3, <1>4, <1>5, <1>6, <1>7, <1>8, <1>9, <1>10, <1>11

LEMMA CrashStep ==
    ASSUME PendingInv, Crash
    PROVE  PendingInv'
  <1> USE DEF Crash, Harmed, Forgotten
  <1>1. TypeOK'
    <2>1. op' \in Operation
      BY DEF TypeOK, OperationInv, Operation, NoOperation
    <2>2. harm' \subseteq Harms
      BY DEF TypeOK, Harms
    <2>3. link' \in [Names -> Ids \cup {None}]
      BY DEF TypeOK
    <2> QED
      BY <2>1, <2>2, <2>3 DEF TypeOK, Operation, OperationInv
  <1>2. OperationInv'
    BY DEF OperationInv
  <1>3. PublishInv'
    BY DEF PublishInv, OperationInv
  <1>4. RollbackInv'
    BY DEF RollbackInv, OperationInv
  <1>5. EndInv'
    BY DEF EndInv, OperationInv
  <1>6. DiscardInv'
    BY DEF DiscardInv, OperationInv
  <1>7. CallerInv'
    BY DEF CallerInv, OperationInv
  <1>8. KeptInv'
    BY DEF KeptInv, OperationInv
  <1>9. ConfirmedSurvives'
    BY DEF ConfirmedSurvives, OperationInv
  <1>10. SelectorAnswers'
    BY DEF SelectorAnswers, OperationInv
  <1>11. VisibleIsWhole'
    BY DEF VisibleIsWhole, OperationInv, Whole
  <1> QED
    BY <1>1, <1>2, <1>3, <1>4, <1>5, <1>6, <1>7, <1>8, <1>9, <1>10, <1>11

LEMMA InitInv == Init => PendingInv
  <1> SUFFICES ASSUME Init PROVE PendingInv
    OBVIOUS
  <1> USE DEF Init
  <1>1. TypeOK
    BY DEF TypeOK, Operation
  <1>2. OperationInv
    BY DEF OperationInv
  <1>3. PublishInv /\ RollbackInv /\ EndInv /\ DiscardInv
    BY DEF PublishInv, RollbackInv, EndInv, DiscardInv
  <1>4. CallerInv
    BY DEF CallerInv
  <1>5. KeptInv /\ ConfirmedSurvives
    BY DEF KeptInv, ConfirmedSurvives
  <1>6. SelectorAnswers /\ VisibleIsWhole
    BY DEF SelectorAnswers, VisibleIsWhole
  <1> QED
    BY <1>1, <1>2, <1>3, <1>4, <1>5, <1>6

LEMMA StutterInv == PendingInv /\ UNCHANGED vars => PendingInv'
  <1> SUFFICES ASSUME PendingInv, UNCHANGED vars PROVE PendingInv'
    OBVIOUS
  <1> USE DEF vars
  <1>1. TypeOK'
    BY DEF TypeOK
  <1>2. OperationInv'
    BY DEF OperationInv
  <1>3. PublishInv' /\ RollbackInv' /\ EndInv' /\ DiscardInv'
    BY DEF PublishInv, RollbackInv, EndInv, DiscardInv
  <1>4. CallerInv'
    BY DEF CallerInv
  <1>5. KeptInv' /\ ConfirmedSurvives'
    BY DEF KeptInv, ConfirmedSurvives
  <1>6. SelectorAnswers' /\ VisibleIsWhole'
    BY DEF SelectorAnswers, VisibleIsWhole, Whole
  <1> QED
    BY <1>1, <1>2, <1>3, <1>4, <1>5, <1>6

LEMMA NextInv == PendingInv /\ [Next]_vars => PendingInv'
  <1> SUFFICES ASSUME PendingInv, [Next]_vars PROVE PendingInv'
    OBVIOUS
  <1> HIDE DEF PendingInv
  <1>1. CASE GuardOpen \/ OpenPending \/ Crash
    BY <1>1, GuardOpenStep, OpenPendingStep, CrashStep
  <1>2. CASE \E id \in Ids : BeginPublish(id)
    BY <1>2, BeginPublishStep
  <1>3. CASE Publishing
    BY <1>3, PublishFailsStep, PublishArtifactStep, WriteRecordStep, CompareSourceStep,
       MoveAsideStep, MoveAsideUnlinkStep, LinkSlotStep, LinkSlotUnlinkStep, ValidateStep
       DEF Publishing
  <1>4. CASE RollingBack
    BY <1>4, RemoveNewStep, RollbackStep, RollbackUnlinkStep, ReinstateStep,
       ReinstateUnlinkStep, UnrollStep, UnrollUnlinkStep, RereadStep, ConfirmStep,
       RestoreStep, RestoreUnlinkStep
       DEF RollingBack
  <1>5. CASE CleaningUp
    BY <1>5, DropArtifactStep, DropRecordStep, CleanupStep, CleanupRecordStep, AnswerStep
       DEF CleaningUp
  <1>6. CASE Discarding
    BY <1>6, BeginDiscardStep, TombStep, TombUnlinkStep, TombedStep, UntombStep,
       UntombUnlinkStep, TombClearStep, DiscardAnswerStep
       DEF Discarding
  <1>7. CASE UNCHANGED vars
    BY <1>7, StutterInv
  <1> QED
    BY <1>1, <1>2, <1>3, <1>4, <1>5, <1>6, <1>7 DEF Next

\* The invariant of the pending store holds whatever fails and wherever the
\* process dies, for any supply of identifiers.
THEOREM PendingInvariant == Spec => []PendingInv
  <1> HIDE DEF PendingInv, disk, caller
  <1> QED
    BY InitInv, NextInv, PTL DEF Spec

\* The variables of the store always have their types (_publish_locked and
\* _discard_locked run with the locals the model gives them).
THEOREM PendingTypeCorrect == Spec => []TypeOK
  <1>1. PendingInv => TypeOK
    OBVIOUS
  <1> QED
    BY <1>1, PendingInvariant, PTL

\* A confirmed suspension is never destroyed by a failure, a rollback or a crash:
\* its artifact and a slot record stay in the directory (_publish_locked removes
\* the previous ones only behind its commit point).
THEOREM SuspensionSurvives == Spec => []ConfirmedSurvives
  <1>1. PendingInv => ConfirmedSurvives
    OBVIOUS
  <1> QED
    BY <1>1, PendingInvariant, PTL

\* As long as nothing but single failures happen, the selector the caller holds
\* is the visible slot between any two operations (publish, discard).
THEOREM SelectorIsVisible == Spec => []SelectorAnswers
  <1>1. PendingInv => SelectorAnswers
    OBVIOUS
  <1> QED
    BY <1>1, PendingInvariant, PTL

\* A visible slot leads to its artifact through every crash and failed rollback,
\* so that guard_open never runs into a dangling slot.
THEOREM VisibleSlotIsWhole == Spec => []VisibleIsWhole
  <1>1. PendingInv => VisibleIsWhole
    OBVIOUS
  <1> QED
    BY <1>1, PendingInvariant, PTL

\* No session is opened on the source itself beside confirmed suspended work
\* (guard_open), as long as nothing but single failures happen.
THEOREM OpeningIsGuarded == Spec => []OpenIsGuarded
  <1>1. PendingInv => OpenIsGuarded
    <2> SUFFICES ASSUME PendingInv, session = "open", harm = {}, step = "idle"
                 PROVE  kept = {}
      BY DEF OpenIsGuarded
    <2>1. held = None
      BY DEF CallerInv
    <2>2. link["slot"] = None
      BY <2>1 DEF SelectorAnswers
    <2>3. kept \subseteq {None} /\ kept \subseteq Ids
      BY <2>2 DEF KeptInv, TypeOK
    <2> QED
      BY <2>3
  <1> QED
    BY <1>1, PendingInvariant, PTL

-----------------------------------------------------------------------------
(* The store implements the abstract slot                                  *)

Steady == UNCHANGED Promise!vars

\* An operation on its way shows nothing of what it does.
LEMMA UndecidedStutters ==
    ASSUME step # "idle", step' # "idle", ~op.committed, ~op'.committed,
           op'.new = op.new, op'.previous = op.previous, spent' = spent
    PROVE  Steady
  BY DEF Steady, Undecided, Promise!vars

\* A committed operation only tidies up behind the visible slot.
LEMMA DecidedStutters ==
    ASSUME step # "idle", step' # "idle", op.committed, op'.committed,
           link'["slot"] = link["slot"], spent' = spent
    PROVE  Steady
  BY DEF Steady, Undecided, Promise!vars

LEMMA IdleStutters ==
    ASSUME step = "idle", step' = "idle", link' = link, spent' = spent
    PROVE  Steady
  BY DEF Steady, Undecided, Promise!vars

\* The commit of a publication: the slot is the new one.
LEMMA CommitPublishes ==
    ASSUME step # "idle", step' # "idle", ~op.committed, op'.committed,
           link["slot"] = op.new, op.new # None, link' = link, spent' = spent
    PROVE  Promise!Publish
  BY DEF Undecided, Promise!Publish

\* The end of an operation, with an answer or without one.
LEMMA EndIsPromised ==
    ASSUME PendingInv, step # "idle", step' = "idle",
           link'["slot"] = link["slot"], spent' = spent
    PROVE  Promise!Next \/ Steady
  <1>1. CASE op.committed
    BY <1>1 DEF Steady, Undecided, Promise!vars
  <1>2. CASE ~op.committed
    <2>1. link["slot"] \in {op.previous, op.new, None}
      BY DEF PendingInv, OperationInv
    <2>2. CASE link["slot"] = op.previous
      BY <1>2, <2>2 DEF Steady, Undecided, Promise!vars, Promise!Next, Promise!Abandon
    <2>3. CASE link["slot"] = op.new /\ op.new # None
      BY <1>2, <2>3 DEF Undecided, Promise!Next, Promise!Publish
    <2>4. CASE link["slot"] = None /\ op.previous # None
      BY <1>2, <2>4 DEF Undecided, Promise!Next, Promise!Remove
    <2> QED
      BY <2>1, <2>2, <2>3, <2>4
  <1> QED
    BY <1>1, <1>2

\* What is forgotten at the end never includes the visible slot.
LEMMA ForgettingKeepsSlot ==
    ASSUME Forgotten
    PROVE  link'["slot"] = link["slot"]
  BY DEF Forgotten, Names

-----------------------------------------------------------------------------

LEMMA BeginsArePromised ==
    ASSUME PendingInv, BeginDiscard \/ \E id \in Ids : BeginPublish(id)
    PROVE  Promise!Next \/ Steady
  <1>1. CASE BeginDiscard
    BY <1>1 DEF BeginDiscard, Found, NoOperation, disk, Steady, Undecided, Promise!vars
  <1>2. ASSUME NEW id \in Ids, BeginPublish(id)
        PROVE  Promise!Draw(id)
    <2>1. link["slot"] = held
      BY <1>2 DEF BeginPublish, Found
    <2> QED
      BY <1>2, <2>1 DEF BeginPublish, NoOperation, disk, Undecided, Promise!Draw
  <1> QED
    BY <1>1, <1>2 DEF Promise!Next

LEMMA PublishingIsPromised ==
    ASSUME PendingInv, Publishing
    PROVE  Promise!Next \/ Steady
  <1>1. op \in Operation /\ (op.committed => step \notin PublishSteps)
    BY DEF PendingInv, TypeOK, OperationInv, PublishSteps, CleanupSteps
  <1>2. CASE Validate
    <2>1. step' # "idle" /\ op'.committed /\ ~op.committed
      BY <1>1, <1>2 DEF Validate, Committed, Operation, PublishSteps
    <2>2. link["slot"] = op.new /\ op.new # None /\ link' = link /\ spent' = spent
      BY <1>2 DEF Validate, Found, disk
    <2>3. Promise!Publish
      BY <1>2, <2>1, <2>2, CommitPublishes DEF Validate
    <2> QED
      BY <2>3 DEF Promise!Next
  <1>3. CASE ~Validate
    <2>1. step \in PublishSteps /\ step' # "idle" /\ spent' = spent
      BY <1>3 DEF Publishing, PublishFails, PublishArtifact, WriteRecord, CompareSource,
         MoveAside, MoveAsideUnlink, LinkSlot, LinkSlotUnlink, Undo, Torn, PublishSteps
    <2>2. op'.new = op.new /\ op'.previous = op.previous /\ op'.committed = op.committed
      BY <1>1, <1>3 DEF Publishing, PublishFails, PublishArtifact, WriteRecord, CompareSource,
         MoveAside, MoveAsideUnlink, LinkSlot, LinkSlotUnlink, Torn, Operation
    <2> QED
      BY <1>1, <2>1, <2>2, UndecidedStutters DEF PublishSteps
  <1> QED
    BY <1>2, <1>3

LEMMA RollingBackIsPromised ==
    ASSUME PendingInv, RollingBack
    PROVE  Promise!Next \/ Steady
  <1>1. op \in Operation /\ (op.committed => step \notin RollbackSteps \cup RestoreSteps)
    BY DEF PendingInv, TypeOK, OperationInv, RollbackSteps, RestoreSteps, CleanupSteps
  <1>2. CASE Confirm /\ op'.committed
    <2>1. op.committed = FALSE
      BY <1>1, <1>2 DEF Confirm, Operation, RollbackSteps
    <2>2. step' # "idle" /\ Found(op.new)
      BY <1>1, <1>2, <2>1 DEF Confirm, Committed, Operation
    <2>3. Promise!Publish
      BY <1>2, <2>1, <2>2, CommitPublishes DEF Confirm, Found, disk
    <2> QED
      BY <2>3 DEF Promise!Next
  <1>3. CASE ~(Confirm /\ op'.committed)
    <2>1. step \in RollbackSteps \cup RestoreSteps /\ step' # "idle" /\ spent' = spent
      BY DEF RollingBack, RemoveNew, Rollback, RollbackUnlink, Reinstate, ReinstateUnlink,
         Unroll, UnrollUnlink, Reread, Confirm, Restore, RestoreUnlink, Committed,
         RollbackStops, RollbackSteps, RestoreSteps
    <2>2. op'.new = op.new /\ op'.previous = op.previous
      BY <1>1 DEF RollingBack, RemoveNew, Rollback, RollbackUnlink, Reinstate,
         ReinstateUnlink, Unroll, UnrollUnlink, Reread, Confirm, Restore, RestoreUnlink,
         Committed, RollbackStops, Operation
    <2>3. ~op'.committed
      BY <1>1, <1>3, <2>1 DEF RollingBack, RemoveNew, Rollback, RollbackUnlink, Reinstate,
         ReinstateUnlink, Unroll, UnrollUnlink, Reread, Confirm, Restore, RestoreUnlink,
         RollbackStops, Operation
    <2> QED
      BY <1>1, <2>1, <2>2, <2>3, UndecidedStutters DEF RollbackSteps, RestoreSteps
  <1> QED
    BY <1>2, <1>3

LEMMA CleaningUpIsPromised ==
    ASSUME PendingInv, CleaningUp
    PROVE  Promise!Next \/ Steady
  <1>1. CASE Answer
    BY <1>1, ForgettingKeepsSlot, EndIsPromised DEF Answer, Forgotten
  <1>2. CASE ~Answer
    <2>1. step # "idle" /\ step' # "idle" /\ op' = op /\ spent' = spent
      BY <1>2 DEF CleaningUp, DropArtifact, DropRecord, Cleanup, CleanupRecord
    <2>2. link'["slot"] = link["slot"]
      BY <1>2 DEF CleaningUp, DropArtifact, DropRecord, Cleanup, CleanupRecord, Unlinked,
         PendingInv, TypeOK, Names
    <2> QED
      BY <2>1, <2>2, UndecidedStutters, DecidedStutters
  <1> QED
    BY <1>1, <1>2

LEMMA DiscardingIsPromised ==
    ASSUME PendingInv, Discarding
    PROVE  Promise!Next \/ Steady
  <1>1. CASE BeginDiscard
    BY <1>1, BeginsArePromised
  <1>2. CASE DiscardAnswer
    BY <1>2, ForgettingKeepsSlot, EndIsPromised DEF DiscardAnswer, Forgotten
  <1>3. CASE TombClear
    <2>1. step = "tombClear" /\ step' # "idle" /\ op' = op /\ spent' = spent
      BY <1>3 DEF TombClear
    <2>2. link'["slot"] = link["slot"] /\ op.committed
      BY <1>3 DEF TombClear, Unlinked, PendingInv, TypeOK, Names, DiscardInv
    <2> QED
      BY <2>1, <2>2, DecidedStutters
  <1>4. CASE Tombed /\ op'.committed
    <2>1. op \in Operation /\ ~op.committed /\ op.previous # None /\ link["slot"] = None
      BY <1>4 DEF Tombed, PendingInv, TypeOK, OperationInv, DiscardInv, LinksAre,
         CleanupSteps, DiscardSteps
    <2>2. step' # "idle" /\ link' = link /\ spent' = spent
      BY <1>4 DEF Tombed
    <2>3. Promise!Remove
      BY <1>4, <2>1, <2>2 DEF Tombed, Undecided, Promise!Remove
    <2> QED
      BY <2>3 DEF Promise!Next
  <1>5. CASE Tomb \/ TombUnlink \/ (Tombed /\ ~op'.committed) \/ Untomb \/ UntombUnlink
    <2>1. ~op.committed /\ op \in Operation
      BY <1>5 DEF Tomb, TombUnlink, Tombed, Untomb, UntombUnlink, PendingInv, TypeOK,
         OperationInv, CleanupSteps
    <2>2. step # "idle" /\ step' # "idle" /\ spent' = spent
      BY <1>5 DEF Tomb, TombUnlink, Tombed, Untomb, UntombUnlink, Torn, RollbackStops
    <2>3. op' = op
      BY <1>5, <2>1 DEF Tomb, TombUnlink, Tombed, Untomb, UntombUnlink, Torn, RollbackStops,
         Operation
    <2> QED
      BY <2>1, <2>2, <2>3, UndecidedStutters
  <1> QED
    BY <1>1, <1>2, <1>3, <1>4, <1>5 DEF Discarding

LEMMA CrashIsPromised ==
    ASSUME PendingInv, Crash
    PROVE  Promise!Next \/ Steady
  <1>1. step' = "idle" /\ link'["slot"] = link["slot"] /\ spent' = spent
    BY ForgettingKeepsSlot DEF Crash, Forgotten
  <1>2. CASE step = "idle"
    BY <1>1, <1>2 DEF Steady, Undecided, Promise!vars
  <1>3. CASE step # "idle"
    BY <1>1, <1>3, EndIsPromised
  <1> QED
    BY <1>2, <1>3

LEMMA NextIsPromised == PendingInv /\ [Next]_vars => [Promise!Next]_(Promise!vars)
  <1> SUFFICES ASSUME PendingInv, [Next]_vars PROVE Promise!Next \/ Steady
    BY DEF Steady
  <1>1. CASE GuardOpen \/ OpenPending
    BY <1>1, IdleStutters DEF GuardOpen, OpenPending, disk
  <1>2. CASE UNCHANGED vars
    BY <1>2 DEF vars, disk, Steady, Undecided, Promise!vars
  <1> QED
    BY <1>1, <1>2, BeginsArePromised, PublishingIsPromised, RollingBackIsPromised,
       CleaningUpIsPromised, DiscardingIsPromised, CrashIsPromised DEF Next

LEMMA InitIsPromised == Init => Promise!Init
  BY DEF Init, NoOperation, Names, Undecided, Promise!Init

\* The store implements the abstract slot: whatever fails and wherever the process dies,
\* a slot that was replaced, discarded or lost never comes back, and only a fresh
\* identifier becomes visible (_publish_locked, _restore_previous_slot, _discard_locked).
THEOREM StoreKeepsPromise == Spec => KeepsPromise
  <1> HIDE DEF PendingInv
  <1> QED
    BY PendingInvariant, InitIsPromised, NextIsPromised, PTL DEF Spec, KeepsPromise, Promise!Spec

=============================================================================
