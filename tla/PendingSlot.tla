------------------------------ MODULE PendingSlot ------------------------------
(***************************************************************************)
(* What the pending store promises its callers, whatever fails: the slot   *)
(* of a source shows at most one identifier; an identifier is drawn once,  *)
(* becomes visible at most once, and when it has been replaced, discarded  *)
(* or lost it never comes back.  PendingStore implements this with links   *)
(* and unlinks in a private directory (passwordsafe/pending.py).           *)
(***************************************************************************)
CONSTANTS
    Ids,    \* identifiers of pending artifacts
    None    \* Python's None

VARIABLES
    visible,    \* the identifier that the stable slot name leads to
    candidate,  \* the identifier that a publication in progress has drawn
    spent       \* every identifier ever drawn

vars == <<visible, candidate, spent>>

Init ==
    /\ visible = None
    /\ candidate = None
    /\ spent = {}

Draw(id) ==
    /\ candidate = None
    /\ id \notin spent
    /\ candidate' = id
    /\ spent' = spent \cup {id}
    /\ UNCHANGED visible

Publish ==
    /\ candidate # None
    /\ visible' = candidate
    /\ candidate' = None
    /\ UNCHANGED spent

Abandon ==
    /\ candidate # None
    /\ candidate' = None
    /\ UNCHANGED <<visible, spent>>

\* Discarded by the user, or lost by a crash or a rollback that failed.
Remove ==
    /\ visible # None
    /\ visible' = None
    /\ candidate' = None
    /\ UNCHANGED spent

Next == (\E id \in Ids : Draw(id)) \/ Publish \/ Abandon \/ Remove

Spec == Init /\ [][Next]_vars

=============================================================================
