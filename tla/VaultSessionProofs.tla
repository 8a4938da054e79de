--------------------------- MODULE VaultSessionProofs --------------------------
(***************************************************************************)
(* What the owners of decrypted data keep, for any edits, any number of    *)
(* documents, vaults and operations, and any closes that fail.             *)
(*                                                                         *)
(* SessionInv (in VaultSession) is inductive.  Its heart is HeapOK: the    *)
(* count in a buffer is the number of documents that hold a lease of it.   *)
(* The first part shows, for any heap, what a close, a fork and a newly    *)
(* read vault make of it (Closes, Forks, Reading); nothing after it looks  *)
(* at a lease again, and Spares is all that the proofs need of a close.    *)
(*                                                                         *)
(* There is a lemma for each action, and in it a step for each part of the *)
(* invariant.  What the session and the operation under way own is kept    *)
(* apart (SessionOK, RetiredOK, JobOwnsOK), so that a close of the one     *)
(* never takes a payload from under the other; FrozenOK ties the frozen    *)
(* revision to the operation whose outcome is open, and OwnedOK says that  *)
(* only a failed close leaves something to a finaliser.                    *)
(***************************************************************************)
EXTENDS VaultSession, FiniteSetTheorems, TLAPS

USE VaultSessionAssumption

-----------------------------------------------------------------------------
(* The heap: closes, forks and newly read vaults *)

\* There are finitely many documents.
LEMMA DocsAreFinite ==
    \A S \in SUBSET Docs : /\ IsFiniteSet(S)
                           /\ Cardinality(S) \in 0 .. MaxDocs
  <1>1. IsFiniteSet(Docs) /\ Cardinality(Docs) = MaxDocs
    BY FS_Interval DEF Docs
  <1> SUFFICES ASSUME NEW S \in SUBSET Docs
               PROVE  IsFiniteSet(S) /\ Cardinality(S) \in 0 .. MaxDocs
    OBVIOUS
  <1>2. IsFiniteSet(S) /\ Cardinality(S) <= MaxDocs
    BY <1>1, FS_Subset
  <1> QED
    BY <1>2, FS_CardinalityType

\* An owner is a document or a vault, and says which.
LEMMA OwnerFacts ==
    /\ \A d, e : DocOwner(d) = DocOwner(e) <=> d = e
    /\ \A v, w : VaultOwner(v) = VaultOwner(w) <=> v = w
    /\ \A d, v : DocOwner(d) # VaultOwner(v)
    /\ \A d : DocOwner(d).kind = "doc" /\ DocOwner(d).id = d
    /\ \A v : VaultOwner(v).kind = "vault" /\ VaultOwner(v).id = v
    /\ \A d \in Docs : DocOwner(d) \in Owners
    /\ \A v \in Vaults : VaultOwner(v) \in Owners
    /\ \A o \in Owners : \/ o.id \in Docs /\ o = DocOwner(o.id) /\ o.kind = "doc"
                         \/ o.id \in Vaults /\ o = VaultOwner(o.id) /\ o.kind = "vault"
  BY DEF DocOwner, VaultOwner, Owners

\* None, the span, edits and the numbers of documents and vaults are distinct.
LEMMA ConstantFacts ==
    /\ None \notin Docs /\ None \notin Vaults /\ None \notin Edits
    /\ Span \notin Buffers
    /\ Edits \cap Vaults = {}
    /\ 1 \in Docs /\ 1 \in Vaults
    /\ NoDoc \in DocStates
    /\ NoDoc.state = "closed" /\ NoDoc.vault = None /\ NoDoc.pending = {} /\ NoDoc.content = {}
    /\ NoVault.doc = None /\ NoVault.keys = FALSE /\ NoVault.snapshot = FALSE
  BY DEF Docs, Vaults, Buffers, NoDoc, NoVault, DocStates

\* What HeapOK says of one document, one vault and one buffer.
LEMMA HeapFacts ==
    ASSUME NEW h, HeapOK(h)
    PROVE  /\ h.doc \in [Docs -> DocStates]
           /\ h.vault \in [Vaults -> [doc : Docs \cup {None}, keys : BOOLEAN, snapshot : BOOLEAN]]
           /\ h.leases \in [Buffers -> 0 .. MaxDocs]
           /\ \A d \in Docs : ClosedDoc(h, d) <=> h.doc[d].vault = None
           /\ \A d \in Docs : ClosedDoc(h, d) <=> h.doc[d].state = "closed"
           /\ \A d \in Docs : ~ClosedDoc(h, d) =>
                /\ h.doc[d].vault \in Vaults
                /\ h.doc[d].pending \cap Vaults \subseteq {h.doc[d].vault}
           /\ \A v \in Vaults : h.vault[v].doc # None =>
                /\ h.vault[v].doc \in Docs
                /\ ~ClosedDoc(h, h.vault[v].doc)
                /\ h.doc[h.vault[v].doc].vault = v
                /\ h.vault[v].keys /\ h.vault[v].snapshot
  BY ConstantFacts DEF HeapOK, Heaps, ClosedDoc

\* What closing the documents D, and the keys and snapshots of the vaults W that
\* have none left, makes of a heap.
Closes(h, g, D, W) ==
    /\ HeapOK(g)
    /\ \A d \in Docs \ D : g.doc[d] = h.doc[d]
    /\ \A d \in D : \/ ClosedDoc(g, d)
                    \/ /\ ~ClosedDoc(h, d)
                       /\ ~ClosedDoc(g, d)
                       /\ g.doc[d].vault = h.doc[d].vault
                       /\ g.doc[d].content = h.doc[d].content
    /\ \A v \in Vaults :
         /\ g.vault[v].doc = IF h.vault[v].doc \in D /\ ClosedDoc(g, h.vault[v].doc)
                             THEN None ELSE h.vault[v].doc
         /\ v \notin W => g.vault[v].keys = h.vault[v].keys /\ g.vault[v].snapshot = h.vault[v].snapshot
         /\ g.vault[v].keys => h.vault[v].keys
         /\ g.vault[v].snapshot => h.vault[v].snapshot

\* CloseDocs keeps every count: each lease given up is one holder less.
LEMMA ClosesDocs ==
    ASSUME NEW h, HeapOK(h), NEW D \in SUBSET Docs, NEW F
    PROVE  Closes(h, CloseDocs(h, D, F), D, {})
  <1> DEFINE g == CloseDocs(h, D, F)
             S(d) == Stuck(h, D, d, F)
             R(x) == {d \in D : x \in h.doc[d].pending \ S(d)}
             Gone(d) == d \in D /\ S(d) = {}
  <1>1. \A d \in Docs : S(d) \subseteq h.doc[d].pending
    BY DEF Stuck
  <1>2. /\ g.leases = [x \in Buffers |-> h.leases[x] - Cardinality(R(x))]
        /\ g.doc = [d \in Docs |->
              IF Gone(d) THEN NoDoc
              ELSE IF d \in D THEN [h.doc[d] EXCEPT !.state = "closing", !.pending = S(d)]
              ELSE h.doc[d]]
        /\ g.vault = [v \in Vaults |->
              IF Gone(h.vault[v].doc) THEN [h.vault[v] EXCEPT !.doc = None] ELSE h.vault[v]]
        /\ g = [leases |-> g.leases, doc |-> g.doc, vault |-> g.vault]
    BY DEF CloseDocs
  <1> HIDE DEF g, S
  <1>3. ASSUME NEW d \in Docs
        PROVE  /\ g.doc[d] \in DocStates
               /\ d \notin D => g.doc[d] = h.doc[d]
               /\ Gone(d) => ClosedDoc(g, d)
               /\ d \in D /\ ~Gone(d) =>
                    /\ ~ClosedDoc(h, d)
                    /\ ~ClosedDoc(g, d)
                    /\ g.doc[d].state = "closing"
                    /\ g.doc[d].vault = h.doc[d].vault
                    /\ g.doc[d].content = h.doc[d].content
                    /\ g.doc[d].pending = S(d)
               /\ g.doc[d].pending = IF d \in D THEN S(d) ELSE h.doc[d].pending
    <2>1. h.doc[d] \in DocStates
      BY HeapFacts
    <2>2. CASE Gone(d)
      BY <1>2, <2>2, ConstantFacts DEF ClosedDoc
    <2>3. CASE d \in D /\ ~Gone(d)
      <3>1. S(d) # {} /\ S(d) \subseteq h.doc[d].pending
        BY <1>1, <2>3
      <3>2. g.doc[d] = [h.doc[d] EXCEPT !.state = "closing", !.pending = S(d)]
        BY <1>2, <2>3
      <3> QED
        BY <2>1, <2>3, <3>1, <3>2, ConstantFacts DEF ClosedDoc, DocStates
    <2>4. CASE d \notin D
      BY <1>2, <2>1, <2>4
    <2> QED
      BY <2>2, <2>3, <2>4
  <1>4. ASSUME NEW v \in Vaults
        PROVE  /\ g.vault[v] \in [doc : Docs \cup {None}, keys : BOOLEAN, snapshot : BOOLEAN]
               /\ g.vault[v].keys = h.vault[v].keys
               /\ g.vault[v].snapshot = h.vault[v].snapshot
               /\ g.vault[v].doc = IF Gone(h.vault[v].doc) THEN None ELSE h.vault[v].doc
    <2>1. h.vault[v] \in [doc : Docs \cup {None}, keys : BOOLEAN, snapshot : BOOLEAN]
      BY HeapFacts
    <2>2. g.vault[v] = IF Gone(h.vault[v].doc) THEN [h.vault[v] EXCEPT !.doc = None] ELSE h.vault[v]
      BY <1>2
    <2>3. [h.vault[v] EXCEPT !.doc = None] =
             [doc |-> None, keys |-> h.vault[v].keys, snapshot |-> h.vault[v].snapshot]
      BY <2>1
    <2> HIDE DEF Gone
    <2> QED
      BY <2>1, <2>2, <2>3
  <1>5. ASSUME NEW x \in Buffers
        PROVE  /\ g.leases[x] \in 0 .. MaxDocs
               /\ g.leases[x] = Cardinality(Holders(g, Docs, x))
    <2>1. Holders(h, Docs, x) \in SUBSET Docs /\ R(x) \in SUBSET Docs
      BY DEF Holders
    <2>2. Holders(g, Docs, x) = Holders(h, Docs, x) \ R(x)
      BY <1>1, <1>3 DEF Holders
    <2>3. Holders(h, Docs, x) \cap R(x) = R(x)
      BY DEF Holders
    <2>4. Cardinality(Holders(g, Docs, x)) = h.leases[x] - Cardinality(R(x))
      <3>1. IsFiniteSet(Holders(h, Docs, x)) /\ h.leases[x] = Cardinality(Holders(h, Docs, x))
        BY <2>1, DocsAreFinite DEF HeapOK
      <3> QED
        BY <2>2, <2>3, <3>1, FS_Difference
    <2>5. Holders(g, Docs, x) \in SUBSET Docs
      BY DEF Holders
    <2> QED
      <3>1. g.leases[x] = h.leases[x] - Cardinality(R(x))
        BY <1>2
      <3>2. Cardinality(Holders(g, Docs, x)) \in 0 .. MaxDocs
        BY <2>5, DocsAreFinite
      <3> QED
        BY <2>4, <3>1, <3>2
  <1>6. g \in Heaps
    <2>1. /\ g.doc \in [Docs -> DocStates]
          /\ g.vault \in [Vaults -> [doc : Docs \cup {None}, keys : BOOLEAN, snapshot : BOOLEAN]]
      BY <1>2, <1>3, <1>4
    <2>2. g.leases \in [Buffers -> 0 .. MaxDocs]
      BY <1>2, <1>5
    <2> QED
      BY <1>2, <2>1, <2>2 DEF Heaps
  <1>7. ASSUME NEW d \in Docs
        PROVE  \/ ClosedDoc(g, d)
               \/ /\ g.doc[d].state # "closed"
                  /\ g.doc[d].vault \in Vaults
                  /\ g.doc[d].pending \cap Vaults \subseteq {g.doc[d].vault}
    BY <1>1, <1>3, HeapFacts DEF ClosedDoc
  <1>8. ASSUME NEW v \in Vaults, g.vault[v].doc # None
        PROVE  /\ g.doc[g.vault[v].doc].vault = v
               /\ g.vault[v].keys
               /\ g.vault[v].snapshot
    <2>1. g.vault[v].doc = h.vault[v].doc /\ h.vault[v].doc \in Docs /\ ~Gone(h.vault[v].doc)
      BY <1>4, <1>8, HeapFacts
    <2>2. /\ h.doc[h.vault[v].doc].vault = v
          /\ h.vault[v].keys /\ h.vault[v].snapshot
      BY <2>1, HeapFacts, ConstantFacts
    <2>3. g.doc[h.vault[v].doc].vault = h.doc[h.vault[v].doc].vault
      BY <1>3, <2>1
    <2> QED
      BY <1>4, <2>1, <2>2, <2>3
  <1>9. HeapOK(g)
    BY <1>5, <1>6, <1>7, <1>8 DEF HeapOK
  <1>10. ASSUME NEW v \in Vaults
         PROVE  g.vault[v].doc = IF h.vault[v].doc \in D /\ ClosedDoc(g, h.vault[v].doc)
                                 THEN None ELSE h.vault[v].doc
    BY <1>3, <1>4
  <1> QED
    BY <1>3, <1>4, <1>9, <1>10 DEF Closes, g

\* A vault loses its keys and its snapshot only with its document.
LEMMA ClosesAll ==
    ASSUME NEW h, HeapOK(h), NEW owners, NEW F
    PROVE  Closes(h, CloseAll(h, owners, F), Closing(h, owners),
                  {v \in Vaults : VaultOwner(v) \in owners})
  <1> DEFINE D == Closing(h, owners)
             W == {v \in Vaults : VaultOwner(v) \in owners}
             g == CloseDocs(h, D, F)
             a == CloseAll(h, owners, F)
             vaults == [v \in Vaults |->
                          IF VaultOwner(v) \in owners /\ g.vault[v].doc = None
                          THEN [doc |-> None,
                                keys |-> g.vault[v].keys /\ "keys" \in F,
                                snapshot |-> g.vault[v].snapshot /\ "snapshot" \in F]
                          ELSE g.vault[v]]
  <1>1. D \in SUBSET Docs /\ W \in SUBSET Vaults
    BY DEF Closing
  <1>2. Closes(h, g, D, {}) /\ HeapOK(g)
    <2>1. Closes(h, g, D, {})
      BY <1>1, ClosesDocs
    <2> QED
      BY <2>1 DEF Closes
  <1>3. /\ a.doc = g.doc /\ a.leases = g.leases
        /\ a.vault = vaults
        /\ a \in Heaps
    <2>1. g \in Heaps
      BY <1>2 DEF HeapOK
    <2>2. a = [g EXCEPT !.vault = vaults]
      BY DEF CloseAll
    <2>3. vaults \in [Vaults -> [doc : Docs \cup {None}, keys : BOOLEAN, snapshot : BOOLEAN]]
      <3> HIDE DEF g, W
      <3> QED
        BY <2>1 DEF Heaps
    <2> HIDE DEF g, a, W, vaults
    <2> QED
      BY <2>1, <2>2, <2>3 DEF Heaps
  <1> HIDE DEF g, a, D
  <1>4. ASSUME NEW v \in Vaults
        PROVE  /\ a.vault[v].doc = g.vault[v].doc
               /\ g.vault[v].doc # None \/ v \notin W => a.vault[v] = g.vault[v]
               /\ a.vault[v].keys => g.vault[v].keys
               /\ a.vault[v].snapshot => g.vault[v].snapshot
    <2>1. CASE VaultOwner(v) \in owners /\ g.vault[v].doc = None
      <3>1. a.vault[v] = [doc |-> None,
                          keys |-> g.vault[v].keys /\ "keys" \in F,
                          snapshot |-> g.vault[v].snapshot /\ "snapshot" \in F]
        BY <1>3, <2>1
      <3>2. g.vault[v] \in [doc : Docs \cup {None}, keys : BOOLEAN, snapshot : BOOLEAN]
        BY <1>2, HeapFacts
      <3> QED
        BY <2>1, <3>1, <3>2
    <2>2. CASE ~(VaultOwner(v) \in owners /\ g.vault[v].doc = None)
      BY <1>3, <2>2
    <2> QED
      BY <2>1, <2>2
  <1> HIDE DEF W
  <1>5. HeapOK(a)
    <2>2. \A x \in Buffers : a.leases[x] = Cardinality(Holders(a, Docs, x))
      BY <1>2, <1>3 DEF HeapOK, Holders
    <2>3. \A d \in Docs :
             \/ ClosedDoc(a, d)
             \/ /\ a.doc[d].state # "closed"
                /\ a.doc[d].vault \in Vaults
                /\ a.doc[d].pending \cap Vaults \subseteq {a.doc[d].vault}
      BY <1>2, <1>3 DEF HeapOK, ClosedDoc
    <2>4. \A v \in Vaults : a.vault[v].doc # None =>
             /\ a.doc[a.vault[v].doc].vault = v
             /\ a.vault[v].keys
             /\ a.vault[v].snapshot
      BY <1>2, <1>3, <1>4 DEF HeapOK
    <2> QED
      BY <1>3, <2>2, <2>3, <2>4 DEF HeapOK
  <1>6. \A d \in Docs : ClosedDoc(a, d) <=> ClosedDoc(g, d)
    BY <1>3 DEF ClosedDoc
  <1>7. ASSUME NEW v \in Vaults
        PROVE  /\ a.vault[v].doc = IF h.vault[v].doc \in D /\ ClosedDoc(a, h.vault[v].doc)
                                   THEN None ELSE h.vault[v].doc
               /\ v \notin W => /\ a.vault[v].keys = h.vault[v].keys
                                /\ a.vault[v].snapshot = h.vault[v].snapshot
               /\ a.vault[v].keys => h.vault[v].keys
               /\ a.vault[v].snapshot => h.vault[v].snapshot
    BY <1>1, <1>2, <1>4, <1>6 DEF Closes
  <1>8. /\ \A d \in Docs \ D : a.doc[d] = h.doc[d]
        /\ \A d \in D : \/ ClosedDoc(a, d)
                        \/ /\ ~ClosedDoc(h, d)
                           /\ ~ClosedDoc(a, d)
                           /\ a.doc[d].vault = h.doc[d].vault
                           /\ a.doc[d].content = h.doc[d].content
    BY <1>1, <1>2, <1>3, <1>6 DEF Closes
  <1>9. Closes(h, a, D, W)
    BY <1>5, <1>7, <1>8 DEF Closes
  <1> QED
    BY <1>9 DEF a, D, W

\* A fork: one more document that borrows from the same vault.
Forks(h, g, d, r, content) ==
    /\ HeapOK(g)
    /\ g.vault = h.vault
    /\ \A e \in Docs \ {r} : g.doc[e] = h.doc[e]
    /\ g.doc[r].state = h.doc[d].state
    /\ g.doc[r].vault = h.doc[d].vault
    /\ g.doc[r].content = content
    /\ ~ClosedDoc(g, r)

\* Retaining and forking take one more lease of every payload kept.
LEMMA RetainedForks ==
    ASSUME NEW h, HeapOK(h), NEW d \in Docs, NEW r \in Docs, ~ClosedDoc(h, d), ClosedDoc(h, r),
           NEW kept \in SUBSET Leaves, kept \cap Vaults \subseteq {h.doc[d].vault},
           NEW content \in SUBSET Edits
    PROVE  Forks(h, Retained(h, d, r, kept, content), d, r, content)
  <1> DEFINE g == Retained(h, d, r, kept, content)
             n == [h.doc[d] EXCEPT !.pending = kept, !.content = content]
             leases == [x \in Buffers |-> IF x \in kept THEN h.leases[x] + 1 ELSE h.leases[x]]
  <1>1. h \in Heaps
    BY DEF HeapOK
  <1>2. /\ g.doc = [h.doc EXCEPT ![r] = n]
        /\ g.vault = h.vault
        /\ g.leases = leases
        /\ g = [doc |-> g.doc, vault |-> g.vault, leases |-> g.leases]
    <2> DEFINE docs == [h.doc EXCEPT ![r] = n]
    <2>1. h = [doc |-> h.doc, vault |-> h.vault, leases |-> h.leases]
      BY <1>1 DEF Heaps
    <2>2. g = [h EXCEPT !.doc = docs, !.leases = leases]
      BY DEF Retained
    <2> HIDE DEF g, docs, leases
    <2>3. g = [doc |-> docs, vault |-> h.vault, leases |-> leases]
      BY <2>1, <2>2
    <2> QED
      BY <2>3 DEF docs
  <1>3. /\ n \in DocStates /\ n.state = h.doc[d].state /\ n.vault = h.doc[d].vault
        /\ n.pending = kept /\ n.content = content
    <2>1. h.doc[d] \in DocStates
      BY HeapFacts
    <2> QED
      BY <2>1 DEF DocStates
  <1> HIDE DEF n
  <1>4. /\ g.doc \in [Docs -> DocStates]
        /\ g.doc[r] = n
        /\ \A e \in Docs \ {r} : g.doc[e] = h.doc[e]
    BY <1>2, <1>3, HeapFacts
  <1>5. ~ClosedDoc(g, r)
    BY <1>3, <1>4, HeapFacts, ConstantFacts DEF ClosedDoc
  <1> HIDE DEF g
  <1>6. ASSUME NEW x \in Buffers
        PROVE  /\ g.leases[x] = Cardinality(Holders(g, Docs, x))
               /\ g.leases[x] \in 0 .. MaxDocs
    <2>1. /\ Holders(h, Docs, x) \in SUBSET Docs
          /\ Holders(g, Docs, x) \in SUBSET Docs
          /\ r \notin Holders(h, Docs, x)
      BY ConstantFacts DEF Holders, ClosedDoc
    <2>2. Holders(g, Docs, x) =
             IF x \in kept THEN Holders(h, Docs, x) \cup {r} ELSE Holders(h, Docs, x)
      BY <1>3, <1>4, ConstantFacts DEF Holders, ClosedDoc
    <2>3. /\ IsFiniteSet(Holders(h, Docs, x))
          /\ h.leases[x] = Cardinality(Holders(h, Docs, x))
          /\ h.leases[x] \in 0 .. MaxDocs
      BY <2>1, DocsAreFinite DEF HeapOK
    <2>4. Cardinality(Holders(h, Docs, x) \cup {r}) = h.leases[x] + 1
      BY <2>1, <2>3, FS_AddElement
    <2>5. g.leases[x] = IF x \in kept THEN h.leases[x] + 1 ELSE h.leases[x]
      BY <1>2
    <2>6. g.leases[x] = Cardinality(Holders(g, Docs, x))
      BY <2>2, <2>3, <2>4, <2>5
    <2> QED
      BY <2>1, <2>6, DocsAreFinite
  <1>7. g \in Heaps
    <2>1. g.leases \in [Buffers -> 0 .. MaxDocs]
      BY <1>2, <1>6
    <2> QED
      BY <1>1, <1>2, <1>4, <2>1 DEF Heaps
  <1>8. ASSUME NEW e \in Docs
        PROVE  \/ ClosedDoc(g, e)
               \/ /\ g.doc[e].state # "closed"
                  /\ g.doc[e].vault \in Vaults
                  /\ g.doc[e].pending \cap Vaults \subseteq {g.doc[e].vault}
    <2>1. CASE e = r
      BY <1>3, <1>4, <2>1, HeapFacts
    <2>2. CASE e # r
      BY <1>4, <2>2, HeapFacts DEF ClosedDoc
    <2> QED
      BY <2>1, <2>2
  <1>9. ASSUME NEW v \in Vaults, g.vault[v].doc # None
        PROVE  /\ g.doc[g.vault[v].doc].vault = v
               /\ g.vault[v].keys
               /\ g.vault[v].snapshot
    <2>1. /\ h.vault[v].doc \in Docs /\ h.vault[v].doc # r
          /\ h.doc[h.vault[v].doc].vault = v
          /\ h.vault[v].keys /\ h.vault[v].snapshot
      BY <1>2, <1>9, HeapFacts
    <2> QED
      BY <1>2, <1>4, <2>1
  <1>10. HeapOK(g)
    BY <1>6, <1>7, <1>8, <1>9 DEF HeapOK
  <1>11. Forks(h, g, d, r, content)
    BY <1>2, <1>3, <1>4, <1>5, <1>10 DEF Forks
  <1> QED
    BY <1>11 DEF g

\* A vault with its first document, of which nothing has been forked.
Reading(h, g, v, d, content) ==
    /\ HeapOK(g)
    /\ \A w \in Vaults \ {v} : g.vault[w] = h.vault[w]
    /\ \A e \in Docs \ {d} : g.doc[e] = h.doc[e]
    /\ g.vault[v].doc = d
    /\ g.vault[v].keys
    /\ g.vault[v].snapshot
    /\ g.doc[d].state = "open"
    /\ g.doc[d].vault = v
    /\ g.doc[d].content = content

\* A vault that is read is whole, and alone holds a lease of its buffer.
LEMMA AuthenticatedReads ==
    ASSUME NEW h, HeapOK(h), NEW v \in Vaults, NEW d \in Docs, ClosedVault(h, v), ClosedDoc(h, d),
           \A e \in Docs : h.doc[e].vault # v,
           NEW content \in SUBSET Edits
    PROVE  Reading(h, Authenticated(h, v, d, content), v, d, content)
  <1> DEFINE g == Authenticated(h, v, d, content)
             n == [state |-> "open", vault |-> v, pending |-> {v, Span}, content |-> content]
             m == [doc |-> d, keys |-> TRUE, snapshot |-> TRUE]
  <1>1. h \in Heaps
    BY DEF HeapOK
  <1>2. /\ g.doc = [h.doc EXCEPT ![d] = n]
        /\ g.vault = [h.vault EXCEPT ![v] = m]
        /\ g.leases = [h.leases EXCEPT ![v] = 1]
        /\ g = [doc |-> g.doc, vault |-> g.vault, leases |-> g.leases]
    <2> DEFINE docs == [h.doc EXCEPT ![d] = n]
               vaults == [h.vault EXCEPT ![v] = m]
               leases == [h.leases EXCEPT ![v] = 1]
    <2>1. h = [doc |-> h.doc, vault |-> h.vault, leases |-> h.leases]
      BY <1>1 DEF Heaps
    <2>2. g = [h EXCEPT !.vault = vaults, !.doc = docs, !.leases = leases]
      BY DEF Authenticated
    <2> HIDE DEF g, docs, vaults, leases
    <2>3. g = [doc |-> docs, vault |-> vaults, leases |-> leases]
      BY <2>1, <2>2
    <2> QED
      BY <2>3 DEF docs, vaults, leases
  <1>3. /\ n \in DocStates
        /\ m \in [doc : Docs \cup {None}, keys : BOOLEAN, snapshot : BOOLEAN]
        /\ v \in Buffers
    BY DEF DocStates, Leaves, Buffers
  <1>4. /\ g.doc \in [Docs -> DocStates]
        /\ g.vault \in [Vaults -> [doc : Docs \cup {None}, keys : BOOLEAN, snapshot : BOOLEAN]]
        /\ g.doc[d] = n /\ g.vault[v] = m
        /\ \A e \in Docs \ {d} : g.doc[e] = h.doc[e]
        /\ \A w \in Vaults \ {v} : g.vault[w] = h.vault[w]
    BY <1>2, <1>3, HeapFacts
  <1> HIDE DEF g
  <1>5. ASSUME NEW x \in Buffers
        PROVE  /\ g.leases[x] = Cardinality(Holders(g, Docs, x))
               /\ g.leases[x] \in 0 .. MaxDocs
    <2>1. CASE x = v
      <3>1. \A e \in Docs : v \notin h.doc[e].pending
        BY HeapFacts, ConstantFacts DEF ClosedDoc
      <3>2. Holders(g, Docs, x) = {d}
        BY <1>4, <2>1, <3>1 DEF Holders
      <3>3. g.leases[x] = 1
        BY <1>2, <1>3, <2>1, HeapFacts
      <3>4. 1 \in 0 .. MaxDocs
        OBVIOUS
      <3>5. Cardinality({d}) = 1
        BY FS_Singleton
      <3> QED
        BY <3>2, <3>3, <3>4, <3>5
    <2>2. CASE x # v
      <3>1. x # Span
        BY ConstantFacts
      <3>2. Holders(g, Docs, x) = Holders(h, Docs, x)
        BY <1>4, <2>2, <3>1, ConstantFacts DEF Holders, ClosedDoc
      <3>3. g.leases[x] = h.leases[x]
        BY <1>2, <2>2, HeapFacts
      <3> QED
        BY <3>2, <3>3, HeapFacts DEF HeapOK
    <2> QED
      BY <2>1, <2>2
  <1>6. g \in Heaps
    <2>1. g.leases \in [Buffers -> 0 .. MaxDocs]
      BY <1>2, <1>5, HeapFacts
    <2> QED
      BY <1>2, <1>4, <2>1 DEF Heaps
  <1>7. ASSUME NEW e \in Docs
        PROVE  \/ ClosedDoc(g, e)
               \/ /\ g.doc[e].state # "closed"
                  /\ g.doc[e].vault \in Vaults
                  /\ g.doc[e].pending \cap Vaults \subseteq {g.doc[e].vault}
    <2>1. CASE e = d
      BY <1>4, <2>1, ConstantFacts DEF Docs, Vaults
    <2>2. CASE e # d
      BY <1>4, <2>2, HeapFacts DEF ClosedDoc
    <2> QED
      BY <2>1, <2>2
  <1>8. ASSUME NEW w \in Vaults, g.vault[w].doc # None
        PROVE  /\ g.doc[g.vault[w].doc].vault = w
               /\ g.vault[w].keys
               /\ g.vault[w].snapshot
    <2>1. CASE w = v
      BY <1>4, <2>1
    <2>2. CASE w # v
      <3>1. /\ h.vault[w].doc \in Docs /\ h.vault[w].doc # d
            /\ h.doc[h.vault[w].doc].vault = w
            /\ h.vault[w].keys /\ h.vault[w].snapshot
        BY <1>4, <1>8, <2>2, HeapFacts
      <3> QED
        BY <1>4, <2>2, <3>1
    <2> QED
      BY <2>1, <2>2
  <1>9. HeapOK(g)
    BY <1>5, <1>6, <1>7, <1>8 DEF HeapOK
  <1>10. Reading(h, g, v, d, content)
    BY <1>4, <1>9 DEF Reading
  <1> QED
    BY <1>10 DEF g

-----------------------------------------------------------------------------
(* Steps that leave the heap alone *)

USE DEF Doc, Vault, Active, Content, JobVaults, ExportDocs, Saving, Undecided

\* The first document of an opened vault borrows from it, and the vault is whole.
LEMMA VaultIsWhole ==
    ASSUME HeapOK(heap), NEW v \in Vaults, Vault(v).doc # None
    PROVE  /\ Vault(v).doc \in Docs
           /\ Doc(Vault(v).doc).vault = v
           /\ Vault(v).keys
           /\ Vault(v).snapshot
  <1>1. heap.vault \in [Vaults -> [doc : Docs \cup {None}, keys : BOOLEAN, snapshot : BOOLEAN]]
    BY DEF HeapOK, Heaps
  <1>2. Vault(v).doc \in Docs
    BY <1>1
  <1> QED
    BY <1>2 DEF HeapOK

\* Nothing is left to a finaliser when every live owner is referred to.
AllKept(h, s, j) ==
    /\ \A d \in Docs : \/ ClosedDoc(h, d)
                       \/ d \in {s.document, s.frozen, j.doc, j.copy}
                       \/ DocOwner(d) \in s.retired
                       \/ Original(h, d)
    /\ \A v \in Vaults : \/ ClosedVault(h, v)
                         \/ v \in {s.opened, j.vault, j.source}
                         \/ VaultOwner(v) \in s.retired

\* Forgotten, one document and one vault at a time.
LEMMA ForgottenFacts ==
    /\ Forgotten = {} <=> AllKept(heap, session, job)
    /\ (Forgotten = {})' <=> AllKept(heap', session', job')
  <1>1. ASSUME NEW d \in Docs
        PROVE  /\ DocOwner(d) \in Forgotten <=>
                    ~(\/ ClosedDoc(heap, d)
                      \/ d \in {session.document, session.frozen, job.doc, job.copy}
                      \/ DocOwner(d) \in session.retired
                      \/ Original(heap, d))
               /\ (DocOwner(d) \in Forgotten)' <=>
                    ~(\/ ClosedDoc(heap', d)
                      \/ d \in {session'.document, session'.frozen, job'.doc, job'.copy}
                      \/ DocOwner(d) \in session'.retired
                      \/ Original(heap', d))
    BY OwnerFacts, ConstantFacts DEF Forgotten, Alive, Reachable, ClosedOwner, Original
  <1>2. ASSUME NEW v \in Vaults
        PROVE  /\ VaultOwner(v) \in Forgotten <=>
                    ~(\/ ClosedVault(heap, v)
                      \/ v \in {session.opened, job.vault, job.source}
                      \/ VaultOwner(v) \in session.retired)
               /\ (VaultOwner(v) \in Forgotten)' <=>
                    ~(\/ ClosedVault(heap', v)
                      \/ v \in {session'.opened, job'.vault, job'.source}
                      \/ VaultOwner(v) \in session'.retired)
    BY OwnerFacts, ConstantFacts DEF Forgotten, Alive, Reachable, ClosedOwner
  <1>3. /\ \A o \in Forgotten : \/ \E d \in Docs : o = DocOwner(d)
                                \/ \E v \in Vaults : o = VaultOwner(v)
        /\ (\A o \in Forgotten : \/ \E d \in Docs : o = DocOwner(d)
                                 \/ \E v \in Vaults : o = VaultOwner(v))'
    BY DEF Forgotten, Alive
  <1> QED
    BY <1>1, <1>2, <1>3 DEF AllKept

\* What is retired, of documents and of vaults.
RetiredAre(h, s, j) ==
    /\ \A d \in Docs : DocOwner(d) \in s.retired =>
         /\ ~ClosedDoc(h, d)
         /\ h.doc[d].vault # s.opened
         /\ j.kind = "export" => d \notin {j.doc, j.copy}
         /\ \A v \in Vaults : h.vault[v].doc = d => VaultOwner(v) \in s.retired
    /\ \A v \in Vaults : VaultOwner(v) \in s.retired =>
         /\ ~ClosedVault(h, v)
         /\ v \notin {s.opened, j.vault, j.source}

\* RetiredOK, one document and one vault at a time.
LEMMA RetiredFacts ==
    /\ session \in Sessions => (RetiredOK <=> RetiredAre(heap, session, job))
    /\ session' \in Sessions => (RetiredOK' <=> RetiredAre(heap', session', job'))
  <1>1. \A o : o \in Owners <=> \/ \E d \in Docs : o = DocOwner(d)
                                \/ \E v \in Vaults : o = VaultOwner(v)
    BY OwnerFacts
  <1>2. session \in Sessions => (RetiredOK <=> RetiredAre(heap, session, job))
    <2>1. ASSUME NEW d \in Docs
          PROVE  /\ ClosedOwner(heap, DocOwner(d)) <=> ClosedDoc(heap, d)
                 /\ d \in ExportDocs <=> job.kind = "export" /\ d \in {job.doc, job.copy}
      BY OwnerFacts, ConstantFacts DEF ClosedOwner
    <2>2. ASSUME NEW v \in Vaults
          PROVE  /\ ClosedOwner(heap, VaultOwner(v)) <=> ClosedVault(heap, v)
                 /\ v \in JobVaults <=> v \in {job.vault, job.source}
      BY OwnerFacts, ConstantFacts DEF ClosedOwner
    <2> QED
      BY <1>1, <2>1, <2>2, OwnerFacts DEF RetiredOK, RetiredAre, Sessions
  <1>3. session' \in Sessions => (RetiredOK' <=> RetiredAre(heap', session', job'))
    <2>1. ASSUME NEW d \in Docs
          PROVE  /\ ClosedOwner(heap', DocOwner(d)) <=> ClosedDoc(heap', d)
                 /\ d \in ExportDocs' <=> job'.kind = "export" /\ d \in {job'.doc, job'.copy}
      BY OwnerFacts, ConstantFacts DEF ClosedOwner
    <2>2. ASSUME NEW v \in Vaults
          PROVE  /\ ClosedOwner(heap', VaultOwner(v)) <=> ClosedVault(heap', v)
                 /\ v \in JobVaults' <=> v \in {job'.vault, job'.source}
      BY OwnerFacts, ConstantFacts DEF ClosedOwner
    <2> QED
      BY <1>1, <2>1, <2>2, OwnerFacts DEF RetiredOK, RetiredAre, Sessions
  <1> QED
    BY <1>2, <1>3

\* A step of an operation that leaves the heap, the session and what the operation
\* holds as they are keeps every owner where it is.
LEMMA Steady ==
    ASSUME SessionInv,
           heap' = heap, session' \in {session, [session EXCEPT !.suspended = FALSE]},
           count'.failures = count.failures, harm \subseteq harm',
           job'.doc = job.doc, job'.copy = job.copy, job'.vault = job.vault,
           job'.source = job.source, ExportDocs' = ExportDocs, Saving' => Saving,
           job.vault # None => job'.content = job.content
    PROVE  HeapOK(heap') /\ SessionOK' /\ RetiredOK' /\ JobOwnsOK' /\ OwnedOK'
  <1>1. /\ session \in Sessions
        /\ session'.opened = session.opened /\ session'.document = session.document
        /\ session'.frozen = session.frozen /\ session'.retired = session.retired
        /\ session'.locked = session.locked
        /\ session.suspended = FALSE => session' = session
    <2>1. session \in Sessions
      BY DEF SessionInv, TypeOK
    <2>2. session.suspended = FALSE => [session EXCEPT !.suspended = FALSE] = session
      BY <2>1 DEF Sessions
    <2> QED
      BY <2>1, <2>2 DEF Sessions
  <1>2. HeapOK(heap')
    BY DEF SessionInv
  <1>3. SessionOK'
    BY ZenonT(40), <1>1 DEF SessionInv, SessionOK, NoSession, Original
  <1>4. RetiredOK'
    BY <1>1 DEF SessionInv, RetiredOK, ClosedOwner, ClosedDoc, ClosedVault
  <1>5. JobOwnsOK'
    BY <1>1 DEF SessionInv, JobOwnsOK, ClosedDoc, Original
  <1>6. OwnedOK'
    BY <1>1, ForgottenFacts DEF SessionInv, OwnedOK, AllKept, ClosedDoc
  <1> QED
    BY <1>2, <1>3, <1>4, <1>5, <1>6

USE DEF NoJob, NoSession

\* The versions stay in order when the source stays as it is.
LEMMA VersionsStay ==
    ASSUME SessionInv, UNCHANGED disk, job'.version = job.version,
           \/ session'.locked /\ session'.baseline = 0
           \/ session'.locked = session.locked /\ session'.baseline = session.baseline,
           \/ job'.step \notin {"write", "reopen", "publish", "capture", "finish"}
           \/ job'.kind = job.kind /\ job'.content = job.content /\ job'.step = job.step
           \/ /\ job'.kind = job.kind
              /\ job.step \in {"write", "reopen"} /\ job'.step \in {"reopen", "publish"}
    PROVE  VersionOK'
  <1>1. disk.version \in Nat /\ 0 <= disk.version
    BY DEF SessionInv, TypeOK, Disks
  <1>2. /\ disk.foreign <= disk.version /\ session.baseline <= disk.version
        /\ job.version <= disk.version
    BY DEF SessionInv, VersionOK
  <1>3. /\ disk'.foreign <= disk'.version /\ session'.baseline <= disk'.version
        /\ job'.version <= disk'.version
    BY <1>1, <1>2
  <1>4. Active' /\ Saving' /\ job'.step \in {"write", "reopen", "publish", "capture"} =>
          job'.version = session'.baseline
    BY DEF SessionInv, VersionOK
  <1>5. /\ job'.step = "capture" => Unmoved' \/ disk'.foreign > job'.version
        /\ job'.step = "finish" => \/ Unmoved' /\ disk'.source = job'.content
                                   \/ disk'.foreign > job'.version
    BY DEF SessionInv, VersionOK, Unmoved
  <1> QED
    BY <1>3, <1>4, <1>5 DEF VersionOK

\* What is in the slot stays with a session that takes nothing out unrecorded.
LEMMA SlotStays ==
    ASSUME SessionInv, UNCHANGED disk,
           \/ session'.locked
           \/ /\ session'.locked = session.locked /\ session'.suspended = session.suspended
              /\ session'.baseline = session.baseline
              /\ session.removed \subseteq session'.removed
              /\ Content \subseteq Content' \cup session'.removed,
           job'.step = "finish" => job.step = "finish"
    PROVE  SlotOK'
  <1>1. CASE session'.locked
    BY <1>1 DEF SlotOK, SlotIsResumable
  <1>2. CASE ~session'.locked
    <2>1. SlotOK
      BY DEF SessionInv
    <2>2. SlotIsResumable'
      BY <1>2, <2>1 DEF SlotOK, SlotIsResumable, Overwritten
    <2>3. Active' /\ session'.suspended =>
            /\ disk'.slot # None => disk'.slot \subseteq Content' \cup session'.removed
            /\ job'.step = "finish" => disk'.slot # None
      BY <1>2, <2>1 DEF SlotOK
    <2> QED
      BY <2>2, <2>3 DEF SlotOK
  <1> QED
    BY <1>1, <1>2

\* An operation that fails goes to its finally clause.
LEMMA JobFailsKept ==
    ASSUME SessionInv, JobFails
    PROVE  SessionInv'
  <1>1. /\ job \in Jobs /\ job' \in Jobs
        /\ job' = [job EXCEPT !.step = "end"]
        /\ job'.step = "end" /\ job'.kind = job.kind /\ job'.doc = job.doc /\ job'.copy = job.copy
        /\ job'.vault = job.vault /\ job'.source = job.source /\ job'.content = job.content
        /\ job'.version = job.version
        /\ job'.committed = job.committed
    BY DEF SessionInv, TypeOK, JobFails, Jobs, Steps
  <1>2. /\ job.step \in {"source", "pending", "adopt", "write", "copy", "reopen", "publish"}
        /\ UNCHANGED <<heap, session, disk, count, made, harm>>
    BY DEF JobFails
  <1>3. TypeOK'
    BY <1>1, <1>2 DEF SessionInv, TypeOK
  <1>4. HeapOK(heap') /\ SessionOK' /\ RetiredOK' /\ JobOwnsOK' /\ OwnedOK'
    BY <1>1, <1>2, Steady
  <1>5. StepOK'
    BY <1>1, <1>2 DEF SessionInv, StepOK
  <1>6. OpeningOK'
    BY <1>1, <1>2 DEF OpeningOK
  <1>7. FrozenOK'
    BY <1>1, <1>2 DEF SessionInv, StepOK, FrozenOK
  <1>8. WrittenOK' /\ VersionOK'
    BY <1>1, <1>2, VersionsStay DEF WrittenOK
  <1>9. CleanOK'
    BY <1>1, <1>2 DEF SessionInv, CleanOK, CleanIsPublished
  <1>10. SlotOK'
    BY <1>1, <1>2, SlotStays
  <1> QED
    BY <1>3, <1>4, <1>5, <1>6, <1>7, <1>8, <1>9, <1>10 DEF SessionInv

\* An export touches neither the source nor the session.
LEMMA PublishExportKept ==
    ASSUME SessionInv, PublishExport
    PROVE  SessionInv'
  <1>1. /\ job \in Jobs /\ job' \in Jobs
        /\ job'.step = "end" /\ job'.committed
        /\ job'.kind = job.kind /\ job'.doc = job.doc /\ job'.copy = job.copy
        /\ job'.vault = job.vault /\ job'.source = job.source /\ job'.content = job.content
        /\ job'.version = job.version
    BY DEF SessionInv, TypeOK, PublishExport, Jobs, Steps
  <1>2. /\ job.step = "copy" /\ job.kind = "export"
        /\ UNCHANGED <<heap, session, disk, count, made, harm>>
    BY DEF PublishExport, SessionInv, StepOK
  <1>3. TypeOK'
    BY <1>1, <1>2 DEF SessionInv, TypeOK
  <1>4. HeapOK(heap') /\ SessionOK' /\ RetiredOK' /\ JobOwnsOK' /\ OwnedOK'
    BY <1>1, <1>2, Steady
  <1>5. StepOK' /\ OpeningOK' /\ WrittenOK' /\ VersionOK'
    BY <1>1, <1>2, VersionsStay DEF SessionInv, StepOK, OpeningOK, WrittenOK
  <1>6. FrozenOK'
    BY <1>1, <1>2 DEF SessionInv, FrozenOK
  <1>7. CleanOK' /\ SlotOK'
    BY <1>1, <1>2, SlotStays DEF SessionInv, CleanOK, CleanIsPublished
  <1> QED
    BY <1>3, <1>4, <1>5, <1>6, <1>7 DEF SessionInv

\* A candidate is written from the frozen revision.
LEMMA WriteCandidateKept ==
    ASSUME SessionInv, WriteCandidate
    PROVE  SessionInv'
  <1>1. /\ job.step = "write" /\ job.kind \in {"save", "rotate", "suspend"}
        /\ Active /\ job.doc \in Docs /\ job.vault = None
        /\ UNCHANGED <<heap, session, disk, count, made, harm>>
    BY DEF SessionInv, TypeOK, StepOK, WriteCandidate, Jobs, Kinds
  <1>2. heap.doc \in [Docs -> DocStates]
    BY HeapFacts DEF SessionInv
  <1>3. /\ job \in Jobs /\ job' \in Jobs
        /\ job'.step = IF job.kind = "suspend" THEN "publish" ELSE "reopen"
        /\ job'.content = Doc(job.doc).content
        /\ job'.kind = job.kind /\ job'.doc = job.doc /\ job'.copy = job.copy
        /\ job'.vault = job.vault /\ job'.source = job.source /\ job'.committed = job.committed
        /\ job'.version = job.version
    BY ZenonT(40), <1>1, <1>2 DEF SessionInv, TypeOK, WriteCandidate, Jobs, Steps, DocStates
  <1>4. TypeOK'
    BY <1>1, <1>3 DEF SessionInv, TypeOK
  <1>5. HeapOK(heap') /\ SessionOK' /\ RetiredOK' /\ JobOwnsOK' /\ OwnedOK'
    BY <1>1, <1>3, Steady
  <1>6. StepOK' /\ OpeningOK'
    BY <1>1, <1>3 DEF SessionInv, StepOK, OpeningOK
  <1>7. WrittenOK'
    BY <1>1, <1>3 DEF SessionInv, WrittenOK
  <1>10. VersionOK'
    BY <1>1, <1>3, VersionsStay
  <1>8. FrozenOK'
    BY <1>1, <1>3 DEF SessionInv, FrozenOK
  <1>9. CleanOK' /\ SlotOK'
    BY <1>1, <1>3, SlotStays DEF SessionInv, CleanOK, CleanIsPublished
  <1> QED
    BY <1>4, <1>5, <1>6, <1>7, <1>8, <1>9, <1>10 DEF SessionInv

\* From here on the outcome of a save is known, and its slot is stale: what that
\* holds is in the source.
LEMMA PublishSourceKept ==
    ASSUME SessionInv, PublishSource
    PROVE  SessionInv'
  <1>1. /\ job.step = "publish" /\ job.kind \in {"save", "rotate"} /\ Active
        /\ UNCHANGED <<heap, session, count, made, harm>>
        /\ disk \in Disks /\ disk.version \in Nat
        /\ job \in Jobs /\ job.content \in SUBSET Edits
        /\ disk.version = job.version /\ session.baseline = job.version
    BY DEF SessionInv, TypeOK, PublishSource, Unmoved, VersionOK, Disks, Jobs
  <1>2. /\ disk' \in Disks
        /\ disk'.source = job.content /\ disk'.version = disk.version + 1
        /\ disk'.slot = disk.slot /\ disk'.foreign = disk.foreign
    <2> DEFINE next == disk.version + 1
    <2>1. next \in Nat /\ next = disk.version + 1
      BY <1>1
    <2>2. disk' = [disk EXCEPT !.source = job.content, !.version = next]
      BY DEF PublishSource
    <2> HIDE DEF next
    <2> QED
      BY <1>1, <2>1, <2>2 DEF Disks
  <1>3. /\ job' \in Jobs
        /\ job'.step = "finish" /\ job'.committed
        /\ job'.kind = job.kind /\ job'.doc = job.doc /\ job'.copy = job.copy
        /\ job'.vault = job.vault /\ job'.source = job.source /\ job'.content = job.content
        /\ job'.version = disk.version + 1
    <2> DEFINE next == disk.version + 1
    <2>1. next \in Nat /\ next = disk.version + 1
      BY <1>1
    <2>2. job' = [job EXCEPT !.version = next, !.committed = TRUE, !.step = "finish"]
      BY DEF PublishSource
    <2> HIDE DEF next
    <2> QED
      BY <1>1, <2>1, <2>2 DEF Jobs, Steps
  <1>4. TypeOK'
    BY <1>1, <1>2, <1>3 DEF SessionInv, TypeOK
  <1>5. HeapOK(heap') /\ SessionOK' /\ RetiredOK' /\ JobOwnsOK' /\ OwnedOK'
    BY <1>1, <1>3, Steady
  <1>6. StepOK' /\ OpeningOK' /\ WrittenOK'
    BY <1>1, <1>3 DEF SessionInv, StepOK, OpeningOK, WrittenOK
  <1>7. VersionOK'
    <2>1. /\ disk'.version = job.version + 1 /\ job.version \in Nat
          /\ disk'.foreign = disk.foreign /\ disk.foreign \in Nat /\ disk.foreign <= disk.version
      BY <1>1, <1>2 DEF SessionInv, VersionOK, Disks
    <2> QED
      BY <1>1, <1>2, <1>3, <2>1 DEF VersionOK, Unmoved
  <1>8. FrozenOK'
    BY <1>1, <1>3 DEF SessionInv, FrozenOK
  <1>9. CleanOK'
    BY <1>1, <1>2, <1>3 DEF SessionInv, CleanOK, CleanIsPublished
  <1>10. SlotOK'
    <2>1. ~Overwritten
      BY <1>1 DEF SessionInv, VersionOK, Overwritten, Disks, Jobs
    <2>2. session.suspended =>
            disk.slot # None /\ disk.slot \subseteq Content \cup session.removed
      BY <1>1, <2>1 DEF SessionInv, SlotOK, SlotIsResumable
    <2>3. Content = job.content
      BY <1>1 DEF SessionInv, WrittenOK
    <2> QED
      BY <1>1, <1>2, <2>2, <2>3 DEF SlotOK, SlotIsResumable
  <1> QED
    BY <1>4, <1>5, <1>6, <1>7, <1>8, <1>9, <1>10 DEF SessionInv

\* The slot now holds what the session does, for the source as it is.
LEMMA PublishPendingKept ==
    ASSUME SessionInv, PublishPending
    PROVE  SessionInv'
  <1>1. /\ job.step = "publish" /\ job.kind = "suspend" /\ Active
        /\ job \in Jobs /\ job.content \in SUBSET Edits
        /\ disk \in Disks
        /\ UNCHANGED <<heap, session, count, made, harm>>
    BY DEF SessionInv, TypeOK, PublishPending, Jobs
  <1>2. /\ disk'.slot = job.content /\ disk'.binding = disk'.version
        /\ disk'.version = disk.version /\ disk'.foreign = disk.foreign
        /\ disk'.source = disk.source /\ disk.version = job.version
        /\ disk' \in Disks
    BY <1>1 DEF PublishPending, Unmoved, Disks, Jobs
  <1>3. /\ job' \in Jobs
        /\ job'.step = "capture" /\ job'.committed = job.committed
        /\ job'.kind = job.kind /\ job'.doc = job.doc /\ job'.copy = job.copy
        /\ job'.vault = job.vault /\ job'.source = job.source /\ job'.content = job.content
        /\ job'.version = job.version
    BY <1>1 DEF PublishPending, Jobs, Steps
  <1>4. TypeOK'
    BY <1>1, <1>2, <1>3 DEF SessionInv, TypeOK
  <1>5. HeapOK(heap') /\ SessionOK' /\ RetiredOK' /\ JobOwnsOK' /\ OwnedOK'
    BY <1>1, <1>3, Steady
  <1>6. StepOK' /\ OpeningOK' /\ WrittenOK'
    BY <1>1, <1>3 DEF SessionInv, StepOK, OpeningOK, WrittenOK
  <1>10. VersionOK'
    BY <1>1, <1>2, <1>3 DEF SessionInv, VersionOK, Unmoved
  <1>7. FrozenOK'
    BY <1>1, <1>3 DEF SessionInv, FrozenOK
  <1>8. CleanOK'
    BY <1>1, <1>2, <1>3 DEF SessionInv, CleanOK, CleanIsPublished, WrittenOK
  <1>9. SlotOK'
    <2>1. Content' = disk'.slot /\ disk'.slot # None
      BY <1>1, <1>2 DEF SessionInv, WrittenOK
    <2> QED
      BY <1>2, <1>3, <2>1 DEF SlotOK, SlotIsResumable
  <1> QED
    BY <1>4, <1>5, <1>6, <1>7, <1>8, <1>9, <1>10 DEF SessionInv

\* The slot is only discarded once another program has overwritten the source.
LEMMA SourceMovedKept ==
    ASSUME SessionInv, SourceMoved
    PROVE  SessionInv'
  <1>1. /\ job.step = "capture" /\ job.kind = "suspend" /\ ~job.committed
        /\ job \in Jobs
        /\ UNCHANGED <<heap, session, count, made, harm>>
        /\ disk.foreign > job.version
    BY DEF SessionInv, TypeOK, StepOK, VersionOK, SourceMoved
  <1>2. /\ disk'.slot = None
        /\ disk'.version = disk.version /\ disk'.foreign = disk.foreign
        /\ disk'.source = disk.source
        /\ disk' \in Disks
    BY <1>1 DEF SessionInv, TypeOK, SourceMoved, Disks
  <1>3. /\ job' \in Jobs
        /\ job'.step = "end" /\ job'.committed = job.committed
        /\ job'.kind = job.kind /\ job'.doc = job.doc /\ job'.copy = job.copy
        /\ job'.vault = job.vault /\ job'.source = job.source /\ job'.content = job.content
        /\ job'.version = job.version
    BY <1>1 DEF SourceMoved, Jobs, Steps
  <1>4. TypeOK'
    BY <1>1, <1>2, <1>3 DEF SessionInv, TypeOK
  <1>5. HeapOK(heap') /\ SessionOK' /\ RetiredOK' /\ JobOwnsOK' /\ OwnedOK'
    BY <1>1, <1>3, Steady
  <1>6. StepOK' /\ OpeningOK' /\ WrittenOK'
    BY <1>1, <1>3 DEF SessionInv, StepOK, OpeningOK, WrittenOK
  <1>9. VersionOK'
    BY <1>1, <1>2, <1>3 DEF SessionInv, VersionOK
  <1>7. FrozenOK'
    BY <1>1, <1>3 DEF SessionInv, FrozenOK
  <1>8. CleanOK'
    BY <1>1, <1>2, <1>3 DEF SessionInv, CleanOK, CleanIsPublished
  <1>10. SlotOK'
    <2>1. Active => Overwritten'
      BY <1>1, <1>2 DEF SessionInv, VersionOK, Overwritten
    <2> QED
      BY <1>1, <1>2, <1>3, <2>1 DEF SlotOK, SlotIsResumable
  <1> QED
    BY <1>4, <1>5, <1>6, <1>7, <1>8, <1>9, <1>10 DEF SessionInv

\* A comparison that raises leaves the revision frozen, and says so.
LEMMA FinishSaveFailsKept ==
    ASSUME SessionInv, FinishSaveFails
    PROVE  SessionInv'
  <1>1. /\ job.step = "finish" /\ job.kind \in {"save", "rotate"} /\ job.committed
        /\ job \in Jobs
        /\ UNCHANGED <<heap, session, disk, count, made>>
        /\ harm \subseteq harm' /\ "finish" \in harm'
    BY DEF SessionInv, TypeOK, StepOK, FinishSaveFails, Harmed
  <1>2. /\ job' \in Jobs
        /\ job'.step = "end" /\ job'.committed
        /\ job'.kind = job.kind /\ job'.doc = job.doc /\ job'.copy = job.copy
        /\ job'.vault = job.vault /\ job'.source = job.source /\ job'.content = job.content
        /\ job'.version = job.version
    BY <1>1 DEF FinishSaveFails, Jobs, Steps
  <1>3. TypeOK'
    BY <1>1, <1>2 DEF SessionInv, TypeOK
  <1>4. HeapOK(heap') /\ SessionOK' /\ RetiredOK' /\ JobOwnsOK' /\ OwnedOK'
    BY <1>1, <1>2, Steady
  <1>5. StepOK' /\ OpeningOK' /\ WrittenOK' /\ VersionOK'
    BY <1>1, <1>2, VersionsStay DEF SessionInv, StepOK, OpeningOK, WrittenOK
  <1>6. FrozenOK'
    BY <1>1, <1>2 DEF SessionInv, FrozenOK
  <1>7. CleanOK' /\ SlotOK'
    BY <1>1, <1>2, SlotStays DEF SessionInv, CleanOK, CleanIsPublished
  <1> QED
    BY <1>3, <1>4, <1>5, <1>6, <1>7 DEF SessionInv

\* The slot goes, and the session no longer counts on it.
LEMMA CleanupPendingKept ==
    ASSUME SessionInv, CleanupPending
    PROVE  SessionInv'
  <1>1. /\ job.step = "cleanup" /\ job.kind = "save" /\ job.committed
        /\ job \in Jobs /\ session \in Sessions
        /\ UNCHANGED <<heap, count, made, harm>>
    BY DEF SessionInv, TypeOK, StepOK, CleanupPending
  <1>2. /\ job' \in Jobs
        /\ job'.step = "end" /\ job'.committed
        /\ job'.kind = job.kind /\ job'.doc = job.doc /\ job'.copy = job.copy
        /\ job'.vault = job.vault /\ job'.source = job.source /\ job'.content = job.content
        /\ job'.version = job.version
    BY <1>1 DEF CleanupPending, Jobs, Steps
  <1>3. \/ /\ session' = [session EXCEPT !.suspended = FALSE]
           /\ disk' = [disk EXCEPT !.slot = None]
        \/ UNCHANGED <<disk, session>>
    BY DEF CleanupPending
  <1>4. /\ session' \in Sessions
        /\ session'.opened = session.opened /\ session'.document = session.document
        /\ session'.frozen = session.frozen /\ session'.changes = session.changes
        /\ session'.locked = session.locked /\ session'.base = session.base
        /\ session'.baseline = session.baseline
        /\ session' = session \/ session'.suspended = FALSE
    <2>1. CASE session' = [session EXCEPT !.suspended = FALSE]
      BY <1>1, <2>1 DEF Sessions
    <2>2. CASE session' = session
      BY <1>1, <2>2
    <2> QED
      BY <1>3, <2>1, <2>2
  <1>5. TypeOK'
    BY <1>1, <1>2, <1>3, <1>4 DEF SessionInv, TypeOK, Disks
  <1>6. HeapOK(heap') /\ SessionOK' /\ RetiredOK' /\ JobOwnsOK' /\ OwnedOK'
    BY <1>1, <1>2, <1>3, Steady
  <1>7. StepOK' /\ OpeningOK' /\ WrittenOK'
    BY <1>1, <1>2 DEF SessionInv, StepOK, OpeningOK, WrittenOK
  <1>11. VersionOK'
    <2>1. disk \in Disks
      BY DEF SessionInv, TypeOK
    <2>2. disk'.version = disk.version /\ disk'.foreign = disk.foreign
      BY <1>3, <2>1 DEF Disks
    <2> QED
      BY <1>2, <1>4, <2>2 DEF SessionInv, VersionOK
  <1>8. FrozenOK'
    BY <1>1, <1>2, <1>3, <1>4 DEF SessionInv, FrozenOK
  <1>9. CleanOK'
    BY <1>1, <1>2, <1>4 DEF SessionInv, CleanOK, CleanIsPublished
  <1>10. SlotOK'
    <2>1. CASE session'.suspended = FALSE
      BY <2>1 DEF SlotOK, SlotIsResumable
    <2>2. CASE UNCHANGED <<disk, session>>
      BY <1>1, <1>2, <2>2, SlotStays
    <2> QED
      BY <1>1, <1>3, <2>1, <2>2 DEF Sessions
  <1> QED
    BY <1>5, <1>6, <1>7, <1>8, <1>9, <1>10, <1>11 DEF SessionInv

\* Whatever another program writes has a version above the baseline of the session
\* and the capture of the operation: from there on nothing counts on the source.
LEMMA ForeignWriteKept ==
    ASSUME SessionInv, ForeignWrite
    PROVE  SessionInv'
  <1>1. /\ UNCHANGED <<heap, session, job, made, harm>>
        /\ disk \in Disks /\ session \in Sessions /\ job \in Jobs /\ count \in Counts
        /\ count' = [count EXCEPT !.writes = @ + 1]
    BY DEF SessionInv, TypeOK, ForeignWrite
  <1>2. /\ disk' \in Disks
        /\ disk'.slot = disk.slot /\ disk'.binding = disk.binding
        /\ disk'.version = disk.version + 1 /\ disk'.foreign = disk.version + 1
    <2>1. PICK kept \in SUBSET disk.source :
            disk' = [disk EXCEPT !.source = kept, !.version = @ + 1, !.foreign = disk.version + 1]
      BY DEF ForeignWrite
    <2> DEFINE next == disk.version + 1
    <2>2. /\ next \in Nat /\ kept \in SUBSET Edits
          /\ disk' = [disk EXCEPT !.source = kept, !.version = next, !.foreign = next]
      BY <1>1, <2>1 DEF Disks
    <2>3. next = disk.version + 1
      OBVIOUS
    <2> HIDE DEF next
    <2> QED
      BY <1>1, <2>2, <2>3 DEF Disks
  <1>3. count' \in Counts /\ count'.failures = count.failures
    BY <1>1 DEF Counts
  <1>4. TypeOK'
    BY <1>1, <1>2, <1>3 DEF SessionInv, TypeOK
  <1>5. HeapOK(heap') /\ SessionOK' /\ RetiredOK' /\ JobOwnsOK' /\ OwnedOK'
    BY <1>1, <1>3, Steady
  <1>6. StepOK' /\ OpeningOK' /\ FrozenOK' /\ WrittenOK'
    BY <1>1, <1>2 DEF SessionInv, StepOK, OpeningOK, FrozenOK, WrittenOK
  <1>7. /\ disk.version \in Nat /\ session.baseline \in Nat /\ job.version \in Nat
        /\ session.baseline <= disk.version /\ job.version <= disk.version
    BY <1>1 DEF SessionInv, VersionOK, Disks, Sessions, Jobs
  <1>8. /\ disk'.foreign <= disk'.version
        /\ session.baseline <= disk'.version /\ job.version <= disk'.version
        /\ disk'.foreign > session.baseline /\ disk'.foreign > job.version
    BY <1>2, <1>7
  <1>9. VersionOK'
    BY <1>1, <1>8 DEF SessionInv, VersionOK
  <1>10. CleanOK'
    BY <1>1, <1>2 DEF SessionInv, CleanOK, CleanIsPublished
  <1>11. SlotOK'
    BY <1>1, <1>2, <1>8 DEF SessionInv, SlotOK, SlotIsResumable, Overwritten
  <1> QED
    BY <1>4, <1>5, <1>6, <1>9, <1>10, <1>11 DEF SessionInv

\* The step between two service operations holds nothing.
LEMMA BeginOpenKept ==
    ASSUME SessionInv, BeginOpen
    PROVE  SessionInv'
  <1>1. /\ job = NoJob /\ session = NoSession
        /\ disk \in Disks
        /\ count \in Counts
        /\ UNCHANGED <<heap, session, disk, made, harm>>
    BY DEF SessionInv, TypeOK, BeginOpen, Begins
  <1>2. /\ job' \in Jobs
        /\ job'.kind = "open" /\ job'.step = "pending" /\ job'.doc = None /\ job'.copy = None
        /\ job'.vault = None /\ job'.source = None /\ job'.content = disk.source
        /\ job'.committed = FALSE /\ job'.version = disk.version
    BY <1>1 DEF BeginOpen, Jobs, Kinds, Steps, Disks
  <1>3. count' \in Counts /\ count'.failures = count.failures
    BY <1>1 DEF BeginOpen, Begins, Counts
  <1>4. TypeOK'
    BY <1>1, <1>2, <1>3 DEF SessionInv, TypeOK
  <1>5. HeapOK(heap') /\ SessionOK' /\ RetiredOK' /\ JobOwnsOK' /\ OwnedOK'
    BY <1>1, <1>2, <1>3, Steady
  <1>6. StepOK' /\ OpeningOK' /\ WrittenOK' /\ FrozenOK'
    BY <1>1, <1>2 DEF StepOK, OpeningOK, WrittenOK, FrozenOK
  <1>8. VersionOK'
    BY <1>1, <1>2 DEF SessionInv, VersionOK, Disks
  <1>7. CleanOK' /\ SlotOK'
    BY <1>1, <1>2 DEF CleanOK, CleanIsPublished, SlotOK, SlotIsResumable
  <1> QED
    BY <1>4, <1>5, <1>6, <1>7, <1>8 DEF SessionInv

\* A resume works with the slot as it finds it.
LEMMA BeginResumeKept ==
    ASSUME SessionInv, BeginResume
    PROVE  SessionInv'
  <1>1. /\ job = NoJob /\ session = NoSession
        /\ disk \in Disks
        /\ disk.slot # None /\ disk.binding = disk.version
        /\ count \in Counts
        /\ UNCHANGED <<heap, session, disk, made, harm>>
    BY DEF SessionInv, TypeOK, BeginResume, Begins
  <1>2. /\ job' \in Jobs
        /\ job'.kind = "resume" /\ job'.step = "source" /\ job'.doc = None /\ job'.copy = None
        /\ job'.vault = None /\ job'.source = None /\ job'.content = disk.slot
        /\ job'.committed = FALSE /\ job'.version = disk.version
    BY <1>1 DEF BeginResume, Jobs, Kinds, Steps, Disks
  <1>3. count' \in Counts /\ count'.failures = count.failures
    BY <1>1 DEF BeginResume, Begins, Counts
  <1>4. TypeOK'
    BY <1>1, <1>2, <1>3 DEF SessionInv, TypeOK
  <1>5. HeapOK(heap') /\ SessionOK' /\ RetiredOK' /\ JobOwnsOK' /\ OwnedOK'
    BY <1>1, <1>2, <1>3, Steady
  <1>6. StepOK' /\ OpeningOK' /\ WrittenOK' /\ FrozenOK'
    BY <1>1, <1>2 DEF StepOK, OpeningOK, WrittenOK, FrozenOK
  <1>8. VersionOK'
    BY <1>1, <1>2 DEF SessionInv, VersionOK, Disks
  <1>7. CleanOK' /\ SlotOK'
    BY <1>1, <1>2 DEF CleanOK, CleanIsPublished, SlotOK, SlotIsResumable
  <1> QED
    BY <1>4, <1>5, <1>6, <1>7, <1>8 DEF SessionInv

\* The vault that has been read is whole, and its first document is what the
\* session then shows.
LEMMA AdoptKept ==
    ASSUME SessionInv, Adopt
    PROVE  SessionInv'
  <1> DEFINE v == job.vault
  <1>1. /\ job.step = "adopt" /\ job.kind \in {"open", "resume"} /\ v \in Vaults
        /\ job \in Jobs /\ session = NoSession /\ job.content \in SUBSET Edits
        /\ UNCHANGED <<heap, disk, count, made, harm>>
        /\ job.version \in Nat /\ job.version <= disk.version
        /\ job.kind = "resume" => /\ job.content = disk.slot /\ disk.binding = disk.version
                                  /\ job.version = disk.version
    BY DEF SessionInv, TypeOK, StepOK, OpeningOK, VersionOK, Unmoved, Adopt, Jobs
  <1>2. /\ job' \in Jobs
        /\ job'.step = "end" /\ job'.committed
        /\ job'.kind = job.kind /\ job'.doc = job.doc /\ job'.copy = job.copy
        /\ job'.vault = None /\ job'.source = job.source /\ job'.content = job.content
        /\ job'.version = job.version
    BY <1>1 DEF Adopt, Jobs, Steps
  <1>3. /\ HeapOK(heap) /\ heap.vault[v].doc \in Docs
        /\ Doc(Vault(v).doc).vault = v /\ Doc(Vault(v).doc).state = "open"
        /\ Doc(Vault(v).doc).content = job.content
        /\ Vault(v).keys /\ Vault(v).snapshot
        /\ v # job.source
    <2>1. HeapOK(heap) /\ v # None /\ v \in JobVaults
      BY <1>1, ConstantFacts DEF SessionInv
    <2>2. /\ Vault(v).doc # None /\ Doc(Vault(v).doc).state = "open"
          /\ v # job.source /\ Doc(Vault(v).doc).content = job.content
      BY <2>1 DEF SessionInv, JobOwnsOK
    <2> QED
      BY <1>1, <2>1, <2>2, VaultIsWhole
  <1>4. /\ session' \in Sessions
        /\ session'.opened = v /\ session'.document = Vault(v).doc /\ session'.frozen = None
        /\ session'.changes = FALSE /\ session'.suspended = (job.kind = "resume")
        /\ session'.retired = {} /\ session'.locked = FALSE
        /\ session'.baseline = job.version /\ session'.removed = {}
        /\ job.kind = "open" => session'.base = job.content
    <2>1. disk.source \in SUBSET Edits
      BY DEF SessionInv, TypeOK, Disks
    <2> DEFINE base == IF job.kind = "open" THEN job.content ELSE disk.source
               again == job.kind = "resume"
    <2>2. session' = Adopted(v, again, job.version, base)
      BY <1>1 DEF Adopt
    <2>3. base \in SUBSET Edits /\ again \in BOOLEAN /\ (job.kind = "open" => base = job.content)
      BY <1>1, <2>1
    <2> HIDE DEF base, again
    <2>4. /\ session' \in Sessions
          /\ session'.opened = v /\ session'.document = Vault(v).doc /\ session'.frozen = None
          /\ session'.changes = FALSE /\ session'.suspended = again
          /\ session'.retired = {} /\ session'.locked = FALSE
          /\ session'.baseline = job.version /\ session'.removed = {} /\ session'.base = base
      BY <1>1, <1>3, <2>2, <2>3 DEF Adopted, Sessions
    <2> QED
      BY <2>3, <2>4 DEF again
  <1>5. TypeOK'
    BY <1>1, <1>2, <1>4 DEF SessionInv, TypeOK
  <1>6. SessionOK'
    BY <1>1, <1>3, <1>4 DEF SessionOK
  <1>7. RetiredOK'
    BY <1>4 DEF RetiredOK
  <1>8. JobOwnsOK'
    <2>1. /\ \A w \in JobVaults : /\ w # v => w \in JobVaults'
                                  /\ Vault(w).doc # None
                                  /\ Doc(Vault(w).doc).state = "open"
                                  /\ \A d \in Docs : Doc(d).vault = w => d = Vault(w).doc
          /\ JobVaults' = JobVaults \ {v}
      BY ZenonT(40), <1>1, <1>2, <1>3 DEF SessionInv, JobOwnsOK
    <2>2. ExportDocs' = {}
      BY <1>1, <1>2
    <2> QED
      BY <1>1, <1>2, <1>4, <2>1, <2>2 DEF JobOwnsOK
  <1>9. StepOK' /\ OpeningOK' /\ WrittenOK' /\ VersionOK' /\ FrozenOK'
    BY <1>1, <1>2, <1>4 DEF SessionInv, StepOK, OpeningOK, WrittenOK, VersionOK, FrozenOK
  <1>10. CleanOK' /\ SlotOK'
    BY ZenonT(40), <1>1, <1>2, <1>3, <1>4 DEF CleanOK, CleanIsPublished, SlotOK, SlotIsResumable, Overwritten
  <1>11. OwnedOK'
    BY <1>1, <1>2, <1>3, <1>4, ForgottenFacts DEF SessionInv, OwnedOK, AllKept
  <1> QED
    BY <1>1, <1>3, <1>5, <1>6, <1>7, <1>8, <1>9, <1>10, <1>11 DEF SessionInv

\* The client drops a locked session; what that has retired is then forgotten.
LEMMA ForgetKept ==
    ASSUME SessionInv, Forget
    PROVE  SessionInv'
  <1>1. /\ session.locked /\ session = [NoSession EXCEPT !.retired = session.retired]
        /\ session # NoSession /\ session' = NoSession
        /\ UNCHANGED <<heap, job, disk, count, made, harm>>
        /\ job \in Jobs
    BY DEF SessionInv, TypeOK, SessionOK, Forget
  <1>2. session.retired # {}
    BY <1>1
  <1>3. /\ session.opened = None /\ session.document = None /\ session.frozen = None
        /\ session.base = {}
    BY <1>1
  <1>4. session' \in Sessions
    BY <1>1 DEF Sessions
  <1>5. TypeOK' /\ HeapOK(heap')
    BY <1>1, <1>4 DEF SessionInv, TypeOK
  <1>6. SessionOK' /\ RetiredOK'
    BY <1>1 DEF SessionOK, RetiredOK
  <1>7. JobOwnsOK'
    BY <1>1, <1>3 DEF SessionInv, JobOwnsOK, ClosedDoc, Original
  <1>8. StepOK' /\ OpeningOK' /\ WrittenOK' /\ VersionOK' /\ FrozenOK'
    BY <1>1 DEF SessionInv, StepOK, OpeningOK, WrittenOK, VersionOK, Unmoved, FrozenOK
  <1>9. CleanOK' /\ SlotOK'
    BY <1>1 DEF CleanOK, CleanIsPublished, SlotOK, SlotIsResumable, Overwritten
  <1>10. OwnedOK'
    BY <1>1, <1>2 DEF SessionInv, OwnedOK
  <1> QED
    BY <1>5, <1>6, <1>7, <1>8, <1>9, <1>10 DEF SessionInv

\* Whoever shares a payload finds it: an open document of a whole vault can be read.
LEMMA OpenIsReadable ==
    ASSUME HeapOK(heap), NEW d \in Docs, Doc(d).state = "open", NEW v \in Vaults,
           Doc(d).vault = v, Vault(v).keys, Vault(v).snapshot
    PROVE  Readable(d)
  <1>1. ASSUME NEW x \in Doc(d).pending \cap Buffers
        PROVE  heap.leases[x] > 0
    <2>1. Holders(heap, Docs, x) \in SUBSET Docs /\ d \in Holders(heap, Docs, x)
      BY DEF Holders
    <2>2. IsFiniteSet(Holders(heap, Docs, x)) /\ Cardinality(Holders(heap, Docs, x)) \in Nat
      BY <2>1, DocsAreFinite
    <2>3. Cardinality(Holders(heap, Docs, x)) # 0
      BY <2>1, <2>2, FS_EmptySet
    <2> QED
      BY <2>2, <2>3 DEF HeapOK
  <1> QED
    BY <1>1 DEF Readable

\* A frozen revision can be read until its close fails.
LEMMA FrozenIsReadable ==
    ASSUME SessionInv, Active, session.frozen # None, "frozen" \notin harm
    PROVE  Readable(session.frozen)
  <1>1. /\ session.frozen \in Docs /\ session.opened \in Vaults
        /\ Doc(session.frozen).state = "open" /\ Doc(session.frozen).vault = session.opened
        /\ Vault(session.opened).keys /\ Vault(session.opened).snapshot
    BY DEF SessionInv, TypeOK, Sessions, SessionOK
  <1> QED
    BY <1>1, OpenIsReadable DEF SessionInv

\* The outcome of a save or a suspension is known, and its revision is no longer
\* frozen, when the session has been locked meanwhile.
LEMMA RaisesKept ==
    ASSUME SessionInv, job.step \in {"finish", "capture"},
           Active /\ session.frozen # None => ~Readable(session.frozen) /\ job.step = "finish",
           \/ job' = [job EXCEPT !.step = "end"]
           \/ job' = [job EXCEPT !.committed = TRUE, !.step = "end"],
           job'.committed, UNCHANGED <<heap, session, disk, count, made, harm>>
    PROVE  SessionInv'
  <1>1. /\ job \in Jobs /\ job' \in Jobs
        /\ job'.step = "end" /\ job'.kind = job.kind /\ job'.doc = job.doc /\ job'.copy = job.copy
        /\ job'.vault = job.vault /\ job'.source = job.source /\ job'.content = job.content
        /\ job'.version = job.version
    <2>1. job \in Jobs
      BY DEF SessionInv, TypeOK
    <2>2. CASE job' = [job EXCEPT !.step = "end"]
      BY <2>1, <2>2 DEF Jobs, Steps
    <2>3. CASE job' = [job EXCEPT !.committed = TRUE, !.step = "end"]
      BY <2>1, <2>3 DEF Jobs, Steps
    <2> QED
      BY <2>1, <2>2, <2>3
  <1>2. TypeOK'
    BY <1>1 DEF SessionInv, TypeOK
  <1>3. HeapOK(heap') /\ SessionOK' /\ RetiredOK' /\ JobOwnsOK' /\ OwnedOK'
    BY <1>1, Steady
  <1>4. job.kind \in {"save", "rotate", "suspend"} /\ job.doc # None
    BY DEF SessionInv, StepOK
  <1>5. StepOK' /\ OpeningOK' /\ WrittenOK' /\ VersionOK'
    BY <1>1, <1>4, VersionsStay DEF SessionInv, StepOK, OpeningOK, WrittenOK
  <1>6. Active => session.frozen = job.doc /\ "frozen" \in harm
    BY <1>4, FrozenIsReadable DEF SessionInv, FrozenOK
  <1>7. FrozenOK' /\ SlotOK'
    BY <1>1, <1>6, SlotStays DEF FrozenOK
  <1>8. CleanOK'
    BY <1>1 DEF SessionInv, CleanOK, CleanIsPublished
  <1> QED
    BY <1>2, <1>3, <1>5, <1>7, <1>8 DEF SessionInv

-----------------------------------------------------------------------------
(* Reading vaults *)

\* New documents and vaults are nobody's yet.
LEMMA NewOwners ==
    /\ FreeDocs # {} =>
         /\ AnyOf(FreeDocs) \in Docs
         /\ ClosedDoc(heap, AnyOf(FreeDocs))
         /\ AnyOf(FreeDocs) \notin {session.document, session.frozen, job.doc, job.copy}
         /\ \A v \in Vaults : Vault(v).doc # AnyOf(FreeDocs)
    /\ FreeVaults # {} =>
         /\ AnyOf(FreeVaults) \in Vaults
         /\ ClosedVault(heap, AnyOf(FreeVaults))
         /\ \A d \in Docs : Doc(d).vault # AnyOf(FreeVaults)
         /\ AnyOf(FreeVaults) \notin {session.opened, job.vault, job.source}
  <1>1. FreeDocs # {} => AnyOf(FreeDocs) \in FreeDocs
    BY DEF AnyOf
  <1>2. FreeVaults # {} => AnyOf(FreeVaults) \in FreeVaults
    BY DEF AnyOf
  <1> HIDE DEF AnyOf
  <1> QED
    BY <1>1, <1>2 DEF FreeDocs, FreeVaults, Referenced

\* A vault that an operation reads is whole and its own; everything else is as it was.
LEMMA ReadIsOwned ==
    ASSUME SessionInv, NEW v \in Vaults, NEW d \in Docs, NEW content \in SUBSET Edits,
           ClosedVault(heap, v), ClosedDoc(heap, d), \A e \in Docs : Doc(e).vault # v,
           v \notin {session.opened, job.vault, job.source},
           d \notin {session.document, session.frozen, job.doc, job.copy},
           heap' = Authenticated(heap, v, d, content),
           UNCHANGED <<session, count, harm>>,
           job.vault = None, job'.kind = job.kind, job.kind # "export",
           job'.doc = job.doc, job'.copy = job.copy, job'.content = job.content,
           \/ job'.source = v /\ job'.vault = None /\ job.source = None
           \/ job'.source = job.source /\ job'.vault = v /\ job.content = content
    PROVE  /\ HeapOK(heap') /\ SessionOK' /\ RetiredOK' /\ JobOwnsOK' /\ OwnedOK'
           /\ \A e \in Docs \ {d} : heap'.doc[e] = heap.doc[e]
  <1>1. Reading(heap, heap', v, d, content)
    BY AuthenticatedReads DEF SessionInv
  <1>2. /\ HeapOK(heap) /\ HeapOK(heap')
        /\ session \in Sessions /\ job \in Jobs
    BY <1>1 DEF SessionInv, TypeOK, Reading
  <1>3. /\ \A w \in Vaults \ {v} : heap'.vault[w] = heap.vault[w]
        /\ \A e \in Docs \ {d} : heap'.doc[e] = heap.doc[e]
        /\ heap'.vault[v].doc = d /\ heap.vault[v].doc = None
        /\ heap'.doc[d].state = "open"
        /\ heap'.doc[d].vault = v
        /\ heap'.doc[d].content = content
    BY <1>1, ConstantFacts DEF Reading, ClosedVault
  <1>4. \A w \in Vaults : heap.vault[w].doc # d
    BY <1>2, HeapFacts, ConstantFacts
  <1>5. \A e \in Docs : Original(heap', e) <=> e = d \/ Original(heap, e)
    BY <1>3, <1>4, ConstantFacts DEF Original
  <1>6. SessionOK'
    BY ZenonT(40), <1>2, <1>3, <1>5 DEF SessionInv, SessionOK, Sessions
  <1>7. RetiredOK'
    <2>1. RetiredAre(heap, session, job)
      BY <1>2, RetiredFacts DEF SessionInv
    <2>2. RetiredAre(heap', session, job')
      BY <1>2, <1>3, <2>1, ConstantFacts DEF RetiredAre, ClosedDoc, ClosedVault
    <2> QED
      BY <1>2, <2>2, RetiredFacts
  <1>8. JobOwnsOK'
    <2>1. ExportDocs = {} /\ ExportDocs' = {}
      OBVIOUS
    <2>2. ASSUME NEW w \in Vaults \ {v}, w \in JobVaults
          PROVE  /\ w # session'.opened
                 /\ heap'.vault[w].doc # None
                 /\ heap'.doc[heap'.vault[w].doc].state = "open"
                 /\ \A e \in Docs : heap'.doc[e].vault = w => e = heap'.vault[w].doc
      <3>1. /\ w # session.opened
            /\ heap.vault[w].doc # None /\ heap.vault[w].doc \in Docs \ {d}
            /\ heap.doc[heap.vault[w].doc].state = "open"
            /\ \A e \in Docs : heap.doc[e].vault = w => e = heap.vault[w].doc
        BY <1>2, <1>4, <2>2, HeapFacts DEF SessionInv, JobOwnsOK
      <3> QED
        BY <1>3, <3>1
    <2>3. JobVaults' \subseteq JobVaults \cup {v} /\ JobVaults \subseteq Vaults
      BY <1>2 DEF Jobs
    <2>4. /\ v # session'.opened
          /\ heap'.vault[v].doc # None
          /\ heap'.doc[heap'.vault[v].doc].state = "open"
          /\ \A e \in Docs : heap'.doc[e].vault = v => e = heap'.vault[v].doc
      BY <1>3, ConstantFacts
    <2>5. job'.vault # None => /\ job'.vault # job'.source
                               /\ heap'.doc[heap'.vault[job'.vault].doc].content = job'.content
      BY <1>3
    <2> QED
      BY <2>1, <2>2, <2>3, <2>4, <2>5 DEF JobOwnsOK
  <1>9. OwnedOK'
    <2>1. CASE count.failures = 0
      <3>1. /\ session.retired = {} /\ AllKept(heap, session, job)
            /\ Saving => ClosedDoc(heap, job.doc) \/ session.frozen = job.doc
        BY <2>1, ForgottenFacts DEF SessionInv, OwnedOK
      <3>2. AllKept(heap', session', job')
        <4>1. ASSUME NEW e \in Docs \ {d}, ~ClosedDoc(heap', e)
              PROVE  \/ e \in {session'.document, session'.frozen, job'.doc, job'.copy}
                     \/ Original(heap', e)
          <5>1. ~ClosedDoc(heap, e)
            BY <1>3, <4>1 DEF ClosedDoc
          <5> QED
            BY <1>5, <3>1, <5>1 DEF AllKept
        <4>2. ASSUME NEW w \in Vaults \ {v}, ~ClosedVault(heap', w)
              PROVE  w \in {session'.opened, job'.vault, job'.source}
          <5>1. ~ClosedVault(heap, w)
            BY <1>3, <4>2 DEF ClosedVault
          <5> QED
            BY <3>1, <5>1, ConstantFacts DEF AllKept
        <4> QED
          BY <1>5, <4>1, <4>2 DEF AllKept
      <3>3. Saving' => ClosedDoc(heap', job'.doc) \/ session'.frozen = job'.doc
        <4>1. Saving => job.doc \in Docs
          BY <1>2 DEF SessionInv, StepOK, Jobs
        <4> QED
          BY <1>3, <3>1, <4>1 DEF ClosedDoc
      <3> QED
        BY <3>1, <3>2, <3>3, ForgottenFacts DEF OwnedOK
    <2>2. CASE count.failures # 0
      BY <2>2 DEF OwnedOK
    <2> QED
      BY <2>1, <2>2
  <1> QED
    BY <1>2, <1>3, <1>6, <1>7, <1>8, <1>9

\* The source is read for its passphrase only.
LEMMA ReadSourceKept ==
    ASSUME SessionInv, ReadSource
    PROVE  SessionInv'
  <1> DEFINE v == AnyOf(FreeVaults)
             d == AnyOf(FreeDocs)
  <1>1. /\ job.step = "source" /\ job.kind = "resume" /\ job.vault = None /\ job.source = None
        /\ job.doc = None /\ job.copy = None
        /\ job \in Jobs /\ disk.source \in SUBSET Edits
        /\ FreeVaults # {} /\ FreeDocs # {}
        /\ heap' = Authenticated(heap, v, d, disk.source)
        /\ job' = [job EXCEPT !.source = v, !.step = "pending"]
        /\ UNCHANGED <<session, disk, count, made, harm>>
    <2>1. job.step = "source" /\ job.kind = "resume"
      BY DEF SessionInv, StepOK, ReadSource
    <2> QED
      BY <2>1 DEF SessionInv, TypeOK, StepOK, ReadSource, Reads, Disks
  <1>2. /\ v \in Vaults /\ ClosedVault(heap, v) /\ v \notin {session.opened, job.vault, job.source}
        /\ \A e \in Docs : Doc(e).vault # v
        /\ d \in Docs /\ ClosedDoc(heap, d)
        /\ d \notin {session.document, session.frozen, job.doc, job.copy}
    BY <1>1, NewOwners
  <1> HIDE DEF v, d
  <1>3. /\ job' \in Jobs
        /\ job'.step = "pending" /\ job'.committed = job.committed
        /\ job'.kind = job.kind /\ job'.doc = job.doc /\ job'.copy = job.copy
        /\ job'.vault = None /\ job'.source = v /\ job'.content = job.content
        /\ job'.version = job.version
    BY <1>1, <1>2 DEF Jobs, Steps
  <1>4. HeapOK(heap') /\ SessionOK' /\ RetiredOK' /\ JobOwnsOK' /\ OwnedOK'
    BY <1>1, <1>2, <1>3, ReadIsOwned
  <1>5. TypeOK'
    BY <1>1, <1>3, <1>4 DEF SessionInv, TypeOK, HeapOK
  <1>6. StepOK'
    BY ZenonT(40), <1>1, <1>2, <1>3, ConstantFacts DEF SessionInv, StepOK
  <1>7. OpeningOK'
    BY <1>1, <1>3 DEF SessionInv, OpeningOK
  <1>8. session = NoSession
    BY <1>1 DEF SessionInv, OpeningOK
  <1>9. WrittenOK' /\ VersionOK' /\ FrozenOK' /\ CleanOK' /\ SlotOK'
    BY <1>1, <1>3, <1>8, VersionsStay
       DEF WrittenOK, FrozenOK, CleanOK, CleanIsPublished, SlotOK, SlotIsResumable
  <1> QED
    BY <1>4, <1>5, <1>6, <1>7, <1>9 DEF SessionInv

\* The vault that is read holds what the source or the slot did.
LEMMA ReadVaultKept ==
    ASSUME SessionInv, ReadVault
    PROVE  SessionInv'
  <1> DEFINE v == AnyOf(FreeVaults)
             d == AnyOf(FreeDocs)
  <1>1. /\ job.step = "pending" /\ job.kind \in {"open", "resume"} /\ job.vault = None
        /\ job.doc = None /\ job.copy = None
        /\ job \in Jobs /\ job.content \in SUBSET Edits
        /\ FreeVaults # {} /\ FreeDocs # {}
        /\ heap' = Authenticated(heap, v, d, job.content)
        /\ job' = [job EXCEPT !.vault = v, !.step = "adopt"]
        /\ UNCHANGED <<session, disk, count, made, harm>>
    <2>1. job.step = "pending" /\ job.kind \in {"open", "resume"}
      BY DEF SessionInv, StepOK, ReadVault
    <2> QED
      BY <2>1 DEF SessionInv, TypeOK, StepOK, ReadVault, Reads, Jobs
  <1>2. /\ v \in Vaults /\ ClosedVault(heap, v) /\ v \notin {session.opened, job.vault, job.source}
        /\ \A e \in Docs : Doc(e).vault # v
        /\ d \in Docs /\ ClosedDoc(heap, d)
        /\ d \notin {session.document, session.frozen, job.doc, job.copy}
    BY <1>1, NewOwners
  <1> HIDE DEF v, d
  <1>3. /\ job' \in Jobs
        /\ job'.step = "adopt" /\ job'.committed = job.committed
        /\ job'.kind = job.kind /\ job'.doc = job.doc /\ job'.copy = job.copy
        /\ job'.vault = v /\ job'.source = job.source /\ job'.content = job.content
        /\ job'.version = job.version
    BY <1>1, <1>2 DEF Jobs, Steps
  <1>4. HeapOK(heap') /\ SessionOK' /\ RetiredOK' /\ JobOwnsOK' /\ OwnedOK'
    BY <1>1, <1>2, <1>3, ReadIsOwned
  <1>5. TypeOK'
    BY <1>1, <1>3, <1>4 DEF SessionInv, TypeOK, HeapOK
  <1>6. StepOK'
    <2>1. v # None /\ job.step = "pending" /\ job.kind \in {"open", "resume"} /\ StepOK
      BY <1>1, <1>2, ConstantFacts DEF SessionInv
    <2>2. job.kind # "none"
      BY <2>1
    <2> QED
      BY <1>3, <2>1, <2>2 DEF StepOK
  <1>7. OpeningOK'
    BY <1>1, <1>3 DEF SessionInv, OpeningOK
  <1>8. session = NoSession
    BY <1>1 DEF SessionInv, OpeningOK
  <1>9. WrittenOK' /\ VersionOK' /\ FrozenOK' /\ CleanOK' /\ SlotOK'
    BY <1>1, <1>3, <1>8, VersionsStay
       DEF WrittenOK, FrozenOK, CleanOK, CleanIsPublished, SlotOK, SlotIsResumable
  <1> QED
    BY <1>4, <1>5, <1>6, <1>7, <1>9 DEF SessionInv

\* The documents of the session are open or closing, so that they are not the new one.
LEMMA ReopenCandidateKept ==
    ASSUME SessionInv, ReopenCandidate
    PROVE  SessionInv'
  <1> DEFINE v == AnyOf(FreeVaults)
             d == AnyOf(FreeDocs)
  <1>1. /\ job.step = "reopen" /\ job.kind \in {"save", "rotate"} /\ job.vault = None
        /\ job \in Jobs /\ job.content \in SUBSET Edits /\ Active
        /\ FreeVaults # {} /\ FreeDocs # {}
        /\ heap' = Authenticated(heap, v, d, job.content)
        /\ job' = [job EXCEPT !.vault = v, !.step = "publish"]
        /\ UNCHANGED <<session, disk, count, made, harm>>
    <2>1. job.step = "reopen" /\ job.kind \in {"save", "rotate"}
      BY DEF SessionInv, StepOK, ReopenCandidate
    <2> QED
      BY <2>1 DEF SessionInv, TypeOK, StepOK, ReopenCandidate, Reads, Jobs
  <1>2. /\ v \in Vaults /\ ClosedVault(heap, v) /\ v \notin {session.opened, job.vault, job.source}
        /\ \A e \in Docs : Doc(e).vault # v
        /\ d \in Docs /\ ClosedDoc(heap, d)
        /\ d \notin {session.document, session.frozen, job.doc, job.copy}
    BY <1>1, NewOwners
  <1> HIDE DEF v, d
  <1>3. /\ job' \in Jobs
        /\ job'.step = "publish" /\ job'.committed = job.committed
        /\ job'.kind = job.kind /\ job'.doc = job.doc /\ job'.copy = job.copy
        /\ job'.vault = v /\ job'.source = job.source /\ job'.content = job.content
        /\ job'.version = job.version
    BY <1>1, <1>2 DEF Jobs, Steps
  <1>4. /\ HeapOK(heap') /\ SessionOK' /\ RetiredOK' /\ JobOwnsOK' /\ OwnedOK'
        /\ \A e \in Docs \ {d} : heap'.doc[e] = heap.doc[e]
    BY <1>1, <1>2, <1>3, ReadIsOwned
  <1>5. TypeOK'
    BY <1>1, <1>3, <1>4 DEF SessionInv, TypeOK, HeapOK
  <1>6. StepOK'
    BY ZenonT(40), <1>1, <1>2, <1>3, ConstantFacts DEF SessionInv, StepOK
  <1>7. OpeningOK' /\ VersionOK'
    BY <1>1, <1>3, VersionsStay DEF OpeningOK
  <1>8. FrozenOK'
    BY <1>1, <1>3 DEF SessionInv, FrozenOK
  <1>9. Content' = Content
    BY <1>1, <1>2, <1>4 DEF SessionInv, SessionOK
  <1>10. CleanOK' /\ SlotOK'
    BY <1>1, <1>3, <1>9, SlotStays DEF SessionInv, CleanOK, CleanIsPublished
  <1>11. WrittenOK'
    BY <1>1, <1>3, <1>9 DEF SessionInv, WrittenOK
  <1> QED
    BY <1>4, <1>5, <1>6, <1>7, <1>8, <1>10, <1>11 DEF SessionInv

-----------------------------------------------------------------------------
(* Freezing a revision and copying it *)

\* A revision is frozen, or a snapshot exported, with one fork of the document.
LEMMA FreezesKept ==
    ASSUME SessionInv, NEW kind \in {"save", "rotate", "suspend", "export"}, Freezes(kind)
    PROVE  SessionInv'
  <1> DEFINE r == AnyOf(FreeDocs)
  <1>1. /\ job = NoJob /\ Active /\ session.frozen = None /\ session.document \in Docs
        /\ Doc(session.document).state = "open"
        /\ Doc(session.document).vault = session.opened /\ session.opened \in Vaults
        /\ session \in Sessions /\ session.baseline \in Nat /\ FreeDocs # {}
        /\ count \in Counts
        /\ heap' = Retained(heap, session.document, r, Doc(session.document).pending,
                            Content)
        /\ job' = [NoJob EXCEPT !.kind = kind, !.step = "write", !.doc = r,
                                !.version = session.baseline]
        /\ session' = IF kind = "export" THEN session ELSE [session EXCEPT !.frozen = r]
        /\ count' = [count EXCEPT !.jobs = @ + 1]
        /\ UNCHANGED <<disk, made, harm>>
    <2>1. session \in Sessions /\ session.baseline \in Nat
      BY DEF SessionInv, TypeOK, Sessions
    <2> QED
      BY <2>1 DEF SessionInv, TypeOK, SessionOK, Freezes, Begins, Mutable
  <1>2. /\ r \in Docs /\ ClosedDoc(heap, r)
        /\ r \notin {session.document, session.frozen, job.doc, job.copy}
        /\ \A v \in Vaults : Vault(v).doc # r
    BY <1>1, NewOwners
  <1> HIDE DEF r
  <1>3. Forks(heap, heap', session.document, r, Content)
    <2>1. /\ HeapOK(heap)
          /\ Doc(session.document) \in DocStates /\ ~ClosedDoc(heap, session.document)
          /\ Doc(session.document).pending \cap Vaults \subseteq {Doc(session.document).vault}
      BY <1>1, HeapFacts, ConstantFacts DEF SessionInv
    <2>2. Doc(session.document).pending \in SUBSET Leaves /\ Content \in SUBSET Edits
      BY <2>1 DEF DocStates
    <2> QED
      BY <1>1, <1>2, <2>1, <2>2, RetainedForks
  <1>4. /\ HeapOK(heap') /\ heap'.vault = heap.vault
        /\ \A e \in Docs \ {r} : heap'.doc[e] = heap.doc[e]
        /\ heap'.doc[r].state = "open" /\ heap'.doc[r].vault = session.opened
        /\ heap'.doc[r].content = Content /\ ~ClosedDoc(heap', r)
    BY <1>1, <1>3 DEF Forks
  <1>5. \A e \in Docs : Original(heap', e) <=> Original(heap, e)
    BY <1>4 DEF Original
  <1>6. ~Original(heap, r)
    BY <1>2 DEF Original
  <1>7. /\ session' \in Sessions
        /\ session'.frozen = IF kind = "export" THEN None ELSE r
        /\ session'.opened = session.opened /\ session'.document = session.document
        /\ session'.retired = session.retired /\ session'.locked = session.locked
        /\ session'.changes = session.changes /\ session'.suspended = session.suspended
        /\ session'.base = session.base
        /\ session'.baseline = session.baseline /\ session'.removed = session.removed
    BY <1>1, <1>2 DEF Sessions
  <1>8. /\ job' \in Jobs
        /\ job'.kind = kind /\ job'.step = "write" /\ job'.doc = r /\ job'.copy = None
        /\ job'.vault = None /\ job'.source = None /\ ~job'.committed
        /\ job'.version = session.baseline
    BY <1>1, <1>2 DEF Jobs, Kinds, Steps
  <1>9. TypeOK'
    <2>1. count' \in Counts
      BY <1>1 DEF Counts
    <2> QED
      BY <1>1, <1>4, <1>7, <1>8, <2>1 DEF SessionInv, TypeOK, HeapOK
  <1>10. SessionOK'
    <2>1. Active' /\ "edit" \notin harm' => heap'.doc[session.document].state = "open"
      BY <1>1, <1>2, <1>4 DEF SessionInv, SessionOK
    <2>2. heap'.doc[session.document].vault = session.opened
      BY <1>1, <1>2, <1>4
    <2>3. session'.frozen # None => /\ session'.frozen = r
                                    /\ session'.frozen # session'.document
                                    /\ ~Original(heap', session'.frozen)
      BY <1>2, <1>5, <1>6, <1>7
    <2> QED
      BY <1>1, <1>4, <1>7, <2>1, <2>2, <2>3 DEF SessionInv, SessionOK
  <1>11. RetiredOK'
    <2>1. RetiredAre(heap, session, job)
      BY <1>1, RetiredFacts DEF SessionInv
    <2>2. RetiredAre(heap', session', job')
      BY <1>2, <1>4, <1>7, <1>8, <2>1, ConstantFacts DEF RetiredAre, ClosedDoc, ClosedVault
    <2> QED
      BY <1>7, <2>2, RetiredFacts
  <1>12. JobOwnsOK'
    <2>1. JobVaults' = {}
      BY <1>8
    <2>2. ExportDocs' = IF kind = "export" THEN {r} ELSE {}
      BY <1>2, <1>8, ConstantFacts
    <2>3. kind = "export" => /\ ~ClosedDoc(heap', r)
                             /\ ~Original(heap', r)
                             /\ r \notin {session'.document, session'.frozen}
      BY <1>1, <1>2, <1>4, <1>5, <1>6, <1>7, ConstantFacts
    <2> QED
      BY <1>8, <2>1, <2>2, <2>3 DEF JobOwnsOK
  <1>13. StepOK' /\ OpeningOK'
    BY <1>2, <1>8, ConstantFacts DEF StepOK, OpeningOK
  <1>14. FrozenOK'
    BY <1>7, <1>8 DEF FrozenOK
  <1>15. /\ heap'.doc[session.document] = heap.doc[session.document]
         /\ Content' = Content
    <2>1. heap'.doc[session.document] = heap.doc[session.document]
      BY <1>1, <1>2, <1>4
    <2> QED
      BY <1>7, <2>1
  <1>16. WrittenOK' /\ VersionOK'
    BY <1>1, <1>4, <1>7, <1>8, <1>15 DEF SessionInv, WrittenOK, VersionOK
  <1>17. CleanOK' /\ SlotOK'
    BY <1>1, <1>7, <1>8, <1>15, SlotStays DEF SessionInv, CleanOK, CleanIsPublished
  <1>18. OwnedOK'
    <2>1. count'.failures = count.failures
      BY <1>1
    <2>2. CASE count.failures = 0
      <3>1. session.retired = {} /\ AllKept(heap, session, job)
        BY <2>2, ForgottenFacts DEF SessionInv, OwnedOK
      <3>2. AllKept(heap', session', job')
        <4>1. ASSUME NEW e \in Docs \ {r}, ~ClosedDoc(heap', e)
              PROVE  e = session'.document \/ Original(heap', e)
          <5>1. ~ClosedDoc(heap, e)
            BY <1>4, <4>1 DEF ClosedDoc
          <5>2. e \notin {session.frozen, job.doc, job.copy}
            BY <1>1, ConstantFacts
          <5> QED
            BY <1>5, <1>7, <3>1, <5>1, <5>2 DEF AllKept
        <4>2. ASSUME NEW v \in Vaults, ~ClosedVault(heap', v)
              PROVE  v = session'.opened
          <5>1. ~ClosedVault(heap, v)
            BY <1>4, <4>2 DEF ClosedVault
          <5> QED
            BY <1>1, <1>7, <3>1, <5>1, ConstantFacts DEF AllKept
        <4> QED
          BY <1>8, <4>1, <4>2 DEF AllKept
      <3> QED
        BY <1>7, <1>8, <3>1, <3>2, ForgottenFacts DEF OwnedOK
    <2>3. CASE count.failures # 0
      BY <2>1, <2>3 DEF OwnedOK
    <2> QED
      BY <2>2, <2>3
  <1> QED
    BY <1>4, <1>9, <1>10, <1>11, <1>12, <1>13, <1>14, <1>16, <1>17, <1>18 DEF SessionInv

\* The second copy of an export belongs to it as the first does.
LEMMA CopyExportKept ==
    ASSUME SessionInv, CopyExport
    PROVE  SessionInv'
  <1> DEFINE r == AnyOf(FreeDocs)
  <1>1. /\ job.step = "write" /\ job.kind = "export" /\ job.doc \in Docs
        /\ job \in Jobs /\ session \in Sessions /\ FreeDocs # {}
        /\ job.copy = None /\ job.vault = None /\ job.source = None /\ ~job.committed
        /\ ~ClosedDoc(heap, job.doc) /\ ~Original(heap, job.doc)
        /\ job.doc \notin {session.document, session.frozen}
        /\ heap' = Retained(heap, job.doc, r, Doc(job.doc).pending, Doc(job.doc).content)
        /\ job' = [job EXCEPT !.copy = r, !.step = "copy"]
        /\ UNCHANGED <<session, disk, count, made, harm>>
    <2>1. /\ job.step = "write" /\ job.kind = "export" /\ job \in Jobs /\ job.doc # None
          /\ job.copy = None /\ job.vault = None /\ job.source = None /\ ~job.committed
      BY DEF SessionInv, TypeOK, StepOK, CopyExport
    <2>2. job.doc \in ExportDocs
      BY <2>1
    <2> QED
      BY <2>1, <2>2 DEF SessionInv, TypeOK, JobOwnsOK, CopyExport, Jobs
  <1>2. /\ r \in Docs /\ ClosedDoc(heap, r)
        /\ r \notin {session.document, session.frozen, job.doc}
        /\ \A v \in Vaults : Vault(v).doc # r
    BY <1>1, NewOwners
  <1> HIDE DEF r
  <1>3. Forks(heap, heap', job.doc, r, Doc(job.doc).content)
    <2>1. /\ HeapOK(heap) /\ heap.doc[job.doc] \in DocStates
          /\ heap.doc[job.doc].pending \cap Vaults \subseteq {heap.doc[job.doc].vault}
      BY <1>1, HeapFacts, ConstantFacts DEF SessionInv
    <2>2. heap.doc[job.doc].pending \in SUBSET Leaves /\ heap.doc[job.doc].content \in SUBSET Edits
      BY <2>1 DEF DocStates
    <2> QED
      BY <1>1, <1>2, <2>1, <2>2, RetainedForks
  <1>4. /\ HeapOK(heap') /\ heap'.vault = heap.vault
        /\ \A e \in Docs \ {r} : heap'.doc[e] = heap.doc[e]
        /\ ~ClosedDoc(heap', r)
    BY <1>3 DEF Forks
  <1>5. \A e \in Docs : Original(heap', e) <=> Original(heap, e)
    BY <1>4 DEF Original
  <1>6. ~Original(heap, r)
    BY <1>2 DEF Original
  <1>7. /\ job' \in Jobs
        /\ job'.kind = "export" /\ job'.step = "copy" /\ job'.doc = job.doc /\ job'.copy = r
        /\ job'.vault = None /\ job'.source = None /\ ~job'.committed
        /\ job'.version = job.version
    BY <1>1, <1>2 DEF Jobs, Steps
  <1>8. TypeOK'
    BY <1>1, <1>4, <1>7 DEF SessionInv, TypeOK, HeapOK
  <1>9. SessionOK'
    BY <1>1, <1>2, <1>4, <1>5 DEF SessionInv, SessionOK, Sessions
  <1>10. RetiredOK'
    <2>1. RetiredAre(heap, session, job)
      BY <1>1, RetiredFacts DEF SessionInv
    <2>2. RetiredAre(heap', session', job')
      <3>1. ASSUME NEW e \in Docs, DocOwner(e) \in session.retired
            PROVE  /\ ~ClosedDoc(heap', e)
                   /\ heap'.doc[e].vault # session.opened
                   /\ e \notin {job.doc, r}
                   /\ \A v \in Vaults : heap'.vault[v].doc = e => VaultOwner(v) \in session.retired
        BY ZenonT(40), <1>1, <1>2, <1>4, <2>1, <3>1 DEF RetiredAre, ClosedDoc
      <3>2. ASSUME NEW v \in Vaults, VaultOwner(v) \in session.retired
            PROVE  ~ClosedVault(heap', v) /\ v # session.opened /\ v # None
        BY <1>4, <2>1, <3>2, ConstantFacts DEF RetiredAre, ClosedVault
      <3> QED
        BY <1>1, <1>7, <3>1, <3>2 DEF RetiredAre
    <2> QED
      BY <1>1, <2>2, RetiredFacts
  <1>11. JobOwnsOK'
    <2>1. JobVaults' = {}
      BY <1>7
    <2>2. ExportDocs' = {job.doc, r}
      BY <1>1, <1>2, <1>7, ConstantFacts
    <2>3. \A e \in {job.doc, r} : /\ ~ClosedDoc(heap', e)
                            /\ ~Original(heap', e)
                            /\ e \notin {session'.document, session'.frozen}
      BY <1>1, <1>2, <1>4, <1>5, <1>6 DEF ClosedDoc
    <2> QED
      BY <1>7, <2>1, <2>2, <2>3 DEF JobOwnsOK
  <1>12. StepOK' /\ OpeningOK' /\ WrittenOK'
    BY ZenonT(40), <1>1, <1>2, <1>7, ConstantFacts DEF StepOK, OpeningOK, WrittenOK
  <1>17. VersionOK'
    BY <1>1, <1>7, VersionsStay
  <1>13. FrozenOK'
    BY <1>1, <1>7 DEF SessionInv, FrozenOK
  <1>14. Active => Content' = Content
    BY <1>1, <1>2, <1>4 DEF SessionInv, SessionOK
  <1>15. CleanOK' /\ SlotOK'
    BY <1>1, <1>7, <1>14, SlotStays DEF SessionInv, CleanOK, CleanIsPublished
  <1>16. OwnedOK'
    <2>1. CASE count.failures = 0
      <3>1. session.retired = {} /\ AllKept(heap, session, job)
        BY <2>1, ForgottenFacts DEF SessionInv, OwnedOK
      <3>2. AllKept(heap', session', job')
        <4>1. ASSUME NEW e \in Docs \ {r}, ~ClosedDoc(heap', e)
              PROVE  e \in {session.document, session.frozen, job.doc} \/ Original(heap', e)
          <5>1. ~ClosedDoc(heap, e)
            BY <1>4, <4>1 DEF ClosedDoc
          <5> QED
            BY <1>1, <1>5, <3>1, <5>1, ConstantFacts DEF AllKept
        <4>2. ASSUME NEW v \in Vaults, ~ClosedVault(heap', v)
              PROVE  v = session.opened
          <5>1. ~ClosedVault(heap, v)
            BY <1>4, <4>2 DEF ClosedVault
          <5> QED
            BY <1>1, <3>1, <5>1, ConstantFacts DEF AllKept
        <4> QED
          BY <1>1, <1>7, <4>1, <4>2 DEF AllKept
      <3> QED
        BY <1>1, <1>7, <3>1, <3>2, ForgottenFacts DEF OwnedOK
    <2>2. CASE count.failures # 0
      BY <1>1, <2>2 DEF OwnedOK
    <2> QED
      BY <2>1, <2>2
  <1> QED
    BY <1>4, <1>8, <1>9, <1>10, <1>11, <1>12, <1>13, <1>15, <1>16, <1>17 DEF SessionInv

-----------------------------------------------------------------------------
(* Closing the session and its frozen revision *)

\* What is closed stays closed, and nothing but the documents D and the vaults W
\* is touched.
Spares(h, g, D, W) ==
    /\ HeapOK(g)
    /\ \A d \in Docs \ D : g.doc[d] = h.doc[d]
    /\ \A d \in Docs : ~ClosedDoc(g, d) => /\ ~ClosedDoc(h, d)
                                           /\ g.doc[d].vault = h.doc[d].vault
                                           /\ g.doc[d].content = h.doc[d].content
    /\ \A v \in Vaults : g.vault[v].doc # None => g.vault[v].doc = h.vault[v].doc
    /\ \A v \in Vaults : h.vault[v].doc # None /\ h.vault[v].doc \notin D
                            => g.vault[v].doc = h.vault[v].doc
    /\ \A v \in Vaults : h.vault[v].doc # None /\ ~ClosedDoc(g, h.vault[v].doc)
                            => g.vault[v].doc = h.vault[v].doc
    /\ \A v \in Vaults : h.vault[v].doc # None /\ g.vault[v].doc = None
                            => ClosedDoc(g, h.vault[v].doc)
    /\ \A v \in Vaults \ W : /\ g.vault[v].keys = h.vault[v].keys
                             /\ g.vault[v].snapshot = h.vault[v].snapshot
    /\ \A v \in Vaults \ W : h.vault[v].doc \notin D => g.vault[v] = h.vault[v]
    /\ \A v \in Vaults : ~ClosedVault(g, v) => ~ClosedVault(h, v)
    /\ \A d \in Docs : Original(g, d) => Original(h, d)
    /\ \A d \in Docs : Original(h, d) /\ ~ClosedDoc(g, d) => Original(g, d)

\* What later proofs need of a close.
LEMMA ClosesFacts ==
    ASSUME NEW h, NEW g, NEW D \in SUBSET Docs, NEW W \in SUBSET Vaults,
           HeapOK(h), Closes(h, g, D, W)
    PROVE  Spares(h, g, D, W)
  <1>1. /\ HeapOK(g)
        /\ \A d \in Docs \ D : g.doc[d] = h.doc[d]
        /\ \A v \in Vaults \ W : /\ g.vault[v].keys = h.vault[v].keys
                                 /\ g.vault[v].snapshot = h.vault[v].snapshot
    BY DEF Closes
  <1>2. ASSUME NEW d \in Docs, ~ClosedDoc(g, d)
        PROVE  /\ ~ClosedDoc(h, d)
               /\ g.doc[d].vault = h.doc[d].vault
               /\ g.doc[d].content = h.doc[d].content
    BY <1>1, <1>2 DEF Closes, ClosedDoc
  <1>3. ASSUME NEW v \in Vaults
        PROVE  /\ g.vault[v].doc # None => g.vault[v].doc = h.vault[v].doc
               /\ h.vault[v].doc # None /\ h.vault[v].doc \notin D => g.vault[v].doc = h.vault[v].doc
               /\ h.vault[v].doc # None /\ ~ClosedDoc(g, h.vault[v].doc)
                     => g.vault[v].doc = h.vault[v].doc
               /\ h.vault[v].doc # None /\ g.vault[v].doc = None => ClosedDoc(g, h.vault[v].doc)
    BY DEF Closes
  <1>4. ASSUME NEW v \in Vaults, ClosedVault(h, v)
        PROVE  ClosedVault(g, v)
    <2>1. h.vault[v].doc = None /\ h.vault[v].keys = FALSE /\ h.vault[v].snapshot = FALSE
      BY <1>4, ConstantFacts DEF ClosedVault
    <2>2. g.vault[v].doc = None
      BY <1>3, <2>1
    <2>3. ~g.vault[v].keys /\ ~g.vault[v].snapshot
      BY <2>1 DEF Closes
    <2>4. g.vault[v] \in [doc : Docs \cup {None}, keys : BOOLEAN, snapshot : BOOLEAN]
      BY <1>1, HeapFacts
    <2> QED
      BY <2>2, <2>3, <2>4 DEF ClosedVault, NoVault
  <1>5. ASSUME NEW d \in Docs
        PROVE  /\ Original(g, d) => Original(h, d)
               /\ Original(h, d) /\ ~ClosedDoc(g, d) => Original(g, d)
    BY <1>3, ConstantFacts DEF Original
  <1>6. ASSUME NEW v \in Vaults \ W, h.vault[v].doc \notin D
        PROVE  g.vault[v] = h.vault[v]
    <2>1. /\ g.vault[v].doc = h.vault[v].doc
          /\ g.vault[v].keys = h.vault[v].keys
          /\ g.vault[v].snapshot = h.vault[v].snapshot
      BY <1>6 DEF Closes
    <2>2. /\ h.vault[v] \in [doc : Docs \cup {None}, keys : BOOLEAN, snapshot : BOOLEAN]
          /\ g.vault[v] \in [doc : Docs \cup {None}, keys : BOOLEAN, snapshot : BOOLEAN]
      BY <1>1, HeapFacts
    <2> QED
      BY <2>1, <2>2
  <1> QED
    BY <1>1, <1>2, <1>3, <1>4, <1>5, <1>6 DEF Spares

\* Two closes in a row are one.
LEMMA ClosesCompose ==
    ASSUME NEW h, NEW f, NEW g, NEW D \in SUBSET Docs, NEW E \in SUBSET Docs,
           NEW W \in SUBSET Vaults,
           HeapOK(h), Closes(h, f, D, {}), Closes(f, g, E, W)
    PROVE  Closes(h, g, D \cup E, W)
  <1>1. HeapOK(f) /\ HeapOK(g)
    BY DEF Closes
  <1>0. Spares(f, g, E, W)
    BY <1>1, ClosesFacts
  <1>2. \A d \in Docs \ (D \cup E) : g.doc[d] = h.doc[d]
    BY DEF Closes
  <1>3. ASSUME NEW d \in D \cup E
        PROVE  \/ ClosedDoc(g, d)
               \/ /\ ~ClosedDoc(h, d)
                  /\ ~ClosedDoc(g, d)
                  /\ g.doc[d].vault = h.doc[d].vault
                  /\ g.doc[d].content = h.doc[d].content
    <2>1. ~ClosedDoc(g, d) => /\ ~ClosedDoc(f, d)
                              /\ g.doc[d].vault = f.doc[d].vault
                              /\ g.doc[d].content = f.doc[d].content
      BY <1>0 DEF Spares
    <2>2. ~ClosedDoc(f, d) => /\ ~ClosedDoc(h, d)
                              /\ f.doc[d].vault = h.doc[d].vault
                              /\ f.doc[d].content = h.doc[d].content
      BY DEF Closes, ClosedDoc
    <2> QED
      BY <2>1, <2>2
  <1>4. ASSUME NEW v \in Vaults
        PROVE  /\ g.vault[v].doc = IF h.vault[v].doc \in D \cup E /\ ClosedDoc(g, h.vault[v].doc)
                                   THEN None ELSE h.vault[v].doc
               /\ v \notin W => /\ g.vault[v].keys = h.vault[v].keys
                                /\ g.vault[v].snapshot = h.vault[v].snapshot
               /\ g.vault[v].keys => h.vault[v].keys
               /\ g.vault[v].snapshot => h.vault[v].snapshot
    <2>1. /\ f.vault[v].doc = IF h.vault[v].doc \in D /\ ClosedDoc(f, h.vault[v].doc)
                              THEN None ELSE h.vault[v].doc
          /\ f.vault[v].keys = h.vault[v].keys
          /\ f.vault[v].snapshot = h.vault[v].snapshot
          /\ g.vault[v].doc = IF f.vault[v].doc \in E /\ ClosedDoc(g, f.vault[v].doc)
                              THEN None ELSE f.vault[v].doc
          /\ v \notin W => /\ g.vault[v].keys = f.vault[v].keys
                           /\ g.vault[v].snapshot = f.vault[v].snapshot
          /\ g.vault[v].keys => f.vault[v].keys
          /\ g.vault[v].snapshot => f.vault[v].snapshot
      BY DEF Closes
    <2>2. \A d \in Docs : ~ClosedDoc(g, d) => ~ClosedDoc(f, d)
      BY <1>0 DEF Spares
    <2>3. \A d \in Docs \ E : g.doc[d] = f.doc[d]
      BY DEF Closes
    <2>4. h.vault[v].doc \in Docs \cup {None}
      BY HeapFacts
    <2>5. g.vault[v].doc = IF h.vault[v].doc \in D \cup E /\ ClosedDoc(g, h.vault[v].doc)
                           THEN None ELSE h.vault[v].doc
      <3>1. CASE h.vault[v].doc \in D /\ ClosedDoc(f, h.vault[v].doc)
        BY <2>1, <2>2, <3>1, ConstantFacts
      <3>2. CASE ~(h.vault[v].doc \in D /\ ClosedDoc(f, h.vault[v].doc))
        <4>1. h.vault[v].doc \in D \ E => ~ClosedDoc(g, h.vault[v].doc)
          BY <2>3, <3>2 DEF ClosedDoc
        <4>2. f.vault[v].doc = h.vault[v].doc
          BY <2>1, <3>2
        <4> QED
          BY <2>1, <4>1, <4>2
      <3> QED
        BY <3>1, <3>2
    <2> QED
      BY <2>1, <2>5
  <1> QED
    BY <1>1, <1>2, <1>3, <1>4 DEF Closes

\* What remains of the owners that are closed, and the documents closed with them.
LEMMA RemainingFacts ==
    ASSUME NEW h, HeapOK(h), NEW owners \in SUBSET Owners, NEW F
    PROVE  /\ \A d \in Docs : DocOwner(d) \in Remaining(CloseAll(h, owners, F), owners) <=>
                DocOwner(d) \in owners /\ ~ClosedDoc(CloseAll(h, owners, F), d)
           /\ \A v \in Vaults : VaultOwner(v) \in Remaining(CloseAll(h, owners, F), owners) <=>
                VaultOwner(v) \in owners /\ ~ClosedVault(CloseAll(h, owners, F), v)
           /\ Remaining(CloseAll(h, owners, F), owners) \in SUBSET Owners
           /\ Remaining(CloseAll(h, owners, F), owners) = {} =>
                \A d \in Closing(h, owners) : ClosedDoc(CloseAll(h, owners, F), d)
  <1> DEFINE g == CloseAll(h, owners, F)
  <1>1. Closes(h, g, Closing(h, owners), {v \in Vaults : VaultOwner(v) \in owners})
    BY ClosesAll
  <1> HIDE DEF g
  <1>2. \A d \in Docs : DocOwner(d) \in Remaining(g, owners) <=>
                           DocOwner(d) \in owners /\ ~ClosedDoc(g, d)
    BY OwnerFacts DEF Remaining, ClosedOwner
  <1>3. \A v \in Vaults : VaultOwner(v) \in Remaining(g, owners) <=>
                             VaultOwner(v) \in owners /\ ~ClosedVault(g, v)
    BY OwnerFacts DEF Remaining, ClosedOwner
  <1>4. ASSUME Remaining(g, owners) = {}, NEW d \in Closing(h, owners)
        PROVE  ClosedDoc(g, d)
    <2>1. CASE DocOwner(d) \in owners
      BY <1>2, <1>4, <2>1 DEF Closing
    <2>2. ASSUME NEW v \in Vaults, VaultOwner(v) \in owners, h.vault[v].doc = d
          PROVE  ClosedDoc(g, d)
      <3>1. g.vault[v].doc = None
        BY <1>3, <1>4, <2>2, ConstantFacts DEF ClosedVault
      <3> QED
        BY <1>1, <2>2, <3>1, ConstantFacts DEF Closes, Closing
    <2> QED
      BY <2>1, <2>2 DEF Closing
  <1> QED
    BY <1>2, <1>3, <1>4 DEF g, Remaining

\* A close that fails is counted.
LEMMA CountedFacts ==
    ASSUME NEW h, NEW owners, count \in Counts, Counted(h, owners)
    PROVE  /\ count' \in Counts
           /\ count'.failures = 0 => count.failures = 0 /\ Remaining(h, owners) = {}
  <1> DEFINE next == count.failures + IF Remaining(h, owners) = {} THEN 0 ELSE 1
  <1>1. next \in Nat /\ count.failures \in Nat
    BY DEF Counts
  <1>2. count' = [count EXCEPT !.failures = next]
    BY DEF Counted
  <1>3. count'.failures = next
    BY <1>2 DEF Counts
  <1>4. count' \in Counts
    <2> HIDE DEF next
    <2> QED
      BY <1>1, <1>2 DEF Counts
  <1> QED
    BY <1>1, <1>3, <1>4

\* Locking closes the document, the frozen revision and the vault of the session
\* and what it has retired; what remains of them is retired.  None of it belongs to
\* the operation under way.
Locks(D, W, R) ==
    /\ Closes(heap, heap', D, W)
    /\ \A d \in D : \/ d \in {session.document, session.frozen}
                    \/ DocOwner(d) \in session.retired
                    \/ \E v \in W : Vault(v).doc = d
    /\ \A v \in Vaults : v \in W <=> v = session.opened \/ VaultOwner(v) \in session.retired
    /\ \A d \in Docs : DocOwner(d) \in R =>
         /\ ~ClosedDoc(heap', d)
         /\ d \in {session.document, session.frozen} \/ DocOwner(d) \in session.retired
    /\ \A v \in Vaults : VaultOwner(v) \in R <=> v \in W /\ ~ClosedVault(heap', v)
    /\ count' \in Counts
    /\ count'.failures = 0 =>
         /\ count.failures = 0
         /\ R = {}
         /\ \A d \in Docs : d \in {session.document, session.frozen} => ClosedDoc(heap', d)
         /\ session.opened # None => ClosedVault(heap', session.opened)
    /\ session' = [NoSession EXCEPT !.retired = R]
    /\ UNCHANGED <<disk, made, harm>>
    /\ \/ job' = job
       \/ job.kind = "suspend" /\ job' = [job EXCEPT !.committed = TRUE, !.step = "end"]

\* A session that is locked keeps what could not be closed, and nothing else.
LEMMA LockedKept ==
    ASSUME SessionInv, session # NoSession,
           NEW D \in SUBSET Docs, NEW W \in SUBSET Vaults, NEW R \in SUBSET Owners,
           Locks(D, W, R)
    PROVE  SessionInv'
  <1>1. /\ HeapOK(heap) /\ session \in Sessions /\ job \in Jobs
        /\ session.opened # None => session.opened \in Vaults
        /\ session.document # None => Doc(session.document).vault = session.opened
        /\ session.frozen # None =>
             /\ Doc(session.frozen).vault = session.opened
             /\ ~Original(heap, session.frozen)
    BY ConstantFacts DEF SessionInv, TypeOK, SessionOK, Sessions
  <1>2. /\ HeapOK(heap')
        /\ \A d \in Docs \ D : heap'.doc[d] = heap.doc[d]
        /\ \A d \in Docs : ~ClosedDoc(heap', d) => /\ ~ClosedDoc(heap, d)
                                                   /\ heap'.doc[d].vault = heap.doc[d].vault
                                                   /\ heap'.doc[d].content = heap.doc[d].content
        /\ \A v \in Vaults : heap'.vault[v].doc # None => heap'.vault[v].doc = heap.vault[v].doc
        /\ \A v \in Vaults : heap.vault[v].doc # None /\ heap.vault[v].doc \notin D
                                => heap'.vault[v].doc = heap.vault[v].doc
        /\ \A v \in Vaults : ~ClosedVault(heap', v) => ~ClosedVault(heap, v)
        /\ \A d \in Docs : Original(heap', d) => Original(heap, d)
        /\ \A d \in Docs : Original(heap, d) /\ ~ClosedDoc(heap', d) => Original(heap', d)
    <2>1. Spares(heap, heap', D, W)
      BY <1>1, ClosesFacts DEF Locks
    <2> QED
      BY <2>1 DEF Spares
  <1>3. \A v \in Vaults : heap.vault[v].doc # None => heap.vault[v].doc \in Docs
    BY <1>1, HeapFacts
  <1>4. /\ session' \in Sessions
        /\ session'.opened = None /\ session'.document = None /\ session'.frozen = None
        /\ session'.retired = R /\ session'.locked /\ session'.baseline = 0
        /\ session' = [NoSession EXCEPT !.retired = R]
        /\ UNCHANGED <<disk, made, harm>>
    BY DEF Locks, Sessions
  <1>5. /\ job' \in Jobs
        /\ job'.kind = job.kind /\ job'.doc = job.doc /\ job'.copy = job.copy
        /\ job'.vault = job.vault /\ job'.source = job.source /\ job'.content = job.content
        /\ job'.version = job.version
        /\ job' = job \/ (job.kind = "suspend" /\ job'.committed /\ job'.step = "end")
    <2>1. CASE job' = job
      BY <1>1, <2>1
    <2>2. CASE job.kind = "suspend" /\ job' = [job EXCEPT !.committed = TRUE, !.step = "end"]
      BY <1>1, <2>2 DEF Jobs, Steps
    <2> QED
      BY <2>1, <2>2 DEF Locks
  <1>6. RetiredAre(heap, session, job)
    BY <1>1, RetiredFacts DEF SessionInv
  <1>7. TypeOK'
    BY SMTT(30), <1>2, <1>4, <1>5 DEF SessionInv, TypeOK, HeapOK, Locks
  <1>8. SessionOK'
    BY <1>4 DEF SessionOK
  <1>9. RetiredOK'
    <2>1. ASSUME NEW d \in Docs, DocOwner(d) \in R
          PROVE  /\ ~ClosedDoc(heap', d)
                 /\ heap'.doc[d].vault # None
                 /\ job.kind = "export" => d \notin {job.doc, job.copy}
      <3>1. ~ClosedDoc(heap', d) /\ heap'.doc[d].vault # None
        BY <1>2, <2>1, HeapFacts DEF Locks
      <3>2. d \in {session.document, session.frozen} => d \notin ExportDocs
        BY DEF SessionInv, JobOwnsOK
      <3>3. DocOwner(d) \in session.retired /\ job.kind = "export" => d \notin {job.doc, job.copy}
        BY <1>6 DEF RetiredAre
      <3> QED
        BY <2>1, <3>1, <3>2, <3>3, ConstantFacts DEF Locks
    <2>2. ASSUME NEW d \in Docs, DocOwner(d) \in R, NEW v \in Vaults, heap'.vault[v].doc = d
          PROVE  VaultOwner(v) \in R
      <3>1. heap.vault[v].doc = d /\ heap.doc[d].vault = v
        BY <1>1, <1>2, <2>2, HeapFacts, ConstantFacts
      <3>2. v = session.opened \/ VaultOwner(v) \in session.retired
        BY <1>1, <1>6, <2>2, <3>1, ConstantFacts DEF RetiredAre, Locks
      <3>3. ~ClosedVault(heap', v)
        BY <2>2, ConstantFacts DEF ClosedVault
      <3> QED
        BY <3>2, <3>3 DEF Locks
    <2>3. ASSUME NEW v \in Vaults, VaultOwner(v) \in R
          PROVE  /\ ~ClosedVault(heap', v)
                 /\ v \notin {job.vault, job.source}
      <3>1. /\ v = session.opened \/ VaultOwner(v) \in session.retired
            /\ ~ClosedVault(heap', v)
        BY <2>3 DEF Locks
      <3>2. session.opened # None => session.opened \notin JobVaults
        BY DEF SessionInv, JobOwnsOK
      <3> QED
        BY <1>6, <2>3, <3>1, <3>2, ConstantFacts DEF RetiredAre
    <2>4. RetiredAre(heap', session', job')
      BY <1>4, <1>5, <2>1, <2>2, <2>3, ConstantFacts DEF RetiredAre
    <2> QED
      BY <1>4, <2>4, RetiredFacts
  <1>10. JobOwnsOK'
    <2>1. ASSUME NEW d \in ExportDocs
          PROVE  ~ClosedDoc(heap', d) /\ ~Original(heap', d) /\ d \in Docs
      <3>1. /\ d \in Docs /\ ~ClosedDoc(heap, d) /\ ~Original(heap, d)
            /\ d \notin {session.document, session.frozen}
            /\ job.kind = "export" /\ d \in {job.doc, job.copy}
        BY <1>1 DEF SessionInv, JobOwnsOK, Jobs
      <3>2. d \notin D
        BY <1>6, <3>1 DEF RetiredAre, Original, Locks
      <3> QED
        BY <1>2, <3>1, <3>2 DEF ClosedDoc
    <2>2. ASSUME NEW v \in JobVaults
          PROVE  /\ v \in Vaults /\ heap'.vault[v].doc = heap.vault[v].doc
                 /\ heap.vault[v].doc \in Docs
                 /\ heap'.doc[heap.vault[v].doc] = heap.doc[heap.vault[v].doc]
                 /\ heap.doc[heap.vault[v].doc].state = "open"
                 /\ \A d \in Docs : heap'.doc[d].vault = v => d = heap.vault[v].doc
      <3>1. /\ v \in Vaults /\ v # session.opened /\ heap.vault[v].doc \in Docs
            /\ heap.vault[v].doc # None
            /\ heap.doc[heap.vault[v].doc].vault = v
            /\ heap.doc[heap.vault[v].doc].state = "open"
            /\ \A d \in Docs : heap.doc[d].vault = v => d = heap.vault[v].doc
            /\ VaultOwner(v) \notin session.retired
        BY SMTT(30), <1>1, <1>3, <1>6, HeapFacts DEF SessionInv, JobOwnsOK, Jobs, RetiredAre
      <3>2. heap.vault[v].doc \notin D
        <4>1. heap.vault[v].doc \notin {session.document, session.frozen}
          BY <1>1, <3>1
        <4>2. DocOwner(heap.vault[v].doc) \notin session.retired
          BY <1>6, <3>1 DEF RetiredAre
        <4>3. \A w \in W : heap.vault[w].doc # heap.vault[v].doc
          <5>1. v \notin W
            BY <3>1 DEF Locks
          <5> QED
            BY <1>1, <3>1, <5>1, HeapFacts
        <4> QED
          BY <4>1, <4>2, <4>3 DEF Locks
      <3>3. \A d \in Docs : heap'.doc[d].vault = v => heap.doc[d].vault = v
        BY <1>2, <3>1, HeapFacts, ConstantFacts
      <3> QED
        BY <1>2, <3>1, <3>2, <3>3
    <2>3. ExportDocs' = ExportDocs /\ JobVaults' = JobVaults
      BY <1>5
    <2>4. job.vault # None =>
            /\ job.vault # job.source
            /\ heap.doc[heap.vault[job.vault].doc].content = job.content
            /\ job.vault \in JobVaults
      BY DEF SessionInv, JobOwnsOK
    <2>5. job'.vault # None =>
            /\ job'.vault # job'.source
            /\ heap'.doc[heap'.vault[job'.vault].doc].content = job'.content
      BY <1>5, <2>2, <2>4
    <2> QED
      <3>1. \A d \in ExportDocs' : /\ ~ClosedDoc(heap', d)
                                   /\ ~Original(heap', d)
                                   /\ d \notin {session'.document, session'.frozen}
        BY <1>4, <2>1, <2>3, ConstantFacts
      <3>2. \A v \in JobVaults' : /\ v # session'.opened
                                  /\ heap'.vault[v].doc # None
                                  /\ heap'.doc[heap'.vault[v].doc].state = "open"
                                  /\ \A d \in Docs : heap'.doc[d].vault = v => d = heap'.vault[v].doc
        BY SMTT(30), <1>4, <2>2, <2>3, ConstantFacts
      <3> QED
        BY <2>5, <3>1, <3>2 DEF JobOwnsOK
  <1>11. StepOK'
    BY <1>5 DEF SessionInv, StepOK
  <1>12. OpeningOK'
    BY <1>4, <1>5 DEF SessionInv, OpeningOK
  <1>13. FrozenOK' /\ WrittenOK' /\ CleanOK' /\ SlotOK'
    BY <1>4 DEF FrozenOK, WrittenOK, CleanOK, CleanIsPublished, SlotOK, SlotIsResumable
  <1>15. VersionOK'
    <2>1. job'.step = "end" \/ job' = job
      BY <1>5
    <2> QED
      BY <1>4, <1>5, <2>1, VersionsStay
  <1>14. OwnedOK'
    <2>1. CASE count'.failures = 0
      <3>1. /\ session.retired = {} /\ AllKept(heap, session, job)
            /\ Saving => ClosedDoc(heap, job.doc) \/ session.frozen = job.doc
        BY <2>1, ForgottenFacts DEF SessionInv, OwnedOK, Locks
      <3>2. ASSUME NEW d \in Docs, ~ClosedDoc(heap', d)
            PROVE  d \in {job.doc, job.copy} \/ Original(heap', d)
        BY <1>2, <2>1, <3>1, <3>2 DEF AllKept, Locks
      <3>3. ASSUME NEW v \in Vaults, ~ClosedVault(heap', v)
            PROVE  v \in {job.vault, job.source}
        <4>1. v # session.opened
          BY <2>1, <3>3, ConstantFacts DEF Locks
        <4> QED
          BY <1>2, <3>1, <3>3, <4>1 DEF AllKept
      <3>4. AllKept(heap', session', job')
        BY <1>4, <1>5, <3>2, <3>3 DEF AllKept
      <3>5. Saving => job.doc \in Docs
        BY <1>1 DEF SessionInv, StepOK, Jobs
      <3>6. Saving => ClosedDoc(heap', job.doc)
        BY <1>2, <2>1, <3>1, <3>5 DEF Locks
      <3> QED
        BY <1>4, <1>5, <2>1, <3>4, <3>6, ForgottenFacts DEF OwnedOK, Locks
    <2>2. CASE count'.failures # 0
      BY <2>2 DEF OwnedOK
    <2> QED
      BY <2>1, <2>2
  <1> QED
    BY <1>2, <1>7, <1>8, <1>9, <1>10, <1>11, <1>12, <1>13, <1>14, <1>15 DEF SessionInv

\* What lock, discard_and_lock and _finish_suspend close, after the documents D.
Disposes(h, D, owners) ==
    /\ HeapOK(h)
    /\ D \in SUBSET Docs
    /\ D \subseteq {session.document, session.frozen}
    /\ Closes(heap, h, D, {})
    /\ owners \in SUBSET Owners
    /\ \A d \in Docs : DocOwner(d) \in owners =>
         d \in {session.document, session.frozen} \/ DocOwner(d) \in session.retired
    /\ \A v \in Vaults : VaultOwner(v) \in owners <=>
         v = session.opened \/ VaultOwner(v) \in session.retired
    /\ \A d \in Docs : d \in {session.document, session.frozen} =>
         \/ ClosedDoc(h, d)
         \/ DocOwner(d) \in owners
         \/ session.opened \in Vaults /\ h.vault[session.opened].doc = d

\* A frozen revision that has been closed, or joins the owners, then is locked too.
LEMMA DisposesLocks ==
    ASSUME SessionInv, session # NoSession, NEW h, NEW D, NEW owners, NEW F, Disposes(h, D, owners),
           Locked(h, owners, F), UNCHANGED <<disk, made, harm>>,
           \/ job' = job
           \/ job.kind = "suspend" /\ job' = [job EXCEPT !.committed = TRUE, !.step = "end"]
    PROVE  SessionInv'
  <1> DEFINE g == CloseAll(h, owners, F)
             E == Closing(h, owners)
             W == {v \in Vaults : VaultOwner(v) \in owners}
             R == Remaining(g, owners)
  <1>1. /\ HeapOK(heap) /\ HeapOK(h) /\ D \in SUBSET Docs /\ owners \in SUBSET Owners
        /\ E \in SUBSET Docs /\ W \in SUBSET Vaults
        /\ Closes(heap, h, D, {}) /\ Closes(h, g, E, W)
        /\ count \in Counts
    <2>1. HeapOK(h) /\ D \in SUBSET Docs /\ owners \in SUBSET Owners /\ Closes(heap, h, D, {})
      BY DEF Disposes
    <2>2. Closes(h, g, E, W)
      BY <2>1, ClosesAll
    <2> QED
      BY <2>1, <2>2 DEF SessionInv, TypeOK, Closing
  <1>2. /\ heap' = g /\ session' = [NoSession EXCEPT !.retired = R] /\ Counted(g, owners)
    BY DEF Locked
  <1>3. /\ \A d \in Docs : DocOwner(d) \in R <=> DocOwner(d) \in owners /\ ~ClosedDoc(g, d)
        /\ \A v \in Vaults : VaultOwner(v) \in R <=> VaultOwner(v) \in owners /\ ~ClosedVault(g, v)
        /\ R \in SUBSET Owners
        /\ R = {} => \A d \in E : ClosedDoc(g, d)
    BY <1>1, RemainingFacts
  <1>4. /\ count' \in Counts
        /\ count'.failures = 0 => count.failures = 0 /\ R = {}
    BY <1>1, <1>2, CountedFacts
  <1>5. \A d \in E : \/ DocOwner(d) \in owners
                     \/ \E v \in W : h.vault[v].doc = d
    BY DEF Closing
  <1>6. \A v \in W : h.vault[v].doc \in E \cup {None}
    BY <1>1, HeapFacts DEF Closing
  <1> HIDE DEF g, E, W, R
  <1>7. /\ Closes(heap, g, D \cup E, W)
        /\ Spares(h, g, E, W)
    BY <1>1, ClosesCompose, ClosesFacts
  <1>8. \A v \in Vaults : h.vault[v].doc # None => h.vault[v].doc = heap.vault[v].doc
    BY <1>1 DEF Closes
  <1>9. \A d \in D \cup E : \/ d \in {session.document, session.frozen}
                            \/ DocOwner(d) \in session.retired
                            \/ \E v \in W : Vault(v).doc = d
    BY <1>1, <1>5, <1>8, ConstantFacts DEF Disposes
  <1>10. \A v \in Vaults : v \in W <=> VaultOwner(v) \in owners
    BY DEF W
  <1>11. ASSUME R = {}, NEW d \in Docs, d \in {session.document, session.frozen}
         PROVE  ClosedDoc(g, d)
    <2>1. CASE ClosedDoc(h, d)
      BY <1>7, <2>1 DEF Spares
    <2>2. CASE DocOwner(d) \in owners
      BY <1>3, <1>11, <2>2
    <2>3. CASE session.opened \in Vaults /\ h.vault[session.opened].doc = d
      <3>1. session.opened \in W
        BY <1>10, <2>3 DEF Disposes
      <3>2. d \in E
        BY <1>6, <2>3, <3>1, ConstantFacts
      <3> QED
        BY <1>3, <1>11, <3>2
    <2> QED
      BY <1>11, <2>1, <2>2, <2>3 DEF Disposes
  <1>12. ASSUME R = {}, session.opened # None
         PROVE  ClosedVault(g, session.opened)
    <2>1. session.opened \in Vaults
      BY <1>12 DEF SessionInv, TypeOK, Sessions
    <2> QED
      BY <1>3, <1>12, <2>1 DEF Disposes
  <1>13. Locks(D \cup E, W, R)
    <2>1. \A v \in Vaults : v \in W <=> v = session.opened \/ VaultOwner(v) \in session.retired
      BY <1>10 DEF Disposes
    <2>2. \A d \in Docs : DocOwner(d) \in R =>
             /\ ~ClosedDoc(heap', d)
             /\ d \in {session.document, session.frozen} \/ DocOwner(d) \in session.retired
      BY <1>2, <1>3 DEF Disposes
    <2>3. \A v \in Vaults : VaultOwner(v) \in R <=> v \in W /\ ~ClosedVault(heap', v)
      BY <1>2, <1>3, <1>10
    <2>4. /\ count' \in Counts
          /\ count'.failures = 0 =>
               /\ count.failures = 0
               /\ R = {}
               /\ \A d \in Docs : d \in {session.document, session.frozen} => ClosedDoc(heap', d)
               /\ session.opened # None => ClosedVault(heap', session.opened)
      BY <1>2, <1>4, <1>11, <1>12
    <2>5. Closes(heap, heap', D \cup E, W)
      BY <1>2, <1>7
    <2> QED
      BY <1>2, <1>9, <2>1, <2>2, <2>3, <2>4, <2>5 DEF Locks
  <1>14. D \cup E \in SUBSET Docs
    BY <1>1
  <1> QED
    BY <1>1, <1>3, <1>13, <1>14, LockedKept

\* A close of nothing.
LEMMA ClosesNothing ==
    ASSUME NEW h, HeapOK(h)
    PROVE  Closes(h, h, {}, {})
  BY DEF Closes

\* What an active session owns.
LEMMA OwnedFacts ==
    ASSUME SessionInv, Active, NEW h
    PROVE  /\ session.document \in Docs /\ session.opened \in Vaults
           /\ Owned(h) \in SUBSET Owners
           /\ \A d \in Docs : DocOwner(d) \in Owned(h) <=>
                \/ d = session.document /\ h.vault[session.opened].doc # d
                \/ DocOwner(d) \in session.retired
           /\ \A v \in Vaults : VaultOwner(v) \in Owned(h) <=>
                v = session.opened \/ VaultOwner(v) \in session.retired
  <1>1. /\ session.document \in Docs /\ session.opened \in Vaults /\ session.retired \subseteq Owners
    BY DEF SessionInv, TypeOK, SessionOK, Sessions
  <1> QED
    BY <1>1, OwnerFacts DEF Owned, Revised

\* A lock is asked for when nothing is unsaved, or closes are to be tried again.
LEMMA LockKept ==
    ASSUME SessionInv, Lock
    PROVE  SessionInv'
  <1>1. /\ HeapOK(heap) /\ session \in Sessions
        /\ UNCHANGED <<job, disk, made, harm>>
    BY DEF SessionInv, TypeOK, Lock
  <1>2. Closes(heap, heap, {}, {})
    BY <1>1, ClosesNothing
  <1>3. CASE session.locked
    <2>1. /\ session.retired # {} /\ \E F \in Faults : Locked(heap, session.retired, F)
          /\ session = [NoSession EXCEPT !.retired = session.retired]
      BY <1>3 DEF Lock, SessionInv, SessionOK
    <2>2. /\ session.opened = None /\ session.document = None /\ session.frozen = None
          /\ session # NoSession
      BY <2>1
    <2>3. session.retired \in SUBSET Owners
      BY <1>1 DEF Sessions
    <2>4. Disposes(heap, {}, session.retired)
      BY <1>1, <1>2, <2>2, <2>3, ConstantFacts DEF Disposes
    <2> QED
      BY <1>1, <2>1, <2>2, <2>4, DisposesLocks
  <1>4. CASE Active
    <2>1. /\ session.frozen = None /\ session # NoSession
          /\ \E F \in Faults : Locked(heap, Owned(heap), F)
      BY <1>4 DEF Lock
    <2>2. Disposes(heap, {}, Owned(heap))
      BY <1>1, <1>2, <1>4, <2>1, OwnedFacts, ConstantFacts DEF Disposes
    <2> QED
      BY <1>1, <2>1, <2>2, DisposesLocks
  <1> QED
    BY <1>3, <1>4

\* The close of a frozen revision, and what is locked after it.
LEMMA FrozenDisposes ==
    ASSUME SessionInv, Active, session.frozen # None, NEW F
    PROVE  LET h == CloseDoc(heap, session.frozen, F)
               frozen == Remaining(h, {DocOwner(session.frozen)})
           IN  /\ session.frozen \in Docs
               /\ Closes(heap, h, {session.frozen}, {})
               /\ frozen = IF ClosedDoc(h, session.frozen) THEN {} ELSE {DocOwner(session.frozen)}
               /\ Disposes(h, {session.frozen}, Owned(h) \cup frozen)
  <1> DEFINE h == CloseDoc(heap, session.frozen, F)
             frozen == Remaining(h, {DocOwner(session.frozen)})
  <1>1. session.frozen \in Docs /\ HeapOK(heap)
    BY DEF SessionInv, TypeOK, Sessions
  <1>2. Closes(heap, h, {session.frozen}, {})
    BY <1>1, ClosesDocs DEF CloseDoc
  <1> HIDE DEF h
  <1>3. frozen = IF ClosedDoc(h, session.frozen) THEN {} ELSE {DocOwner(session.frozen)}
    BY OwnerFacts DEF Remaining, ClosedOwner
  <1> HIDE DEF frozen
  <1>4. HeapOK(h)
    BY <1>2 DEF Closes
  <1>5. /\ Owned(h) \cup frozen \in SUBSET Owners
        /\ \A d \in Docs : DocOwner(d) \in Owned(h) \cup frozen =>
             d \in {session.document, session.frozen} \/ DocOwner(d) \in session.retired
        /\ \A v \in Vaults : VaultOwner(v) \in Owned(h) \cup frozen <=>
             v = session.opened \/ VaultOwner(v) \in session.retired
    BY <1>1, <1>3, OwnedFacts, OwnerFacts
  <1>6. \A d \in Docs : d \in {session.document, session.frozen} =>
           \/ ClosedDoc(h, d)
           \/ DocOwner(d) \in Owned(h) \cup frozen
           \/ session.opened \in Vaults /\ h.vault[session.opened].doc = d
    BY <1>3, OwnedFacts
  <1>7. Disposes(h, {session.frozen}, Owned(h) \cup frozen)
    BY <1>1, <1>2, <1>4, <1>5, <1>6 DEF Disposes
  <1> QED
    BY <1>1, <1>2, <1>3, <1>7 DEF h, frozen

\* A frozen revision whose close fails stays with the session.
LEMMA FrozenStays ==
    ASSUME SessionInv, Active, session.frozen # None, Closes(heap, heap', {session.frozen}, {}),
           ~ClosedDoc(heap', session.frozen),
           count' \in Counts, count'.failures # 0,
           harm' = harm \cup {"frozen"}, UNCHANGED <<session, job, disk, made>>
    PROVE  SessionInv'
  <1> DEFINE f == session.frozen
  <1>1. /\ HeapOK(heap) /\ session \in Sessions /\ job \in Jobs
        /\ f \in Docs /\ f # session.document /\ Doc(f).vault = session.opened /\ ~Original(heap, f)
        /\ session.document \in Docs /\ session.opened \in Vaults
    BY DEF SessionInv, TypeOK, SessionOK, Sessions
  <1>2. Spares(heap, heap', {f}, {})
    BY <1>1, ClosesFacts
  <1>3. /\ HeapOK(heap')
        /\ \A d \in Docs \ {f} : heap'.doc[d] = heap.doc[d]
        /\ heap'.doc[f].vault = heap.doc[f].vault
        /\ heap'.doc[f].content = heap.doc[f].content
        /\ \A d \in Docs : Original(heap', d) => Original(heap, d)
    BY <1>1, <1>2 DEF Spares
  <1> HIDE DEF f
  <1>4. \A v \in Vaults : heap'.vault[v] = heap.vault[v]
    BY <1>1, <1>2 DEF Spares, Original
  <1>5. TypeOK'
    BY <1>3 DEF SessionInv, TypeOK, HeapOK
  <1>6. SessionOK'
    BY <1>1, <1>3, <1>4 DEF SessionInv, SessionOK, f
  <1>7. RetiredOK'
    <2>1. RetiredAre(heap, session, job)
      BY <1>1, RetiredFacts DEF SessionInv
    <2>2. DocOwner(f) \notin session.retired
      BY <1>1, <2>1 DEF RetiredAre
    <2>3. RetiredAre(heap', session, job)
      BY <1>3, <1>4, <2>1, <2>2 DEF RetiredAre, ClosedDoc, ClosedVault
    <2> QED
      BY <1>1, <2>3, RetiredFacts
  <1>8. JobOwnsOK'
    <2>1. f \notin ExportDocs
      BY <1>1 DEF SessionInv, JobOwnsOK, f
    <2>2. \A v \in Vaults : heap.vault[v].doc # f
      BY <1>1 DEF Original
    <2>3. \A d \in Docs : heap'.doc[d].vault = heap.doc[d].vault
      BY <1>1, <1>3
    <2>4. \A v \in Vaults : heap.vault[v].doc # None => heap.vault[v].doc \in Docs \ {f}
      BY <1>1, <2>2, HeapFacts
    <2>5. ExportDocs \subseteq Docs /\ JobVaults \subseteq Vaults
      BY <1>1 DEF Jobs
    <2>6. \A d \in ExportDocs : /\ ~ClosedDoc(heap', d)
                                /\ ~Original(heap', d)
                                /\ d \notin {session.document, session.frozen}
      BY <1>3, <2>1, <2>5 DEF SessionInv, JobOwnsOK, ClosedDoc
    <2>7. \A v \in JobVaults : /\ v # session.opened
                               /\ heap'.vault[v].doc # None
                               /\ heap'.doc[heap'.vault[v].doc].state = "open"
                               /\ \A d \in Docs : heap'.doc[d].vault = v => d = heap'.vault[v].doc
      BY SMTT(30), <1>3, <1>4, <2>3, <2>4, <2>5 DEF SessionInv, JobOwnsOK
    <2>8. job.vault # None =>
            /\ job.vault # job.source
            /\ heap'.doc[heap'.vault[job.vault].doc].content = job.content
      BY <1>3, <1>4, <2>4, <2>5 DEF SessionInv, JobOwnsOK
    <2> QED
      BY <2>6, <2>7, <2>8 DEF JobOwnsOK
  <1>9. StepOK' /\ OpeningOK'
    BY DEF SessionInv, StepOK, OpeningOK
  <1>10. FrozenOK'
    BY DEF SessionInv, FrozenOK
  <1>11. Content' = Content
    BY <1>1, <1>3
  <1>12. WrittenOK' /\ VersionOK'
    <2>1. Active /\ Saving /\ job.step = "write" => job.doc = f
      BY DEF SessionInv, FrozenOK, f
    <2>2. WrittenOK'
      BY <1>3, <1>11, <2>1 DEF SessionInv, WrittenOK
    <2> QED
      BY <2>2, VersionsStay
  <1>13. CleanOK' /\ SlotOK'
    BY <1>11, SlotStays DEF SessionInv, CleanOK, CleanIsPublished
  <1>14. OwnedOK'
    BY DEF OwnedOK
  <1> QED
    BY <1>3, <1>5, <1>6, <1>7, <1>8, <1>9, <1>10, <1>12, <1>13, <1>14 DEF SessionInv

\* Changes are given up: the frozen revision first, then everything.
LEMMA DiscardAndLockKept ==
    ASSUME SessionInv, DiscardAndLock
    PROVE  SessionInv'
  <1>1. /\ Active /\ session # NoSession /\ HeapOK(heap) /\ count \in Counts
        /\ UNCHANGED <<job, disk, made>>
    BY DEF SessionInv, TypeOK, DiscardAndLock
  <1>2. CASE session.frozen = None
    <2>1. /\ \E G \in Faults : Locked(heap, Owned(heap), G)
          /\ UNCHANGED harm
      BY <1>2 DEF DiscardAndLock
    <2>2. Disposes(heap, {}, Owned(heap))
      BY <1>1, <1>2, OwnedFacts, ClosesNothing, ConstantFacts DEF Disposes
    <2> QED
      BY <1>1, <2>1, <2>2, DisposesLocks
  <1>3. CASE session.frozen # None
    <2>1. PICK F \in Faults, G \in Faults :
             LET h == CloseDoc(heap, session.frozen, F)
             IN  IF ClosedDoc(h, session.frozen)
                 THEN Locked(h, Owned(h), G) /\ UNCHANGED harm
                 ELSE /\ heap' = h
                      /\ Counted(h, {DocOwner(session.frozen)})
                      /\ Harmed("frozen")
                      /\ UNCHANGED session
      BY <1>3 DEF DiscardAndLock
    <2> DEFINE h == CloseDoc(heap, session.frozen, F)
               frozen == Remaining(h, {DocOwner(session.frozen)})
    <2>2. /\ Closes(heap, h, {session.frozen}, {})
          /\ frozen = IF ClosedDoc(h, session.frozen) THEN {} ELSE {DocOwner(session.frozen)}
          /\ Disposes(h, {session.frozen}, Owned(h) \cup frozen)
      BY <1>1, <1>3, FrozenDisposes
    <2> HIDE DEF h, frozen
    <2>3. CASE ClosedDoc(h, session.frozen)
      <3>1. Locked(h, Owned(h), G) /\ UNCHANGED harm
        BY <2>1, <2>3 DEF h
      <3>2. Owned(h) \cup frozen = Owned(h)
        BY <2>2, <2>3
      <3> QED
        BY <1>1, <2>2, <3>1, <3>2, DisposesLocks
    <2>4. CASE ~ClosedDoc(h, session.frozen)
      <3>1. /\ heap' = h /\ harm' = harm \cup {"frozen"} /\ UNCHANGED session
            /\ Counted(h, {DocOwner(session.frozen)})
        BY <2>1, <2>4 DEF h, Harmed
      <3>2. Remaining(h, {DocOwner(session.frozen)}) # {}
        BY <2>2, <2>4 DEF frozen
      <3>3. count' \in Counts /\ count'.failures # 0
        BY <1>1, <3>1, <3>2, CountedFacts
      <3> QED
        BY <1>1, <1>3, <2>2, <2>4, <3>1, <3>3, FrozenStays
    <2> QED
      BY <2>3, <2>4
  <1> QED
    BY <1>2, <1>3

\* A suspended session is locked once its slot is there.
LEMMA FinishSuspendKept ==
    ASSUME SessionInv, FinishSuspend
    PROVE  SessionInv'
  <1>1. /\ job.step = "capture" /\ job.kind = "suspend" /\ job \in Jobs
        /\ job' = [job EXCEPT !.committed = TRUE, !.step = "end"]
        /\ UNCHANGED <<disk, made, harm>>
    BY DEF SessionInv, TypeOK, StepOK, FinishSuspend
  <1>2. CASE Active /\ session.frozen # None
    <2>1. PICK F \in Faults, G \in Faults :
             LET h == CloseDoc(heap, session.frozen, F)
                 frozen == Remaining(h, {DocOwner(session.frozen)})
             IN  Locked(h, Owned(h) \cup frozen, G)
      BY <1>2 DEF FinishSuspend
    <2> DEFINE h == CloseDoc(heap, session.frozen, F)
               frozen == Remaining(h, {DocOwner(session.frozen)})
    <2>2. Disposes(h, {session.frozen}, Owned(h) \cup frozen)
      BY <1>2, FrozenDisposes
    <2>3. Locked(h, Owned(h) \cup frozen, G)
      BY <2>1
    <2>4. session # NoSession
      BY <1>2
    <2> HIDE DEF h, frozen
    <2> QED
      BY <1>1, <2>2, <2>3, <2>4, DisposesLocks
  <1>3. CASE ~(Active /\ session.frozen # None)
    <2>1. UNCHANGED <<heap, session, count>>
      BY <1>3 DEF FinishSuspend
    <2>2. job'.committed
      BY <1>1 DEF Jobs
    <2> QED
      BY <1>1, <1>3, <2>1, <2>2, RaisesKept
  <1> QED
    BY <1>2, <1>3

-----------------------------------------------------------------------------
(* Ends of operations, finalisers and edits *)

\* The reopened vault becomes the session's.  Everything retired borrows from the
\* old one, so that nothing is taken from under the new document.
LEMMA FinishSaveKept ==
    ASSUME SessionInv, FinishSave
    PROVE  SessionInv'
  <1> DEFINE v == job.vault
             o == session.opened
             n == Vault(v).doc
  <1>1. /\ job.step = "finish" /\ job.kind \in {"save", "rotate"} /\ job.committed /\ v # None
        /\ job \in Jobs /\ session \in Sessions /\ HeapOK(heap)
        /\ job.doc # None /\ job.copy = None /\ job.source = None
        /\ v \in Vaults /\ v \in JobVaults /\ job.content \in SUBSET Edits
        /\ count \in Counts /\ job.version \in Nat
        /\ UNCHANGED <<disk, made, harm>>
    BY DEF SessionInv, TypeOK, StepOK, FinishSave, Jobs
  <1>2. CASE ~(Active /\ session.frozen # None /\ Readable(session.frozen))
    <2>1. /\ job' = [job EXCEPT !.step = "end"]
          /\ UNCHANGED <<heap, session, count>>
      BY <1>2 DEF FinishSave
    <2>2. job'.committed
      BY <1>1, <2>1 DEF Jobs
    <2> QED
      BY <1>1, <1>2, <2>1, <2>2, RaisesKept
  <1>3. CASE Active /\ session.frozen # None /\ Readable(session.frozen)
    <2> DEFINE owners == Retiring(v)
    <2>1. PICK F \in Faults :
             LET closed == CloseAll(heap, owners, F)
             IN
             /\ heap' = closed
             /\ Counted(closed, owners)
             /\ session' = [session EXCEPT
                              !.opened = v, !.document = n,
                              !.frozen = None, !.changes = FALSE,
                              !.baseline = job.version, !.base = job.content,
                              !.retired = @ \cup Remaining(closed, owners)]
             /\ job' = [job EXCEPT !.vault = None,
                          !.step = IF job.kind = "save" /\ session.suspended
                                   THEN "cleanup" ELSE "end"]
      BY <1>3 DEF FinishSave
    <2> DEFINE R == Remaining(CloseAll(heap, owners, F), owners)
               D == Closing(heap, owners)
    <2>2. /\ session.frozen \in Docs /\ Doc(session.frozen).vault = o
          /\ session.document \in Docs /\ Doc(session.document).vault = o /\ o \in Vaults
          /\ session.frozen = job.doc
      BY <1>1, <1>3 DEF SessionInv, SessionOK, Sessions, FrozenOK
    <2>3. /\ o # v /\ n # None /\ n \in Docs /\ Doc(n).vault = v /\ Doc(n).state = "open"
          /\ Vault(v).keys /\ Vault(v).snapshot /\ Doc(n).content = job.content
          /\ \A d \in Docs : Doc(d).vault = v => d = n
      <3>1. HeapOK(heap) /\ v # None /\ v \in JobVaults /\ v \in Vaults
        BY <1>1 DEF SessionInv
      <3>2. /\ o # v /\ n # None /\ Doc(n).state = "open" /\ Doc(n).content = job.content
            /\ \A d \in Docs : Doc(d).vault = v => d = n
        BY <3>1 DEF SessionInv, JobOwnsOK
      <3> QED
        BY <3>1, <3>2, VaultIsWhole
    <2>4. /\ owners \in SUBSET Owners
          /\ \A d \in Docs : DocOwner(d) \in owners <=>
               d = session.frozen \/ (d = session.document /\ Vault(o).doc # d)
          /\ \A w \in Vaults : VaultOwner(w) \in owners <=> w = o
      BY <2>2, OwnerFacts DEF Retiring, Revised
    <2> HIDE DEF v, o, n, owners
    <2>5. Closes(heap, heap', D, {w \in Vaults : VaultOwner(w) \in owners})
      BY <1>1, <2>1, ClosesAll
    <2>6. {w \in Vaults : VaultOwner(w) \in owners} = {o} /\ D \in SUBSET Docs
      BY <2>2, <2>4 DEF Closing
    <2>7. Spares(heap, heap', D, {o})
      BY <1>1, <2>2, <2>5, <2>6, ClosesFacts
    <2>8. /\ \A d \in Docs : DocOwner(d) \in R <=> DocOwner(d) \in owners /\ ~ClosedDoc(heap', d)
          /\ \A w \in Vaults : VaultOwner(w) \in R <=> VaultOwner(w) \in owners /\ ~ClosedVault(heap', w)
          /\ R \in SUBSET Owners
          /\ R = {} => \A d \in D : ClosedDoc(heap', d)
      BY <1>1, <2>1, <2>4, RemainingFacts
    <2>9. /\ count' \in Counts
          /\ count'.failures = 0 => count.failures = 0 /\ R = {}
      BY <1>1, <2>1, CountedFacts
    <2>10. /\ \A d \in Docs : d \in D <=> \/ d = session.frozen
                                          \/ d = session.document
                                          \/ Vault(o).doc = d
           /\ \A d \in D : Doc(d).vault = o
      <3>1. \A d \in Docs : d \in D <=> DocOwner(d) \in owners \/ Vault(o).doc = d
        BY <2>2, <2>4 DEF Closing
      <3>2. \A d \in Docs : Vault(o).doc = d => Doc(d).vault = o
        BY <1>1, <2>2, HeapFacts, ConstantFacts
      <3> QED
        BY <2>2, <2>4, <2>6, <3>1, <3>2
    <2>11. /\ session' \in Sessions
           /\ session'.opened = v /\ session'.document = n /\ session'.frozen = None
           /\ session'.changes = FALSE /\ session'.base = job.content
           /\ session'.baseline = job.version /\ session'.removed = session.removed
           /\ session'.retired = session.retired \cup R
           /\ session'.suspended = session.suspended /\ session'.locked = session.locked
      <3> DEFINE retired == session.retired \cup R
      <3>1. session' = [session EXCEPT !.opened = v, !.document = n, !.frozen = None,
                          !.changes = FALSE, !.baseline = job.version, !.base = job.content,
                          !.retired = retired]
        BY <2>1 DEF n, v
      <3>2. retired \in SUBSET Owners
        BY <1>1, <2>8 DEF Sessions
      <3>3. v \in Vaults
        BY <1>1 DEF v
      <3> HIDE DEF retired
      <3>4. /\ session' \in Sessions
            /\ session'.opened = v /\ session'.document = n /\ session'.frozen = None
            /\ session'.changes = FALSE /\ session'.base = job.content
            /\ session'.baseline = job.version /\ session'.removed = session.removed
            /\ session'.retired = retired
            /\ session'.suspended = session.suspended /\ session'.locked = session.locked
        BY <1>1, <2>3, <3>1, <3>2, <3>3 DEF Sessions
      <3> QED
        BY <3>4 DEF retired
    <2>12. /\ job' \in Jobs
           /\ job'.kind = job.kind /\ job'.doc = job.doc /\ job'.copy = None /\ job'.vault = None
           /\ job'.source = None /\ job'.committed
           /\ job'.step = IF job.kind = "save" /\ session.suspended THEN "cleanup" ELSE "end"
      BY <1>1, <2>1 DEF Jobs, Steps
    <2>13. job'.version = job.version
      BY <1>1, <2>1 DEF Jobs
    <2>14. /\ HeapOK(heap')
           /\ heap'.doc[n] = heap.doc[n]
           /\ heap'.vault[v] = heap.vault[v]
           /\ heap'.vault[v].doc = n
      BY ZenonT(40), <1>1, <2>3, <2>7, <2>10 DEF Spares, n, v
    <2>15. TypeOK'
      BY <2>9, <2>11, <2>12, <2>14, <1>1 DEF SessionInv, TypeOK, HeapOK
    <2>16. SessionOK'
      BY ZenonT(40), <1>1, <1>3, <2>3, <2>11, <2>14 DEF SessionOK, v, n
    <2>17. RetiredOK'
      <3>1. RetiredAre(heap, session, job)
        BY <1>1, RetiredFacts DEF SessionInv
      <3>2. ASSUME NEW d \in Docs, DocOwner(d) \in session.retired
            PROVE  /\ ~ClosedDoc(heap', d)
                   /\ heap'.doc[d].vault # v
                   /\ \A w \in Vaults : heap'.vault[w].doc = d => VaultOwner(w) \in session.retired
        <4>1. /\ ~ClosedDoc(heap, d) /\ heap.doc[d].vault # o
              /\ \A w \in Vaults : heap.vault[w].doc = d => VaultOwner(w) \in session.retired
          BY <3>1, <3>2 DEF RetiredAre, o
        <4>2. VaultOwner(v) \notin session.retired
          BY <1>1, <3>1 DEF RetiredAre, v
        <4>3. heap.doc[d].vault # v
          BY <1>1, <2>3, <4>1, <4>2 DEF n, v
        <4>4. heap'.doc[d] = heap.doc[d]
          BY <2>7, <2>10, <4>1 DEF Spares
        <4> QED
          BY <2>7, <4>1, <4>3, <4>4, ConstantFacts DEF Spares, ClosedDoc
      <3>3. ASSUME NEW d \in Docs, DocOwner(d) \in R
            PROVE  /\ ~ClosedDoc(heap', d)
                   /\ heap'.doc[d].vault # v
                   /\ \A w \in Vaults : heap'.vault[w].doc = d => VaultOwner(w) \in R
        <4>1. ~ClosedDoc(heap', d) /\ heap'.doc[d].vault = o
          BY <2>2, <2>4, <2>7, <2>8, <3>3 DEF Spares
        <4>2. ASSUME NEW w \in Vaults, heap'.vault[w].doc = d
              PROVE  VaultOwner(w) \in R
          <5>1. w = o
            BY <2>14, <4>1, <4>2, HeapFacts, ConstantFacts
          <5>2. ~ClosedVault(heap', w)
            BY <4>2, ConstantFacts DEF ClosedVault
          <5> QED
            BY <2>4, <2>8, <5>1, <5>2
        <4> QED
          BY <2>3, <4>1, <4>2
      <3>4. ASSUME NEW w \in Vaults, VaultOwner(w) \in session.retired
            PROVE  ~ClosedVault(heap', w) /\ w # v
        <4>1. ~ClosedVault(heap, w) /\ w # o /\ w # v
          BY <3>1, <3>4 DEF RetiredAre, o, v
        <4>2. heap.vault[w].doc \notin D
          BY <1>1, <2>10, <2>6, <4>1, HeapFacts, ConstantFacts
        <4> QED
          BY <2>7, <4>1, <4>2 DEF Spares, ClosedVault
      <3>5. ASSUME NEW w \in Vaults, VaultOwner(w) \in R
            PROVE  ~ClosedVault(heap', w) /\ w # v
        BY <2>3, <2>4, <2>8, <3>5
      <3>6. RetiredAre(heap', session', job')
        BY <1>1, <2>11, <2>12, <3>2, <3>3, <3>4, <3>5, ConstantFacts DEF RetiredAre
      <3> QED
        BY <2>11, <3>6, RetiredFacts
    <2>18. JobOwnsOK'
      <3>1. ExportDocs' = {} /\ JobVaults' = {}
        BY <1>1, <2>12
      <3> QED
        BY <2>12, <3>1 DEF JobOwnsOK
    <2>19. StepOK' /\ OpeningOK' /\ WrittenOK'
      BY <1>1, <2>12 DEF StepOK, OpeningOK, WrittenOK
    <2>25. VersionOK'
      BY <1>1, <2>11, <2>12, <2>13 DEF SessionInv, VersionOK
    <2>20. FrozenOK'
      BY <2>11, <2>12 DEF FrozenOK
    <2>21. Content' = session'.base
      BY <2>3, <2>11, <2>14
    <2>22. CleanOK'
      BY <2>21 DEF CleanOK, CleanIsPublished
    <2>23. SlotOK'
      <3>1. session.suspended => /\ disk.slot # None
                                 /\ disk.slot \subseteq job.content \cup session.removed
        BY <1>1, <1>3 DEF SessionInv, SlotOK, WrittenOK
      <3>2. disk.source = job.content \/ disk.foreign > job.version
        BY <1>1 DEF SessionInv, VersionOK
      <3>3. Content' = job.content
        BY <2>11, <2>21
      <3>4. SlotIsResumable'
        <4>1. CASE disk.foreign > job.version
          BY <1>1, <2>11, <4>1 DEF SlotIsResumable, Overwritten
        <4>2. CASE disk.source = job.content
          BY <1>1, <2>11, <3>1, <4>2 DEF SlotIsResumable
        <4> QED
          BY <3>2, <4>1, <4>2
      <3> QED
        BY <1>1, <2>11, <2>12, <3>1, <3>3, <3>4 DEF SlotOK
    <2>24. OwnedOK'
      <3>1. CASE count'.failures = 0
        <4>1. /\ session.retired = {} /\ AllKept(heap, session, job)
              /\ R = {}
          BY <2>9, <3>1, ForgottenFacts DEF SessionInv, OwnedOK
        <4>2. \A d \in D : ClosedDoc(heap', d)
          BY <2>8, <4>1
        <4>3. ASSUME NEW d \in Docs, ~ClosedDoc(heap', d)
              PROVE  Original(heap', d)
          <5>1. ~ClosedDoc(heap, d)
            BY <2>7, <4>3 DEF Spares
          <5>2. d \notin {session.document, session.frozen, job.doc, job.copy}
            BY <1>1, <2>2, <2>10, <4>2, <4>3, ConstantFacts
          <5>3. Original(heap, d)
            BY <4>1, <5>1, <5>2 DEF AllKept
          <5> QED
            BY <2>7, <4>3, <5>3 DEF Spares
        <4>4. ASSUME NEW w \in Vaults, ~ClosedVault(heap', w)
              PROVE  w = v
          <5>1. ~ClosedVault(heap, w)
            BY <2>7, <4>4 DEF Spares
          <5>2. w # o
            BY <2>4, <2>8, <4>1, <4>4
          <5> QED
            BY <1>1, <4>1, <5>1, <5>2, ConstantFacts DEF AllKept, o, v
        <4>5. AllKept(heap', session', job')
          BY <2>11, <4>3, <4>4 DEF AllKept
        <4>6. ClosedDoc(heap', job.doc)
          BY <2>2, <2>10, <4>2
        <4> QED
          BY <2>11, <2>12, <4>1, <4>5, <4>6, ForgottenFacts DEF OwnedOK
      <3>2. CASE count'.failures # 0
        BY <3>2 DEF OwnedOK
      <3> QED
        BY <3>1, <3>2
    <2> QED
      BY <2>14, <2>15, <2>16, <2>17, <2>18, <2>19, <2>20, <2>22, <2>23, <2>24, <2>25 DEF SessionInv
  <1> QED
    BY <1>2, <1>3

\* What an operation still owns is closed; nothing of the session's or of what is
\* retired is among it.
LEMMA EndJobKept ==
    ASSUME SessionInv, EndJob
    PROVE  SessionInv'
  <1> DEFINE owners == {VaultOwner(v) : v \in {job.vault, job.source} \ {None}}
                       \cup (IF job.kind = "export"
                             THEN {DocOwner(d) : d \in {job.doc, job.copy} \ {None}} ELSE {})
             frozen == IF Aborts THEN {DocOwner(session.frozen)} ELSE {}
             all == owners \cup frozen
             o == session.opened
  <1>1. /\ job.step = "end" /\ job \in Jobs /\ session \in Sessions /\ HeapOK(heap)
        /\ count \in Counts
        /\ job' = NoJob /\ UNCHANGED <<disk, made>>
    BY DEF SessionInv, TypeOK, EndJob
  <1>2. PICK F \in Faults :
          LET closed == CloseAll(heap, all, F)
          IN
          /\ heap' = closed
          /\ Counted(closed, all)
          /\ IF Aborts /\ Remaining(closed, frozen) = {}
             THEN session' = Aborted /\ UNCHANGED harm
             ELSE UNCHANGED session /\ IF Aborts THEN Harmed("frozen") ELSE UNCHANGED harm
    BY DEF EndJob
  <1> DEFINE R == Remaining(CloseAll(heap, all, F), all)
             D == Closing(heap, all)
             W == {v \in Vaults : VaultOwner(v) \in all}
  <1>3. Aborts => /\ Active /\ session.frozen \in Docs /\ session.frozen # None
                  /\ job.kind # "export"
    BY <1>1 DEF Aborts, Sessions
  <1>4. /\ Active => /\ session.document \in Docs /\ Doc(session.document).vault = o /\ o \in Vaults
                     /\ session.document \notin ExportDocs /\ o \notin JobVaults
        /\ session.frozen # None =>
             /\ session.frozen \in Docs /\ session.frozen # session.document
             /\ Doc(session.frozen).vault = o /\ ~Original(heap, session.frozen)
             /\ session.frozen \notin ExportDocs
    BY <1>1 DEF SessionInv, SessionOK, JobOwnsOK, Sessions
  <1>5. /\ all \in SUBSET Owners
        /\ \A d \in Docs : DocOwner(d) \in all <=> d \in ExportDocs \/ (Aborts /\ d = session.frozen)
        /\ \A v \in Vaults : VaultOwner(v) \in all <=> v \in JobVaults
    <2>1. ExportDocs \subseteq Docs /\ JobVaults \subseteq Vaults
      BY <1>1 DEF Jobs
    <2> QED
      BY <1>3, <2>1, OwnerFacts
  <1> HIDE DEF all, owners
  <1>6. /\ Closes(heap, heap', D, W)
        /\ D \in SUBSET Docs /\ W = JobVaults
    <2>1. JobVaults \subseteq Vaults
      BY <1>1 DEF Jobs
    <2> QED
      BY <1>1, <1>2, <1>5, <2>1, ClosesAll DEF Closing
  <1>7. Spares(heap, heap', D, JobVaults)
    BY <1>1, <1>6, ClosesFacts
  <1>8. \A d \in Docs : d \in D <=> \/ d \in ExportDocs
                                    \/ Aborts /\ d = session.frozen
                                    \/ \E v \in JobVaults : Vault(v).doc = d
    BY <1>5, <1>6 DEF Closing
  <1>9. /\ count' \in Counts
        /\ count'.failures = 0 => count.failures = 0 /\ \A d \in D : ClosedDoc(heap', d)
        /\ count'.failures = 0 => \A v \in JobVaults : ClosedVault(heap', v)
    <2>1. /\ count' \in Counts
          /\ count'.failures = 0 => count.failures = 0 /\ R = {}
      BY <1>1, <1>2, CountedFacts
    <2>2. R = {} => \A d \in D : ClosedDoc(heap', d)
      BY <1>1, <1>2, <1>5, RemainingFacts
    <2>3. \A v \in Vaults : VaultOwner(v) \in R <=> VaultOwner(v) \in all /\ ~ClosedVault(heap', v)
      BY <1>1, <1>2, <1>5, RemainingFacts
    <2> QED
      BY <1>5, <1>6, <2>1, <2>2, <2>3
  <1>10. Aborts => (Remaining(heap', frozen) = {} <=> ClosedDoc(heap', session.frozen))
    BY OwnerFacts DEF Remaining, ClosedOwner
  <1> HIDE DEF R, D, W, frozen
  <1>11. \/ /\ session' = session /\ ~Aborts /\ harm' = harm
         \/ /\ session' = session /\ Aborts /\ ~ClosedDoc(heap', session.frozen)
            /\ harm \subseteq harm' /\ "frozen" \in harm'
         \/ /\ session' = [session EXCEPT !.frozen = None] /\ Aborts
            /\ ClosedDoc(heap', session.frozen) /\ harm' = harm
    BY <1>2, <1>10 DEF Harmed, Aborted
  <1>12. /\ session' \in Sessions
         /\ session'.opened = o /\ session'.document = session.document
         /\ session'.frozen = session.frozen \/ (session'.frozen = None /\ Aborts)
         /\ session'.retired = session.retired /\ session'.locked = session.locked
         /\ session'.changes = session.changes /\ session'.suspended = session.suspended
         /\ session'.base = session.base /\ session'.baseline = session.baseline
         /\ session'.removed = session.removed
         /\ session.locked => session' = session
         /\ harm \subseteq harm'
    <2>1. CASE session' = session
      BY <1>1, <1>11, <2>1
    <2>2. CASE session' = [session EXCEPT !.frozen = None] /\ Aborts /\ harm' = harm
      BY <1>1, <1>3, <2>2 DEF Sessions
    <2> QED
      BY <1>11, <2>1, <2>2
  <1> HIDE DEF o
  <1>13. HeapOK(heap')
    BY <1>7 DEF Spares
  <1>14. TypeOK'
    <2>1. NoJob \in Jobs
      BY DEF Jobs, Kinds, Steps
    <2> QED
      BY <1>1, <1>9, <1>12, <1>13, <2>1 DEF SessionInv, TypeOK, HeapOK
  \* A document of the session is not among those that are closed.
  <1>15. \A v \in JobVaults : Vault(v).doc # None => Doc(Vault(v).doc).vault = v
    BY <1>1, HeapFacts DEF Jobs
  <1>16. Active => /\ session.document \notin D
                   /\ heap'.doc[session.document] = heap.doc[session.document]
    <2>1. ASSUME Active
          PROVE  session.document \notin D
      BY <1>3, <1>4, <1>8, <1>15, <2>1, ConstantFacts DEF o
    <2> QED
      BY <1>4, <1>7, <2>1 DEF Spares
  <1>17. session.frozen # None /\ ~Aborts => heap'.doc[session.frozen] = heap.doc[session.frozen]
    <2>1. ASSUME session.frozen # None, ~Aborts
          PROVE  session.frozen \notin D
      BY <1>1, <1>4, <1>8, <2>1 DEF Original, Jobs
    <2> QED
      BY <1>4, <1>7, <2>1 DEF Spares
  <1>18. SessionOK'
    <2>1. Active => /\ heap'.vault[o].keys = heap.vault[o].keys
                    /\ heap'.vault[o].snapshot = heap.vault[o].snapshot
      BY <1>4, <1>7 DEF Spares
    <2>2. ASSUME session'.frozen # None
          PROVE  /\ session'.frozen # session.document
                 /\ heap'.doc[session'.frozen].vault = o
                 /\ ~Original(heap', session'.frozen)
                 /\ "frozen" \notin harm' => heap'.doc[session'.frozen].state = "open"
      <3>1. session'.frozen = session.frozen /\ session.frozen # None
        BY <1>12, <2>2
      <3>2. ~Original(heap', session.frozen)
        BY <1>4, <1>7, <3>1 DEF Spares
      <3>3. CASE Aborts
        <4>1. ~ClosedDoc(heap', session.frozen) /\ "frozen" \in harm'
          BY <1>1, <1>11, <2>2, <3>3 DEF Sessions
        <4> QED
          BY <1>4, <1>7, <3>1, <3>2, <4>1 DEF Spares
      <3>4. CASE ~Aborts
        BY <1>4, <1>12, <1>17, <3>1, <3>2, <3>4 DEF SessionInv, SessionOK
      <3> QED
        BY <3>3, <3>4
    <2>3. session.locked => session' = [NoSession EXCEPT !.retired = session'.retired]
      BY <1>12 DEF SessionInv, SessionOK
    <2>4. Active => /\ heap'.doc[session.document].vault = o
                    /\ "edit" \notin harm' => heap'.doc[session.document].state = "open"
      BY <1>12, <1>16 DEF SessionInv, SessionOK, o
    <2>5. Active => heap.vault[o].keys /\ heap.vault[o].snapshot
      BY DEF SessionInv, SessionOK, o
    <2> QED
      BY <1>4, <1>12, <2>1, <2>2, <2>3, <2>4, <2>5 DEF SessionOK
  <1>19. RetiredOK'
    <2>1. RetiredAre(heap, session, job)
      BY <1>1, RetiredFacts DEF SessionInv
    <2>2. ASSUME NEW d \in Docs, DocOwner(d) \in session.retired
          PROVE  /\ ~ClosedDoc(heap', d)
                 /\ heap'.doc[d].vault # o
                 /\ \A v \in Vaults : heap'.vault[v].doc = d => VaultOwner(v) \in session.retired
      <3>1. d \notin D
        <4>1. d \notin ExportDocs /\ (Aborts => d # session.frozen)
          BY <1>3, <1>4, <2>1, <2>2 DEF RetiredAre, o
        <4>2. \A v \in JobVaults : Vault(v).doc # d
          BY <1>1, <2>1, <2>2 DEF RetiredAre, Jobs
        <4> QED
          BY <1>8, <4>1, <4>2
      <3> QED
        BY <1>7, <2>1, <2>2, <3>1, ConstantFacts DEF RetiredAre, Spares, ClosedDoc, o
    <2>3. ASSUME NEW v \in Vaults, VaultOwner(v) \in session.retired
          PROVE  ~ClosedVault(heap', v) /\ v # o
      <3>1. ~ClosedVault(heap, v) /\ v # o /\ v \notin JobVaults
        BY <2>1, <2>3 DEF RetiredAre, o
      <3>2. heap.vault[v].doc \notin D
        <4>1. heap.vault[v].doc # None => Original(heap, heap.vault[v].doc)
          BY DEF Original
        <4>2. \A d \in ExportDocs : ~Original(heap, d)
          BY DEF SessionInv, JobOwnsOK
        <4>3. \A w \in JobVaults : heap.vault[w].doc # None => heap.vault[w].doc # heap.vault[v].doc
          BY <1>1, <1>15, <3>1, HeapFacts
        <4> QED
          BY <1>3, <1>4, <1>6, <1>8, <4>1, <4>2, <4>3, ConstantFacts
      <3> QED
        BY <1>7, <3>1, <3>2 DEF Spares, ClosedVault
    <2>4. RetiredAre(heap', session', job')
      BY <1>1, <1>12, <2>2, <2>3, ConstantFacts DEF RetiredAre
    <2> QED
      BY <1>12, <2>4, RetiredFacts
  <1>20. JobOwnsOK'
    BY <1>1 DEF JobOwnsOK
  <1>21. StepOK' /\ OpeningOK' /\ WrittenOK'
    BY <1>1 DEF StepOK, OpeningOK, WrittenOK
  <1>26. VersionOK'
    BY <1>1, <1>12 DEF SessionInv, TypeOK, VersionOK, Disks
  <1>22. FrozenOK'
    <2>1. ASSUME Active, session'.frozen # None, harm' \cap {"frozen", "finish"} = {}
          PROVE  FALSE
      <3>1. session.frozen # None /\ ~Aborts /\ harm \cap {"frozen", "finish"} = {}
        BY <1>1, <1>11, <2>1 DEF Sessions
      <3>2. Saving /\ Undecided
        BY <2>1, <3>1 DEF SessionInv, FrozenOK
      <3> QED
        BY <1>1, <2>1, <3>1, <3>2 DEF Aborts
    <2> QED
      BY <1>1, <1>12, <2>1 DEF FrozenOK
  <1>23. CleanOK'
    <2>1. Active => Content' = Content
      BY <1>12, <1>16
    <2> QED
      BY <1>1, <1>12, <2>1 DEF SessionInv, CleanOK, CleanIsPublished
  <1>24. SlotOK'
    <2>1. Active => Content' = Content
      BY <1>12, <1>16
    <2>2. CASE Active
      BY <1>1, <1>12, <2>1, <2>2, SlotStays
    <2>3. CASE ~Active
      BY <1>1, <1>12, <2>3, SlotStays
    <2> QED
      BY <2>2, <2>3
  <1>25. OwnedOK'
    <2>1. CASE count'.failures = 0
      <3>1. /\ session.retired = {} /\ AllKept(heap, session, job)
            /\ Saving => ClosedDoc(heap, job.doc) \/ session.frozen = job.doc
        BY <1>9, <2>1, ForgottenFacts DEF SessionInv, OwnedOK
      <3>2. ASSUME NEW d \in Docs, ~ClosedDoc(heap', d)
            PROVE  d \in {session'.document, session'.frozen} \/ Original(heap', d)
        <4>1. ~ClosedDoc(heap, d) /\ d \notin D
          BY <1>7, <1>9, <2>1, <3>2 DEF Spares
        <4>2. d \notin ExportDocs /\ (Aborts => d # session.frozen)
          BY <1>8, <4>1
        <4>3. CASE d = session.frozen
          BY <1>12, <4>2, <4>3
        <4>4. CASE d \in {job.doc, job.copy}
          <5>1. job.kind # "export" => job.copy = None /\ (job.doc # None => Saving)
            BY <1>1 DEF SessionInv, StepOK
          <5> QED
            BY <3>1, <4>1, <4>2, <4>3, <4>4, <5>1, ConstantFacts
        <4>5. CASE Original(heap, d)
          BY <1>7, <3>2, <4>5 DEF Spares
        <4> QED
          BY <1>12, <3>1, <4>1, <4>3, <4>4, <4>5 DEF AllKept
      <3>3. ASSUME NEW v \in Vaults, ~ClosedVault(heap', v)
            PROVE  v = session'.opened
        <4>1. ~ClosedVault(heap, v)
          BY <1>7, <3>3 DEF Spares
        <4>2. v \notin JobVaults
          BY <1>9, <2>1, <3>3
        <4> QED
          BY <1>12, <3>1, <4>1, <4>2, ConstantFacts DEF AllKept, o
      <3>4. AllKept(heap', session', job')
        BY <3>2, <3>3 DEF AllKept
      <3> QED
        BY <1>1, <1>12, <3>1, <3>4, ForgottenFacts DEF OwnedOK
    <2>2. CASE count'.failures # 0
      BY <2>2 DEF OwnedOK
    <2> QED
      BY <2>1, <2>2
  <1> QED
    BY <1>13, <1>14, <1>18, <1>19, <1>20, <1>21, <1>22, <1>23, <1>24, <1>25, <1>26 DEF SessionInv

\* A finaliser closes what belongs neither to the session nor to the operation, and
\* such a thing is only there once a close has failed.
LEMMA FinaliseKept ==
    ASSUME SessionInv, NEW o, Finalise(o)
    PROVE  SessionInv'
  <1>1. /\ o \in Forgotten /\ HeapOK(heap) /\ session \in Sessions /\ job \in Jobs
        /\ count \in Counts
        /\ UNCHANGED <<session, job, disk, made, harm>>
    BY DEF SessionInv, TypeOK, Finalise
  <1>2. PICK F \in Faults : /\ heap' = CloseAll(heap, {o}, F)
                            /\ Counted(CloseAll(heap, {o}, F), {o})
    BY DEF Finalise
  <1> DEFINE D == Closing(heap, {o})
             W == {v \in Vaults : VaultOwner(v) = o}
  <1>3. count' \in Counts /\ count'.failures # 0
    <2>1. count.failures # 0
      BY <1>1 DEF SessionInv, OwnedOK
    <2> QED
      BY <1>1, <1>2, <2>1, CountedFacts
  <1>4. Spares(heap, heap', D, W) /\ D \in SUBSET Docs
    <2>1. Closes(heap, heap', D, {v \in Vaults : VaultOwner(v) \in {o}})
      BY <1>1, <1>2, ClosesAll
    <2>2. {v \in Vaults : VaultOwner(v) \in {o}} = W
      OBVIOUS
    <2>3. D \in SUBSET Docs /\ W \in SUBSET Vaults
      BY DEF Closing
    <2> QED
      BY <1>1, <2>1, <2>2, <2>3, ClosesFacts
  <1>5. /\ \/ o = DocOwner(o.id) /\ o.id \in Docs
           \/ o = VaultOwner(o.id) /\ o.id \in Vaults
        /\ o \notin Reachable
        /\ o.kind = "doc" => \A v \in Vaults : Vault(v).doc # o.id
    <2>1. /\ o \notin Reachable
          /\ o.kind = "doc" => \A v \in Vaults : Vault(v).doc # o.id
          /\ \/ \E d \in Docs : o = DocOwner(d)
             \/ \E v \in Vaults : o = VaultOwner(v)
      BY <1>1 DEF Forgotten, Alive
    <2>2. \A d \in Docs : o = DocOwner(d) => o = DocOwner(o.id) /\ o.id \in Docs
      BY DEF DocOwner
    <2>3. \A v \in Vaults : o = VaultOwner(v) => o = VaultOwner(o.id) /\ o.id \in Vaults
      BY DEF VaultOwner
    <2> QED
      BY <2>1, <2>2, <2>3
  <1>6. \A v \in W : v # session.opened /\ v \notin JobVaults /\ VaultOwner(v) \notin session.retired
    BY <1>5, ConstantFacts DEF Reachable
  <1>7. \A d \in D : \/ DocOwner(d) = o /\ ~Original(heap, d)
                     \/ \E v \in W : Vault(v).doc = d
    BY <1>5, OwnerFacts DEF Closing, Original
  <1> HIDE DEF D, W
  <1>8. RetiredAre(heap, session, job)
    BY <1>1, RetiredFacts DEF SessionInv
  <1>9. ASSUME NEW d \in D
        PROVE  /\ d # session.document
               /\ d # session.frozen
               /\ DocOwner(d) \notin session.retired
               /\ d \notin ExportDocs
               /\ \A v \in JobVaults : Vault(v).doc # d
               /\ \A v \in Vaults : VaultOwner(v) \in session.retired => Vault(v).doc # d
    <2>1. CASE DocOwner(d) = o /\ ~Original(heap, d)
      BY <1>1, <1>4, <1>5, <2>1, ConstantFacts DEF Reachable, Original, Jobs
    <2>2. ASSUME NEW v \in W, Vault(v).doc = d
          PROVE  /\ d # session.document
                 /\ d # session.frozen
                 /\ DocOwner(d) \notin session.retired
                 /\ d \notin ExportDocs
                 /\ \A w \in JobVaults : Vault(w).doc # d
                 /\ \A w \in Vaults : VaultOwner(w) \in session.retired => Vault(w).doc # d
      <3>1. v \in Vaults /\ Doc(d).vault = v /\ Original(heap, d)
        BY <1>1, <1>4, <2>2, HeapFacts, ConstantFacts DEF Original, W
      <3>2. \A w \in Vaults : Vault(w).doc = d => w = v
        BY <1>1, <1>4, <2>2, <3>1, HeapFacts, ConstantFacts
      <3>3. d # session.document
        BY <1>4, <1>6, <3>1, ConstantFacts DEF SessionInv, SessionOK
      <3>4. d # session.frozen
        BY <1>4, <3>1, ConstantFacts DEF SessionInv, SessionOK
      <3>5. DocOwner(d) \notin session.retired
        BY <1>4, <1>6, <1>8, <2>2, <3>1 DEF RetiredAre
      <3>6. d \notin ExportDocs
        BY <3>1 DEF SessionInv, JobOwnsOK
      <3> QED
        BY <1>1, <1>6, <3>2, <3>3, <3>4, <3>5, <3>6 DEF Jobs
    <2> QED
      BY <1>7, <2>1, <2>2
  <1>10. HeapOK(heap')
    BY <1>4 DEF Spares
  <1>11. TypeOK'
    BY <1>1, <1>3, <1>10 DEF SessionInv, TypeOK, HeapOK
  <1>12. /\ session.document # None => heap'.doc[session.document] = heap.doc[session.document]
         /\ session.frozen # None => heap'.doc[session.frozen] = heap.doc[session.frozen]
    BY <1>1, <1>4, <1>9 DEF Spares, Sessions
  <1>13. \A v \in Vaults \ W : /\ heap'.vault[v].keys = heap.vault[v].keys
                               /\ heap'.vault[v].snapshot = heap.vault[v].snapshot
    BY <1>4 DEF Spares
  <1>14. SessionOK'
    <2>1. Active => session.opened \in Vaults \ W /\ session.document # None
      BY <1>1, <1>6, ConstantFacts DEF SessionInv, SessionOK
    <2>2. session.frozen # None => ~Original(heap', session.frozen)
      BY <1>1, <1>4 DEF SessionInv, SessionOK, Spares, Sessions
    <2> QED
      BY <1>1, <1>12, <1>13, <2>1, <2>2 DEF SessionInv, SessionOK
  <1>15. RetiredOK'
    <2>1. ASSUME NEW d \in Docs, DocOwner(d) \in session.retired
          PROVE  /\ heap'.doc[d] = heap.doc[d]
                 /\ \A v \in Vaults : heap'.vault[v].doc = d => heap.vault[v].doc = d
      BY <1>4, <1>9, <2>1, ConstantFacts DEF Spares
    <2>2. ASSUME NEW v \in Vaults, VaultOwner(v) \in session.retired
          PROVE  heap'.vault[v] = heap.vault[v]
      BY <1>4, <1>6, <1>9, <2>2 DEF Spares
    <2>3. RetiredAre(heap', session', job')
      BY <1>1, <1>8, <2>1, <2>2 DEF RetiredAre, ClosedDoc, ClosedVault
    <2> QED
      BY <1>1, <2>3, RetiredFacts
  <1>16. JobOwnsOK'
    <2>1. ASSUME NEW d \in ExportDocs
          PROVE  /\ ~ClosedDoc(heap', d)
                 /\ ~Original(heap', d)
                 /\ d \notin {session.document, session.frozen}
      <3>1. d \in Docs /\ heap'.doc[d] = heap.doc[d]
        BY <1>1, <1>4, <1>9, <2>1 DEF Spares, Jobs
      <3> QED
        BY <1>4, <2>1, <3>1 DEF SessionInv, JobOwnsOK, ClosedDoc, Spares
    <2>2. ASSUME NEW v \in JobVaults
          PROVE  /\ v # session.opened
                 /\ heap'.vault[v].doc = heap.vault[v].doc
                 /\ heap.vault[v].doc \in Docs
                 /\ heap'.doc[heap.vault[v].doc] = heap.doc[heap.vault[v].doc]
                 /\ \A d \in Docs : heap'.doc[d].vault = v => d = heap.vault[v].doc
      <3>1. /\ v \in Vaults /\ v # session.opened /\ heap.vault[v].doc # None
            /\ \A d \in Docs : Doc(d).vault = v => d = heap.vault[v].doc
        BY <1>1, <2>2 DEF SessionInv, JobOwnsOK, Jobs
      <3>2. heap.vault[v].doc \in Docs \ D
        BY <1>1, <1>9, <2>2, <3>1, HeapFacts
      <3>3. \A d \in Docs : heap'.doc[d].vault = v => heap.doc[d].vault = v
        BY <1>4, <1>10, <3>1, HeapFacts, ConstantFacts DEF Spares
      <3> QED
        BY <1>4, <3>1, <3>2, <3>3 DEF Spares
    <2>3. \A v \in JobVaults : Doc(heap.vault[v].doc).state = "open"
      BY DEF SessionInv, JobOwnsOK
    <2>4. job.vault # None => /\ job.vault # job.source
                              /\ Doc(heap.vault[job.vault].doc).content = job.content
                              /\ job.vault \in JobVaults
      BY DEF SessionInv, JobOwnsOK
    <2>5. \A v \in JobVaults : /\ v # session.opened
                               /\ heap'.vault[v].doc # None
                               /\ heap'.doc[heap'.vault[v].doc].state = "open"
                               /\ \A d \in Docs : heap'.doc[d].vault = v => d = heap'.vault[v].doc
      BY <2>2, <2>3, ConstantFacts
    <2>6. job.vault # None =>
             /\ job.vault # job.source
             /\ heap'.doc[heap'.vault[job.vault].doc].content = job.content
      BY <2>2, <2>4
    <2> QED
      BY <1>1, <2>1, <2>5, <2>6 DEF JobOwnsOK
  <1>17. StepOK' /\ OpeningOK' /\ FrozenOK'
    BY <1>1 DEF SessionInv, StepOK, OpeningOK, FrozenOK
  <1>18. Active => Content' = Content
    BY <1>1, <1>12, ConstantFacts DEF SessionInv, SessionOK
  <1>19. WrittenOK' /\ VersionOK'
    <2>1. Active /\ Saving /\ job.step = "write" =>
             job.doc = session.frozen /\ session.frozen # None
      BY <1>1, ConstantFacts DEF SessionInv, FrozenOK, StepOK
    <2>2. WrittenOK'
      BY <1>1, <1>12, <1>18, <2>1 DEF SessionInv, WrittenOK
    <2> QED
      BY <1>1, <2>2, VersionsStay
  <1>20. CleanOK' /\ SlotOK'
    BY <1>1, <1>18, SlotStays DEF SessionInv, CleanOK, CleanIsPublished
  <1>21. OwnedOK'
    BY <1>3 DEF OwnedOK
  <1> QED
    BY <1>10, <1>11, <1>14, <1>15, <1>16, <1>17, <1>19, <1>20, <1>21 DEF SessionInv

\* An edit leaves the session with the revision it forked, or with its predecessor
\* if that one cannot be closed; both borrow from the vault of the session.
Commits(d, r, content) ==
    /\ HeapOK(heap')
    /\ \A e \in Docs \ {d, r} : heap'.doc[e] = heap.doc[e]
    /\ \A e \in {d, r} : ~ClosedDoc(heap', e) => heap'.doc[e].vault = session.opened
    /\ \A v \in Vaults \ {session.opened} : heap'.vault[v] = heap.vault[v]
    /\ heap'.vault[session.opened].keys = heap.vault[session.opened].keys
    /\ heap'.vault[session.opened].snapshot = heap.vault[session.opened].snapshot
    /\ \A e \in Docs : Original(heap', e) => Original(heap, e)
    /\ \A e \in Docs \ {d, r} : Original(heap, e) => Original(heap', e)
    /\ count' \in Counts
    /\ \/ /\ ClosedDoc(heap', d)
          /\ heap'.doc[r].state = "open"
          /\ heap'.doc[r].content = content
          /\ session' = [session EXCEPT !.document = r, !.changes = TRUE,
                                        !.removed = @ \cup (heap.doc[d].content \ content)]
          /\ count'.failures = 0 => count.failures = 0
          /\ harm' = harm
       \/ /\ ~ClosedDoc(heap', d)
          /\ heap'.doc[d].content = heap.doc[d].content
          /\ session' = session
          /\ count'.failures # 0
          /\ harm' = harm \cup {"edit"}

\* Commit does what Commits says, with a revision that nobody knew.
LEMMA CommitForks ==
    ASSUME SessionInv, Mutable, NEW kept, NEW new, kept \cup new \in SUBSET Leaves,
           (kept \cup new) \cap Vaults \subseteq {session.opened},
           NEW content \in SUBSET Edits, Commit(kept, content, new)
    PROVE  \E r \in Docs : /\ ClosedDoc(heap, r)
                           /\ r \notin {session.document, session.frozen, job.doc, job.copy}
                           /\ Commits(session.document, r, content)
  <1> DEFINE d == session.document
             o == session.opened
             r == AnyOf(FreeDocs)
             f == Retained(heap, d, r, kept \cup new, content)
  <1>1. /\ d \in Docs /\ o \in Vaults /\ Doc(d).vault = o /\ Doc(d).state = "open"
        /\ ~ClosedDoc(heap, d) /\ HeapOK(heap) /\ FreeDocs # {}
        /\ count \in Counts /\ session \in Sessions
    BY ConstantFacts DEF SessionInv, SessionOK, TypeOK, Mutable, Commit, ClosedDoc
  <1>2. /\ r \in Docs /\ ClosedDoc(heap, r)
        /\ r \notin {session.document, session.frozen, job.doc, job.copy}
        /\ \A v \in Vaults : Vault(v).doc # r
    BY <1>1, NewOwners
  <1>3. PICK F \in Faults, G \in Faults :
          LET once == CloseDoc(f, d, F)
              undone == CloseDoc(once, r, G)
          IN
          IF ClosedDoc(once, d)
          THEN /\ G = {}
               /\ heap' = once
               /\ session' = [session EXCEPT !.document = r, !.changes = TRUE,
                                             !.removed = @ \cup (Content \ content)]
               /\ Counted(once, {DocOwner(d)})
               /\ UNCHANGED harm
          ELSE /\ heap' = undone
               /\ Counted(undone, {DocOwner(d)})
               /\ Harmed("edit")
               /\ UNCHANGED session
    BY DEF Commit
  <1> DEFINE once == CloseDoc(f, d, F)
             undone == CloseDoc(once, r, G)
  <1> HIDE DEF r
  <1>4. Forks(heap, f, d, r, content)
    BY <1>1, <1>2, RetainedForks
  <1> HIDE DEF f, d, o
  <1>5. /\ HeapOK(f) /\ f.vault = heap.vault
        /\ \A e \in Docs \ {r} : f.doc[e] = heap.doc[e]
        /\ f.doc[r].state = "open" /\ f.doc[r].vault = o /\ f.doc[r].content = content
        /\ \A e \in Docs : Original(f, e) <=> Original(heap, e)
    BY <1>1, <1>4 DEF Forks, Original
  <1>6. Closes(f, once, {d}, {})
    BY <1>1, <1>5, ClosesDocs DEF CloseDoc
  <1>7. Closes(once, undone, {r}, {})
    <2>1. HeapOK(once)
      BY <1>6 DEF Closes
    <2> QED
      BY <1>2, <2>1, ClosesDocs DEF CloseDoc
  <1>8. Closes(f, undone, {d, r}, {})
    <2>1. Closes(f, undone, {d} \cup {r}, {})
      BY <1>1, <1>2, <1>5, <1>6, <1>7, ClosesCompose
    <2> QED
      BY <2>1
  <1>9. r # d /\ ClosedDoc(undone, d) <=> r # d /\ ClosedDoc(once, d)
    BY <1>1, <1>7 DEF Closes, ClosedDoc
  <1> HIDE DEF once, undone
  <1>10. r # d /\ DocOwner(d) = [kind |-> "doc", id |-> d]
    BY <1>2 DEF d, DocOwner
  <1>11. ASSUME NEW g, Spares(f, g, {d, r}, {})
         PROVE  /\ HeapOK(g)
                /\ \A e \in Docs \ {d, r} : g.doc[e] = heap.doc[e]
                /\ \A e \in {d, r} : ~ClosedDoc(g, e) => g.doc[e].vault = o
                /\ \A v \in Vaults \ {o} : g.vault[v] = heap.vault[v]
                /\ g.vault[o].keys = heap.vault[o].keys
                /\ g.vault[o].snapshot = heap.vault[o].snapshot
                /\ \A e \in Docs : Original(g, e) => Original(heap, e)
                /\ \A e \in Docs \ {d, r} : Original(heap, e) => Original(g, e)
                /\ ~ClosedDoc(g, d) => g.doc[d].content = heap.doc[d].content
    <2>1. \A v \in Vaults \ {o} : heap.vault[v].doc \notin {d, r}
      BY <1>1, <1>2, HeapFacts, ConstantFacts
    <2>2. \A v \in Vaults \ {o} : g.vault[v] = heap.vault[v]
      BY <1>5, <1>11, <2>1 DEF Spares
    <2>3. \A e \in Docs \ {d, r} : Original(heap, e) => Original(g, e)
      <3>1. ASSUME NEW e \in Docs \ {d, r}, NEW v \in Vaults, heap.vault[v].doc = e
            PROVE  g.vault[v].doc = e
        BY <1>5, <1>11, <3>1, ConstantFacts DEF Spares
      <3> QED
        BY <3>1 DEF Original
    <2>4. \A e \in {d, r} : ~ClosedDoc(g, e) => g.doc[e].vault = o
      BY <1>1, <1>2, <1>5, <1>10, <1>11 DEF Spares
    <2> QED
      BY <1>1, <1>2, <1>5, <1>10, <1>11, <2>2, <2>3, <2>4 DEF Spares
  <1>12. CASE ClosedDoc(once, d)
    <2>1. /\ heap' = once
          /\ session' = [session EXCEPT !.document = r, !.changes = TRUE,
                                        !.removed = @ \cup (heap.doc[d].content \ content)]
          /\ Counted(once, {DocOwner(d)})
          /\ harm' = harm
      BY <1>3, <1>12 DEF once, undone, d
    <2>2. Spares(f, once, {d}, {})
      BY <1>1, <1>5, <1>6, ClosesFacts
    <2>3. Spares(f, once, {d, r}, {})
      BY <2>2 DEF Spares
    <2>4. once.doc[r] = f.doc[r]
      BY <1>2, <1>10, <2>2 DEF Spares
    <2>5. /\ count' \in Counts
          /\ count'.failures = 0 => count.failures = 0
      BY <1>1, <2>1, CountedFacts
    <2>6. Commits(d, r, content)
      BY <1>5, <1>11, <1>12, <2>1, <2>3, <2>4, <2>5 DEF Commits, o
    <2> QED
      BY <1>2, <2>6 DEF d
  <1>13. CASE ~ClosedDoc(once, d)
    <2>1. /\ heap' = undone
          /\ session' = session
          /\ Counted(undone, {DocOwner(d)})
          /\ harm' = harm \cup {"edit"}
      BY <1>3, <1>13 DEF once, undone, Harmed
    <2>2. Spares(f, undone, {d, r}, {})
      BY <1>1, <1>2, <1>5, <1>8, ClosesFacts
    <2>3. ~ClosedDoc(undone, d)
      BY <1>9, <1>10, <1>13
    <2>4. count' \in Counts /\ count'.failures # 0
      <3>1. Remaining(undone, {DocOwner(d)}) # {}
        BY <2>3, OwnerFacts DEF Remaining, ClosedOwner
      <3> QED
        BY <1>1, <2>1, <3>1, CountedFacts
    <2>5. Commits(d, r, content)
      BY <1>11, <2>1, <2>2, <2>3, <2>4 DEF Commits, o
    <2> QED
      BY <1>2, <2>5 DEF d
  <1> QED
    BY <1>12, <1>13

\* An edit moves the session from one revision to the next; nothing else of what is
\* alive is touched by it.
LEMMA CommitKept ==
    ASSUME SessionInv, Mutable, NEW kept, NEW new, kept \cup new \in SUBSET Leaves,
           (kept \cup new) \cap Vaults \subseteq {session.opened},
           NEW content \in SUBSET Edits, Commit(kept, content, new), UNCHANGED <<job, disk>>
    PROVE  SessionInv'
  <1> DEFINE d == session.document
             o == session.opened
  <1>1. PICK r \in Docs : /\ ClosedDoc(heap, r)
                          /\ r \notin {d, session.frozen, job.doc, job.copy}
                          /\ Commits(d, r, content)
    BY CommitForks
  <1>2. /\ Active /\ session.frozen = None /\ d \in Docs /\ o \in Vaults
        /\ Doc(d).vault = o /\ ~ClosedDoc(heap, d) /\ HeapOK(heap)
        /\ session \in Sessions /\ job \in Jobs
    BY ConstantFacts DEF SessionInv, SessionOK, TypeOK, Mutable, ClosedDoc
  <1>3. /\ HeapOK(heap')
        /\ \A e \in Docs \ {d, r} : heap'.doc[e] = heap.doc[e]
        /\ \A e \in {d, r} : ~ClosedDoc(heap', e) => heap'.doc[e].vault = o
        /\ \A v \in Vaults \ {o} : heap'.vault[v] = heap.vault[v]
        /\ heap'.vault[o].keys = heap.vault[o].keys
        /\ heap'.vault[o].snapshot = heap.vault[o].snapshot
        /\ \A e \in Docs : Original(heap', e) => Original(heap, e)
        /\ \A e \in Docs \ {d, r} : Original(heap, e) => Original(heap', e)
        /\ count' \in Counts
    BY <1>1 DEF Commits
  <1>4. \/ /\ ClosedDoc(heap', d)
           /\ heap'.doc[r].state = "open"
           /\ session' = [session EXCEPT !.document = r, !.changes = TRUE,
                                         !.removed = @ \cup (heap.doc[d].content \ content)]
           /\ heap'.doc[r].content = content
           /\ count'.failures = 0 => count.failures = 0
           /\ harm' = harm
        \/ /\ ~ClosedDoc(heap', d)
           /\ heap'.doc[d].content = heap.doc[d].content
           /\ session' = session
           /\ count'.failures # 0
           /\ harm' = harm \cup {"edit"}
    BY <1>1 DEF Commits
  <1> HIDE DEF d, o
  <1>5. /\ session' \in Sessions
        /\ session'.opened = o /\ session'.frozen = None /\ ~session'.locked
        /\ session'.locked = session.locked
        /\ session'.retired = session.retired /\ session'.suspended = session.suspended
        /\ session'.base = session.base /\ session'.baseline = session.baseline
        /\ session'.document \in {d, r}
        /\ \/ /\ ClosedDoc(heap', d)
              /\ session'.document = r /\ session'.changes
              /\ session'.removed = session.removed \cup (heap.doc[d].content \ content)
           \/ ~ClosedDoc(heap', d) /\ session' = session
    <2> DEFINE removed == session.removed \cup (heap.doc[d].content \ content)
    <2>1. /\ removed \in SUBSET Edits
          /\ \/ ClosedDoc(heap', d) /\ session' = [session EXCEPT !.document = r, !.changes = TRUE,
                                                           !.removed = removed]
             \/ ~ClosedDoc(heap', d) /\ session' = session
      <3>1. heap.doc[d].content \in SUBSET Edits
        BY <1>2, HeapFacts DEF DocStates, d
      <3> QED
        BY <1>2, <1>4, <3>1 DEF Sessions
    <2> HIDE DEF removed
    <2>2. CASE /\ ClosedDoc(heap', d)
               /\ session' = [session EXCEPT !.document = r, !.changes = TRUE, !.removed = removed]
      <3>1. session' \in Sessions /\ session'.document = r /\ session'.changes
        BY <1>2, <2>1, <2>2 DEF Sessions
      <3>2. session'.removed = removed
        BY <1>2, <2>2 DEF Sessions
      <3>3. /\ session'.opened = session.opened /\ session'.frozen = session.frozen
            /\ session'.locked = session.locked /\ session'.retired = session.retired
            /\ session'.suspended = session.suspended /\ session'.base = session.base
            /\ session'.baseline = session.baseline
        BY <2>2
      <3> QED
        BY <1>2, <2>1, <3>1, <3>2, <3>3 DEF removed, o
    <2>3. CASE ~ClosedDoc(heap', d) /\ session' = session
      BY <1>2, <2>3 DEF d, o
    <2> QED
      BY <2>1, <2>2, <2>3
  <1>6. /\ session'.document \in Docs
        /\ ~ClosedDoc(heap', session'.document)
        /\ heap'.doc[session'.document].vault = o
        /\ "edit" \notin harm' => heap'.doc[session'.document].state = "open"
    <2>1. CASE heap'.doc[r].state = "open" /\ session'.document = r
      <3>1. ~ClosedDoc(heap', r)
        BY <2>1, ConstantFacts DEF ClosedDoc
      <3> QED
        BY <1>3, <2>1, <3>1
    <2>2. CASE ~ClosedDoc(heap', d) /\ session' = session /\ harm' = harm \cup {"edit"}
      BY <1>2, <1>3, <2>2 DEF d
    <2> QED
      BY <1>4, <1>5, <2>1, <2>2
  <1>7. TypeOK'
    BY <1>3, <1>5 DEF SessionInv, TypeOK, HeapOK
  <1>8. SessionOK'
    BY <1>2, <1>3, <1>5, <1>6 DEF SessionInv, SessionOK, o
  <1>9. RetiredOK'
    <2>1. RetiredAre(heap, session, job)
      BY <1>2, RetiredFacts DEF SessionInv
    <2>2. ASSUME NEW e \in Docs, DocOwner(e) \in session.retired
          PROVE  /\ heap'.doc[e] = heap.doc[e]
                 /\ \A v \in Vaults : heap'.vault[v].doc = e => heap.vault[v].doc = e
      <3>1. e \notin {d, r} /\ Doc(e).vault # o
        BY <1>1, <1>2, <2>1, <2>2 DEF RetiredAre, o
      <3>2. heap'.doc[e] = heap.doc[e]
        BY <1>3, <3>1
      <3>3. heap'.vault[o].doc # e
        BY <1>2, <1>3, <3>1, <3>2, HeapFacts, ConstantFacts
      <3> QED
        BY <1>3, <3>2, <3>3
    <2>3. ASSUME NEW v \in Vaults, VaultOwner(v) \in session.retired
          PROVE  heap'.vault[v] = heap.vault[v]
      BY <1>3, <2>1, <2>3 DEF RetiredAre, o
    <2>4. RetiredAre(heap', session', job')
      BY <1>5, <2>1, <2>2, <2>3 DEF RetiredAre, ClosedDoc, ClosedVault, o
    <2> QED
      BY <1>5, <2>4, RetiredFacts
  <1>10. JobOwnsOK'
    <2>1. ASSUME NEW e \in ExportDocs
          PROVE  /\ ~ClosedDoc(heap', e)
                 /\ ~Original(heap', e)
                 /\ e \notin {session'.document, session'.frozen}
      <3>1. e \in Docs \ {d, r}
        BY <1>1, <1>2, <2>1 DEF SessionInv, JobOwnsOK, Jobs, d
      <3>2. e # None
        BY <3>1, ConstantFacts
      <3> QED
        BY <1>3, <1>5, <2>1, <3>1, <3>2 DEF SessionInv, JobOwnsOK, ClosedDoc
    <2>2. ASSUME NEW v \in JobVaults
          PROVE  /\ v # o
                 /\ heap'.vault[v].doc = heap.vault[v].doc
                 /\ heap'.vault[v].doc # None
                 /\ heap'.doc[heap.vault[v].doc] = heap.doc[heap.vault[v].doc]
                 /\ heap'.doc[heap'.vault[v].doc].state = "open"
                 /\ \A e \in Docs : heap'.doc[e].vault = v => e = heap'.vault[v].doc
      <3>1. /\ v \in Vaults /\ v # o /\ heap.vault[v].doc # None
            /\ heap.doc[heap.vault[v].doc].state = "open"
            /\ \A e \in Docs : heap.doc[e].vault = v => e = heap.vault[v].doc
        BY <1>2, <2>2 DEF SessionInv, JobOwnsOK, Jobs, o
      <3>2. heap.vault[v].doc \in Docs \ {d, r}
        BY <1>1, <1>2, <3>1, HeapFacts
      <3>3. heap'.vault[v] = heap.vault[v]
        BY <1>3, <3>1
      <3>4. \A e \in Docs : heap'.doc[e].vault = v => e \notin {d, r}
        BY <1>3, <3>1, HeapFacts, ConstantFacts
      <3> QED
        BY <1>3, <3>1, <3>2, <3>3, <3>4
    <2>3. job.vault # None =>
             /\ job.vault # job.source
             /\ heap'.doc[heap'.vault[job.vault].doc].content = job.content
      BY <2>2 DEF SessionInv, JobOwnsOK
    <2> QED
      BY <1>5, <2>1, <2>2, <2>3 DEF JobOwnsOK
  <1>11. StepOK' /\ OpeningOK'
    BY <1>2 DEF SessionInv, StepOK, OpeningOK
  <1>12. ~(Saving /\ Undecided)
    BY <1>2 DEF SessionInv, FrozenOK, StepOK
  <1>13. FrozenOK' /\ WrittenOK' /\ VersionOK'
    BY <1>2, <1>5, <1>12, VersionsStay DEF FrozenOK, WrittenOK
  <1>14. CleanOK'
    <2>1. CASE session'.changes
      BY <2>1 DEF CleanOK, CleanIsPublished
    <2>2. CASE session' = session /\ heap'.doc[d].content = heap.doc[d].content
      BY <2>2 DEF SessionInv, CleanOK, CleanIsPublished, d
    <2> QED
      BY <1>4, <1>5, <2>1, <2>2
  <1>15. SlotOK'
    <2>1. Content = heap.doc[d].content
      BY DEF d
    <2>2. /\ session.removed \subseteq session'.removed
          /\ Content \subseteq Content' \cup session'.removed
      BY <1>4, <1>5, <2>1 DEF d
    <2> QED
      BY <1>2, <1>5, <2>2, SlotStays
  <1>16. OwnedOK'
    <2>1. CASE count'.failures = 0
      <3>1. count.failures = 0 /\ ClosedDoc(heap', d)
        BY <1>4, <2>1
      <3>2. session'.document = r
        BY <1>5, <3>1
      <3>3. /\ session.retired = {} /\ AllKept(heap, session, job)
            /\ Saving => ClosedDoc(heap, job.doc) \/ session.frozen = job.doc
        BY <3>1, ForgottenFacts DEF SessionInv, OwnedOK
      <3>4. ASSUME NEW e \in Docs, ~ClosedDoc(heap', e)
            PROVE  e \in {session'.document, job'.doc, job'.copy} \/ Original(heap', e)
        <4>1. CASE e \in Docs \ {d, r}
          <5>1. ~ClosedDoc(heap, e) /\ e # session.frozen
            BY <1>2, <1>3, <3>4, <4>1, ConstantFacts DEF ClosedDoc
          <5> QED
            BY <1>3, <3>3, <4>1, <5>1 DEF AllKept, d
        <4> QED
          BY <3>1, <3>2, <3>4, <4>1
      <3>5. ASSUME NEW v \in Vaults, ~ClosedVault(heap', v)
            PROVE  v \in {session'.opened, job'.vault, job'.source}
        BY <1>3, <1>5, <3>3, <3>5 DEF AllKept, ClosedVault, o
      <3>6. AllKept(heap', session', job')
        BY <3>4, <3>5 DEF AllKept
      <3>7. Saving => ClosedDoc(heap', job.doc)
        <4>1. Saving => job.doc \in Docs /\ ClosedDoc(heap, job.doc)
          BY <1>2, <3>3, ConstantFacts DEF SessionInv, StepOK, Jobs
        <4> QED
          BY <1>1, <1>2, <1>3, <4>1 DEF ClosedDoc
      <3> QED
        BY <1>5, <3>3, <3>6, <3>7, ForgottenFacts DEF OwnedOK
    <2>2. CASE count'.failures # 0
      BY <2>2 DEF OwnedOK
    <2> QED
      BY <2>1, <2>2
  <1> QED
    BY <1>3, <1>7, <1>8, <1>9, <1>10, <1>11, <1>13, <1>14, <1>15, <1>16 DEF SessionInv

\* A field is added with a payload of its own, or removed with it.
LEMMA EditKept ==
    ASSUME SessionInv, NEW e \in Edits, Edit(e) \/ Remove(e)
    PROVE  SessionInv'
  <1>1. /\ session.document \in Docs /\ session.opened \in Vaults
        /\ Doc(session.document).vault = session.opened
        /\ ~ClosedDoc(heap, session.document) /\ HeapOK(heap)
    BY ConstantFacts DEF SessionInv, SessionOK, Edit, Remove, Mutable, ClosedDoc
  <1>2. /\ Doc(session.document).pending \in SUBSET Leaves
        /\ Content \in SUBSET Edits
        /\ Doc(session.document).pending \cap Vaults \subseteq {session.opened}
    BY <1>1, HeapFacts DEF DocStates
  <1>3. CASE Edit(e)
    <2>1. /\ Mutable /\ Commit(Doc(session.document).pending, Content \cup {e}, {e})
          /\ UNCHANGED <<job, disk>>
      BY <1>3 DEF Edit
    <2>2. /\ Doc(session.document).pending \cup {e} \in SUBSET Leaves
          /\ Content \cup {e} \in SUBSET Edits
          /\ (Doc(session.document).pending \cup {e}) \cap Vaults \subseteq {session.opened}
      BY <1>2, ConstantFacts DEF Leaves, Buffers
    <2> QED
      BY <2>1, <2>2, CommitKept
  <1>4. CASE Remove(e)
    <2>1. /\ Mutable /\ Commit(Doc(session.document).pending \ {e}, Content \ {e}, {})
          /\ UNCHANGED <<job, disk>>
      BY <1>4 DEF Remove
    <2>2. /\ (Doc(session.document).pending \ {e}) \cup {} \in SUBSET Leaves
          /\ Content \ {e} \in SUBSET Edits
          /\ ((Doc(session.document).pending \ {e}) \cup {}) \cap Vaults \subseteq {session.opened}
      BY <1>2
    <2> QED
      BY <2>1, <2>2, CommitKept
  <1> QED
    BY <1>3, <1>4

-----------------------------------------------------------------------------
(* The invariant holds of every reachable state *)

\* Nothing is alive before the first vault is read.
LEMMA EmptyHeapOK ==
    HeapOK([doc |-> [d \in Docs |-> NoDoc], vault |-> [v \in Vaults |-> NoVault],
            leases |-> [x \in Buffers |-> 0]])
  <1> DEFINE docs == [d \in Docs |-> NoDoc]
             vaults == [v \in Vaults |-> NoVault]
             leases == [x \in Buffers |-> 0]
             h == [doc |-> docs, vault |-> vaults, leases |-> leases]
  <1>1. docs \in [Docs -> DocStates]
    BY ConstantFacts
  <1>2. vaults \in [Vaults -> [doc : Docs \cup {None}, keys : BOOLEAN, snapshot : BOOLEAN]]
    BY DEF NoVault
  <1>3. leases \in [Buffers -> 0 .. MaxDocs]
    OBVIOUS
  <1>4. \A d \in Docs : docs[d] = NoDoc
    OBVIOUS
  <1>5. \A v \in Vaults : vaults[v].doc = None
    BY DEF NoVault
  <1>6. \A x \in Buffers : leases[x] = 0
    OBVIOUS
  <1> HIDE DEF docs, vaults, leases
  <1>7. \A x \in Buffers : h.leases[x] = Cardinality(Holders(h, Docs, x))
    <2>1. \A x : Holders(h, Docs, x) = {}
      BY <1>4, ConstantFacts DEF Holders
    <2> QED
      BY <1>6, <2>1, FS_EmptySet
  <1>8. h \in Heaps
    BY <1>1, <1>2, <1>3 DEF Heaps
  <1>9. HeapOK(h)
    BY <1>4, <1>5, <1>7, <1>8 DEF HeapOK, ClosedDoc
  <1> QED
    BY <1>9 DEF docs, vaults, leases

\* The first session is clean, over a vault that has just been read.
LEMMA InitKept ==
    ASSUME Init
    PROVE  SessionInv
  <1> DEFINE h == [doc |-> [d \in Docs |-> NoDoc], vault |-> [v \in Vaults |-> NoVault],
                   leases |-> [x \in Buffers |-> 0]]
  <1>1. /\ made \in SUBSET Edits
        /\ disk = [source |-> {}, version |-> 0, foreign |-> 0, binding |-> 0,
                   slot |-> IF made = {} THEN None ELSE made]
        /\ heap = Authenticated(h, 1, 1, made)
        /\ session = Adopted(1, made # {}, 0, {})
        /\ job = NoJob
        /\ count = [jobs |-> 0, failures |-> 0, writes |-> 0]
        /\ harm = {}
    BY DEF Init
  <1>2. /\ HeapOK(h) /\ 1 \in Docs /\ 1 \in Vaults
        /\ \A d \in Docs : ClosedDoc(h, d) /\ h.doc[d].vault = None
        /\ \A v \in Vaults : ClosedVault(h, v) /\ h.vault[v].doc = None
    BY EmptyHeapOK, ConstantFacts DEF ClosedDoc, ClosedVault
  <1> HIDE DEF h
  <1>3. Reading(h, heap, 1, 1, made)
    BY <1>1, <1>2, AuthenticatedReads, ConstantFacts
  <1>4. /\ HeapOK(heap)
        /\ Vault(1).doc = 1 /\ Vault(1).keys /\ Vault(1).snapshot
        /\ Doc(1).state = "open" /\ Doc(1).vault = 1 /\ Doc(1).content = made
        /\ \A d \in Docs \ {1} : ClosedDoc(heap, d)
        /\ \A v \in Vaults \ {1} : ClosedVault(heap, v)
    BY <1>2, <1>3 DEF Reading, ClosedDoc, ClosedVault
  <1>5. /\ session \in Sessions
        /\ session.opened = 1 /\ session.document = 1 /\ session.frozen = None
        /\ ~session.locked /\ session.suspended = (made # {}) /\ session.base = {}
        /\ session.retired = {} /\ ~session.changes
        /\ session.baseline = 0 /\ session.removed = {}
    BY <1>1, <1>2, <1>4 DEF Adopted, Sessions
  <1>6. /\ job \in Jobs /\ job.kind = "none" /\ job.step = "none" /\ job.doc = None
        /\ job.copy = None /\ job.vault = None /\ job.source = None /\ job.version = 0
    BY <1>1 DEF Jobs, Kinds, Steps
  <1>7. TypeOK
    BY <1>1, <1>4, <1>5, <1>6 DEF TypeOK, HeapOK, Disks, Counts
  <1>8. SessionOK
    BY <1>2, <1>4, <1>5 DEF SessionOK
  <1>9. RetiredOK /\ JobOwnsOK
    BY <1>5, <1>6 DEF RetiredOK, JobOwnsOK
  <1>10. StepOK /\ OpeningOK /\ FrozenOK /\ WrittenOK /\ VersionOK
    BY <1>1, <1>5, <1>6 DEF StepOK, OpeningOK, FrozenOK, WrittenOK, VersionOK, Unmoved
  <1>11. CleanOK /\ SlotOK
    <2>1. Content = made
      BY <1>4, <1>5
    <2>2. made # {} => disk.slot = made
      BY <1>1
    <2>3. disk.binding = disk.version
      BY <1>1
    <2>4. made # None
      BY <1>1
    <2> QED
      BY <1>5, <1>6, <2>1, <2>2, <2>3, <2>4 DEF CleanOK, CleanIsPublished, SlotOK, SlotIsResumable, Overwritten
  <1>12. OwnedOK
    <2>1. AllKept(heap, session, job)
      BY <1>4, <1>5 DEF AllKept
    <2> QED
      BY <1>5, <1>6, <2>1, ForgottenFacts DEF OwnedOK
  <1> QED
    BY <1>4, <1>7, <1>8, <1>9, <1>10, <1>11, <1>12 DEF SessionInv

\* Every step keeps the invariant.
LEMMA NextKept ==
    ASSUME SessionInv, Next
    PROVE  SessionInv'
  <1>1. CASE Client
    BY <1>1, EditKept, LockKept, DiscardAndLockKept, ForgetKept DEF Client
  <1>2. CASE Service
    BY <1>2, JobFailsKept, ReadSourceKept, ReadVaultKept, AdoptKept, CopyExportKept,
       PublishExportKept, WriteCandidateKept, ReopenCandidateKept, PublishSourceKept,
       FinishSaveKept, FinishSaveFailsKept, CleanupPendingKept, PublishPendingKept,
       SourceMovedKept, FinishSuspendKept, EndJobKept DEF Service
  <1>3. CASE Request
    BY <1>3, BeginOpenKept, BeginResumeKept, FreezesKept
       DEF Request, BeginSave, BeginRotate, BeginSuspend, BeginExport
  <1>4. CASE Collect
    BY <1>4, FinaliseKept DEF Collect
  <1> QED
    BY <1>1, <1>2, <1>3, <1>4, ForeignWriteKept DEF Next

\* A step that changes nothing keeps the invariant.
LEMMA StutterKept ==
    ASSUME SessionInv, UNCHANGED vars
    PROVE  SessionInv'
  <1>1. UNCHANGED <<heap, session, job, disk, count, made, harm>>
    BY DEF vars
  <1>2. TypeOK'
    BY <1>1 DEF SessionInv, TypeOK
  <1>3. HeapOK(heap') /\ SessionOK' /\ RetiredOK' /\ JobOwnsOK' /\ OwnedOK'
    BY <1>1, Steady
  <1>4. StepOK' /\ OpeningOK' /\ FrozenOK' /\ WrittenOK' /\ VersionOK'
    BY <1>1 DEF SessionInv, StepOK, OpeningOK, FrozenOK, WrittenOK, VersionOK, Unmoved
  <1>5. CleanOK' /\ SlotOK'
    BY <1>1 DEF SessionInv, CleanOK, CleanIsPublished, SlotOK, SlotIsResumable, Overwritten
  <1> QED
    BY <1>2, <1>3, <1>4, <1>5 DEF SessionInv

\* The thirteen facts about owners, session, operation and slot hold in every
\* reachable state, whatever the interleaving of the session's methods with an
\* operation, and whichever closes fail.
THEOREM SessionInvariant == Spec => []SessionInv
  <1>1. Init => SessionInv
    BY InitKept
  <1>2. SessionInv /\ [Next]_vars => SessionInv'
    <2>1. SessionInv /\ Next => SessionInv'
      BY NextKept
    <2>2. SessionInv /\ UNCHANGED vars => SessionInv'
      BY StutterKept
    <2> QED
      BY <2>1, <2>2
  <1> QED
    BY <1>1, <1>2, PTL DEF Spec

\* The count in every inline buffer is the number of documents that will still
\* release it (VaultDocument.retain, close; _fork_document).
THEOREM LeasesOwned == Spec => []LeasesAreOwned
  <1>1. SessionInv => LeasesAreOwned
    BY DEF SessionInv, HeapOK, LeasesAreOwned, Holders
  <1> QED
    BY <1>1, SessionInvariant, PTL

\* As long as no close fails, every live document and vault is owned by the session
\* or by the operation under way: nothing is left to a finaliser (the finally
\* clauses of service.py, VaultSession._close_resources).
THEOREM NothingForgotten == Spec => []NothingIsForgotten
  <1>1. SessionInv => NothingIsForgotten
    BY DEF SessionInv, OwnedOK, NothingIsForgotten
  <1> QED
    BY <1>1, SessionInvariant, PTL

\* An active session can stream every payload of its document, unless an edit could
\* not close a predecessor (VaultSession._commit, the leases of payloads.py).
THEOREM LiveReadable == Spec => []LiveIsReadable
  <1>1. SessionInv => LiveIsReadable
    <2> SUFFICES ASSUME SessionInv, Active, "edit" \notin harm
                 PROVE  /\ Readable(session.document)
                        /\ Doc(session.document).vault = session.opened
      BY DEF LiveIsReadable
    <2>1. /\ session.document \in Docs /\ session.opened \in Vaults
          /\ Doc(session.document).state = "open"
          /\ Doc(session.document).vault = session.opened
          /\ Vault(session.opened).keys /\ Vault(session.opened).snapshot
      BY DEF SessionInv, SessionOK
    <2> QED
      BY <2>1, OpenIsReadable DEF SessionInv
  <1> QED
    BY <1>1, SessionInvariant, PTL

\* A session without changes holds what its source held when it was opened, saved or
\* re-encrypted, or what its pending slot holds (has_unsaved_changes).
THEOREM CleanPublished == Spec => []CleanIsPublished
  <1>1. SessionInv => CleanIsPublished
    BY DEF SessionInv, CleanOK
  <1> QED
    BY <1>1, SessionInvariant, PTL

\* A service operation leaves no revision frozen behind, unless its close or the
\* comparison of the published one failed (_abort_save, _finish_save).
THEOREM NeverFrozen == Spec => []NeverStaysFrozen
  <1>1. SessionInv => NeverStaysFrozen
    BY DEF SessionInv, FrozenOK, NeverStaysFrozen
  <1> QED
    BY <1>1, SessionInvariant, PTL

\* Until another program overwrites the source, a resumed session has its slot at
\* every step: bound to the source as it is, or with nothing in it that the source
\* lacks and the session has not removed (service.py save, suspend,
\* change_master_passphrase; session.py _finish_pending_cleanup).
THEOREM SlotResumable == Spec => []SlotIsResumable
  <1>1. SessionInv => SlotIsResumable
    BY DEF SessionInv, SlotOK, SlotIsResumable
  <1> QED
    BY <1>1, SessionInvariant, PTL

=============================================================================
