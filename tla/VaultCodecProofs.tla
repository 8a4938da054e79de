---------------------------- MODULE VaultCodecProofs ---------------------------
(***************************************************************************)
(* What the reader, the writer and the edits of VaultCodec keep, for every *)
(* set of files, every limit and every number of operations, edits, faults *)
(* and interferences.                                                      *)
(*                                                                         *)
(* The first sections are about the operators of VaultFormat.  FlattenSeq  *)
(* and FoldLeft choose a recursive function, so a lemma first shows that   *)
(* there is one; what they compute then follows by induction on a set of   *)
(* numbers or of sequences (NatInd, SeqInd).  On these rest three facts:   *)
(* a document the writer accepts is read back as the same document         *)
(* (WritableReads), what the reader builds is as it would judge it itself  *)
(* (DocumentFaithful), and a fork of such a document is one again and      *)
(* differs from it in one edit (EditKind).                                 *)
(*                                                                         *)
(* CodecInv (in VaultCodec) says what a transaction has made sure of and   *)
(* holds open at each step, what a service operation writes and has        *)
(* verified, and that without a fault the candidate is what the writer     *)
(* made.  One lemma per action shows that the action keeps it; StepKept    *)
(* puts them together.                                                     *)
(***************************************************************************)
EXTENDS VaultCodec, FiniteSetTheorems, SequenceTheorems, WellFoundedInduction, TLAPS

-----------------------------------------------------------------------------
(* Induction *)

\* A set of numbers that is not empty has a least element.
LEMMA Least ==
    ASSUME NEW T, T \subseteq Nat, T # {}
    PROVE  \E m \in T : \A k \in T : m <= k
<1>1. IsWellFoundedOn(OpToRel(<, Nat), Nat)
  BY NatLessThanWellFounded
<1>2. PICK m \in T : \A k \in T : <<k, m>> \notin OpToRel(<, Nat)
  BY <1>1, WFMin
<1>3. \A k \in T : ~(k < m)
  BY <1>2 DEF OpToRel
<1> QED BY <1>3

\* Induction, for a set of numbers.
LEMMA NatInd ==
    ASSUME NEW T, 0 \in T, \A k \in Nat : k \in T => k + 1 \in T
    PROVE  \A k \in Nat : k \in T
<1> DEFINE Bad == {k \in Nat : k \notin T}
<1>1. SUFFICES ASSUME Bad # {} PROVE FALSE
  OBVIOUS
<1> HIDE DEF Bad
<1>2. PICK m \in Bad : \A k \in Bad : m <= k
  BY Least, <1>1 DEF Bad
<1>3. m # 0 /\ m \in Nat /\ m - 1 \in Nat /\ m \notin T
  BY <1>2 DEF Bad
<1>4. m - 1 \in T
  BY <1>2, <1>3 DEF Bad
<1>5. m - 1 + 1 \in T
  BY <1>3, <1>4
<1> QED BY <1>5, <1>3

-----------------------------------------------------------------------------
(* Concatenations *)

\* f computes the concatenations of the first sequences of ss.
Concatenates(f, ss, n) == f = [i \in 1 .. n |-> IF i = 1 THEN ss[i] ELSE f[i - 1] \o ss[i]]

\* The function at one place.
LEMMA ConcatenatesAt ==
    ASSUME NEW f, NEW ss, NEW n \in Nat, Concatenates(f, ss, n), NEW i \in 1 .. n
    PROVE  f[i] = IF i = 1 THEN ss[i] ELSE f[i - 1] \o ss[i]
<1> DEFINE g == [k \in 1 .. n |-> IF k = 1 THEN ss[k] ELSE f[k - 1] \o ss[k]]
<1>1. f = g
  BY DEF Concatenates
<1>2. g[i] = IF i = 1 THEN ss[i] ELSE f[i - 1] \o ss[i]
  OBVIOUS
<1> QED BY ONLY <1>1, <1>2

\* There is such a function, for every number of sequences.
LEMMA ConcatenatesExists ==
    ASSUME NEW ss, NEW n \in Nat
    PROVE  \E f : Concatenates(f, ss, n)
<1> DEFINE T == {m \in Nat : \E f : Concatenates(f, ss, m)}
<1>1. 0 \in T
  <2>1. Concatenates([i \in 1 .. 0 |-> ss[i]], ss, 0)
    BY DEF Concatenates
  <2> QED BY <2>1
<1>2. ASSUME NEW m \in Nat, m \in T PROVE m + 1 \in T
  <2>1. PICK f : Concatenates(f, ss, m)
    BY <1>2
  <2> DEFINE g == [i \in 1 .. m + 1 |-> IF i = 1 THEN ss[i] ELSE f[i - 1] \o ss[i]]
  <2>2. \A i \in 1 .. m : g[i] = f[i]
    BY <2>1, ConcatenatesAt
  <2>3. g = [i \in 1 .. m + 1 |-> IF i = 1 THEN ss[i] ELSE g[i - 1] \o ss[i]]
    <3>1. \A i \in 1 .. m + 1 : i # 1 => i - 1 \in 1 .. m
      OBVIOUS
    <3> QED BY <2>2, <3>1
  <2>4. Concatenates(g, ss, m + 1)
    BY <2>3 DEF Concatenates
  <2> QED BY <2>4
<1> HIDE DEF T
<1>3. \A k \in Nat : k \in T
  BY <1>1, <1>2, NatInd
<1> QED BY <1>3 DEF T

\* FlattenSeq, whose definition chooses a function, computes with one that exists.
LEMMA FlattenFcn ==
    ASSUME NEW ss, Len(ss) \in Nat \ {0}
    PROVE  \E f : Concatenates(f, ss, Len(ss)) /\ FlattenSeq(ss) = f[Len(ss)]
<1> DEFINE F == CHOOSE f : Concatenates(f, ss, Len(ss))
<1>1. Concatenates(F, ss, Len(ss))
  BY ConcatenatesExists
<1>2. FlattenSeq(ss) = F[Len(ss)]
  BY DEF FlattenSeq, Concatenates
<1> QED BY <1>1, <1>2

\* Nothing makes nothing.
LEMMA FlattenEmpty == FlattenSeq(<<>>) = <<>>
BY DEF FlattenSeq

\* One function serves for a sequence and for its extension.
LEMMA ConcatenatesAgree ==
    ASSUME NEW f, NEW g, NEW ss, NEW tt, NEW n \in Nat, NEW m \in Nat, n <= m,
           Concatenates(f, ss, n), Concatenates(g, tt, m),
           \A i \in 1 .. n : ss[i] = tt[i]
    PROVE  \A i \in 1 .. n : f[i] = g[i]
<1> DEFINE T == {k \in Nat : k \in 1 .. n => f[k] = g[k]}
<1>1. 0 \in T
  OBVIOUS
<1>2. ASSUME NEW k \in Nat, k \in T PROVE k + 1 \in T
  <2>1. SUFFICES ASSUME k + 1 \in 1 .. n PROVE f[k + 1] = g[k + 1]
    OBVIOUS
  <2>2. f[k + 1] = IF k + 1 = 1 THEN ss[k + 1] ELSE f[k + 1 - 1] \o ss[k + 1]
    BY <2>1, ConcatenatesAt
  <2>3. k + 1 \in 1 .. m
    BY <2>1
  <2>4. g[k + 1] = IF k + 1 = 1 THEN tt[k + 1] ELSE g[k + 1 - 1] \o tt[k + 1]
    BY <2>3, ConcatenatesAt
  <2>5. ss[k + 1] = tt[k + 1]
    BY <2>1
  <2>6. CASE k = 0
    BY <2>2, <2>4, <2>5, <2>6
  <2>7. CASE k # 0
    <3>1. f[k] = g[k] /\ k + 1 - 1 = k /\ k + 1 # 1
      BY <1>2, <2>1, <2>7
    <3> QED BY <3>1, <2>2, <2>4, <2>5
  <2> QED BY <2>6, <2>7
<1> HIDE DEF T
<1>3. \A k \in Nat : k \in T
  BY <1>1, <1>2, NatInd
<1> QED BY <1>3 DEF T

\* One more sequence at the end is concatenated at the end.
LEMMA FlattenExtend ==
    ASSUME NEW ss, NEW tt, Len(ss) \in Nat \ {0}, Len(tt) = Len(ss) + 1,
           \A i \in 1 .. Len(ss) : ss[i] = tt[i]
    PROVE  FlattenSeq(tt) = FlattenSeq(ss) \o tt[Len(tt)]
<1>1. PICK f : Concatenates(f, ss, Len(ss)) /\ FlattenSeq(ss) = f[Len(ss)]
  BY FlattenFcn
<1>2. PICK g : Concatenates(g, tt, Len(tt)) /\ FlattenSeq(tt) = g[Len(tt)]
  BY FlattenFcn
<1>3. g[Len(tt)] = IF Len(tt) = 1 THEN tt[Len(tt)] ELSE g[Len(tt) - 1] \o tt[Len(tt)]
  BY <1>2, ConcatenatesAt
<1>4. \A i \in 1 .. Len(ss) : f[i] = g[i]
  <2>1. Len(ss) \in Nat /\ Len(tt) \in Nat /\ Len(ss) <= Len(tt)
    OBVIOUS
  <2> QED BY <2>1, <1>1, <1>2, ConcatenatesAgree
<1>5. f[Len(ss)] = g[Len(ss)]
  BY <1>4
<1>6. Len(tt) - 1 = Len(ss) /\ Len(tt) # 1
  OBVIOUS
<1> QED BY <1>1, <1>2, <1>3, <1>5, <1>6

\* The same, for Append.
LEMMA FlattenAppend ==
    ASSUME NEW S, NEW ss \in Seq(Seq(S)), NEW s \in Seq(S)
    PROVE  FlattenSeq(Append(ss, s)) = FlattenSeq(ss) \o s
<1> DEFINE tt == Append(ss, s)
<1>1. /\ tt \in Seq(Seq(S)) /\ Len(tt) = Len(ss) + 1 /\ Len(ss) \in Nat
      /\ \A i \in 1 .. Len(ss) : tt[i] = ss[i]
      /\ tt[Len(ss) + 1] = s
  BY AppendProperties, LenProperties
<1> HIDE DEF tt
<1>4. CASE Len(ss) = 0
  <2>1. ss = <<>> /\ FlattenSeq(ss) = <<>>
    BY <1>4, EmptySeq, FlattenEmpty
  <2>2. <<>> \o s = s
    BY ConcatEmptySeq
  <2>3. Len(tt) = 1 /\ tt[1] = s
    BY <1>1, <1>4
  <2>4. PICK g : Concatenates(g, tt, Len(tt)) /\ FlattenSeq(tt) = g[Len(tt)]
    BY <1>1, FlattenFcn
  <2>5. g[1] = IF 1 = 1 THEN tt[1] ELSE g[1 - 1] \o tt[1]
    BY <2>3, <2>4, ConcatenatesAt
  <2> QED BY <2>1, <2>2, <2>3, <2>4, <2>5 DEF tt
<1>5. CASE Len(ss) # 0
  BY <1>1, <1>5, FlattenExtend DEF tt
<1> QED BY <1>4, <1>5

\* Induction, for a set of sequences.
LEMMA SeqInd ==
    ASSUME NEW S, NEW T, <<>> \in T,
           \A s \in Seq(S), e \in S : s \in T => Append(s, e) \in T
    PROVE  \A s \in Seq(S) : s \in T
<1> DEFINE L == {n \in Nat : \A s \in Seq(S) : Len(s) = n => s \in T}
<1>1. 0 \in L
  BY EmptySeq
<1>2. ASSUME NEW n \in Nat, n \in L PROVE n + 1 \in L
  <2>1. SUFFICES ASSUME NEW s \in Seq(S), Len(s) = n + 1 PROVE s \in T
    OBVIOUS
  <2>2. s # <<>>
    BY <2>1, EmptySeq
  <2>3. PICK t \in Seq(S), e \in S : s = Append(t, e)
    BY <2>2, SequenceEmptyOrAppend
  <2>4. Len(t) = n
    BY <2>1, <2>3, AppendProperties, LenProperties
  <2> QED BY <1>2, <2>3, <2>4
<1> HIDE DEF L
<1>3. \A n \in Nat : n \in L
  BY <1>1, <1>2, NatInd
<1> QED BY <1>3, LenProperties DEF L

\* What a concatenation holds comes from the parts.
LEMMA FlattenType ==
    ASSUME NEW S, NEW ss \in Seq(Seq(S))
    PROVE  FlattenSeq(ss) \in Seq(S)
<1> DEFINE T == {tt \in Seq(Seq(S)) : FlattenSeq(tt) \in Seq(S)}
<1>1. <<>> \in T
  BY FlattenEmpty, EmptySeq
<1>2. ASSUME NEW tt \in Seq(Seq(S)), NEW s \in Seq(S), tt \in T PROVE Append(tt, s) \in T
  BY <1>2, FlattenAppend, AppendProperties, ConcatProperties
<1> HIDE DEF T
<1>3. \A tt \in Seq(Seq(S)) : tt \in T
  BY <1>1, <1>2, SeqInd
<1> QED BY <1>3 DEF T

-----------------------------------------------------------------------------
(* Reading frame by frame *)

\* iter is the function MapThenFoldSet builds to fold Frame over the first n frames
Folds(iter, wire, n) ==
    iter = [s \in SUBSET (1 .. n) |->
              IF s = {} THEN Unread ELSE Frame(iter[s \ {Max(s)}], wire[Max(s)])]

\* The function at one place.
LEMMA FoldsAt ==
    ASSUME NEW iter, NEW wire, NEW n \in Nat, Folds(iter, wire, n), NEW s \in SUBSET (1 .. n)
    PROVE  iter[s] = IF s = {} THEN Unread ELSE Frame(iter[s \ {Max(s)}], wire[Max(s)])
<1> DEFINE g == [r \in SUBSET (1 .. n) |->
                   IF r = {} THEN Unread ELSE Frame(iter[r \ {Max(r)}], wire[Max(r)])]
<1>1. iter = g
  BY DEF Folds
<1>2. g[s] = IF s = {} THEN Unread ELSE Frame(iter[s \ {Max(s)}], wire[Max(s)])
  OBVIOUS
<1> QED BY ONLY <1>1, <1>2

\* The greatest of numbers up to n is n, if n is one of them.
LEMMA MaxIs ==
    ASSUME NEW n \in Nat, NEW s \in SUBSET (1 .. n), n \in s
    PROVE  Max(s) = n
<1>1. \A y \in s : n >= y
  OBVIOUS
<1>2. \A x \in s : (\A y \in s : x >= y) => x = n
  OBVIOUS
<1> QED BY <1>1, <1>2 DEF Max

\* There is such a function, for every number of frames.
LEMMA FoldsExists ==
    ASSUME NEW wire, NEW n \in Nat
    PROVE  \E iter : Folds(iter, wire, n)
<1> DEFINE T == {m \in Nat : \E iter : Folds(iter, wire, m)}
<1>1. 0 \in T
  <2> DEFINE g == [s \in SUBSET (1 .. 0) |-> Unread]
  <2>1. g = [s \in SUBSET (1 .. 0) |->
               IF s = {} THEN Unread ELSE Frame(g[s \ {Max(s)}], wire[Max(s)])]
    <3>1. \A s \in SUBSET (1 .. 0) : s = {}
      OBVIOUS
    <3> QED BY <3>1
  <2>2. Folds(g, wire, 0)
    BY <2>1 DEF Folds
  <2> QED BY <2>2
<1>2. ASSUME NEW m \in Nat, m \in T PROVE m + 1 \in T
  <2>1. PICK f : Folds(f, wire, m)
    BY <1>2
  <2>0. \A s \in SUBSET (1 .. m) :
          f[s] = IF s = {} THEN Unread ELSE Frame(f[s \ {Max(s)}], wire[Max(s)])
    BY <2>1, FoldsAt
  <2> DEFINE D == SUBSET (1 .. m + 1)
             g == [s \in D |-> IF m + 1 \in s THEN Frame(f[s \ {m + 1}], wire[m + 1]) ELSE f[s]]
  <2>2. ASSUME NEW s \in D, m + 1 \notin s PROVE s \in SUBSET (1 .. m)
    <3>1. \A i \in s : i \in 1 .. m
      BY <2>2
    <3> QED BY <3>1
  <2>3. \A s \in D : m + 1 \notin s => g[s] = f[s]
    OBVIOUS
  <2>4. ASSUME NEW s \in D
        PROVE  g[s] = IF s = {} THEN Unread ELSE Frame(g[s \ {Max(s)}], wire[Max(s)])
    <3>1. CASE m + 1 \in s
      <4>1. Max(s) = m + 1
        BY <3>1, MaxIs
      <4>2. s \ {m + 1} \in D /\ m + 1 \notin s \ {m + 1} /\ s # {}
        BY <3>1
      <4>3. g[s \ {m + 1}] = f[s \ {m + 1}]
        BY <2>3, <4>2
      <4>4. g[s] = Frame(f[s \ {m + 1}], wire[m + 1])
        BY <3>1
      <4> QED BY ONLY <4>1, <4>2, <4>3, <4>4
    <3>2. CASE m + 1 \notin s
      <4>1. s \in SUBSET (1 .. m) /\ g[s] = f[s]
        BY <2>2, <2>3, <3>2
      <4>2. f[s] = IF s = {} THEN Unread ELSE Frame(f[s \ {Max(s)}], wire[Max(s)])
        BY <2>0, <4>1
      <4>3. s \ {Max(s)} \in D /\ m + 1 \notin s \ {Max(s)}
        BY <3>2
      <4>4. g[s \ {Max(s)}] = f[s \ {Max(s)}]
        BY <2>3, <4>3
      <4> QED BY ONLY <4>1, <4>2, <4>4
    <3> QED BY <3>1, <3>2
  <2> HIDE DEF g
  <2>5. g = [s \in D |-> IF s = {} THEN Unread ELSE Frame(g[s \ {Max(s)}], wire[Max(s)])]
    BY <2>4 DEF g
  <2>6. Folds(g, wire, m + 1)
    BY <2>5 DEF Folds
  <2> QED BY <2>6
<1> HIDE DEF T
<1>3. \A k \in Nat : k \in T
  BY <1>1, <1>2, NatInd
<1> QED BY <1>3 DEF T

\* at[k] is what the reader has after k frames
Turns(at, wire) ==
    /\ DOMAIN at = 0 .. Len(wire)
    /\ at[0] = Unread
    /\ \A k \in 1 .. Len(wire) : at[k] = Frame(at[k - 1], wire[k])

\* Reading a file is taking its frames one turn after the other.
LEMMA FoldIsTurns ==
    ASSUME NEW S, NEW wire \in Seq(S)
    PROVE  \E at : Turns(at, wire) /\ FoldLeft(Frame, Unread, wire) = at[Len(wire)]
<1> DEFINE n == Len(wire)
           F == CHOOSE iter : Folds(iter, wire, n)
           at == [k \in 0 .. n |-> F[1 .. k]]
<1>1. n \in Nat /\ DOMAIN wire = 1 .. n
  BY LenProperties
<1>2. Folds(F, wire, n)
  BY <1>1, FoldsExists
<1>3. FoldLeft(Frame, Unread, wire) = F[1 .. n]
  BY <1>1 DEF FoldLeft, MapThenFoldSet, Folds
<1> HIDE DEF F, n
<1>7. \A s \in SUBSET (1 .. n) :
        F[s] = IF s = {} THEN Unread ELSE Frame(F[s \ {Max(s)}], wire[Max(s)])
  BY <1>1, <1>2, FoldsAt
<1>4. at[0] = Unread
  <2>1. 1 .. 0 = {} /\ 1 .. 0 \in SUBSET (1 .. n) /\ at[0] = F[1 .. 0]
    BY <1>1
  <2> QED BY <2>1, <1>1, <1>2, FoldsAt
<1>5. ASSUME NEW k \in 1 .. n PROVE at[k] = Frame(at[k - 1], wire[k])
  <2>1. 1 .. k \in SUBSET (1 .. n) /\ k \in 1 .. k /\ 1 .. k # {} /\ k \in Nat
    BY <1>1
  <2>2. Max(1 .. k) = k
    BY <2>1, MaxIs
  <2>3. (1 .. k) \ {k} = 1 .. k - 1
    BY <1>1
  <2>4. F[1 .. k] = Frame(F[1 .. k - 1], wire[k])
    <3>1. F[1 .. k] = Frame(F[(1 .. k) \ {Max(1 .. k)}], wire[Max(1 .. k)])
      BY <1>7, <2>1
    <3> QED BY ONLY <3>1, <2>2, <2>3
  <2>5. at[k] = F[1 .. k] /\ at[k - 1] = F[1 .. k - 1]
    BY <1>1
  <2> QED BY ONLY <2>4, <2>5
<1>6. Turns(at, wire) /\ FoldLeft(Frame, Unread, wire) = at[Len(wire)]
  BY <1>1, <1>3, <1>4, <1>5 DEF Turns, n
<1> QED BY <1>6

\* The turns do not depend on what follows.
LEMMA TurnsAgree ==
    ASSUME NEW at, NEW bt, NEW wire, NEW longer, Len(wire) \in Nat, Len(longer) \in Nat,
           Len(wire) <= Len(longer), \A i \in 1 .. Len(wire) : wire[i] = longer[i],
           Turns(at, wire), Turns(bt, longer)
    PROVE  \A k \in 0 .. Len(wire) : at[k] = bt[k]
<1> DEFINE T == {k \in Nat : k <= Len(wire) => at[k] = bt[k]}
<1>1. 0 \in T
  BY DEF Turns
<1>2. ASSUME NEW k \in Nat, k \in T PROVE k + 1 \in T
  <2>1. SUFFICES ASSUME k + 1 <= Len(wire) PROVE at[k + 1] = bt[k + 1]
    OBVIOUS
  <2>2. at[k] = bt[k]
    BY <1>2, <2>1
  <2>3. k + 1 \in 1 .. Len(wire) /\ k + 1 \in 1 .. Len(longer) /\ k + 1 - 1 = k
    BY <2>1
  <2>4. at[k + 1] = Frame(at[k + 1 - 1], wire[k + 1])
    BY <2>3 DEF Turns
  <2>5. bt[k + 1] = Frame(bt[k + 1 - 1], longer[k + 1])
    BY <2>3 DEF Turns
  <2> QED BY <2>2, <2>3, <2>4, <2>5
<1> HIDE DEF T
<1>3. \A k \in Nat : k \in T
  BY <1>1, <1>2, NatInd
<1> QED BY <1>3 DEF T

Run(wire) == FoldLeft(Frame, Unread, wire)

\* Nothing read.
LEMMA RunEmpty == Run(<<>>) = Unread
<1>1. <<>> \in Seq({}) /\ Len(<<>>) = 0
  BY EmptySeq
<1>2. PICK at : Turns(at, <<>>) /\ Run(<<>>) = at[Len(<<>>)]
  BY <1>1, FoldIsTurns DEF Run
<1> QED BY <1>1, <1>2 DEF Turns

\* One frame more is one turn more.
LEMMA RunExtends ==
    ASSUME NEW wire, NEW longer, Len(wire) \in Nat, Len(longer) = Len(wire) + 1,
           \A i \in 1 .. Len(wire) : wire[i] = longer[i],
           NEW at, NEW bt, Turns(at, wire), Turns(bt, longer)
    PROVE  bt[Len(longer)] = Frame(at[Len(wire)], longer[Len(longer)])
<1>1. at[Len(wire)] = bt[Len(wire)]
  <2>1. \A k \in 0 .. Len(wire) : at[k] = bt[k]
    BY TurnsAgree
  <2> QED BY <2>1
<1>2. Len(longer) \in 1 .. Len(longer) /\ Len(longer) - 1 = Len(wire)
  OBVIOUS
<1>3. bt[Len(longer)] = Frame(bt[Len(longer) - 1], longer[Len(longer)])
  BY <1>2 DEF Turns
<1> QED BY <1>1, <1>2, <1>3

\* The same, for Append.
LEMMA RunAppend ==
    ASSUME NEW S, NEW wire \in Seq(S), NEW frame \in S
    PROVE  Run(Append(wire, frame)) = Frame(Run(wire), frame)
<1> DEFINE longer == Append(wire, frame)
<1>1. /\ longer \in Seq(S) /\ Len(longer) = Len(wire) + 1 /\ Len(wire) \in Nat
      /\ \A i \in 1 .. Len(wire) : wire[i] = longer[i]
      /\ longer[Len(wire) + 1] = frame
  BY AppendProperties, LenProperties
<1>2. PICK at : Turns(at, wire) /\ Run(wire) = at[Len(wire)]
  BY FoldIsTurns DEF Run
<1> HIDE DEF longer
<1>3. PICK bt : Turns(bt, longer) /\ Run(longer) = bt[Len(longer)]
  BY <1>1, FoldIsTurns DEF Run
<1>4. bt[Len(longer)] = Frame(at[Len(wire)], longer[Len(longer)])
  BY <1>1, <1>2, <1>3, RunExtends
<1> QED BY <1>1, <1>2, <1>3, <1>4 DEF longer

Ended(fields) ==
    /\ Len(fields) > 0
    /\ fields[Len(fields)] = [type |-> "end", payload |-> "empty"]
    /\ \A i \in 1 .. Len(fields) - 1 : fields[i].type # "end"

Endless(fields) == \A i \in DOMAIN fields : fields[i].type # "end"

\* A section that ends once is an endless sequence and its end.
LEMMA Uncons ==
    ASSUME NEW fields \in Seq(Frames), Ended(fields)
    PROVE  \E body \in Seq(Frames), last \in Frames :
             /\ fields = Append(body, last)
             /\ last = [type |-> "end", payload |-> "empty"]
             /\ Len(fields) = Len(body) + 1
             /\ Endless(body)
<1>1. fields # <<>>
  BY EmptySeq DEF Ended
<1>2. PICK body \in Seq(Frames), last \in Frames : fields = Append(body, last)
  BY <1>1, SequenceEmptyOrAppend
<1>3. /\ Len(fields) = Len(body) + 1 /\ Len(body) \in Nat /\ DOMAIN body = 1 .. Len(body)
      /\ \A i \in 1 .. Len(body) : fields[i] = body[i]
      /\ fields[Len(body) + 1] = last
  BY <1>2, AppendProperties, LenProperties
<1>4. last = [type |-> "end", payload |-> "empty"] /\ Endless(body)
  BY <1>3 DEF Ended, Endless
<1> QED BY <1>2, <1>3, <1>4

\* A part of a section without an end has none either.
LEMMA OpenAppend ==
    ASSUME NEW body \in Seq(Frames), NEW frame \in Frames, Endless(Append(body, frame))
    PROVE  Endless(body) /\ frame.type # "end"
<1>1. /\ Len(Append(body, frame)) = Len(body) + 1 /\ Len(body) \in Nat
      /\ DOMAIN body = 1 .. Len(body) /\ DOMAIN Append(body, frame) = 1 .. Len(Append(body, frame))
      /\ \A i \in 1 .. Len(body) : Append(body, frame)[i] = body[i]
      /\ Append(body, frame)[Len(body) + 1] = frame
  BY AppendProperties, LenProperties
<1>2. Len(body) + 1 \in DOMAIN Append(body, frame) /\ DOMAIN body \subseteq DOMAIN Append(body, frame)
  BY <1>1
<1> QED BY <1>1, <1>2 DEF Endless

InHeader(at, header) ==
    /\ at \in Progress /\ at.header = header /\ at.records = <<>>
    /\ at.inHeader /\ at.ended = 0 /\ ~at.failed

After(at, header, records) ==
    /\ at \in Progress /\ at.header = header /\ at.records = records
    /\ ~at.inHeader /\ at.ended = Len(records) /\ ~at.failed

\* the record that is being read is the last one
InRecord(at, header, records) ==
    /\ at \in Progress /\ at.header = header /\ at.records = records
    /\ ~at.inHeader /\ at.ended = Len(records) - 1 /\ ~at.failed

\* A frame of the header goes to the header.
LEMMA FrameInHeader ==
    ASSUME NEW at, NEW h \in Seq(Frames), InHeader(at, h),
           NEW frame \in Frames, Len(h) + 1 <= MaxFields,
           frame.type = "end" => frame.payload = "empty"
    PROVE  IF frame.type = "end" THEN After(Frame(at, frame), Append(h, frame), <<>>)
           ELSE InHeader(Frame(at, frame), Append(h, frame))
<1>1. FramesRead(at) = Len(h)
  BY FlattenEmpty, EmptySeq, LenProperties DEF FramesRead, InHeader
<1>2. ~(FramesRead(at) + 1 > MaxFields)
  BY <1>1, LenProperties, VaultFormatAssumption
<1>3. Len(<<>>) = 0 /\ Append(h, frame) \in Seq(Frames)
  BY EmptySeq, AppendProperties
<1>4. Frame(at, frame) = [at EXCEPT !.header = Append(@, frame), !.inHeader = frame.type # "end"]
  BY <1>2 DEF Frame, InHeader
<1>5. /\ Frame(at, frame) \in Progress
      /\ Frame(at, frame).header = Append(h, frame) /\ Frame(at, frame).records = <<>>
      /\ Frame(at, frame).inHeader <=> frame.type # "end"
      /\ Frame(at, frame).ended = 0 /\ ~Frame(at, frame).failed
  BY <1>3, <1>4 DEF InHeader, Progress
<1> QED BY <1>3, <1>5 DEF After, InHeader

\* The frames of a header without its end leave the reader in it.
LEMMA RunHeader ==
    ASSUME NEW header \in Seq(Frames), Endless(header), Len(header) <= MaxFields
    PROVE  InHeader(Run(header), header)
<1> DEFINE T == {h \in Seq(Frames) : Endless(h) /\ Len(h) <= MaxFields => InHeader(Run(h), h)}
<1>1. <<>> \in T
  <2>1. <<>> \in Seq(Frames) /\ <<>> \in Seq(Seq(Frames))
    BY EmptySeq
  <2>2. InHeader(Unread, <<>>)
    BY <2>1 DEF Unread, InHeader, Progress
  <2> QED BY <2>1, <2>2, RunEmpty
<1>2. ASSUME NEW h \in Seq(Frames), NEW frame \in Frames, h \in T PROVE Append(h, frame) \in T
  <2>1. Append(h, frame) \in Seq(Frames) /\ Len(Append(h, frame)) = Len(h) + 1 /\ Len(h) \in Nat
    BY AppendProperties, LenProperties
  <2>2. SUFFICES ASSUME Endless(Append(h, frame)), Len(h) + 1 <= MaxFields
                 PROVE  InHeader(Run(Append(h, frame)), Append(h, frame))
    BY <2>1
  <2>3. Endless(h) /\ frame.type # "end"
    BY <2>2, OpenAppend
  <2>4. InHeader(Run(h), h)
    BY <1>2, <2>1, <2>2, <2>3, VaultFormatAssumption
  <2>5. Run(Append(h, frame)) = Frame(Run(h), frame)
    BY RunAppend
  <2> QED BY <2>2, <2>3, <2>4, <2>5, FrameInHeader
<1> HIDE DEF T
<1>3. \A h \in Seq(Frames) : h \in T
  BY <1>1, <1>2, SeqInd
<1> QED BY <1>3 DEF T

\* What the frames of a record have made of it so far.
Within(at, header, records, t) ==
    IF t = <<>> THEN After(at, header, records) ELSE InRecord(at, header, Append(records, t))

\* Replacing the last element leaves the others.
LEMMA LastReplaced ==
    ASSUME NEW S, NEW ss \in Seq(S), NEW a \in S, NEW b \in S
    PROVE  [Append(ss, a) EXCEPT ![Len(Append(ss, a))] = b] = Append(ss, b)
<1> DEFINE aa == Append(ss, a)
           bb == Append(ss, b)
           u == [aa EXCEPT ![Len(aa)] = b]
<1>1. /\ aa \in Seq(S) /\ Len(aa) = Len(ss) + 1 /\ Len(ss) \in Nat
      /\ bb \in Seq(S) /\ Len(bb) = Len(ss) + 1
      /\ \A j \in 1 .. Len(ss) : aa[j] = ss[j] /\ bb[j] = ss[j]
      /\ bb[Len(ss) + 1] = b
  BY AppendProperties, LenProperties
<1> HIDE DEF aa, bb
<1>2. /\ u \in Seq(S) /\ Len(u) = Len(aa)
      /\ \A j \in 1 .. Len(aa) : u[j] = IF j = Len(aa) THEN b ELSE aa[j]
  <2>1. Len(aa) \in 1 .. Len(aa)
    BY <1>1
  <2> QED BY <2>1, <1>1, ExceptSeq
<1> HIDE DEF u
<1>3. \A j \in 1 .. Len(u) : u[j] = bb[j]
  BY <1>1, <1>2
<1>4. u = bb
  BY <1>1, <1>2, <1>3, SeqEqual
<1> QED BY <1>4 DEF u, aa, bb

\* A frame of a record goes to that record.
LEMMA FrameWithin ==
    ASSUME NEW at, NEW header \in Seq(Frames), NEW records \in Seq(Seq(Frames)),
           NEW t \in Seq(Frames), Within(at, header, records, t),
           NEW frame \in Frames, Len(records) < MaxRecords,
           Len(header) + Len(FlattenSeq(records)) + Len(t) + 1 <= MaxFields,
           frame.type = "end" => frame.payload = "empty"
    PROVE  IF frame.type = "end" THEN After(Frame(at, frame), header, Append(records, Append(t, frame)))
           ELSE InRecord(Frame(at, frame), header, Append(records, Append(t, frame)))
<1> DEFINE new == Append(records, Append(t, frame))
<1>1. /\ FlattenSeq(records) \in Seq(Frames) /\ Len(FlattenSeq(records)) \in Nat
      /\ Len(header) \in Nat /\ Len(t) \in Nat /\ Len(records) \in Nat
      /\ MaxRecords \in Nat /\ MaxFields \in Nat
  BY FlattenType, LenProperties, VaultFormatAssumption
<1>2. /\ Append(records, t) \in Seq(Seq(Frames)) /\ Len(Append(records, t)) = Len(records) + 1
      /\ Append(t, frame) \in Seq(Frames)
      /\ new \in Seq(Seq(Frames)) /\ Len(new) = Len(records) + 1
  BY AppendProperties
<1> HIDE DEF new
<1>3. /\ Frame(at, frame) = [at EXCEPT !.records = new,
                                       !.ended = IF frame.type = "end" THEN @ + 1 ELSE @]
      /\ at \in Progress /\ at.header = header /\ ~at.inHeader /\ ~at.failed
      /\ at.ended = Len(records)
  <2>1. CASE t = <<>>
    <3>1. Append(t, frame) = <<frame>>
      BY <2>1
    <3>2. After(at, header, records)
      BY <2>1 DEF Within
    <3>3. FramesRead(at) = Len(header) + Len(FlattenSeq(records))
      BY <3>2 DEF FramesRead, After
    <3>4. ~(FramesRead(at) + 1 > MaxFields)
      BY <3>3, <1>1, <2>1
    <3>5. at \in Progress /\ at.header = header /\ ~at.inHeader /\ ~at.failed /\ at.ended = Len(records)
          /\ at.records = records
      BY <3>2 DEF After
    <3>6. Frame(at, frame) = [at EXCEPT !.records = Continued(at, frame),
                                        !.ended = IF frame.type = "end" THEN @ + 1 ELSE @]
      BY <3>4, <3>5, <1>1 DEF Frame
    <3>7. Continued(at, frame) = new
      BY <3>1, <3>5 DEF new, Continued
    <3>8. Frame(at, frame) = [at EXCEPT !.records = new,
                                        !.ended = IF frame.type = "end" THEN @ + 1 ELSE @]
      BY <3>6, <3>7
    <3> QED BY ONLY <3>5, <3>8
  <2>2. CASE t # <<>>
    <3> DEFINE rr == Append(records, t)
    <3>1. InRecord(at, header, rr)
      BY <2>2 DEF Within
    <3>2. FramesRead(at) = Len(header) + (Len(FlattenSeq(records)) + Len(t))
      <4>1. FlattenSeq(rr) = FlattenSeq(records) \o t
        BY FlattenAppend
      <4>2. Len(FlattenSeq(records) \o t) = Len(FlattenSeq(records)) + Len(t)
        BY <1>1, ConcatProperties
      <4> QED BY <3>1, <4>1, <4>2 DEF FramesRead, InRecord
    <3>3. ~(FramesRead(at) + 1 > MaxFields)
      BY <3>2, <1>1
    <3>4. [rr EXCEPT ![Len(rr)] = Append(t, frame)] = new
      <4> DEFINE longer == Append(t, frame)
      <4>1. longer \in Seq(Frames) /\ new = Append(records, longer)
        BY <1>2 DEF new
      <4> HIDE DEF longer
      <4>2. [rr EXCEPT ![Len(rr)] = longer] = Append(records, longer)
        BY <4>1, LastReplaced
      <4> QED BY <4>1, <4>2 DEF longer
    <3>5. Len(rr) = Len(records) + 1 /\ rr[Len(records) + 1] = t
      BY AppendProperties
    <3> HIDE DEF rr
    <3>6. at.ended = Len(records) /\ at.ended # Len(rr) /\ at.records = rr
      BY <3>1, <3>5, <1>1 DEF InRecord
    <3>7. at \in Progress /\ at.header = header /\ ~at.inHeader /\ ~at.failed
      BY <3>1 DEF InRecord
    <3>8. Frame(at, frame) = [at EXCEPT !.records = Continued(at, frame),
                                        !.ended = IF frame.type = "end" THEN @ + 1 ELSE @]
      BY <3>3, <3>6, <3>7, <1>1 DEF Frame
    <3>9. Continued(at, frame) = new
      BY <3>4, <3>5, <3>6 DEF Continued
    <3>10. Frame(at, frame) = [at EXCEPT !.records = new,
                                         !.ended = IF frame.type = "end" THEN @ + 1 ELSE @]
      BY <3>8, <3>9
    <3> QED BY ONLY <3>6, <3>7, <3>10
  <2> QED BY <2>1, <2>2
<1>4. /\ Frame(at, frame) \in Progress
      /\ Frame(at, frame).header = header /\ Frame(at, frame).records = new
      /\ ~Frame(at, frame).inHeader /\ ~Frame(at, frame).failed
      /\ Frame(at, frame).ended = IF frame.type = "end" THEN Len(records) + 1 ELSE Len(records)
  <2> DEFINE e == IF frame.type = "end" THEN at.ended + 1 ELSE at.ended
  <2>1. e \in Nat /\ e = IF frame.type = "end" THEN Len(records) + 1 ELSE Len(records)
    BY <1>1, <1>3
  <2>2. Frame(at, frame) = [at EXCEPT !.records = new, !.ended = e]
    BY <1>3
  <2> HIDE DEF e
  <2> QED BY <2>1, <2>2, <1>2, <1>3 DEF Progress
<1> QED BY <1>1, <1>2, <1>4 DEF After, InRecord, new

\* Appending to a concatenation is appending to its second part.
LEMMA AppendConcat ==
    ASSUME NEW S, NEW s \in Seq(S), NEW t \in Seq(S), NEW e \in S
    PROVE  s \o Append(t, e) = Append(s \o t, e)
<1>1. Append(t, e) = t \o <<e>> /\ <<e>> \in Seq(S) /\ s \o t \in Seq(S)
  BY AppendIsConcat, ConcatProperties
<1>2. Append(s \o t, e) = (s \o t) \o <<e>>
  BY <1>1, AppendIsConcat
<1> QED BY <1>1, <1>2, ConcatAssociative

\* A sequence after an Append.
LEMMA Appended ==
    ASSUME NEW S, NEW s \in Seq(S), NEW e \in S
    PROVE  /\ Append(s, e) \in Seq(S) /\ Len(Append(s, e)) = Len(s) + 1
           /\ Append(s, e) # <<>>
BY AppendProperties

\* The frames of a record without its end leave the reader in it.
LEMMA RunWithin ==
    ASSUME NEW header \in Seq(Frames), NEW records \in Seq(Seq(Frames)), NEW wire \in Seq(Frames),
           After(Run(wire), header, records), Len(records) < MaxRecords,
           NEW body \in Seq(Frames), Endless(body),
           Len(header) + Len(FlattenSeq(records)) + Len(body) <= MaxFields
    PROVE  Within(Run(wire \o body), header, records, body)
<1> DEFINE base == Len(header) + Len(FlattenSeq(records))
           T == {t \in Seq(Frames) :
                   Endless(t) /\ base + Len(t) <= MaxFields
                   => Within(Run(wire \o t), header, records, t)}
<1>0. base \in Nat /\ MaxFields \in Nat
  BY FlattenType, LenProperties, VaultFormatAssumption
<1>1. <<>> \in T
  BY ConcatEmptySeq DEF Within
<1>2. ASSUME NEW t \in Seq(Frames), NEW frame \in Frames, t \in T PROVE Append(t, frame) \in T
  <2>1. /\ Append(t, frame) \in Seq(Frames) /\ Len(Append(t, frame)) = Len(t) + 1
        /\ Append(t, frame) # <<>>
    BY Appended
  <2>0. Len(t) \in Nat
    BY LenProperties
  <2>2. SUFFICES ASSUME Endless(Append(t, frame)), base + (Len(t) + 1) <= MaxFields
                 PROVE  Within(Run(wire \o Append(t, frame)), header, records, Append(t, frame))
    BY <2>1
  <2>3. Endless(t) /\ frame.type # "end"
    BY <2>2, OpenAppend
  <2>4. Within(Run(wire \o t), header, records, t)
    <3>1. base + Len(t) <= MaxFields
      BY <1>0, <2>0, <2>2
    <3> QED BY <1>2, <2>3, <3>1
  <2>5. wire \o Append(t, frame) = Append(wire \o t, frame) /\ wire \o t \in Seq(Frames)
    BY SMTT(30), AppendConcat, ConcatProperties
  <2>6. Run(wire \o Append(t, frame)) = Frame(Run(wire \o t), frame)
    BY <2>5, RunAppend
  <2>7. Len(header) + Len(FlattenSeq(records)) + Len(t) + 1 <= MaxFields
    BY <2>2, <2>0, <1>0
  <2>8. InRecord(Frame(Run(wire \o t), frame), header, Append(records, Append(t, frame)))
    BY <2>3, <2>4, <2>7, FrameWithin
  <2> QED BY <2>1, <2>6, <2>8 DEF Within
<1> HIDE DEF T
<1>3. \A t \in Seq(Frames) : t \in T
  BY <1>1, <1>2, SeqInd
<1> QED BY <1>3, <1>0 DEF T

\* The frames of a whole record make that record.
LEMMA RunRecord ==
    ASSUME NEW header \in Seq(Frames), NEW records \in Seq(Seq(Frames)), NEW wire \in Seq(Frames),
           After(Run(wire), header, records), Len(records) < MaxRecords,
           NEW fields \in Seq(Frames), Ended(fields),
           Len(header) + Len(FlattenSeq(records)) + Len(fields) <= MaxFields
    PROVE  After(Run(wire \o fields), header, Append(records, fields))
<1>1. PICK body \in Seq(Frames), last \in Frames :
        /\ fields = Append(body, last)
        /\ last = [type |-> "end", payload |-> "empty"]
        /\ Len(fields) = Len(body) + 1
        /\ Endless(body)
  BY Uncons
<1>2. /\ Len(header) + Len(FlattenSeq(records)) + Len(body) <= MaxFields
      /\ Len(header) + Len(FlattenSeq(records)) + Len(body) + 1 <= MaxFields
  BY <1>1, FlattenType, LenProperties, VaultFormatAssumption
<1>3. Within(Run(wire \o body), header, records, body)
  BY <1>1, <1>2, RunWithin
<1>4. last.type = "end" /\ last.payload = "empty"
  BY <1>1
<1>5. After(Frame(Run(wire \o body), last), header, Append(records, Append(body, last)))
  BY <1>2, <1>3, <1>4, FrameWithin
<1>6. wire \o fields = Append(wire \o body, last) /\ wire \o body \in Seq(Frames)
  BY <1>1, AppendConcat, ConcatProperties
<1>7. Run(wire \o fields) = Frame(Run(wire \o body), last)
  BY <1>6, RunAppend
<1> QED BY <1>1, <1>5, <1>7

\* The frames of a whole header make the header.
LEMMA RunFirst ==
    ASSUME NEW header \in Seq(Frames), Ended(header), Len(header) <= MaxFields
    PROVE  After(Run(header), header, <<>>)
<1>1. PICK body \in Seq(Frames), last \in Frames :
        /\ header = Append(body, last)
        /\ last = [type |-> "end", payload |-> "empty"]
        /\ Len(header) = Len(body) + 1
        /\ Endless(body)
  BY Uncons
<1>2. Len(body) <= MaxFields /\ Len(body) + 1 <= MaxFields
  BY <1>1, LenProperties, VaultFormatAssumption
<1>3. InHeader(Run(body), body)
  BY <1>1, <1>2, RunHeader
<1>4. last.type = "end" /\ last.payload = "empty"
  BY <1>1
<1>5. After(Frame(Run(body), last), Append(body, last), <<>>)
  BY <1>2, <1>3, <1>4, FrameInHeader
<1> QED BY <1>1, <1>5, RunAppend

\* The frames of a document make its header and its records.
LEMMA RunAll ==
    ASSUME NEW header \in Seq(Frames), Ended(header),
           NEW records \in Seq(Seq(Frames)), \A r \in DOMAIN records : Ended(records[r]),
           Len(records) <= MaxRecords,
           Len(header) + Len(FlattenSeq(records)) <= MaxFields
    PROVE  After(Run(header \o FlattenSeq(records)), header, records)
<1> DEFINE Fine(rr) == /\ \A r \in DOMAIN rr : Ended(rr[r])
                       /\ Len(rr) <= MaxRecords
                       /\ Len(header) + Len(FlattenSeq(rr)) <= MaxFields
           Goal(rr) == Fine(rr) => After(Run(header \o FlattenSeq(rr)), header, rr)
           T == {rr \in Seq(Seq(Frames)) : Goal(rr)}
<1>0. Len(header) \in Nat /\ MaxFields \in Nat /\ MaxRecords \in Nat
  BY LenProperties, VaultFormatAssumption
<1>1. <<>> \in T
  <2>1. header \o FlattenSeq(<<>>) = header /\ Len(FlattenSeq(<<>>)) = 0 /\ <<>> \in Seq(Seq(Frames))
    BY FlattenEmpty, ConcatEmptySeq, EmptySeq
  <2>2. Fine(<<>>) => Len(header) <= MaxFields
    BY <2>1, <1>0
  <2>3. Goal(<<>>)
    BY <2>1, <2>2, RunFirst
  <2> QED BY <2>1, <2>3
<1>2. ASSUME NEW rr \in Seq(Seq(Frames)), NEW fields \in Seq(Frames), rr \in T
      PROVE  Append(rr, fields) \in T
  <2> DEFINE new == Append(rr, fields)
  <2>1. /\ new \in Seq(Seq(Frames)) /\ Len(new) = Len(rr) + 1 /\ Len(rr) \in Nat
        /\ DOMAIN new = 1 .. Len(rr) + 1 /\ DOMAIN rr = 1 .. Len(rr)
        /\ \A r \in 1 .. Len(rr) : new[r] = rr[r]
        /\ new[Len(rr) + 1] = fields
    <3>1. new \in Seq(Seq(Frames))
      BY Appended
    <3> QED BY <3>1, AppendProperties, LenProperties
  <2>2. FlattenSeq(new) = FlattenSeq(rr) \o fields /\ FlattenSeq(rr) \in Seq(Frames)
    BY FlattenAppend, FlattenType
  <2>3. /\ Len(FlattenSeq(rr)) \in Nat /\ Len(fields) \in Nat
        /\ Len(FlattenSeq(new)) = Len(FlattenSeq(rr)) + Len(fields)
    BY <2>2, ConcatProperties, LenProperties
  <2> HIDE DEF new
  <2>4. ASSUME Fine(new) PROVE After(Run(header \o FlattenSeq(new)), header, new)
    <3>1. /\ Len(rr) < MaxRecords /\ Len(rr) <= MaxRecords
          /\ Len(header) + Len(FlattenSeq(rr)) <= MaxFields
          /\ Len(header) + Len(FlattenSeq(rr)) + Len(fields) <= MaxFields
      BY <2>1, <2>3, <2>4, <1>0
    <3>2. Ended(fields) /\ \A r \in DOMAIN rr : Ended(rr[r])
      <4>1. \A r \in DOMAIN new : Ended(new[r])
        BY <2>4
      <4>2. Len(rr) + 1 \in DOMAIN new /\ \A r \in DOMAIN rr : r \in DOMAIN new /\ new[r] = rr[r]
        BY <2>1
      <4> QED BY <4>1, <4>2, <2>1
    <3>3. After(Run(header \o FlattenSeq(rr)), header, rr)
      BY <1>2, <3>1, <3>2
    <3>4. header \o FlattenSeq(rr) \in Seq(Frames)
      BY <2>2, ConcatProperties
    <3>5. After(Run((header \o FlattenSeq(rr)) \o fields), header, Append(rr, fields))
      BY <3>1, <3>2, <3>3, <3>4, RunRecord
    <3>6. (header \o FlattenSeq(rr)) \o fields = header \o FlattenSeq(new)
      BY SMTT(30), <2>2, ConcatAssociative
    <3> QED BY <3>5, <3>6 DEF new
  <2> QED BY <2>1, <2>4 DEF new
<1> HIDE DEF T
<1>3. \A rr \in Seq(Seq(Frames)) : rr \in T
  BY <1>1, <1>2, SeqInd
<1> QED BY <1>3 DEF T

\* A file within the limits, every section of which ends once, is read as it was written.
LEMMA ParsedAll ==
    ASSUME NEW header \in Seq(Frames), Ended(header),
           NEW records \in Seq(Seq(Frames)), \A r \in DOMAIN records : Ended(records[r]),
           Len(records) <= MaxRecords,
           Len(header) + Len(FlattenSeq(records)) <= MaxFields
    PROVE  LET at == Parsed(header \o FlattenSeq(records))
           IN  /\ at \in Progress /\ ~at.failed
               /\ at.header = header /\ at.records = records
<1> DEFINE wire == header \o FlattenSeq(records)
<1>1. After(Run(wire), header, records)
  BY RunAll
<1>2. Parsed(wire) = [Run(wire) EXCEPT !.failed = @ \/ ~(~Run(wire).inHeader /\ Run(wire).ended = Len(Run(wire).records))]
  BY DEF Parsed, Run
<1>3. Parsed(wire) = [Run(wire) EXCEPT !.failed = FALSE]
  BY <1>1, <1>2 DEF After
<1> HIDE DEF wire
<1>4. /\ Parsed(wire) \in Progress /\ ~Parsed(wire).failed
      /\ Parsed(wire).header = header /\ Parsed(wire).records = records
  BY <1>1, <1>3 DEF After, Progress
<1> QED BY <1>4 DEF wire

-----------------------------------------------------------------------------
(* Shapes *)

\* A function on 1 .. n is a sequence of length n.
LEMMA FunctionIsSeq ==
    ASSUME NEW S, NEW n \in Nat, NEW f \in [1 .. n -> S]
    PROVE  f \in Seq(S) /\ Len(f) = n
BY SeqDef

\* The places of a sequence, and what is there.
LEMMA SeqDomain ==
    ASSUME NEW S, NEW s \in Seq(S)
    PROVE  /\ DOMAIN s = 1 .. Len(s) /\ Len(s) \in Nat
           /\ \A i \in DOMAIN s : s[i] \in S
BY LenProperties, ElementOfSeq

\* A turn keeps the type of the progress.
LEMMA FrameTyped ==
    ASSUME NEW at \in Progress, NEW frame \in Frames
    PROVE  Frame(at, frame) \in Progress
<1>1. /\ at.header \in Seq(Frames) /\ at.records \in Seq(Seq(Frames)) /\ at.ended \in Nat
  BY DEF Progress
<1>2. Append(at.header, frame) \in Seq(Frames)
  BY <1>1, Appended
<1>3. Continued(at, frame) \in Seq(Seq(Frames))
  <2>1. CASE at.ended = Len(at.records)
    <3>1. <<frame>> \in Seq(Frames)
      OBVIOUS
    <3>2. Append(at.records, <<frame>>) \in Seq(Seq(Frames))
      BY <1>1, <3>1, Appended
    <3> QED BY <2>1, <3>2 DEF Continued
  <2>2. CASE at.ended # Len(at.records)
    <3> DEFINE rr == at.records
               n == Len(rr)
    <3>1. rr \in Seq(Seq(Frames)) /\ n \in Nat /\ DOMAIN rr = 1 .. n
      BY <1>1, SeqDomain
    <3>2. Continued(at, frame) = [rr EXCEPT ![n] = Append(rr[n], frame)]
      BY <2>2 DEF Continued
    <3> HIDE DEF rr, n
    <3>3. CASE n = 0
      <4>1. [rr EXCEPT ![n] = Append(rr[n], frame)]
              = [i \in DOMAIN rr |-> IF i = n THEN Append(rr[n], frame) ELSE rr[i]]
        OBVIOUS
      <4>2. \A i \in DOMAIN rr : i # n /\ rr[i] \in Seq(Frames)
        BY <3>1, <3>3, SeqDomain
      <4>3. Continued(at, frame) \in [1 .. n -> Seq(Frames)]
        BY <3>1, <3>2, <4>1, <4>2
      <4> QED BY <3>1, <4>3, FunctionIsSeq
    <3>4. CASE n # 0
      <4>1. n \in 1 .. Len(rr)
        BY <3>1, <3>4 DEF n
      <4>2. rr[n] \in Seq(Frames)
        BY <3>1, <4>1, ElementOfSeq
      <4>3. Append(rr[n], frame) \in Seq(Frames)
        BY <4>2, Appended
      <4> QED BY <3>1, <3>2, <4>1, <4>3, ExceptSeq
    <3> QED BY <3>3, <3>4
  <2> QED BY <2>1, <2>2
<1>4. CASE Frame(at, frame) = [at EXCEPT !.failed = TRUE]
  BY <1>4 DEF Progress
<1>5. CASE Frame(at, frame) = [at EXCEPT !.header = Append(@, frame), !.inHeader = frame.type # "end"]
  BY <1>2, <1>5 DEF Progress
<1>6. CASE Frame(at, frame) = [at EXCEPT !.records = Continued(at, frame),
                                         !.ended = IF frame.type = "end" THEN @ + 1 ELSE @]
  <2> DEFINE e == IF frame.type = "end" THEN at.ended + 1 ELSE at.ended
  <2>1. e \in Nat
    BY <1>1
  <2>2. Frame(at, frame) = [at EXCEPT !.records = Continued(at, frame), !.ended = e]
    BY <1>6
  <2> HIDE DEF e
  <2> QED BY <1>3, <2>1, <2>2 DEF Progress
<1> QED BY <1>4, <1>5, <1>6 DEF Frame

\* So do all turns.
LEMMA RunTyped ==
    ASSUME NEW wire \in Seq(Frames)
    PROVE  Run(wire) \in Progress
<1> DEFINE T == {w \in Seq(Frames) : Run(w) \in Progress}
<1>1. <<>> \in T
  <2>1. Unread \in Progress
    BY EmptySeq DEF Unread, Progress
  <2> QED BY <2>1, RunEmpty, EmptySeq
<1>2. ASSUME NEW w \in Seq(Frames), NEW frame \in Frames, w \in T PROVE Append(w, frame) \in T
  <2>1. Append(w, frame) \in Seq(Frames)
    BY Appended
  <2> QED BY <2>1, <1>2, RunAppend, FrameTyped
<1> HIDE DEF T
<1>3. \A w \in Seq(Frames) : w \in T
  BY <1>1, <1>2, SeqInd
<1> QED BY <1>3 DEF T

\* What the reader makes of a file has its type.
LEMMA ParsedTyped ==
    ASSUME NEW wire \in Seq(Frames)
    PROVE  Parsed(wire) \in Progress
<1>1. Parsed(wire) = [Run(wire) EXCEPT !.failed = @ \/ ~(~Run(wire).inHeader /\ Run(wire).ended = Len(Run(wire).records))]
  BY DEF Parsed, Run
<1> DEFINE b == Run(wire).failed \/ ~(~Run(wire).inHeader /\ Run(wire).ended = Len(Run(wire).records))
<1>2. b \in BOOLEAN
  OBVIOUS
<1>3. Parsed(wire) = [Run(wire) EXCEPT !.failed = b]
  BY <1>1
<1> HIDE DEF b
<1> QED BY <1>2, <1>3, RunTyped DEF Progress

\* Every section has an end.
LEMMA SpecOfEnd ==
    ASSUME NEW section
    PROVE  SpecOf(section, "end") = FieldSpec("empty", 1, TRUE, "terminator", FALSE)
BY DEF SpecOf, HeaderSchema, RecordSchema

\* A class is one of the three.
LEMMA ClassTyped ==
    ASSUME NEW section, NEW field
    PROVE  Class(section, field) \in {"unknown", "malformed", "understood"}
BY DEF Class

\* Classified fields are fields.
LEMMA ClassifiedTyped ==
    ASSUME NEW section, NEW fields \in Seq(Frames)
    PROVE  Classified(section, fields) \in Seq(Fields) /\ Len(Classified(section, fields)) = Len(fields)
<1>1. DOMAIN fields = 1 .. Len(fields) /\ Len(fields) \in Nat /\ \A i \in DOMAIN fields : fields[i] \in Frames
  BY SeqDomain
<1>2. \A i \in DOMAIN fields : Class(section, fields[i]) \in {"unknown", "malformed", "understood"}
  BY ClassTyped
<1>3. Classified(section, fields) \in [1 .. Len(fields) -> Fields]
  BY <1>1, <1>2 DEF Classified, Fields, Frames
<1> QED BY <1>1, <1>3, FunctionIsSeq

\* Bare fields are frames, one for each field.
LEMMA BareTyped ==
    ASSUME NEW fields \in Seq(Fields)
    PROVE  /\ Bare(fields) \in Seq(Frames) /\ Len(Bare(fields)) = Len(fields)
           /\ \A i \in DOMAIN fields : /\ Bare(fields)[i].type = fields[i].type
                                       /\ Bare(fields)[i].payload = fields[i].payload
<1>1. DOMAIN fields = 1 .. Len(fields) /\ Len(fields) \in Nat /\ \A i \in DOMAIN fields : fields[i] \in Fields
  BY SeqDomain
<1>2. Bare(fields) \in [1 .. Len(fields) -> Frames]
  BY <1>1 DEF Bare, Fields, Frames
<1> QED BY <1>1, <1>2, FunctionIsSeq DEF Bare

\* So are those of all records.
LEMMA BareRecordsTyped ==
    ASSUME NEW doc \in Documents
    PROVE  /\ BareRecords(doc) \in Seq(Seq(Frames)) /\ Len(BareRecords(doc)) = Len(doc.records)
           /\ DOMAIN BareRecords(doc) = DOMAIN doc.records
           /\ \A r \in DOMAIN doc.records : BareRecords(doc)[r] = Bare(doc.records[r].fields)
<1>1. doc.records \in Seq(Records)
  BY DEF Documents
<1>2. DOMAIN doc.records = 1 .. Len(doc.records) /\ Len(doc.records) \in Nat
      /\ \A r \in DOMAIN doc.records : doc.records[r] \in Records
  BY <1>1, SeqDomain
<1>3. \A r \in DOMAIN doc.records : doc.records[r].fields \in Seq(Fields)
  BY <1>2 DEF Records
<1>4. BareRecords(doc) \in [1 .. Len(doc.records) -> Seq(Frames)]
  BY <1>2, <1>3, BareTyped DEF BareRecords
<1> QED BY <1>2, <1>4, FunctionIsSeq DEF BareRecords

\* A file is a sequence of frames.
LEMMA WireTyped ==
    ASSUME NEW doc \in Documents
    PROVE  Wire(doc) \in Seq(Frames)
<1>1. doc.header \in Seq(Fields)
  BY DEF Documents
<1> QED BY <1>1, BareTyped, BareRecordsTyped, FlattenType, ConcatProperties DEF Wire

\* The type of a concatenation, for a function on 1 .. n.
LEMMA FlattenFcnType ==
    ASSUME NEW S, NEW n \in Nat, NEW ss \in [1 .. n -> Seq(S)]
    PROVE  FlattenSeq(ss) \in Seq(S)
<1>1. ss \in Seq(Seq(S))
  BY FunctionIsSeq
<1> QED BY <1>1, FlattenType

\* The warnings of a field are alerts.
LEMMA FieldWarningsTyped ==
    ASSUME NEW section \in Nat, NEW fields, NEW i \in Nat
    PROVE  FieldWarnings(section, fields, i) \in Seq(Alerts)
<1> DEFINE spec == SpecOf(section, fields[i].type)
           A == Warning("unknown", section, i)
           B == Warning("duplicate", section, i)
           C == Warning("malformed", section, i)
           b == IF spec.single /\ Repeats(fields, i) THEN <<B>> ELSE <<>>
           c == IF Malformed(spec, fields[i].payload) THEN <<C>> ELSE <<>>
<1>1. A \in Alerts /\ B \in Alerts /\ C \in Alerts
  BY DEF Warning, Alerts
<1>2. <<A>> \in Seq(Alerts) /\ b \in Seq(Alerts) /\ c \in Seq(Alerts)
  BY <1>1, EmptySeq
<1>3. b \o c \in Seq(Alerts)
  BY <1>2, ConcatProperties
<1>4. FieldWarnings(section, fields, i) = IF spec = None THEN <<A>> ELSE b \o c
  BY DEF FieldWarnings
<1> QED BY ONLY <1>2, <1>3, <1>4

\* The warnings of a section are alerts.
LEMMA SectionWarningsTyped ==
    ASSUME NEW section \in Nat, NEW fields \in Seq(Frames)
    PROVE  SectionWarnings(section, fields) \in Seq(Alerts)
<1>1. DOMAIN fields = 1 .. Len(fields) /\ Len(fields) \in Nat
  BY SeqDomain
<1>2. \A i \in DOMAIN fields : FieldWarnings(section, fields, i) \in Seq(Alerts)
  BY <1>1, FieldWarningsTyped
<1>3. [i \in DOMAIN fields |-> FieldWarnings(section, fields, i)] \in [1 .. Len(fields) -> Seq(Alerts)]
  BY <1>1, <1>2
<1> QED BY <1>1, <1>3, FlattenFcnType DEF SectionWarnings

\* The warnings of a document are alerts.
LEMMA WarningsTyped ==
    ASSUME NEW header \in Seq(Frames), NEW records \in Seq(Seq(Frames))
    PROVE  Warnings(header, records) \in Seq(Alerts)
<1>1. DOMAIN records = 1 .. Len(records) /\ Len(records) \in Nat
      /\ \A r \in DOMAIN records : records[r] \in Seq(Frames)
  BY SeqDomain
<1>2. \A r \in DOMAIN records : SectionWarnings(r, records[r]) \in Seq(Alerts)
  BY <1>1, SectionWarningsTyped
<1>3. [r \in DOMAIN records |-> SectionWarnings(r, records[r])] \in [1 .. Len(records) -> Seq(Alerts)]
  BY <1>1, <1>2
<1>4. FlattenSeq([r \in DOMAIN records |-> SectionWarnings(r, records[r])]) \in Seq(Alerts)
  BY <1>1, <1>3, FlattenFcnType
<1> QED BY <1>4, SectionWarningsTyped, ConcatProperties DEF Warnings

\* What the reader builds is a document.
LEMMA DocumentTyped ==
    ASSUME NEW header \in Seq(Frames), NEW records \in Seq(Seq(Frames)), VersionConforms(header)
    PROVE  Document(header, records) \in Documents
<1>1. DOMAIN records = 1 .. Len(records) /\ Len(records) \in Nat
      /\ \A r \in DOMAIN records : records[r] \in Seq(Frames)
  BY SeqDomain
<1>2. \A r \in DOMAIN records : Classified(r, records[r]) \in Seq(Fields)
  BY <1>1, ClassifiedTyped
<1> DEFINE rr == [r \in DOMAIN records |-> [handle |-> r, fields |-> Classified(r, records[r])]]
<1>3. rr \in [1 .. Len(records) -> Records]
  BY <1>1, <1>2 DEF Records
<1>4. rr \in Seq(Records)
  BY <1>1, <1>3, FunctionIsSeq
<1>5. Level[header[1].payload] \in 1 .. 2
  BY DEF VersionConforms, Supported, Level
<1>6. Document(header, records)
        = [version |-> Level[header[1].payload], header |-> Classified(0, header),
           records |-> rr, warnings |-> Warnings(header, records)]
  BY DEF Document
<1> HIDE DEF rr
<1> QED BY <1>4, <1>5, <1>6, ClassifiedTyped, WarningsTyped DEF Documents

-----------------------------------------------------------------------------
(* What a sequence holds, and in which order *)

\* The elements of a concatenation of two.
LEMMA ToSetConcat ==
    ASSUME NEW S, NEW s \in Seq(S), NEW t \in Seq(S)
    PROVE  ToSet(s \o t) = ToSet(s) \cup ToSet(t)
<1>1. /\ s \o t \in Seq(S) /\ Len(s) \in Nat /\ Len(t) \in Nat
      /\ Len(s \o t) = Len(s) + Len(t)
      /\ \A i \in 1 .. Len(s) + Len(t) : (s \o t)[i] = IF i <= Len(s) THEN s[i] ELSE t[i - Len(s)]
  BY ConcatProperties, LenProperties
<1>2. DOMAIN s = 1 .. Len(s) /\ DOMAIN t = 1 .. Len(t) /\ DOMAIN (s \o t) = 1 .. Len(s) + Len(t)
  BY <1>1, LenProperties
<1>3. \A i \in DOMAIN s : i \in DOMAIN (s \o t) /\ (s \o t)[i] = s[i]
  BY <1>1, <1>2
<1>4. \A i \in DOMAIN t : Len(s) + i \in DOMAIN (s \o t) /\ (s \o t)[Len(s) + i] = t[i]
  BY <1>1, <1>2
<1>5. \A i \in DOMAIN (s \o t) : (s \o t)[i] \in ToSet(s) \cup ToSet(t)
  <2>1. ASSUME NEW i \in DOMAIN (s \o t) PROVE (s \o t)[i] \in ToSet(s) \cup ToSet(t)
    <3>1. CASE i <= Len(s)
      BY <3>1, <1>1, <1>2 DEF ToSet
    <3>2. CASE ~(i <= Len(s))
      <4>1. i - Len(s) \in DOMAIN t /\ (s \o t)[i] = t[i - Len(s)]
        BY <3>2, <1>1, <1>2
      <4> QED BY <4>1 DEF ToSet
    <3> QED BY <3>1, <3>2
  <2> QED BY <2>1
<1>6. \A e \in ToSet(s \o t) : e \in ToSet(s) \cup ToSet(t)
  BY <1>5 DEF ToSet
<1>7. \A e \in ToSet(s) : e \in ToSet(s \o t)
  BY <1>3 DEF ToSet
<1>8. \A e \in ToSet(t) : e \in ToSet(s \o t)
  BY <1>4 DEF ToSet
<1> QED BY ONLY <1>6, <1>7, <1>8

\* The elements of a concatenation are those of its parts.
LEMMA FlattenElements ==
    ASSUME NEW S, NEW ss \in Seq(Seq(S))
    PROVE  ToSet(FlattenSeq(ss)) = UNION {ToSet(ss[i]) : i \in DOMAIN ss}
<1> DEFINE T == {tt \in Seq(Seq(S)) : ToSet(FlattenSeq(tt)) = UNION {ToSet(tt[i]) : i \in DOMAIN tt}}
<1>1. <<>> \in T
  <2>1. ToSet(<<>>) = {} /\ DOMAIN <<>> = {}
    BY DEF ToSet
  <2> QED BY <2>1, FlattenEmpty, EmptySeq
<1>2. ASSUME NEW tt \in Seq(Seq(S)), NEW s \in Seq(S), tt \in T PROVE Append(tt, s) \in T
  <2> DEFINE new == Append(tt, s)
  <2>1. /\ new \in Seq(Seq(S)) /\ DOMAIN new = 1 .. Len(tt) + 1 /\ DOMAIN tt = 1 .. Len(tt)
        /\ Len(tt) \in Nat /\ \A i \in 1 .. Len(tt) : new[i] = tt[i]
        /\ new[Len(tt) + 1] = s
    BY AppendProperties, LenProperties
  <2>2. ToSet(FlattenSeq(new)) = ToSet(FlattenSeq(tt)) \cup ToSet(s)
    <3>1. FlattenSeq(tt) \in Seq(S) /\ FlattenSeq(new) = FlattenSeq(tt) \o s
      BY FlattenType, FlattenAppend
    <3> QED BY <3>1, ToSetConcat
  <2> HIDE DEF new
  <2>3. UNION {ToSet(new[i]) : i \in DOMAIN new} = (UNION {ToSet(tt[i]) : i \in DOMAIN tt}) \cup ToSet(s)
    <3>1. \A i \in DOMAIN tt : i \in DOMAIN new /\ new[i] = tt[i]
      BY <2>1
    <3>2. Len(tt) + 1 \in DOMAIN new
      BY <2>1
    <3>3. \A i \in DOMAIN new : i \in DOMAIN tt \/ i = Len(tt) + 1
      BY <2>1
    <3>4. ASSUME NEW e, NEW i \in DOMAIN new, e \in ToSet(new[i])
          PROVE  e \in (UNION {ToSet(tt[j]) : j \in DOMAIN tt}) \cup ToSet(s)
      <4>1. CASE i \in DOMAIN tt
        <5>1. e \in ToSet(tt[i])
          BY <3>1, <3>4, <4>1
        <5> QED BY ONLY <5>1, <4>1
      <4>2. CASE i = Len(tt) + 1
        <5>1. new[i] = s
          BY <2>1, <4>2
        <5> QED BY ONLY <5>1, <3>4
      <4> QED BY <3>3, <4>1, <4>2
    <3>5. ASSUME NEW e, NEW i \in DOMAIN tt, e \in ToSet(tt[i])
          PROVE  e \in UNION {ToSet(new[j]) : j \in DOMAIN new}
      <4>1. i \in DOMAIN new /\ e \in ToSet(new[i])
        BY <3>1, <3>5
      <4> QED BY ONLY <4>1
    <3>6. ASSUME NEW e \in ToSet(s)
          PROVE  e \in UNION {ToSet(new[j]) : j \in DOMAIN new}
      <4>1. e \in ToSet(new[Len(tt) + 1])
        BY <2>1
      <4> QED BY ONLY <4>1, <3>2
    <3> DEFINE A == UNION {ToSet(new[i]) : i \in DOMAIN new}
               B == UNION {ToSet(tt[i]) : i \in DOMAIN tt}
    <3>7. \A e \in A : e \in B \cup ToSet(s)
      BY ONLY <3>4
    <3>8. \A e \in B : e \in A
      BY ONLY <3>5
    <3>9. \A e \in ToSet(s) : e \in A
      BY ONLY <3>6
    <3> HIDE DEF A, B
    <3>10. A = B \cup ToSet(s)
      BY ONLY <3>7, <3>8, <3>9
    <3> QED BY ONLY <3>10 DEF A, B
  <2>4. ToSet(FlattenSeq(tt)) = UNION {ToSet(tt[i]) : i \in DOMAIN tt}
    BY <1>2
  <2>5. ToSet(FlattenSeq(new)) = UNION {ToSet(new[i]) : i \in DOMAIN new}
    BY <2>2, <2>3, <2>4, Zenon
  <2> QED BY <2>1, <2>5 DEF new
<1> HIDE DEF T
<1>3. \A tt \in Seq(Seq(S)) : tt \in T
  BY <1>1, <1>2, SeqInd
<1> QED BY <1>3 DEF T

Ascending(R, s) == \A i, j \in DOMAIN s : i < j => <<s[i], s[j]>> \in R

\* Two ascending sequences, every element of one before every element of the other.
LEMMA AscendingConcat ==
    ASSUME NEW S, NEW s \in Seq(S), NEW t \in Seq(S), NEW R, Ascending(R, s), Ascending(R, t),
           \A a \in ToSet(s), b \in ToSet(t) : <<a, b>> \in R
    PROVE  Ascending(R, s \o t)
<1>1. /\ s \o t \in Seq(S) /\ Len(s) \in Nat /\ Len(t) \in Nat
      /\ Len(s \o t) = Len(s) + Len(t)
      /\ \A i \in 1 .. Len(s) + Len(t) : (s \o t)[i] = IF i <= Len(s) THEN s[i] ELSE t[i - Len(s)]
  BY ConcatProperties, LenProperties
<1>2. DOMAIN s = 1 .. Len(s) /\ DOMAIN t = 1 .. Len(t) /\ DOMAIN (s \o t) = 1 .. Len(s) + Len(t)
  BY <1>1, LenProperties
<1>3. ASSUME NEW i \in DOMAIN (s \o t), NEW j \in DOMAIN (s \o t), i < j
      PROVE  <<(s \o t)[i], (s \o t)[j]>> \in R
  <2>1. CASE j <= Len(s)
    <3>1. /\ i \in DOMAIN s /\ j \in DOMAIN s /\ (s \o t)[i] = s[i] /\ (s \o t)[j] = s[j]
      BY <2>1, <1>1, <1>2, <1>3
    <3> QED BY <3>1, <1>3 DEF Ascending
  <2>2. CASE ~(j <= Len(s)) /\ i <= Len(s)
    <3>1. /\ i \in DOMAIN s /\ j - Len(s) \in DOMAIN t /\ (s \o t)[i] = s[i]
          /\ (s \o t)[j] = t[j - Len(s)]
      BY <2>2, <1>1, <1>2
    <3>2. s[i] \in ToSet(s) /\ t[j - Len(s)] \in ToSet(t)
      BY <3>1 DEF ToSet
    <3> QED BY <3>1, <3>2
  <2>3. CASE ~(i <= Len(s))
    <3>1. /\ i - Len(s) \in DOMAIN t /\ j - Len(s) \in DOMAIN t /\ i - Len(s) < j - Len(s)
          /\ (s \o t)[i] = t[i - Len(s)] /\ (s \o t)[j] = t[j - Len(s)]
      BY <2>3, <1>1, <1>2, <1>3
    <3> QED BY <3>1 DEF Ascending
  <2> QED BY <2>1, <2>2, <2>3
<1> QED BY <1>3 DEF Ascending

\* Ascending parts, each before the next, make an ascending concatenation.
LEMMA FlattenAscending ==
    ASSUME NEW S, NEW ss \in Seq(Seq(S)), NEW R,
           \A i \in DOMAIN ss : Ascending(R, ss[i]),
           \A i, j \in DOMAIN ss : i < j => \A a \in ToSet(ss[i]), b \in ToSet(ss[j]) : <<a, b>> \in R
    PROVE  Ascending(R, FlattenSeq(ss))
<1> DEFINE Fine(tt) ==
             /\ \A i \in DOMAIN tt : Ascending(R, tt[i])
             /\ \A i, j \in DOMAIN tt :
                  i < j => \A a \in ToSet(tt[i]), b \in ToSet(tt[j]) : <<a, b>> \in R
           T == {tt \in Seq(Seq(S)) : Fine(tt) => Ascending(R, FlattenSeq(tt))}
<1>1. <<>> \in T
  <2>1. DOMAIN <<>> = {}
    OBVIOUS
  <2>2. Ascending(R, <<>>)
    BY <2>1 DEF Ascending
  <2> QED BY <2>2, FlattenEmpty, EmptySeq
<1>2. ASSUME NEW tt \in Seq(Seq(S)), NEW s \in Seq(S), tt \in T PROVE Append(tt, s) \in T
  <2> DEFINE new == Append(tt, s)
  <2>1. /\ new \in Seq(Seq(S)) /\ DOMAIN new = 1 .. Len(tt) + 1 /\ DOMAIN tt = 1 .. Len(tt)
        /\ Len(tt) \in Nat /\ \A i \in 1 .. Len(tt) : new[i] = tt[i]
        /\ new[Len(tt) + 1] = s
    BY AppendProperties, LenProperties
  <2>2. FlattenSeq(tt) \in Seq(S) /\ FlattenSeq(new) = FlattenSeq(tt) \o s
    BY FlattenType, FlattenAppend
  <2> HIDE DEF new
  <2>3. ASSUME Fine(new) PROVE Ascending(R, FlattenSeq(new))
    <3>1. \A i \in DOMAIN tt : i \in DOMAIN new /\ new[i] = tt[i] /\ i < Len(tt) + 1
      BY <2>1
    <3>2. Len(tt) + 1 \in DOMAIN new
      BY <2>1
    <3>3. Ascending(R, s)
      BY <2>1, <2>3, <3>2
    <3>4. Fine(tt)
      BY <2>3, <3>1
    <3>5. \A i \in DOMAIN tt : \A a \in ToSet(tt[i]), b \in ToSet(s) : <<a, b>> \in R
      BY <2>1, <2>3, <3>1, <3>2
    <3>6. \A a \in ToSet(FlattenSeq(tt)), b \in ToSet(s) : <<a, b>> \in R
      <4>1. ToSet(FlattenSeq(tt)) = UNION {ToSet(tt[i]) : i \in DOMAIN tt}
        BY FlattenElements
      <4> QED BY ONLY <4>1, <3>5
    <3>7. Ascending(R, FlattenSeq(tt))
      BY <1>2, <3>4
    <3> QED BY <2>2, <3>3, <3>6, <3>7, AscendingConcat
  <2> QED BY <2>1, <2>3 DEF new
<1> HIDE DEF T
<1>3. \A tt \in Seq(Seq(S)) : tt \in T
  BY <1>1, <1>2, SeqInd
<1> QED BY <1>3 DEF T

\* In an ascending sequence nothing occurs twice.
LEMMA AscendingInjective ==
    ASSUME NEW S, NEW s \in Seq(S), NEW R,
           \A a, b \in S : ~(<<a, b>> \in R /\ <<b, a>> \in R), Ascending(R, s)
    PROVE  \A i, j \in DOMAIN s : s[i] = s[j] => i = j
<1>1. DOMAIN s = 1 .. Len(s) /\ Len(s) \in Nat /\ \A i \in DOMAIN s : s[i] \in S
  BY SeqDomain
<1>2. ASSUME NEW i \in DOMAIN s, NEW j \in DOMAIN s, s[i] = s[j], i < j PROVE FALSE
  BY <1>1, <1>2 DEF Ascending
<1>3. \A i, j \in DOMAIN s : i < j \/ j < i \/ i = j
  BY <1>1
<1> QED BY <1>2, <1>3

\* Two ascending sequences of the same elements are the same.
LEMMA AscendingUnique ==
    ASSUME NEW S, NEW s \in Seq(S), NEW t \in Seq(S), NEW R,
           \A a, b \in S : ~(<<a, b>> \in R /\ <<b, a>> \in R),
           Ascending(R, s), Ascending(R, t), ToSet(s) = ToSet(t)
    PROVE  s = t
<1>1. /\ Len(s) \in Nat /\ Len(t) \in Nat /\ DOMAIN s = 1 .. Len(s) /\ DOMAIN t = 1 .. Len(t)
      /\ \A i \in DOMAIN s : s[i] \in S
      /\ \A i \in DOMAIN t : t[i] \in S
  BY SeqDomain
<1>2. \A i, j \in DOMAIN s : s[i] = s[j] => i = j
  BY AscendingInjective
<1>3. \A i, j \in DOMAIN t : t[i] = t[j] => i = j
  BY AscendingInjective
<1>4. \A i \in DOMAIN s : \E j \in DOMAIN t : t[j] = s[i]
  BY DEF ToSet
<1>5. \A i \in DOMAIN t : \E j \in DOMAIN s : s[j] = t[i]
  BY DEF ToSet
<1> DEFINE Same(k) == \A i \in 1 .. k : i \in DOMAIN s /\ i \in DOMAIN t => s[i] = t[i]
           T == {k \in Nat : Same(k)}
<1>6. 0 \in T
  OBVIOUS
<1>7. ASSUME NEW k \in Nat, k \in T PROVE k + 1 \in T
  <2>1. SUFFICES ASSUME k + 1 \in DOMAIN s, k + 1 \in DOMAIN t PROVE s[k + 1] = t[k + 1]
    <3>1. \A i \in 1 .. k + 1 : i \in 1 .. k \/ i = k + 1
      OBVIOUS
    <3> QED BY <1>7, <3>1
  <2>2. PICK m \in DOMAIN t : t[m] = s[k + 1]
    BY <1>4, <2>1
  <2>3. PICK l \in DOMAIN s : s[l] = t[k + 1]
    BY <1>5, <2>1
  <2>4. m >= k + 1
    <3>1. SUFFICES ASSUME m \in 1 .. k PROVE FALSE
      BY <1>1
    <3>2. m \in DOMAIN s /\ s[m] = t[m]
      BY <1>1, <1>7, <2>1, <3>1
    <3> QED BY <1>2, <2>1, <2>2, <3>1, <3>2
  <2>5. l >= k + 1
    <3>1. SUFFICES ASSUME l \in 1 .. k PROVE FALSE
      BY <1>1
    <3>2. l \in DOMAIN t /\ s[l] = t[l]
      BY <1>1, <1>7, <2>1, <3>1
    <3>3. t[l] = t[k + 1]
      BY <2>3, <3>2
    <3>4. l = k + 1
      BY <1>3, <2>1, <3>2, <3>3
    <3> QED BY <3>1, <3>4
  <2>6. CASE m = k + 1 \/ l = k + 1
    BY <2>2, <2>3, <2>6
  <2>7. CASE m # k + 1 /\ l # k + 1
    <3>1. m \in Nat /\ l \in Nat /\ k + 1 < m /\ k + 1 < l
      BY <1>1, <2>4, <2>5, <2>7
    <3>2. <<t[k + 1], t[m]>> \in R /\ <<s[k + 1], s[l]>> \in R
      BY <2>1, <3>1 DEF Ascending
    <3> QED BY <1>1, <2>1, <2>2, <2>3, <3>2
  <2> QED BY <2>6, <2>7
<1> HIDE DEF T
<1>8. \A k \in Nat : k \in T
  BY <1>6, <1>7, NatInd
<1>9. \A i \in Nat : i \in DOMAIN s /\ i \in DOMAIN t => s[i] = t[i]
  <2>1. ASSUME NEW i \in Nat, i \in DOMAIN s, i \in DOMAIN t PROVE s[i] = t[i]
    <3>1. i \in 1 .. i
      BY <1>1, <2>1
    <3> QED BY <1>8, <2>1, <3>1 DEF T
  <2> QED BY <2>1
<1>10. Len(s) = Len(t)
  <2>1. CASE Len(s) < Len(t)
    <3>1. Len(s) + 1 \in DOMAIN t
      BY <1>1, <2>1
    <3>2. PICK j \in DOMAIN s : s[j] = t[Len(s) + 1]
      BY <1>5, <3>1
    <3>3. j \in Nat /\ j \in DOMAIN t /\ j # Len(s) + 1
      BY <1>1, <2>1, <3>2
    <3> QED BY <1>3, <1>9, <3>1, <3>2, <3>3
  <2>2. CASE Len(t) < Len(s)
    <3>1. Len(t) + 1 \in DOMAIN s
      BY <1>1, <2>2
    <3>2. PICK j \in DOMAIN t : t[j] = s[Len(t) + 1]
      BY <1>4, <3>1
    <3>3. j \in Nat /\ j \in DOMAIN s /\ j # Len(t) + 1
      BY <1>1, <2>2, <3>2
    <3> QED BY <1>2, <1>9, <3>1, <3>2, <3>3
  <2>3. Len(s) \in Nat /\ Len(t) \in Nat
    BY <1>1
  <2> QED BY ONLY <2>1, <2>2, <2>3
<1>11. \A i \in 1 .. Len(s) : s[i] = t[i]
  BY <1>1, <1>9, <1>10
<1> QED BY <1>10, <1>11, SeqEqual

\* What is kept of a sequence with one more element.
LEMMA KeptAppend ==
    ASSUME NEW S, NEW s \in Seq(S), NEW e \in S, NEW K
    PROVE  /\ Kept(Append(s, e), K)
                = IF Len(s) + 1 \in K THEN Append(Kept(s, K), e) ELSE Kept(s, K)
           /\ Kept(s, K) \in Seq(S)
<1> DEFINE Bit(t) == [i \in DOMAIN t |-> IF i \in K THEN <<t[i]>> ELSE <<>>]
           new == Append(s, e)
           last == IF Len(s) + 1 \in K THEN <<e>> ELSE <<>>
<1>1. /\ new \in Seq(S) /\ Len(new) = Len(s) + 1 /\ Len(s) \in Nat
      /\ \A i \in 1 .. Len(s) : new[i] = s[i]
      /\ new[Len(s) + 1] = e
  BY AppendProperties, LenProperties
<1> HIDE DEF new
<1>2. ASSUME NEW t \in Seq(S) PROVE Bit(t) \in Seq(Seq(S)) /\ Len(Bit(t)) = Len(t)
  <2>1. DOMAIN t = 1 .. Len(t) /\ Len(t) \in Nat /\ \A i \in DOMAIN t : t[i] \in S
    BY SeqDomain
  <2>2. \A i \in DOMAIN t : <<t[i]>> \in Seq(S)
    BY <2>1
  <2>3. <<>> \in Seq(S)
    BY EmptySeq
  <2>4. Bit(t) \in [1 .. Len(t) -> Seq(S)]
    BY <2>1, <2>2, <2>3
  <2> HIDE DEF Bit
  <2> QED BY <2>1, <2>4, FunctionIsSeq
<1>3. last \in Seq(S)
  <2>1. <<>> \in Seq(S) /\ <<e>> \in Seq(S)
    BY EmptySeq
  <2> QED BY <2>1
<1>4. \A i \in 1 .. Len(s) : Bit(new)[i] = Bit(s)[i]
  BY <1>1, SeqDomain
<1>5. Bit(new)[Len(s) + 1] = last
  BY <1>1, SeqDomain
<1>6. Bit(s) \in Seq(Seq(S)) /\ Bit(new) \in Seq(Seq(S)) /\ Len(Bit(s)) = Len(s) /\ Len(Bit(new)) = Len(new)
  BY <1>1, <1>2
<1>7. Kept(new, K) = FlattenSeq(Bit(new)) /\ Kept(s, K) = FlattenSeq(Bit(s))
  BY DEF Kept
<1> DEFINE a == Bit(s)
           b == Bit(new)
           l == last
<1> HIDE DEF a, b, l
<1>8. b = Append(a, l)
  <2>1. /\ a \in Seq(Seq(S)) /\ b \in Seq(Seq(S)) /\ l \in Seq(S) /\ Len(a) = Len(s)
        /\ Len(b) = Len(s) + 1 /\ (\A i \in 1 .. Len(s) : b[i] = a[i]) /\ b[Len(s) + 1] = l
    BY <1>1, <1>3, <1>4, <1>5, <1>6 DEF a, b, l
  <2>2. /\ Append(a, l) \in Seq(Seq(S)) /\ Len(Append(a, l)) = Len(a) + 1
        /\ \A i \in 1 .. Len(a) : Append(a, l)[i] = a[i]
        /\ Append(a, l)[Len(a) + 1] = l
    BY <2>1, AppendProperties
  <2>3. \A i \in 1 .. Len(b) : b[i] = Append(a, l)[i]
    BY <1>1, <2>1, <2>2
  <2> QED BY <2>1, <2>2, <2>3, SeqEqual
<1>9. a \in Seq(Seq(S)) /\ l \in Seq(S)
  BY <1>3, <1>6 DEF a, l
<1>10. FlattenSeq(b) = FlattenSeq(a) \o l /\ FlattenSeq(a) \in Seq(S)
  BY <1>8, <1>9, FlattenAppend, FlattenType
<1>11. FlattenSeq(a) \o l = IF Len(s) + 1 \in K THEN Append(FlattenSeq(a), e) ELSE FlattenSeq(a)
  BY <1>10, AppendIsConcat, ConcatEmptySeq DEF l
<1>12. Kept(new, K) = FlattenSeq(b) /\ Kept(s, K) = FlattenSeq(a)
  BY <1>7 DEF a, b
<1> QED BY <1>10, <1>11, <1>12 DEF new

Less == {p \in Nat \X Nat : p[1] < p[2]}

\* f lists the places of K in s, and t what is there
Lists(f, t, s, K) ==
    /\ Ascending(Less, f) /\ ToSet(f) = K \cap DOMAIN s
    /\ Len(t) = Len(f) /\ \A i \in DOMAIN f : t[i] = s[f[i]]

\* What is kept of a sequence, place by place.
LEMMA KeptLists ==
    ASSUME NEW S, NEW s \in Seq(S), NEW K
    PROVE  Kept(s, K) \in Seq(S) /\ \E f \in Seq(Nat) : Lists(f, Kept(s, K), s, K)
<1> DEFINE T == {t \in Seq(S) : Kept(t, K) \in Seq(S) /\ \E f \in Seq(Nat) : Lists(f, Kept(t, K), t, K)}
<1>1. <<>> \in T
  <2>1. DOMAIN <<>> = {} /\ <<>> \in Seq(S) /\ <<>> \in Seq(Nat) /\ ToSet(<<>>) = {}
    BY EmptySeq DEF ToSet
  <2>2. [i \in DOMAIN <<>> |-> IF i \in K THEN << <<>>[i]>> ELSE <<>>] = <<>>
    OBVIOUS
  <2>3. Kept(<<>>, K) = <<>>
    BY <2>2, FlattenEmpty DEF Kept
  <2>4. Ascending(Less, <<>>)
    BY <2>1 DEF Ascending
  <2>5. Lists(<<>>, <<>>, <<>>, K)
    BY <2>1, <2>4 DEF Lists
  <2> QED BY <2>1, <2>3, <2>5
<1>2. ASSUME NEW t \in Seq(S), NEW e \in S, t \in T PROVE Append(t, e) \in T
  <2> DEFINE new == Append(t, e)
  <2>1. /\ new \in Seq(S) /\ DOMAIN new = 1 .. Len(t) + 1 /\ DOMAIN t = 1 .. Len(t) /\ Len(t) \in Nat
        /\ \A i \in 1 .. Len(t) : new[i] = t[i]
        /\ new[Len(t) + 1] = e
    BY AppendProperties, LenProperties
  <2>2. Kept(t, K) \in Seq(S)
    BY <1>2
  <2>3. PICK f \in Seq(Nat) : Lists(f, Kept(t, K), t, K)
    BY <1>2
  <2>4. Kept(new, K) = IF Len(t) + 1 \in K THEN Append(Kept(t, K), e) ELSE Kept(t, K)
    BY KeptAppend
  <2> HIDE DEF T, new
  <2> DEFINE k == Kept(t, K)
             n == Len(t) + 1
  <2>5. /\ Ascending(Less, f) /\ ToSet(f) = K \cap DOMAIN t
        /\ Len(k) = Len(f) /\ \A i \in DOMAIN f : k[i] = t[f[i]]
    BY <2>3 DEF Lists
  <2>6. DOMAIN f = 1 .. Len(f) /\ Len(f) \in Nat /\ \A i \in DOMAIN f : f[i] \in DOMAIN t
    BY <2>5, LenProperties DEF ToSet
  <2>10. k \in Seq(S) /\ n \in Nat
    BY <2>1, <2>2
  <2> HIDE DEF k
  <2>7. CASE n \notin K
    <3>1. \A i \in DOMAIN f : new[f[i]] = t[f[i]]
      BY <2>1, <2>6
    <3>2. K \cap DOMAIN new = K \cap DOMAIN t
      BY <2>1, <2>7
    <3>3. Lists(f, k, new, K)
      BY <2>5, <3>1, <3>2 DEF Lists
    <3>4. Kept(new, K) = k
      BY <2>4, <2>7 DEF k
    <3> QED BY <2>1, <2>10, <3>3, <3>4 DEF T, new
  <2>8. CASE n \in K
    <3> DEFINE g == Append(f, n)
    <3>1. /\ g \in Seq(Nat) /\ DOMAIN g = 1 .. Len(f) + 1
          /\ Len(g) = Len(f) + 1
          /\ \A i \in 1 .. Len(f) : g[i] = f[i]
          /\ g[Len(f) + 1] = n
      BY <2>10, AppendProperties, LenProperties
    <3>2. /\ Append(k, e) \in Seq(S) /\ Len(Append(k, e)) = Len(k) + 1
          /\ \A i \in 1 .. Len(k) : Append(k, e)[i] = k[i]
          /\ Append(k, e)[Len(k) + 1] = e
      BY <2>10, AppendProperties
    <3> HIDE DEF g
    <3>3. ASSUME NEW i \in DOMAIN g, NEW j \in DOMAIN g, i < j PROVE <<g[i], g[j]>> \in Less
      <4>1. i \in DOMAIN f /\ g[i] = f[i]
        BY <2>6, <3>1, <3>3
      <4>2. CASE j \in DOMAIN f
        BY <2>5, <2>6, <3>1, <3>3, <4>1, <4>2 DEF Ascending
      <4>3. CASE j \notin DOMAIN f
        <5>1. g[j] = n
          BY <2>6, <3>1, <4>3
        <5>2. f[i] \in Nat /\ f[i] < n
          BY <2>1, <2>6, <4>1
        <5> QED BY <4>1, <5>1, <5>2, <2>10 DEF Less
      <4> QED BY <4>2, <4>3
    <3>4. ToSet(g) = K \cap DOMAIN new
      <4>1. \A i \in DOMAIN g : g[i] \in K \cap DOMAIN new
        <5>1. \A i \in DOMAIN f : f[i] \in K \cap DOMAIN t
          BY <2>5 DEF ToSet
        <5>2. \A x \in DOMAIN t : x \in DOMAIN new
          BY <2>1
        <5>3. n \in K \cap DOMAIN new
          BY <2>1, <2>8
        <5>4. \A i \in DOMAIN g : (i \in DOMAIN f /\ g[i] = f[i]) \/ g[i] = n
          BY <2>6, <3>1
        <5> QED BY <5>1, <5>2, <5>3, <5>4
      <4>2. \A x \in K \cap DOMAIN new : \E i \in DOMAIN g : g[i] = x
        <5>1. \A x \in K \cap DOMAIN t : \E i \in DOMAIN f : f[i] = x
          BY <2>5 DEF ToSet
        <5>2. \A x \in DOMAIN new : x \in DOMAIN t \/ x = n
          BY <2>1
        <5>3. Len(f) + 1 \in DOMAIN g /\ \A i \in DOMAIN f : i \in DOMAIN g /\ g[i] = f[i]
          BY <2>6, <3>1
        <5> QED BY <5>1, <5>2, <5>3, <3>1
      <4> QED BY <4>1, <4>2 DEF ToSet
    <3>5. \A i \in DOMAIN g : Append(k, e)[i] = new[g[i]]
      <4>1. ASSUME NEW i \in DOMAIN g PROVE Append(k, e)[i] = new[g[i]]
        <5>1. CASE i \in DOMAIN f
          <6>1. Append(k, e)[i] = k[i] /\ g[i] = f[i] /\ k[i] = t[f[i]] /\ f[i] \in 1 .. Len(t)
            BY <5>1, <2>1, <2>5, <2>6, <3>1, <3>2
          <6> QED BY <6>1, <2>1
        <5>2. CASE i \notin DOMAIN f
          <6>1. i = Len(f) + 1 /\ i = Len(k) + 1
            BY <5>2, <2>5, <2>6, <3>1
          <6> QED BY <6>1, <3>1, <3>2, <2>1
        <5> QED BY <5>1, <5>2
      <4> QED BY <4>1
    <3>6. Lists(g, Append(k, e), new, K)
      <4>1. Ascending(Less, g)
        BY <3>3 DEF Ascending
      <4>2. Len(Append(k, e)) = Len(g)
        BY <2>5, <3>1, <3>2
      <4> QED BY <4>1, <4>2, <3>4, <3>5 DEF Lists
    <3>7. Kept(new, K) = Append(k, e)
      BY <2>4, <2>8 DEF k
    <3> QED BY <2>1, <3>1, <3>2, <3>6, <3>7 DEF T, new
  <2> QED BY <2>7, <2>8
<1> HIDE DEF T
<1>3. \A t \in Seq(S) : t \in T
  BY <1>1, <1>2, SeqInd
<1> QED BY <1>3 DEF T

\* A sequence without repetitions is as long as it has elements.
LEMMA InjectiveLength ==
    ASSUME NEW S, NEW s \in Seq(S), \A i, j \in DOMAIN s : s[i] = s[j] => i = j
    PROVE  Len(s) = Cardinality(ToSet(s))
<1>1. DOMAIN s = 1 .. Len(s) /\ Len(s) \in Nat
  BY SeqDomain
<1>2. s \in [1 .. Len(s) -> ToSet(s)]
  BY <1>1, LenProperties DEF ToSet
<1>3. s \in Injection(1 .. Len(s), ToSet(s))
  BY <1>1, <1>2 DEF Injection, IsInjective
<1>4. \A e \in ToSet(s) : \E i \in 1 .. Len(s) : s[i] = e
  BY <1>1 DEF ToSet
<1>5. s \in Bijection(1 .. Len(s), ToSet(s))
  BY <1>2, <1>3, <1>4 DEF Bijection, Surjection
<1>6. ExistsBijection(1 .. Len(s), ToSet(s))
  BY <1>5 DEF ExistsBijection
<1>7. IsFiniteSet(1 .. Len(s)) /\ Cardinality(1 .. Len(s)) = Len(s)
  <2>1. 1 \in Int /\ Len(s) \in Int /\ Len(s) >= 0
    BY <1>1
  <2>2. /\ IsFiniteSet(1 .. Len(s))
        /\ Cardinality(1 .. Len(s)) = IF 1 > Len(s) THEN 0 ELSE Len(s) - 1 + 1
    BY <2>1, FS_Interval
  <2> QED BY <2>1, <2>2
<1> QED BY <1>6, <1>7, FS_Bijection

\* A type that occurs once has one place, one that occurs at most once no two.
LEMMA CountIs ==
    ASSUME NEW S, NEW s \in Seq(S), NEW P \in SUBSET (DOMAIN s)
    PROVE  /\ IsFiniteSet(P) /\ Cardinality(P) \in Nat
           /\ Cardinality(P) = 1 <=> \E k : P = {k}
           /\ Cardinality(P) <= 1 <=> \A i, j \in P : i = j
<1>1. DOMAIN s = 1 .. Len(s) /\ Len(s) \in Nat
  BY SeqDomain
<1>2. IsFiniteSet(P) /\ Cardinality(P) \in Nat
  <2>1. IsFiniteSet(1 .. Len(s))
    BY <1>1, FS_Interval
  <2>2. IsFiniteSet(P)
    BY <1>1, <2>1, FS_Subset
  <2> QED BY <2>2, FS_CardinalityType
<1>3. Cardinality(P) = 1 <=> \E k : P = {k}
  BY <1>2, FS_Singleton
<1>4. Cardinality(P) = 0 <=> P = {}
  BY <1>2, FS_EmptySet
<1>5. Cardinality(P) <= 1 <=> Cardinality(P) = 0 \/ Cardinality(P) = 1
  BY <1>2
<1>6. (\A i, j \in P : i = j) <=> P = {} \/ \E k : P = {k}
  <2>1. ASSUME \A i, j \in P : i = j, P # {} PROVE \E k : P = {k}
    <3>1. PICK k \in P : TRUE
      BY <2>1
    <3>2. P = {k}
      BY <2>1, <3>1
    <3> QED BY <3>2
  <2>2. ASSUME NEW k, P = {k} PROVE \A i, j \in P : i = j
    BY <2>2
  <2> QED BY <2>1, <2>2
<1> QED BY ONLY <1>2, <1>3, <1>4, <1>5, <1>6

-----------------------------------------------------------------------------
(* The edits of one record *)

\* t has e at place i, and around it the elements of s, a sequence over S.
Inserts(t, S, s, i, e) ==
    /\ t \in Seq(S) /\ Len(t) = Len(s) + 1
    /\ \A k \in 1 .. Len(s) + 1 : t[k] = IF k < i THEN s[k] ELSE IF k = i THEN e ELSE s[k - 1]

\* t is s without its element at place i.
Removes(t, S, s, i) ==
    /\ t \in Seq(S) /\ Len(t) = Len(s) - 1
    /\ \A k \in 1 .. Len(s) - 1 : t[k] = IF k < i THEN s[k] ELSE s[k + 1]

\* Where everything is after an insertion.
LEMMA InsertIs ==
    ASSUME NEW S, NEW s \in Seq(S), NEW i \in 1 .. Len(s) + 1, NEW e \in S
    PROVE  Inserts(InsertAt(s, i, e), S, s, i, e)
<1> DEFINE a == SubSeq(s, 1, i - 1)
           b == <<e>>
           c == SubSeq(s, i, Len(s))
<1>1. Len(s) \in Nat /\ (\A k \in 1 .. Len(s) : s[k] \in S) /\ i \in Nat
  BY LenProperties, ElementOfSeq
<1>2. a \in Seq(S) /\ Len(a) = i - 1 /\ \A k \in 1 .. i - 1 : a[k] = s[k]
  <2>1. \A k \in 1 .. i - 1 : s[k] \in S
    BY <1>1
  <2>2. /\ a \in Seq(S) /\ Len(a) = (IF 1 <= i - 1 THEN i - 1 - 1 + 1 ELSE 0)
        /\ \A k \in 1 .. i - 1 - 1 + 1 : a[k] = s[1 + k - 1]
    BY <2>1, <1>1, SubSeqProperties
  <2> HIDE DEF a
  <2> QED BY <2>2, <1>1
<1>3. b \in Seq(S) /\ Len(b) = 1 /\ b[1] = e
  OBVIOUS
<1>4. c \in Seq(S) /\ Len(c) = Len(s) - i + 1 /\ \A k \in 1 .. Len(s) - i + 1 : c[k] = s[i + k - 1]
  <2>1. \A k \in i .. Len(s) : s[k] \in S
    BY <1>1
  <2>2. /\ c \in Seq(S) /\ Len(c) = (IF i <= Len(s) THEN Len(s) - i + 1 ELSE 0)
        /\ \A k \in 1 .. Len(s) - i + 1 : c[k] = s[i + k - 1]
    BY <2>1, <1>1, SubSeqProperties
  <2> HIDE DEF c
  <2> QED BY <2>2, <1>1
<1>5. InsertAt(s, i, e) = (a \o b) \o c
  BY DEF InsertAt
<1> HIDE DEF a, b, c
<1>6. /\ a \o b \in Seq(S) /\ Len(a \o b) = i
      /\ \A k \in 1 .. i : (a \o b)[k] = IF k <= i - 1 THEN a[k] ELSE b[k - (i - 1)]
  <2>1. /\ a \o b \in Seq(S) /\ Len(a \o b) = Len(a) + Len(b)
        /\ \A k \in 1 .. Len(a) + Len(b) : (a \o b)[k] = IF k <= Len(a) THEN a[k] ELSE b[k - Len(a)]
    BY <1>2, <1>3, ConcatProperties
  <2>2. Len(a) + Len(b) = i
    BY <1>1, <1>2, <1>3
  <2> QED BY <2>1, <2>2, <1>2
<1> DEFINE d == a \o b
<1>7. /\ d \in Seq(S) /\ Len(d) = i /\ \A k \in 1 .. i : d[k] = IF k < i THEN s[k] ELSE e
  <2>1. ASSUME NEW k \in 1 .. i PROVE d[k] = IF k < i THEN s[k] ELSE e
    <3>1. CASE k < i
      BY <3>1, <1>1, <1>2, <1>6
    <3>2. CASE ~(k < i)
      <4>1. k = i /\ k - (i - 1) = 1 /\ ~(k <= i - 1)
        BY <3>2, <1>1
      <4> QED BY <4>1, <3>2, <1>3, <1>6
    <3> QED BY <3>1, <3>2
  <2> QED BY <2>1, <1>6
<1> HIDE DEF d
<1>8. /\ d \o c \in Seq(S) /\ Len(d \o c) = Len(d) + Len(c)
      /\ \A k \in 1 .. Len(d) + Len(c) : (d \o c)[k] = IF k <= Len(d) THEN d[k] ELSE c[k - Len(d)]
  BY <1>4, <1>7, ConcatProperties
<1>9. Len(d) + Len(c) = Len(s) + 1
  BY <1>1, <1>4, <1>7
<1>10. ASSUME NEW k \in 1 .. Len(s) + 1
       PROVE  (d \o c)[k] = IF k < i THEN s[k] ELSE IF k = i THEN e ELSE s[k - 1]
  <2>1. CASE k <= i
    BY <2>1, <1>1, <1>7, <1>8, <1>9
  <2>2. CASE ~(k <= i)
    <3>1. (d \o c)[k] = c[k - i]
      BY <2>2, <1>1, <1>7, <1>8, <1>9
    <3>2. k - i \in 1 .. Len(s) - i + 1 /\ i + (k - i) - 1 = k - 1 /\ ~(k < i) /\ k # i
      BY <2>2, <1>1
    <3>3. c[k - i] = s[i + (k - i) - 1]
      BY <1>4, <3>2
    <3> QED BY <3>1, <3>2, <3>3
  <2> QED BY <2>1, <2>2, <1>1
<1>11. InsertAt(s, i, e) = d \o c
  BY <1>5 DEF d
<1> QED BY <1>8, <1>9, <1>10, <1>11 DEF Inserts

\* Where everything is after a removal.
LEMMA RemoveIs ==
    ASSUME NEW S, NEW s \in Seq(S), NEW i \in 1 .. Len(s)
    PROVE  Removes(RemoveAt(s, i), S, s, i)
<1> DEFINE a == SubSeq(s, 1, i - 1)
           c == SubSeq(s, i + 1, Len(s))
<1>1. Len(s) \in Nat /\ (\A k \in 1 .. Len(s) : s[k] \in S) /\ i \in Nat
  BY LenProperties, ElementOfSeq
<1>2. a \in Seq(S) /\ Len(a) = i - 1 /\ \A k \in 1 .. i - 1 : a[k] = s[k]
  <2>1. \A k \in 1 .. i - 1 : s[k] \in S
    BY <1>1
  <2>2. /\ a \in Seq(S) /\ Len(a) = (IF 1 <= i - 1 THEN i - 1 - 1 + 1 ELSE 0)
        /\ \A k \in 1 .. i - 1 - 1 + 1 : a[k] = s[1 + k - 1]
    BY <2>1, <1>1, SubSeqProperties
  <2> HIDE DEF a
  <2> QED BY <2>2, <1>1
<1>4. c \in Seq(S) /\ Len(c) = Len(s) - i /\ \A k \in 1 .. Len(s) - i : c[k] = s[i + k]
  <2>1. \A k \in i + 1 .. Len(s) : s[k] \in S
    BY <1>1
  <2>2. /\ c \in Seq(S) /\ Len(c) = (IF i + 1 <= Len(s) THEN Len(s) - (i + 1) + 1 ELSE 0)
        /\ \A k \in 1 .. Len(s) - (i + 1) + 1 : c[k] = s[i + 1 + k - 1]
    BY <2>1, <1>1, SubSeqProperties
  <2> HIDE DEF c
  <2> QED BY <2>2, <1>1
<1>5. RemoveAt(s, i) = a \o c
  BY DEF RemoveAt
<1> HIDE DEF a, c
<1>6. /\ a \o c \in Seq(S) /\ Len(a \o c) = Len(a) + Len(c)
      /\ \A k \in 1 .. Len(a) + Len(c) : (a \o c)[k] = IF k <= Len(a) THEN a[k] ELSE c[k - Len(a)]
  BY <1>2, <1>4, ConcatProperties
<1>7. Len(a) + Len(c) = Len(s) - 1
  BY <1>1, <1>2, <1>4
<1>8. ASSUME NEW k \in 1 .. Len(s) - 1
      PROVE  (a \o c)[k] = IF k < i THEN s[k] ELSE s[k + 1]
  <2>1. CASE k < i
    BY <2>1, <1>1, <1>2, <1>6, <1>7
  <2>2. CASE ~(k < i)
    <3>1. (a \o c)[k] = c[k - (i - 1)]
      BY <2>2, <1>1, <1>2, <1>6, <1>7
    <3>2. k - (i - 1) \in 1 .. Len(s) - i /\ i + (k - (i - 1)) = k + 1
      BY <2>2, <1>1
    <3>3. c[k - (i - 1)] = s[i + (k - (i - 1))]
      BY <1>4, <3>2
    <3> QED BY <2>2, <3>1, <3>2, <3>3
  <2> QED BY <2>1, <2>2
<1> QED BY <1>5, <1>6, <1>7, <1>8 DEF Removes

\* a record as it is planned before an edit: its fields are told apart by where they were
Original(p) ==
    /\ p \in PlannedRecords
    /\ \A i \in DOMAIN p.fields : p.fields[i].from # None
    /\ \A i, j \in DOMAIN p.fields : p.fields[i] = p.fields[j] => i = j
    /\ p.fields # <<>>
    /\ \A i \in DOMAIN p.fields : p.fields[i].field.type = "end" <=> i = Len(p.fields)

AtMostOne(p, type) ==
    \A i, j \in DOMAIN p.fields : p.fields[i].field.type = type /\ p.fields[j].field.type = type => i = j

\* q is p but for the field of one type, in whose place new may be
Edited(p, q, type, new) ==
    /\ q \in PlannedRecords /\ q.handle = p.handle
    /\ \A i \in DOMAIN q.fields : q.fields[i] = new \/ \E j \in DOMAIN p.fields : q.fields[i] = p.fields[j]
    /\ \A i, k \in DOMAIN q.fields, j, l \in DOMAIN p.fields :
         i < k /\ q.fields[i] = p.fields[j] /\ q.fields[k] = p.fields[l] => j < l
    /\ \A j \in DOMAIN p.fields :
         p.fields[j].field.type # type => \E i \in DOMAIN q.fields : q.fields[i] = p.fields[j]
    /\ AtMostOne(p, type) /\ AtMostOne(q, type)
    /\ q.fields # <<>> /\ q.fields[Len(q.fields)].field.type = "end"

Novel(new, type) == new \in PlannedFields /\ new.from = None /\ new.field.type = type /\ type # "end"

\* A type that is unambiguous has at most one place.
LEMMA PositionsAre ==
    ASSUME NEW p \in PlannedRecords, NEW type
    PROVE  /\ Positions(p, type) \subseteq DOMAIN p.fields
           /\ Unambiguous(p, type) <=> AtMostOne(p, type)
<1>1. p.fields \in Seq(PlannedFields)
  BY DEF PlannedRecords
<1>2. Positions(p, type) \in SUBSET (DOMAIN p.fields)
  BY DEF Positions
<1>3. Cardinality(Positions(p, type)) <= 1 <=> \A i, j \in Positions(p, type) : i = j
  BY <1>1, <1>2, CountIs
<1> QED BY <1>2, <1>3 DEF Unambiguous, AtMostOne, Positions

\* A patched record is one edited in that type.
LEMMA PatchedIs ==
    ASSUME NEW p, Original(p), NEW type, NEW new, Novel(new, type), Unambiguous(p, type)
    PROVE  Edited(p, Patched(p, type, new), type, new)
<1> DEFINE f == p.fields
           g == [i \in DOMAIN f |-> IF f[i].field.type = type THEN new ELSE f[i]]
           q == Patched(p, type, new)
<1>1. p \in PlannedRecords /\ f \in Seq(PlannedFields)
  BY DEF Original, PlannedRecords
<1>2. DOMAIN f = 1 .. Len(f) /\ Len(f) \in Nat /\ \A i \in DOMAIN f : f[i] \in PlannedFields
  BY <1>1, SeqDomain
<1>3. g \in Seq(PlannedFields) /\ Len(g) = Len(f) /\ DOMAIN g = DOMAIN f
  <2>1. g \in [1 .. Len(f) -> PlannedFields]
    BY <1>2 DEF Novel
  <2> QED BY <2>1, <1>2, FunctionIsSeq
<1>4. q = [p EXCEPT !.fields = g]
  BY DEF Patched
<1>5. \A i \in DOMAIN f : g[i] = IF f[i].field.type = type THEN new ELSE f[i]
  OBVIOUS
<1> HIDE DEF g
<1>6. q \in PlannedRecords /\ q.handle = p.handle /\ q.fields = g
  BY <1>1, <1>3, <1>4 DEF PlannedRecords
<1> HIDE DEF q
<1>7. /\ \A i \in DOMAIN f : f[i].from # None
      /\ \A i, j \in DOMAIN f : f[i] = f[j] => i = j
      /\ f # <<>> /\ f[Len(f)].field.type = "end" /\ Len(f) \in DOMAIN f
  <2>1. Len(f) # 0
    BY <1>1, EmptySeq DEF Original
  <2>2. Len(f) \in DOMAIN f
    BY <1>2, <2>1
  <2> QED BY <2>2 DEF Original
<1> HIDE DEF f
<1>8. AtMostOne(p, type)
  BY <1>1, PositionsAre
<1>9. \A i, j \in DOMAIN f : g[i] = f[j] => i = j
  BY <1>5, <1>7 DEF Novel
<1>10. \A i \in DOMAIN f : g[i].field.type = type <=> f[i].field.type = type
  BY <1>5 DEF Novel
<1>11. AtMostOne(q, type)
  BY <1>3, <1>6, <1>8, <1>10 DEF AtMostOne, f
<1>12. g # <<>> /\ g[Len(g)].field.type = "end"
  <2>1. Len(f) # 0
    BY <1>2, <1>7
  <2> QED BY <2>1, <1>3, <1>5, <1>7, EmptySeq DEF Novel
<1>13. \A i \in DOMAIN g : g[i] = new \/ \E j \in DOMAIN f : g[i] = f[j]
  BY <1>3, <1>5
<1>14. \A i, k \in DOMAIN g, j, l \in DOMAIN f : i < k /\ g[i] = f[j] /\ g[k] = f[l] => j < l
  BY <1>3, <1>9
<1>15. \A j \in DOMAIN f : f[j].field.type # type => \E i \in DOMAIN g : g[i] = f[j]
  BY <1>3, <1>5
<1> QED BY <1>6, <1>8, <1>11, <1>12, <1>13, <1>14, <1>15 DEF Edited, f, q

\* The least of one number.
LEMMA MinIs ==
    ASSUME NEW n \in Nat
    PROVE  Min({n}) = n
<1>1. \A x \in {n} : \A y \in {n} : x <= y
  OBVIOUS
<1> QED BY <1>1 DEF Min

\* A record with a field inserted before its end is one edited in that type.
LEMMA InsertedIs ==
    ASSUME NEW p, Original(p), NEW type, NEW new, Novel(new, type), Positions(p, type) = {}
    PROVE  Edited(p, Inserted(p, new), type, new)
<1> DEFINE f == p.fields
           n == Len(f)
           g == InsertAt(f, n, new)
           q == Inserted(p, new)
<1>1. p \in PlannedRecords /\ f \in Seq(PlannedFields)
  BY DEF Original, PlannedRecords
<1>2. DOMAIN f = 1 .. n /\ n \in Nat /\ \A i \in DOMAIN f : f[i] \in PlannedFields
  BY <1>1, SeqDomain
<1>3. /\ \A i \in DOMAIN f : f[i].from # None
      /\ \A i, j \in DOMAIN f : f[i] = f[j] => i = j
      /\ \A i \in DOMAIN f : f[i].field.type = "end" <=> i = n
      /\ n # 0 /\ n \in DOMAIN f /\ n \in 1 .. n + 1
  <2>1. n # 0
    BY <1>1, EmptySeq DEF Original
  <2>2. n \in DOMAIN f /\ n \in 1 .. n + 1
    BY <1>2, <2>1
  <2> QED BY <2>1, <2>2 DEF Original
<1>4. q = [p EXCEPT !.fields = g]
  <2> DEFINE I == {i \in 1 .. Len(f) : f[i].field.type = "end"}
  <2>1. I = {n}
    BY <1>2, <1>3
  <2>2. SelectInSeq(f, LAMBDA x : x.field.type = "end") = IF I # {} THEN Min(I) ELSE 0
    BY DEF SelectInSeq
  <2>3. SelectInSeq(f, LAMBDA x : x.field.type = "end") = n
    BY <1>2, <2>1, <2>2, MinIs
  <2> QED BY <2>3 DEF Inserted
<1>5. /\ g \in Seq(PlannedFields) /\ Len(g) = n + 1
      /\ \A k \in 1 .. n + 1 : g[k] = IF k < n THEN f[k] ELSE IF k = n THEN new ELSE f[k - 1]
  <2>1. new \in PlannedFields /\ f \in Seq(PlannedFields) /\ n \in 1 .. Len(f) + 1
    BY <1>1, <1>3 DEF Novel
  <2>2. Inserts(g, PlannedFields, f, n, new)
    BY ONLY <2>1, InsertIs
  <2>3. n + 1 = Len(f) + 1
    BY <1>1, <1>3
  <2> HIDE DEF g
  <2> QED BY <2>2, <2>3 DEF Inserts
<1> HIDE DEF g
<1>6. q \in PlannedRecords /\ q.handle = p.handle /\ q.fields = g
  BY <1>1, <1>4, <1>5 DEF PlannedRecords
<1>7. DOMAIN g = 1 .. n + 1
  BY <1>5, SeqDomain
<1>8. /\ \A k \in DOMAIN g : k < n => k \in DOMAIN f /\ g[k] = f[k]
      /\ g[n] = new /\ g[n + 1] = f[n] /\ n \in DOMAIN g /\ n + 1 \in DOMAIN g
      /\ \A k \in DOMAIN g : k < n \/ k = n \/ k = n + 1
      /\ \A k \in DOMAIN f : k < n \/ k = n
  BY <1>2, <1>3, <1>5, <1>7
<1>9. \A i \in DOMAIN f : f[i].field.type # type
  BY DEF Positions
<1>10. AtMostOne(p, type)
  BY <1>9 DEF AtMostOne
<1>11. \A k \in DOMAIN g : k # n => g[k].field.type # type
  BY <1>3, <1>8, <1>9
<1>12. AtMostOne(q, type)
  BY <1>6, <1>11 DEF AtMostOne
<1> HIDE DEF q, f, n
<1>13. g # <<>> /\ g[Len(g)].field.type = "end"
  BY <1>2, <1>3, <1>5, <1>8, EmptySeq
<1>14. \A k \in DOMAIN g : g[k] = new \/ \E j \in DOMAIN f : g[k] = f[j]
  BY <1>3, <1>8
<1>15. \A i, j \in DOMAIN f : f[i] # new
  BY <1>3 DEF Novel
<1>16. \A k \in DOMAIN g, j \in DOMAIN f : g[k] = f[j] => (k < n /\ j = k) \/ (k = n + 1 /\ j = n)
  BY <1>3, <1>8, <1>15
<1>17. \A i, k \in DOMAIN g, j, l \in DOMAIN f : i < k /\ g[i] = f[j] /\ g[k] = f[l] => j < l
  <2>1. ASSUME NEW i \in DOMAIN g, NEW k \in DOMAIN g, NEW j \in DOMAIN f, NEW l \in DOMAIN f,
               i < k, g[i] = f[j], g[k] = f[l]
        PROVE  j < l
    <3>1. (i < n /\ j = i) \/ (i = n + 1 /\ j = n)
      BY <1>16, <2>1
    <3>2. (k < n /\ l = k) \/ (k = n + 1 /\ l = n)
      BY <1>16, <2>1
    <3>3. i \in Nat /\ k \in Nat /\ j \in Nat /\ l \in Nat
      BY <1>2, <1>7
    <3> QED BY ONLY <3>1, <3>2, <3>3, <1>2, <2>1
  <2> QED BY <2>1
<1>18. \A j \in DOMAIN f : \E k \in DOMAIN g : g[k] = f[j]
  <2>1. ASSUME NEW j \in DOMAIN f PROVE \E k \in DOMAIN g : g[k] = f[j]
    <3>1. CASE j < n
      <4>1. j \in DOMAIN g /\ g[j] = f[j]
        BY <3>1, <1>2, <1>7, <1>8
      <4> QED BY <4>1
    <3>2. CASE j = n
      BY <3>2, <1>8
    <3> QED BY <3>1, <3>2, <1>8
  <2> QED BY <2>1
<1> QED BY <1>6, <1>10, <1>12, <1>13, <1>14, <1>17, <1>18 DEF Edited, f, q

\* A record without the fields of a type is one edited in that type.
LEMMA WithoutIs ==
    ASSUME NEW p, Original(p), NEW type, type # "end", Unambiguous(p, type), NEW new
    PROVE  /\ Edited(p, Without(p, type), type, new)
           /\ Positions(Without(p, type), type) = {}
<1> DEFINE f == p.fields
           n == Len(f)
           K == DOMAIN f \ Positions(p, type)
           g == Kept(f, K)
           q == Without(p, type)
<1>1. p \in PlannedRecords /\ f \in Seq(PlannedFields)
  BY DEF Original, PlannedRecords
<1>2. DOMAIN f = 1 .. n /\ n \in Nat /\ \A i \in DOMAIN f : f[i] \in PlannedFields
  BY <1>1, SeqDomain
<1>3. /\ \A i, j \in DOMAIN f : f[i] = f[j] => i = j
      /\ \A i \in DOMAIN f : f[i].field.type = "end" <=> i = n
      /\ n \in DOMAIN f
  <2>1. n # 0
    BY <1>1, EmptySeq DEF Original
  <2>2. n \in DOMAIN f
    BY <1>2, <2>1
  <2> QED BY <2>1, <2>2 DEF Original
<1>4. q = [p EXCEPT !.fields = g]
  BY DEF Without
<1>5. g \in Seq(PlannedFields)
  BY <1>1, KeptLists
<1>6. PICK h \in Seq(Nat) : Lists(h, g, f, K)
  BY <1>1, KeptLists
<1>7. \A i \in DOMAIN f : i \in K <=> f[i].field.type # type
  BY DEF Positions
<1>19. AtMostOne(p, type)
  BY <1>1, PositionsAre
<1> HIDE DEF K, g
<1>8. q \in PlannedRecords /\ q.handle = p.handle /\ q.fields = g
  BY <1>1, <1>4, <1>5 DEF PlannedRecords
<1> HIDE DEF q
<1>9. K \subseteq DOMAIN f
  BY DEF K
<1>10. /\ Ascending(Less, h) /\ ToSet(h) = K
       /\ Len(g) = Len(h) /\ \A i \in DOMAIN h : g[i] = f[h[i]]
  BY <1>6, <1>9 DEF Lists
<1>11. DOMAIN h = 1 .. Len(h) /\ DOMAIN g = 1 .. Len(g) /\ Len(h) \in Nat
  BY <1>5, SeqDomain
<1> HIDE DEF f, n
<1>12. \A i \in DOMAIN g : h[i] \in K /\ h[i] \in DOMAIN f /\ g[i] = f[h[i]]
  BY <1>9, <1>10, <1>11 DEF ToSet
<1>13. \A k \in K : \E i \in DOMAIN g : h[i] = k
  BY <1>10, <1>11 DEF ToSet
<1>14. \A i \in DOMAIN g : g[i].field.type # type
  BY <1>7, <1>12
<1>15. AtMostOne(q, type) /\ Positions(q, type) = {}
  BY <1>8, <1>14 DEF AtMostOne, Positions
<1>16. \A i, k \in DOMAIN g, j, l \in DOMAIN f : i < k /\ g[i] = f[j] /\ g[k] = f[l] => j < l
  <2>1. ASSUME NEW i \in DOMAIN g, NEW k \in DOMAIN g, NEW j \in DOMAIN f, NEW l \in DOMAIN f,
               i < k, g[i] = f[j], g[k] = f[l]
        PROVE  j < l
    <3>1. j = h[i] /\ l = h[k]
      BY <1>3, <1>12, <2>1
    <3>2. <<h[i], h[k]>> \in Less
      BY <1>10, <1>11, <2>1 DEF Ascending
    <3> QED BY <3>1, <3>2 DEF Less
  <2> QED BY <2>1
<1>17. \A j \in DOMAIN f : f[j].field.type # type => \E i \in DOMAIN g : g[i] = f[j]
  BY <1>7, <1>12, <1>13
<1>18. g # <<>> /\ g[Len(g)].field.type = "end"
  <2>1. n \in K
    BY <1>3, <1>7
  <2>2. PICK m \in DOMAIN g : h[m] = n
    BY <1>13, <2>1
  <2>3. Len(g) \in DOMAIN g
    BY <1>11, <2>2, <1>10
  <2>4. CASE m = Len(g)
    BY <2>2, <2>3, <2>4, <1>3, <1>12
  <2>5. CASE m # Len(g)
    <3>1. m < Len(g)
      BY <1>10, <1>11, <2>2, <2>5
    <3>2. <<h[m], h[Len(g)]>> \in Less
      BY <1>10, <1>11, <2>2, <2>3, <3>1 DEF Ascending
    <3>3. h[m] < h[Len(g)] /\ h[Len(g)] \in DOMAIN f
      BY <3>2, <2>3, <1>12 DEF Less
    <3> QED BY <3>3, <2>2, <1>2
  <2> QED BY <2>2, <2>3, <2>4, <2>5, EmptySeq
<1>20. \A i \in DOMAIN g : \E j \in DOMAIN f : g[i] = f[j]
  BY <1>12
<1> QED BY <1>8, <1>15, <1>16, <1>17, <1>18, <1>19, <1>20 DEF Edited, f, q

Forked(p) == [i \in DOMAIN p.fields |-> p.fields[i].field]
Written(p) == Bare(Forked(p))

\* A planned record as it is forked and as it is written.
LEMMA WrittenTyped ==
    ASSUME NEW p \in PlannedRecords
    PROVE  /\ Forked(p) \in Seq(Fields) /\ Len(Forked(p)) = Len(p.fields)
           /\ Written(p) \in Seq(Frames) /\ Len(Written(p)) = Len(p.fields)
           /\ DOMAIN Forked(p) = DOMAIN p.fields /\ DOMAIN Written(p) = DOMAIN p.fields
           /\ DOMAIN p.fields = 1 .. Len(p.fields) /\ Len(p.fields) \in Nat
           /\ \A i \in DOMAIN p.fields : /\ p.fields[i] \in PlannedFields
                                         /\ Forked(p)[i] = p.fields[i].field
                                         /\ Written(p)[i].type = p.fields[i].field.type
                                         /\ Written(p)[i].payload = p.fields[i].field.payload
<1>1. p.fields \in Seq(PlannedFields)
  BY DEF PlannedRecords
<1>2. DOMAIN p.fields = 1 .. Len(p.fields) /\ Len(p.fields) \in Nat
      /\ \A i \in DOMAIN p.fields : p.fields[i] \in PlannedFields
  BY <1>1, SeqDomain
<1>3. Forked(p) \in [1 .. Len(p.fields) -> Fields]
  BY <1>2 DEF Forked, PlannedFields
<1>4. Forked(p) \in Seq(Fields) /\ Len(Forked(p)) = Len(p.fields)
  BY <1>2, <1>3, FunctionIsSeq
<1>5. DOMAIN Forked(p) = DOMAIN p.fields /\ \A i \in DOMAIN p.fields : Forked(p)[i] = p.fields[i].field
  BY DEF Forked
<1>6. /\ Written(p) \in Seq(Frames) /\ Len(Written(p)) = Len(Forked(p))
      /\ \A i \in DOMAIN Forked(p) : /\ Written(p)[i].type = Forked(p)[i].type
                                     /\ Written(p)[i].payload = Forked(p)[i].payload
  BY <1>4, BareTyped DEF Written
<1>7. DOMAIN Written(p) = DOMAIN p.fields
  BY <1>2, <1>4, <1>6, SeqDomain
<1> QED BY <1>2, <1>4, <1>5, <1>6, <1>7

\* All records are judged alike.
LEMMA RecordSpecs ==
    ASSUME NEW r \in Nat \ {0}, NEW s \in Nat \ {0}
    PROVE  \A type : SpecOf(r, type) = SpecOf(s, type)
BY DEF SpecOf

\* the codes of the warnings of a field
Flagged(section, fields, i, code) ==
    LET spec == SpecOf(section, fields[i].type)
    IN  \/ code = "unknown" /\ spec = None
        \/ code = "duplicate" /\ spec # None /\ spec.single /\ Repeats(fields, i)
        \/ code = "malformed" /\ spec # None /\ Malformed(spec, fields[i].payload)

\* The warnings of a field are those its flags say.
LEMMA FieldWarningsAre ==
    ASSUME NEW section \in Nat, NEW fields, NEW i \in Nat
    PROVE  ToSet(FieldWarnings(section, fields, i))
             = {Warning(code, section, i) : code \in {c \in {"unknown", "duplicate", "malformed"} :
                                                        Flagged(section, fields, i, c)}}
<1> DEFINE spec == SpecOf(section, fields[i].type)
           A == Warning("unknown", section, i)
           B == Warning("duplicate", section, i)
           C == Warning("malformed", section, i)
           dup == spec.single /\ Repeats(fields, i)
           mal == Malformed(spec, fields[i].payload)
           b == IF dup THEN <<B>> ELSE <<>>
           c == IF mal THEN <<C>> ELSE <<>>
           codes == {x \in {"unknown", "duplicate", "malformed"} : Flagged(section, fields, i, x)}
<1>1. FieldWarnings(section, fields, i) = IF spec = None THEN <<A>> ELSE b \o c
  BY DEF FieldWarnings
<1>2. ToSet(<<>>) = {} /\ \A x : ToSet(<<x>>) = {x}
  BY DEF ToSet
<1>3. codes = {x \in {"unknown", "duplicate", "malformed"} :
                 \/ x = "unknown" /\ spec = None
                 \/ x = "duplicate" /\ spec # None /\ dup
                 \/ x = "malformed" /\ spec # None /\ mal}
  BY DEF Flagged
<1>4. ToSet(b \o c) = ToSet(b) \cup ToSet(c)
  <2> DEFINE D == {B, C}
  <2>0. <<>> \in Seq(D) /\ <<B>> \in Seq(D) /\ <<C>> \in Seq(D)
    <3>1. B \in D /\ C \in D
      OBVIOUS
    <3> HIDE DEF D
    <3> QED BY <3>1, EmptySeq
  <2> HIDE DEF D, dup, mal
  <2>1. b \in Seq(D) /\ c \in Seq(D)
    BY <2>0
  <2> HIDE DEF b, c
  <2> QED BY <2>1, ToSetConcat
<1>5. ToSet(b) = (IF dup THEN {B} ELSE {}) /\ ToSet(c) = (IF mal THEN {C} ELSE {})
  BY <1>2
<1> HIDE DEF spec, dup, mal, b, c
<1>6. CASE spec = None
  <2>1. codes = {"unknown"}
    BY <1>3, <1>6
  <2>2. {Warning(x, section, i) : x \in codes} = {A}
    BY <2>1
  <2> QED BY <1>1, <1>2, <1>6, <2>2
<1>7. CASE spec # None
  <2>1. ToSet(FieldWarnings(section, fields, i)) = (IF dup THEN {B} ELSE {}) \cup (IF mal THEN {C} ELSE {})
    BY <1>1, <1>4, <1>5, <1>7
  <2>2. codes = (IF dup THEN {"duplicate"} ELSE {}) \cup (IF mal THEN {"malformed"} ELSE {})
    BY <1>3, <1>7
  <2> HIDE DEF codes
  <2>3. {Warning(x, section, i) : x \in codes} = (IF dup THEN {B} ELSE {}) \cup (IF mal THEN {C} ELSE {})
    BY <2>2
  <2> QED BY <2>1, <2>3 DEF codes
<1> QED BY <1>6, <1>7

\* q.fields[i] is p's field j
Same(p, q, i, j) == q.fields[i] = p.fields[j]

\* Fields of other types repeat in the edited record as before, those of its type do not.
LEMMA EditedRepeats ==
    ASSUME NEW p, Original(p), NEW q, NEW type, NEW new, Novel(new, type), Edited(p, q, type, new)
    PROVE  /\ \A i \in DOMAIN q.fields, j \in DOMAIN p.fields :
                Same(p, q, i, j) => (Repeats(Written(q), i) <=> Repeats(Written(p), j))
           /\ \A i \in DOMAIN q.fields : q.fields[i].field.type = type => ~Repeats(Written(q), i)
           /\ \A j \in DOMAIN p.fields : p.fields[j].field.type = type => ~Repeats(Written(p), j)
<1>1. /\ p \in PlannedRecords /\ q \in PlannedRecords
      /\ AtMostOne(p, type) /\ AtMostOne(q, type)
      /\ \A i, j \in DOMAIN p.fields : p.fields[i] = p.fields[j] => i = j
      /\ \A i \in DOMAIN q.fields : q.fields[i] = new \/ \E j \in DOMAIN p.fields : q.fields[i] = p.fields[j]
      /\ \A i, k \in DOMAIN q.fields, j, l \in DOMAIN p.fields :
           i < k /\ q.fields[i] = p.fields[j] /\ q.fields[k] = p.fields[l] => j < l
      /\ \A j \in DOMAIN p.fields :
           p.fields[j].field.type # type => \E i \in DOMAIN q.fields : q.fields[i] = p.fields[j]
  BY DEF Original, Edited
<1> DEFINE P == DOMAIN p.fields
           Q == DOMAIN q.fields
           tp(j) == p.fields[j].field.type
           tq(i) == q.fields[i].field.type
<1>2. /\ P = 1 .. Len(p.fields) /\ Len(p.fields) \in Nat
      /\ \A j \in P : Written(p)[j].type = tp(j)
  BY <1>1, WrittenTyped
<1>3. /\ Q = 1 .. Len(q.fields) /\ Len(q.fields) \in Nat
      /\ \A i \in Q : Written(q)[i].type = tq(i)
  BY <1>1, WrittenTyped
<1>4. \A j \in P : Repeats(Written(p), j) <=> \E l \in P : l < j /\ tp(l) = tp(j)
  <2>1. ASSUME NEW j \in P PROVE Repeats(Written(p), j) <=> \E l \in P : l < j /\ tp(l) = tp(j)
    <3>1. \A l \in 1 .. j - 1 : l \in P /\ l < j
      BY <1>2
    <3>2. \A l \in P : l < j => l \in 1 .. j - 1
      BY <1>2
    <3> QED BY <1>2, <3>1, <3>2 DEF Repeats
  <2> QED BY <2>1
<1>5. \A i \in Q : Repeats(Written(q), i) <=> \E k \in Q : k < i /\ tq(k) = tq(i)
  <2>1. ASSUME NEW i \in Q PROVE Repeats(Written(q), i) <=> \E k \in Q : k < i /\ tq(k) = tq(i)
    <3>1. \A k \in 1 .. i - 1 : k \in Q /\ k < i
      BY <1>3
    <3>2. \A k \in Q : k < i => k \in 1 .. i - 1
      BY <1>3
    <3> QED BY <1>3, <3>1, <3>2 DEF Repeats
  <2> QED BY <2>1
<1>6. ASSUME NEW i \in Q, tq(i) = type PROVE ~Repeats(Written(q), i)
  <2>1. ASSUME NEW k \in Q, k < i, tq(k) = type PROVE FALSE
    <3>1. k = i
      BY <1>1, <1>6, <2>1 DEF AtMostOne
    <3> QED BY <3>1, <2>1, <1>3
  <2> QED BY <1>5, <1>6, <2>1
<1>7. ASSUME NEW j \in P, tp(j) = type PROVE ~Repeats(Written(p), j)
  <2>1. ASSUME NEW l \in P, l < j, tp(l) = type PROVE FALSE
    <3>1. l = j
      BY <1>1, <1>7, <2>1 DEF AtMostOne
    <3> QED BY <3>1, <2>1, <1>2
  <2> QED BY <1>4, <1>7, <2>1
<1>8. ASSUME NEW i \in Q, NEW j \in P, Same(p, q, i, j), tp(j) # type
      PROVE  Repeats(Written(q), i) <=> Repeats(Written(p), j)
  <2>1. tq(i) = tp(j) /\ q.fields[i] = p.fields[j]
    BY <1>8 DEF Same
  <2>2. ASSUME NEW k \in Q, k < i, tq(k) = tq(i) PROVE \E l \in P : l < j /\ tp(l) = tp(j)
    <3>1. q.fields[k] # new
      BY <1>8, <2>1, <2>2 DEF Novel
    <3>2. PICK l \in P : q.fields[k] = p.fields[l]
      BY <1>1, <3>1
    <3> QED BY <1>1, <2>1, <2>2, <3>2
  <2>3. ASSUME NEW l \in P, l < j, tp(l) = tp(j) PROVE \E k \in Q : k < i /\ tq(k) = tq(i)
    <3>1. PICK k \in Q : q.fields[k] = p.fields[l]
      BY <1>1, <1>8, <2>3
    <3>2. ~(i < k)
      <4>1. i < k => j < l
        BY <1>1, <2>1, <3>1
      <4> QED BY <4>1, <2>3, <1>2
    <3>3. i # k
      BY <1>1, <1>2, <2>1, <2>3, <3>1
    <3>4. k < i
      BY <1>3, <3>2, <3>3
    <3> QED BY <2>1, <2>3, <3>1, <3>4
  <2> QED BY <1>4, <1>5, <2>2, <2>3
<1>9. ASSUME NEW i \in Q, NEW j \in P, Same(p, q, i, j), tp(j) = type
      PROVE  Repeats(Written(q), i) <=> Repeats(Written(p), j)
  <2>1. tq(i) = type
    BY <1>9 DEF Same
  <2> QED BY <1>6, <1>7, <1>9, <2>1
<1> QED BY <1>6, <1>7, <1>8, <1>9

\* a field an edit may put in: of an optional type or in place of one, decodable and not too new
Sound(new, version) ==
    LET spec == SpecOf(1, new.field.type)
    IN  /\ new.field.type \in {"title", "password", "username", "email", "protected"}
        /\ spec.since <= version /\ ~Malformed(spec, new.field.payload)
        /\ new.field.class = Class(1, new.field)

\* The tables know the types of the tables.
LEMMA RecordSpecsAre ==
    ASSUME NEW r \in Nat \ {0}
    PROVE  /\ \A type \in DOMAIN RecordSchema : SpecOf(r, type) = RecordSchema[type] /\ RecordSchema[type] # None
           /\ \A type : type \notin DOMAIN RecordSchema => SpecOf(r, type) = None
<1>1. \A type \in DOMAIN RecordSchema : RecordSchema[type] # None
  BY VaultSchemaAssumption
<1> QED BY <1>1 DEF SpecOf

\* Fields of other types keep their flags, a new field has none.
LEMMA EditedFlags ==
    ASSUME NEW p, Original(p), NEW q, NEW type, NEW new, Novel(new, type), Edited(p, q, type, new),
           NEW version, Sound(new, version), NEW r \in Nat \ {0}, NEW s \in Nat \ {0}
    PROVE  /\ \A i \in DOMAIN q.fields, j \in DOMAIN p.fields : \A code :
                Same(p, q, i, j) => (Flagged(s, Written(q), i, code) <=> Flagged(r, Written(p), j, code))
           /\ \A i \in DOMAIN q.fields : \A code :
                q.fields[i] = new => ~Flagged(s, Written(q), i, code)
<1>1. p \in PlannedRecords /\ q \in PlannedRecords
  BY DEF Original, Edited
<1>2. ASSUME NEW i \in DOMAIN q.fields, NEW j \in DOMAIN p.fields, NEW code, Same(p, q, i, j)
      PROVE  Flagged(s, Written(q), i, code) <=> Flagged(r, Written(p), j, code)
  <2>1. Repeats(Written(q), i) <=> Repeats(Written(p), j)
    BY <1>2, EditedRepeats
  <2>2. Written(q)[i].type = Written(p)[j].type /\ Written(q)[i].payload = Written(p)[j].payload
    <3>1. /\ Written(q)[i].type = q.fields[i].field.type
          /\ Written(q)[i].payload = q.fields[i].field.payload
      BY <1>1, WrittenTyped
    <3>2. /\ Written(p)[j].type = p.fields[j].field.type
          /\ Written(p)[j].payload = p.fields[j].field.payload
      BY <1>1, WrittenTyped
    <3> QED BY <3>1, <3>2, <1>2 DEF Same
  <2>3. SpecOf(s, Written(q)[i].type) = SpecOf(r, Written(p)[j].type)
    BY <2>2, RecordSpecs
  <2> QED BY <2>1, <2>2, <2>3 DEF Flagged
<1>3. ASSUME NEW i \in DOMAIN q.fields, NEW code, q.fields[i] = new
      PROVE  ~Flagged(s, Written(q), i, code)
  <2>1. Written(q)[i].type = type /\ Written(q)[i].payload = new.field.payload /\ new.field.type = type
    BY <1>1, <1>3, WrittenTyped DEF Novel
  <2>2. ~Repeats(Written(q), i)
    BY <1>3, <2>1, EditedRepeats
  <2>3. SpecOf(s, type) = SpecOf(1, type) /\ SpecOf(1, type) # None
    <3>1. type \in DOMAIN RecordSchema
      BY <2>1 DEF Sound, RecordSchema
    <3> QED BY <3>1, RecordSpecs, RecordSpecsAre
  <2> QED BY <2>1, <2>2, <2>3 DEF Flagged, Sound
<1> QED BY <1>2, <1>3

\* The class of a field does not depend on the record.
LEMMA ClassOfRecord ==
    ASSUME NEW r \in Nat \ {0}, NEW s \in Nat \ {0}, NEW a, NEW b,
           a.type = b.type, a.payload = b.payload
    PROVE  Class(r, a) = Class(s, b)
<1>1. SpecOf(r, a.type) = SpecOf(s, b.type)
  BY RecordSpecs
<1> QED BY <1>1 DEF Class

\* p's fields carry the classes the reader would give them
Judged(p) == \A j \in DOMAIN p.fields : p.fields[j].field.class = Class(1, p.fields[j].field)

\* An edit keeps every field in its class.
LEMMA EditedJudged ==
    ASSUME NEW p, NEW q, NEW type, NEW new, Edited(p, q, type, new),
           NEW version, Sound(new, version), Judged(p)
    PROVE  Judged(q)
BY DEF Edited, Judged, Sound

\* That is, the fields are those the reader would classify.
LEMMA JudgedClassified ==
    ASSUME NEW p \in PlannedRecords, NEW r \in Nat \ {0}
    PROVE  Judged(p) <=> Forked(p) = Classified(r, Written(p))
<1> DEFINE f == Forked(p)
           w == Written(p)
           c == Classified(r, w)
<1>1. /\ f \in Seq(Fields) /\ w \in Seq(Frames) /\ Len(f) = Len(p.fields) /\ Len(w) = Len(p.fields)
      /\ DOMAIN f = DOMAIN p.fields /\ DOMAIN w = DOMAIN p.fields
      /\ DOMAIN p.fields = 1 .. Len(p.fields)
      /\ \A i \in DOMAIN p.fields : /\ f[i] = p.fields[i].field
                                    /\ w[i].type = p.fields[i].field.type
                                    /\ w[i].payload = p.fields[i].field.payload
  BY WrittenTyped
<1>2. c \in Seq(Fields) /\ Len(c) = Len(w)
  BY <1>1, ClassifiedTyped
<1>3. \A i \in DOMAIN p.fields : /\ c[i].type = w[i].type /\ c[i].payload = w[i].payload
                                 /\ c[i].class = Class(r, w[i])
  BY <1>1 DEF Classified
<1>4. \A i \in DOMAIN p.fields : Class(r, w[i]) = Class(1, p.fields[i].field)
  BY <1>1, ClassOfRecord
<1> HIDE DEF c
<1>5. ASSUME Judged(p) PROVE f = c
  <2>1. ASSUME NEW i \in 1 .. Len(f) PROVE f[i] = c[i]
    <3>1. i \in DOMAIN p.fields /\ i \in DOMAIN f /\ i \in DOMAIN c
      BY <1>1, <1>2, SeqDomain
    <3>2. f[i] \in Fields /\ c[i] \in Fields
      BY <1>1, <1>2, <3>1, SeqDomain
    <3>3. f[i].type = c[i].type /\ f[i].payload = c[i].payload /\ f[i].class = c[i].class
      BY <1>1, <1>3, <1>4, <1>5, <3>1 DEF Judged
    <3> HIDE DEF f
    <3> QED BY <3>2, <3>3 DEF Fields
  <2> HIDE DEF f
  <2> QED BY <2>1, <1>1, <1>2, SeqEqual
<1>6. ASSUME f = c PROVE Judged(p)
  BY <1>1, <1>3, <1>4, <1>6 DEF Judged
<1> QED BY <1>5, <1>6 DEF c

\* An edit keeps a record legal.
LEMMA EditedConforms ==
    ASSUME NEW p, Original(p), NEW q, NEW type, NEW new, Novel(new, type), Edited(p, q, type, new),
           NEW version \in Nat, Sound(new, version),
           type \in {"title", "password"} => Positions(q, type) # {},
           NEW r \in Nat \ {0}, NEW s \in Nat \ {0}, RecordConforms(r, Written(p), version)
    PROVE  RecordConforms(s, Written(q), version)
<1> DEFINE P == DOMAIN p.fields
           Q == DOMAIN q.fields
           w == Written(p)
           u == Written(q)
<1>1. /\ p \in PlannedRecords /\ q \in PlannedRecords
      /\ \A i \in Q : q.fields[i] = new \/ \E j \in P : q.fields[i] = p.fields[j]
      /\ \A j \in P : p.fields[j].field.type # type => \E i \in Q : q.fields[i] = p.fields[j]
      /\ AtMostOne(q, type) /\ q.fields # <<>> /\ q.fields[Len(q.fields)].field.type = "end"
      /\ \A i, k \in Q, j, l \in P :
           i < k /\ q.fields[i] = p.fields[j] /\ q.fields[k] = p.fields[l] => j < l
  BY DEF Original, Edited
<1>2. /\ w \in Seq(Frames) /\ DOMAIN w = P
      /\ \A j \in P : w[j].type = p.fields[j].field.type /\ w[j].payload = p.fields[j].field.payload
  BY <1>1, WrittenTyped
<1>3. /\ u \in Seq(Frames) /\ DOMAIN u = Q /\ Len(u) = Len(q.fields) /\ Q = 1 .. Len(q.fields)
      /\ Len(q.fields) \in Nat
      /\ \A i \in Q : u[i].type = q.fields[i].field.type /\ u[i].payload = q.fields[i].field.payload
  BY <1>1, WrittenTyped
<1>4. new.field.type = type /\ type \in {"title", "password", "username", "email", "protected"}
  BY DEF Novel, Sound
<1>5. u # <<>> /\ Last(u).type = "end"
  <2>1. Len(q.fields) # 0
    <3>1. q.fields \in Seq(PlannedFields)
      BY <1>1 DEF PlannedRecords
    <3> QED BY <3>1, <1>1, EmptySeq
  <2>2. Len(u) \in Q
    BY <1>3, <2>1
  <2> QED BY <1>1, <1>3, <2>1, <2>2, EmptySeq DEF Last
<1>6. ASSUME NEW i \in Q PROVE ~Refused(s, u, i, version)
  <2>1. CASE q.fields[i] = new
    <3>1. ~Repeats(u, i)
      BY <1>4, <2>1, EditedRepeats
    <3>2. u[i].type = type /\ u[i].payload = new.field.payload /\ SpecOf(s, type) = SpecOf(1, type)
      BY <1>3, <1>4, <2>1, RecordSpecs
    <3>3. SpecOf(1, type).since = RecordSchema[type].since /\ RecordSchema[type].since \in {1, 2}
      BY <1>4, RecordSpecsAre DEF RecordSchema, FieldSpec
    <3>4. ~Malformed(SpecOf(1, type), new.field.payload) /\ SpecOf(1, type).since <= version
      BY <1>4 DEF Sound
    <3> QED BY <3>1, <3>2, <3>3, <3>4 DEF Refused
  <2>2. CASE q.fields[i] # new
    <3>1. PICK j \in P : q.fields[i] = p.fields[j]
      BY <1>1, <2>2
    <3>2. Repeats(u, i) <=> Repeats(w, j)
      BY <3>1, EditedRepeats DEF Same
    <3>3. u[i].type = w[j].type /\ u[i].payload = w[j].payload /\ SpecOf(s, u[i].type) = SpecOf(r, w[j].type)
      <4>1. u[i].type = w[j].type /\ u[i].payload = w[j].payload
        BY <1>2, <1>3, <3>1
      <4> QED BY <4>1, RecordSpecs
    <3>4. ~Refused(r, w, j, version)
      BY <1>2 DEF RecordConforms, SectionConforms
    <3> QED BY <3>2, <3>3, <3>4 DEF Refused
  <2> QED BY <2>1, <2>2
<1>7. \A t : t # type => (t \in TypesOf(u) <=> t \in TypesOf(w))
  <2>1. ASSUME NEW i \in Q, u[i].type # type PROVE \E j \in P : w[j].type = u[i].type
    <3>1. q.fields[i] # new
      BY <1>3, <1>4, <2>1
    <3> QED BY <1>1, <1>2, <1>3, <3>1
  <2>2. ASSUME NEW j \in P, w[j].type # type PROVE \E i \in Q : u[i].type = w[j].type
    <3>1. PICK i \in Q : q.fields[i] = p.fields[j]
      BY <1>1, <1>2, <2>2
    <3> QED BY <1>2, <1>3, <3>1
  <2> QED BY SMTT(30), <1>2, <1>3, <2>1, <2>2 DEF TypesOf
<1>8. ASSUME NEW group \in Groups, TypesOf(u) \cap group.any # {}
      PROVE  group.all \subseteq TypesOf(u)
  <2>1. group.all \subseteq group.any /\ group.any \subseteq {"media", "filename", "passkey", "origin"}
    BY DEF Groups
  <2>2. \A t \in group.any : t # type
    BY <1>4, <2>1
  <2>3. group.all \subseteq TypesOf(w)
    BY <1>7, <1>8, <2>2 DEF RecordConforms
  <2> QED BY <1>7, <2>1, <2>2, <2>3
<1>9. ASSUME NEW t \in {"uuid", "title", "password"} PROVE Count(u, t) = 1
  <2> DEFINE A == {j \in DOMAIN w : w[j].type = t}
             B == {i \in DOMAIN u : u[i].type = t}
  <2>1. PICK a : A = {a}
    <3>1. Cardinality(A) = 1
      BY DEF RecordConforms, Count
    <3>2. A \in SUBSET (DOMAIN w)
      OBVIOUS
    <3> HIDE DEF A, w
    <3> QED BY <1>2, <3>1, <3>2, CountIs
  <2>2. B # {} /\ \A i, k \in B : i = k
    <3>1. CASE t = type
      <4>1. Positions(q, type) # {}
        BY <1>4, <3>1
      <4>2. B = Positions(q, type)
        BY <1>3, <3>1 DEF Positions
      <4>3. \A i, k \in Positions(q, type) : i = k
        BY <1>1 DEF AtMostOne, Positions
      <4> QED BY ONLY <4>1, <4>2, <4>3
    <3>2. CASE t # type
      <4>1. a \in P /\ p.fields[a].field.type = t
        BY <1>2, <2>1
      <4>2. PICK i \in Q : q.fields[i] = p.fields[a]
        BY <1>1, <3>2, <4>1
      <4>3. i \in B
        BY <1>3, <4>1, <4>2
      <4>4. ASSUME NEW k \in B PROVE q.fields[k] = p.fields[a]
        <5>1. k \in Q /\ q.fields[k].field.type = t
          BY <1>3
        <5>2. PICK l \in P : q.fields[k] = p.fields[l]
          BY <1>1, <1>4, <3>2, <5>1
        <5>3. l \in A
          BY <1>2, <5>1, <5>2
        <5> QED BY <2>1, <5>2, <5>3
      <4>5. ASSUME NEW k \in B, NEW l \in B, k < l PROVE FALSE
        <5>1. a < a
          BY <1>1, <1>3, <4>1, <4>4, <4>5
        <5>2. a \in Nat
          BY <1>1, <4>1, WrittenTyped
        <5> QED BY <5>1, <5>2
      <4>6. \A k, l \in B : k \in Nat /\ l \in Nat
        BY <1>3
      <4>7. \A k, l \in B : k < l \/ l < k \/ k = l
        BY <4>6
      <4> QED BY <4>3, <4>5, <4>7
    <3> QED BY <3>1, <3>2
  <2>3. \E k : B = {k}
    <3> HIDE DEF B
    <3>1. PICK k \in B : TRUE
      BY <2>2
    <3>2. B = {k}
      BY <2>2, <3>1
    <3> QED BY <3>2
  <2>4. Cardinality(B) = 1
    <3>1. B \in SUBSET (DOMAIN u)
      OBVIOUS
    <3> HIDE DEF B, u
    <3> QED BY <1>3, <2>3, <3>1, CountIs
  <2> QED BY <2>4 DEF Count
<1> QED BY <1>3, <1>5, <1>6, <1>8, <1>9 DEF RecordConforms, SectionConforms

\* Frames with the same type and payload are the same.
LEMMA FrameEqual ==
    ASSUME NEW a \in Frames, NEW b \in Frames, a.type = b.type, a.payload = b.payload
    PROVE  a = b
BY DEF Frames

\* An edit leaves the fields of other types, in their order.
LEMMA EditedExcept ==
    ASSUME NEW p, Original(p), NEW q, NEW type, NEW new, Novel(new, type), Edited(p, q, type, new)
    PROVE  Except(Written(q), type) = Except(Written(p), type)
<1> DEFINE P == DOMAIN p.fields
           Q == DOMAIN q.fields
           w == Written(p)
           u == Written(q)
           K == {i \in DOMAIN w : w[i].type # type}
           L == {i \in DOMAIN u : u[i].type # type}
           kw == Kept(w, K)
           ku == Kept(u, L)
           Home(i) == CHOOSE j \in P : q.fields[i] = p.fields[j]
<1>1. /\ p \in PlannedRecords /\ q \in PlannedRecords
      /\ \A i, j \in P : p.fields[i] = p.fields[j] => i = j
      /\ \A i \in Q : q.fields[i] = new \/ \E j \in P : q.fields[i] = p.fields[j]
      /\ \A j \in P : p.fields[j].field.type # type => \E i \in Q : q.fields[i] = p.fields[j]
      /\ \A i, k \in Q, j, l \in P :
           i < k /\ q.fields[i] = p.fields[j] /\ q.fields[k] = p.fields[l] => j < l
      /\ new.field.type = type
  BY DEF Original, Edited, Novel
<1>2. /\ w \in Seq(Frames) /\ DOMAIN w = P /\ P = 1 .. Len(p.fields) /\ Len(p.fields) \in Nat
      /\ \A j \in P : w[j].type = p.fields[j].field.type /\ w[j].payload = p.fields[j].field.payload
  BY <1>1, WrittenTyped
<1>3. /\ u \in Seq(Frames) /\ DOMAIN u = Q /\ Q = 1 .. Len(q.fields) /\ Len(q.fields) \in Nat
      /\ \A i \in Q : u[i].type = q.fields[i].field.type /\ u[i].payload = q.fields[i].field.payload
  BY <1>1, WrittenTyped
<1>4. Except(u, type) = ku /\ Except(w, type) = kw
  BY DEF Except
<1> HIDE DEF w, u
<1>5. kw \in Seq(Frames) /\ ku \in Seq(Frames)
  BY <1>2, <1>3, KeptLists
<1>6. PICK f \in Seq(Nat) : Lists(f, kw, w, K)
  BY <1>2, KeptLists
<1>7. PICK g \in Seq(Nat) : Lists(g, ku, u, L)
  BY <1>3, KeptLists
<1>8. /\ K \cap DOMAIN w = K /\ L \cap DOMAIN u = L
      /\ \A i \in L : i \in Q /\ q.fields[i].field.type # type
      /\ \A j \in K : j \in P /\ p.fields[j].field.type # type
      /\ \A i \in Q : q.fields[i].field.type # type => i \in L
      /\ \A j \in P : p.fields[j].field.type # type => j \in K
  BY <1>2, <1>3
<1> HIDE DEF K, L, kw, ku
<1>9. /\ Ascending(Less, f) /\ ToSet(f) = K /\ Len(kw) = Len(f) /\ \A x \in DOMAIN f : kw[x] = w[f[x]]
      /\ Ascending(Less, g) /\ ToSet(g) = L /\ Len(ku) = Len(g) /\ \A x \in DOMAIN g : ku[x] = u[g[x]]
  BY <1>6, <1>7, <1>8 DEF Lists
<1>10. /\ DOMAIN f = 1 .. Len(f) /\ Len(f) \in Nat /\ DOMAIN g = 1 .. Len(g) /\ Len(g) \in Nat
  BY SeqDomain
<1>11. \A i \in L : Home(i) \in P /\ q.fields[i] = p.fields[Home(i)] /\ Home(i) \in K /\ Home(i) \in Nat
  <2>1. ASSUME NEW i \in L
        PROVE  Home(i) \in P /\ q.fields[i] = p.fields[Home(i)] /\ Home(i) \in K /\ Home(i) \in Nat
    <3>1. \E j \in P : q.fields[i] = p.fields[j]
      BY <1>1, <1>8
    <3>2. Home(i) \in P /\ q.fields[i] = p.fields[Home(i)]
      BY <3>1
    <3> HIDE DEF Home
    <3> QED BY <3>2, <1>2, <1>8
  <2> QED BY <2>1
<1> HIDE DEF Home
<1> DEFINE h == [x \in 1 .. Len(g) |-> Home(g[x])]
<1>12. \A x \in DOMAIN g : g[x] \in L
  BY <1>9 DEF ToSet
<1>13. h \in Seq(Nat) /\ Len(h) = Len(g) /\ DOMAIN h = DOMAIN g
  <2>1. h \in [1 .. Len(g) -> Nat]
    BY <1>10, <1>11, <1>12
  <2> QED BY <2>1, <1>10, FunctionIsSeq
<1>14. \A x \in DOMAIN g : h[x] = Home(g[x])
  BY <1>10
<1> HIDE DEF h
<1>15. Ascending(Less, h)
  <2>1. ASSUME NEW x \in DOMAIN h, NEW y \in DOMAIN h, x < y PROVE <<h[x], h[y]>> \in Less
    <3>1. <<g[x], g[y]>> \in Less
      BY <1>9, <1>13, <2>1 DEF Ascending
    <3>2. g[x] < g[y] /\ g[x] \in L /\ g[y] \in L
      BY <3>1, <1>12, <1>13 DEF Less
    <3>3. Home(g[x]) < Home(g[y])
      <4>1. /\ g[x] \in Q /\ Home(g[x]) \in P /\ q.fields[g[x]] = p.fields[Home(g[x])]
            /\ g[y] \in Q /\ Home(g[y]) \in P /\ q.fields[g[y]] = p.fields[Home(g[y])]
        BY <3>2, <1>8, <1>11
      <4> QED BY <4>1, <3>2, <1>1
    <3> QED BY <3>2, <3>3, <1>11, <1>13, <1>14 DEF Less
  <2> QED BY <2>1 DEF Ascending
<1>16. ToSet(h) = K
  <2>1. \A x \in DOMAIN h : h[x] \in K
    BY <1>11, <1>12, <1>13, <1>14
  <2>2. ASSUME NEW j \in K PROVE \E x \in DOMAIN h : h[x] = j
    <3>1. PICK i \in Q : q.fields[i] = p.fields[j]
      BY <1>1, <1>8
    <3>2. i \in L
      BY <1>8, <3>1
    <3>3. PICK x \in DOMAIN g : g[x] = i
      BY <1>9, <3>2 DEF ToSet
    <3>4. Home(i) = j
      BY <1>1, <1>8, <1>11, <3>1, <3>2
    <3> QED BY <3>3, <3>4, <1>13, <1>14
  <2> QED BY <2>1, <2>2 DEF ToSet
<1>17. h = f
  <2>1. \A a, b \in Nat : ~(<<a, b>> \in Less /\ <<b, a>> \in Less)
    BY DEF Less
  <2> QED BY <2>1, <1>9, <1>13, <1>15, <1>16, AscendingUnique
<1>18. ASSUME NEW x \in 1 .. Len(ku) PROVE ku[x] = kw[x]
  <2>1. x \in DOMAIN g /\ x \in DOMAIN f /\ ku[x] = u[g[x]] /\ kw[x] = w[f[x]]
    BY <1>9, <1>10, <1>13, <1>17
  <2>2. g[x] \in L /\ f[x] = Home(g[x])
    BY <2>1, <1>12, <1>14, <1>17
  <2>3. g[x] \in Q /\ f[x] \in P /\ q.fields[g[x]] = p.fields[f[x]]
    BY <2>2, <1>8, <1>11
  <2>4. u[g[x]].type = w[f[x]].type /\ u[g[x]].payload = w[f[x]].payload
    <3>1. u[g[x]].type = q.fields[g[x]].field.type /\ u[g[x]].payload = q.fields[g[x]].field.payload
      BY <2>3, <1>3
    <3>2. w[f[x]].type = p.fields[f[x]].field.type /\ w[f[x]].payload = p.fields[f[x]].field.payload
      BY <2>3, <1>2
    <3> QED BY <2>3, <3>1, <3>2
  <2>5. u[g[x]] \in Frames /\ w[f[x]] \in Frames
    BY <2>3, <1>2, <1>3, SeqDomain
  <2>6. u[g[x]] = w[f[x]]
    BY <2>4, <2>5, FrameEqual
  <2> QED BY <2>1, <2>6
<1>19. Len(ku) = Len(kw)
  BY <1>9, <1>13, <1>17
<1> QED BY <1>4, <1>5, <1>18, <1>19, SeqEqual DEF w, u

-----------------------------------------------------------------------------
(* The warnings of a document *)

Earlier == {p \in Alerts \X Alerts :
              \/ p[1].section < p[2].section
              \/ /\ p[1].section = p[2].section
                 /\ \/ p[1].field < p[2].field
                    \/ p[1].field = p[2].field /\ p[1].code = "duplicate" /\ p[2].code = "malformed"}

\* Of two alerts at most one comes before the other.
LEMMA EarlierAsymmetric == \A a, b \in Alerts : ~(<<a, b>> \in Earlier /\ <<b, a>> \in Earlier)
BY DEF Earlier, Alerts

SectionAlerts(section, fields) ==
    {w \in Alerts : /\ w.section = section /\ w.field \in DOMAIN fields
                    /\ Flagged(section, fields, w.field, w.code)}

\* The warnings of a field, as a set and in order.
LEMMA FieldAlerts ==
    ASSUME NEW section \in Nat, NEW fields \in Seq(Frames), NEW i \in DOMAIN fields
    PROVE  /\ ToSet(FieldWarnings(section, fields, i)) = {w \in SectionAlerts(section, fields) : w.field = i}
           /\ Ascending(Earlier, FieldWarnings(section, fields, i))
<1>1. DOMAIN fields = 1 .. Len(fields) /\ Len(fields) \in Nat /\ i \in Nat
  BY SeqDomain
<1> DEFINE C == {"unknown", "duplicate", "malformed"}
           F == {c \in C : Flagged(section, fields, i, c)}
<1>2. ToSet(FieldWarnings(section, fields, i)) = {Warning(code, section, i) : code \in F}
  BY <1>1, FieldWarningsAre
<1>3. ASSUME NEW code \in F
      PROVE  Warning(code, section, i) \in {w \in SectionAlerts(section, fields) : w.field = i}
  <2>1. Warning(code, section, i) \in Alerts
    BY <1>1 DEF Warning, Alerts
  <2>2. /\ Warning(code, section, i).section = section /\ Warning(code, section, i).field = i
        /\ Warning(code, section, i).code = code
    BY DEF Warning
  <2> QED BY <2>1, <2>2 DEF SectionAlerts
<1>4. ASSUME NEW w \in SectionAlerts(section, fields), w.field = i
      PROVE  w.code \in F /\ w = Warning(w.code, section, i)
  <2>1. w \in Alerts /\ w.section = section /\ Flagged(section, fields, i, w.code)
    BY <1>4 DEF SectionAlerts
  <2>2. w.code \in F
    BY <2>1 DEF Alerts
  <2> QED BY <2>1, <2>2, <1>4 DEF Warning, Alerts
<1>5. ToSet(FieldWarnings(section, fields, i)) = {w \in SectionAlerts(section, fields) : w.field = i}
  <2> DEFINE A == {Warning(code, section, i) : code \in F}
             B == {w \in SectionAlerts(section, fields) : w.field = i}
  <2>1. \A x \in A : x \in B
    BY <1>3
  <2>2. \A x \in B : x \in A
    BY <1>4
  <2> HIDE DEF A, B, F
  <2>3. A = B
    BY <2>1, <2>2
  <2> QED BY <1>2, <2>3 DEF A, B
<1>6. Ascending(Earlier, FieldWarnings(section, fields, i))
  <2> DEFINE spec == SpecOf(section, fields[i].type)
             D == Warning("duplicate", section, i)
             M == Warning("malformed", section, i)
             U == Warning("unknown", section, i)
             b == IF spec.single /\ Repeats(fields, i) THEN <<D>> ELSE <<>>
             c == IF Malformed(spec, fields[i].payload) THEN <<M>> ELSE <<>>
  <2>1. FieldWarnings(section, fields, i) = IF spec = None THEN <<U>> ELSE b \o c
    BY DEF FieldWarnings
  <2>2. Ascending(Earlier, <<>>) /\ \A x : Ascending(Earlier, <<x>>)
    BY DEF Ascending
  <2>3. D \in Alerts /\ M \in Alerts
    BY <1>1 DEF Warning, Alerts
  <2>4. <<D, M>> \in Earlier
    <3>1. D.section = M.section /\ D.field = M.field /\ D.code = "duplicate" /\ M.code = "malformed"
      BY DEF Warning
    <3> HIDE DEF D, M
    <3> QED BY <2>3, <3>1 DEF Earlier
  <2>5. \/ b = <<>> \/ b = <<D>>
    OBVIOUS
  <2>6. \/ c = <<>> \/ c = <<M>>
    OBVIOUS
  <2> HIDE DEF b, c, D, M, U
  <2>7. <<>> \in Seq(Alerts) /\ <<D>> \in Seq(Alerts) /\ <<M>> \in Seq(Alerts)
    BY <2>3, EmptySeq
  <2>8. /\ \A x \in ToSet(b) : x = D
        /\ \A x \in ToSet(c) : x = M
    BY <2>5, <2>6 DEF ToSet
  <2>9. Ascending(Earlier, b \o c)
    <3>1. b \in Seq(Alerts) /\ c \in Seq(Alerts) /\ Ascending(Earlier, b) /\ Ascending(Earlier, c)
      BY <2>2, <2>5, <2>6, <2>7
    <3>2. \A x \in ToSet(b), y \in ToSet(c) : <<x, y>> \in Earlier
      BY <2>4, <2>8
    <3> QED BY <3>1, <3>2, AscendingConcat
  <2> QED BY <2>1, <2>2, <2>9
<1> QED BY <1>5, <1>6

\* The warnings of a section, as a set and in order.
LEMMA SectionWarningsAre ==
    ASSUME NEW section \in Nat, NEW fields \in Seq(Frames)
    PROVE  /\ ToSet(SectionWarnings(section, fields)) = SectionAlerts(section, fields)
           /\ Ascending(Earlier, SectionWarnings(section, fields))
<1> DEFINE ss == [i \in DOMAIN fields |-> FieldWarnings(section, fields, i)]
           A == SectionAlerts(section, fields)
<1>1. DOMAIN fields = 1 .. Len(fields) /\ Len(fields) \in Nat
  BY SeqDomain
<1>2. \A i \in DOMAIN fields : FieldWarnings(section, fields, i) \in Seq(Alerts)
  BY <1>1, FieldWarningsTyped
<1>3. ss \in Seq(Seq(Alerts)) /\ DOMAIN ss = DOMAIN fields
  <2>1. ss \in [1 .. Len(fields) -> Seq(Alerts)]
    BY <1>1, <1>2
  <2> QED BY <2>1, <1>1, FunctionIsSeq
<1>4. \A i \in DOMAIN fields : /\ ToSet(ss[i]) = {w \in A : w.field = i}
                               /\ Ascending(Earlier, ss[i])
  BY FieldAlerts
<1>5. SectionWarnings(section, fields) = FlattenSeq(ss)
  BY DEF SectionWarnings
<1> HIDE DEF ss, A
<1>6. ToSet(FlattenSeq(ss)) = A
  <2>1. ToSet(FlattenSeq(ss)) = UNION {ToSet(ss[i]) : i \in DOMAIN ss}
    BY <1>3, FlattenElements
  <2>2. \A x \in ToSet(FlattenSeq(ss)) : x \in A
    BY <2>1, <1>3, <1>4
  <2>3. ASSUME NEW x \in A PROVE x \in ToSet(FlattenSeq(ss))
    <3>1. x.field \in DOMAIN fields
      BY DEF A, SectionAlerts
    <3>2. x \in ToSet(ss[x.field])
      BY <3>1, <1>4
    <3> QED BY <2>1, <3>1, <3>2, <1>3
  <2> QED BY <2>2, <2>3
<1>7. Ascending(Earlier, FlattenSeq(ss))
  <2>1. ASSUME NEW i \in DOMAIN ss, NEW j \in DOMAIN ss, i < j,
               NEW a \in ToSet(ss[i]), NEW b \in ToSet(ss[j])
        PROVE  <<a, b>> \in Earlier
    <3>1. a \in A /\ b \in A /\ a.field = i /\ b.field = j
      BY <1>3, <1>4, <2>1
    <3> QED BY <3>1, <2>1 DEF A, SectionAlerts, Earlier
  <2>2. \A i \in DOMAIN ss : Ascending(Earlier, ss[i])
    BY <1>3, <1>4
  <2> QED BY <1>3, <2>1, <2>2, FlattenAscending
<1> QED BY <1>5, <1>6, <1>7 DEF A

Warned(header, records, w) ==
    \/ w \in SectionAlerts(0, header)
    \/ w.section \in DOMAIN records /\ w \in SectionAlerts(w.section, records[w.section])

\* The warnings of a document, as a set and in order.
LEMMA WarningsAre ==
    ASSUME NEW header \in Seq(Frames), NEW records \in Seq(Seq(Frames))
    PROVE  /\ \A w : w \in ToSet(Warnings(header, records)) <=> Warned(header, records, w)
           /\ Ascending(Earlier, Warnings(header, records))
           /\ Warnings(header, records) \in Seq(Alerts)
<1> DEFINE ss == [r \in DOMAIN records |-> SectionWarnings(r, records[r])]
           h == SectionWarnings(0, header)
<1>1. DOMAIN records = 1 .. Len(records) /\ Len(records) \in Nat
      /\ \A r \in DOMAIN records : records[r] \in Seq(Frames)
  BY SeqDomain
<1>2. \A r \in DOMAIN records : SectionWarnings(r, records[r]) \in Seq(Alerts)
  BY <1>1, SectionWarningsTyped
<1>3. ss \in Seq(Seq(Alerts)) /\ DOMAIN ss = DOMAIN records
  <2>1. ss \in [1 .. Len(records) -> Seq(Alerts)]
    BY <1>1, <1>2
  <2> QED BY <2>1, <1>1, FunctionIsSeq
<1>4. \A r \in DOMAIN records : /\ ToSet(ss[r]) = SectionAlerts(r, records[r])
                                /\ Ascending(Earlier, ss[r])
  BY <1>1, SectionWarningsAre
<1>5. Warnings(header, records) = h \o FlattenSeq(ss)
  BY DEF Warnings
<1>6. h \in Seq(Alerts) /\ ToSet(h) = SectionAlerts(0, header) /\ Ascending(Earlier, h)
  BY SectionWarningsTyped, SectionWarningsAre
<1> HIDE DEF ss, h
<1>7. FlattenSeq(ss) \in Seq(Alerts) /\ ToSet(FlattenSeq(ss)) = UNION {ToSet(ss[r]) : r \in DOMAIN ss}
  BY <1>3, FlattenType, FlattenElements
<1>8. \A w \in ToSet(FlattenSeq(ss)) : w.section \in DOMAIN records /\ w \in SectionAlerts(w.section, records[w.section])
  BY <1>3, <1>4, <1>7 DEF SectionAlerts
<1>9. ASSUME NEW w, w.section \in DOMAIN records, w \in SectionAlerts(w.section, records[w.section])
      PROVE  w \in ToSet(FlattenSeq(ss))
  <2>1. w \in ToSet(ss[w.section])
    BY <1>4, <1>9
  <2> QED BY <2>1, <1>3, <1>7, <1>9
<1>10. ToSet(Warnings(header, records)) = ToSet(h) \cup ToSet(FlattenSeq(ss))
  BY <1>5, <1>6, <1>7, ToSetConcat
<1>11. \A w : w \in ToSet(Warnings(header, records)) <=> Warned(header, records, w)
  BY <1>6, <1>8, <1>9, <1>10 DEF Warned
<1>12. Ascending(Earlier, FlattenSeq(ss))
  <2>1. ASSUME NEW i \in DOMAIN ss, NEW j \in DOMAIN ss, i < j,
               NEW a \in ToSet(ss[i]), NEW b \in ToSet(ss[j])
        PROVE  <<a, b>> \in Earlier
    <3>1. a \in Alerts /\ b \in Alerts /\ a.section = i /\ b.section = j
      BY <1>3, <1>4, <2>1 DEF SectionAlerts
    <3> QED BY <3>1, <2>1 DEF Earlier
  <2>2. \A r \in DOMAIN ss : Ascending(Earlier, ss[r])
    BY <1>3, <1>4
  <2> QED BY <1>3, <2>1, <2>2, FlattenAscending
<1>13. ASSUME NEW a \in ToSet(h), NEW b \in ToSet(FlattenSeq(ss)) PROVE <<a, b>> \in Earlier
  <2>1. a \in Alerts /\ a.section = 0
    BY <1>6 DEF SectionAlerts
  <2>2. b \in Alerts /\ b.section \in DOMAIN records
    BY <1>8 DEF SectionAlerts
  <2>3. 0 < b.section
    BY <1>1, <2>2
  <2> QED BY <2>1, <2>2, <2>3 DEF Earlier
<1>14. Ascending(Earlier, h \o FlattenSeq(ss))
  BY <1>6, <1>7, <1>12, <1>13, AscendingConcat
<1> QED BY <1>5, <1>6, <1>7, <1>11, <1>14, ConcatProperties

-----------------------------------------------------------------------------
(* Forks *)

\* field i of record r of a plan was at an old place
At(plan, r, i, old) ==
    r \in DOMAIN plan /\ i \in DOMAIN plan[r].fields /\ plan[r].fields[i].from = old

\* A location is a place of the plan.
LEMMA LocationIs ==
    ASSUME NEW plan, NEW old
    PROVE  /\ \A r, i : <<r, i>> \in Location(plan, old) <=> At(plan, r, i, old)
           /\ \A new \in Location(plan, old) : new = <<new[1], new[2]>>
<1> DEFINE A == UNION {{<<r, i>> : i \in DOMAIN plan[r].fields} : r \in DOMAIN plan}
<1>1. \A new \in A : new = <<new[1], new[2]>> /\ new[1] \in DOMAIN plan /\ new[2] \in DOMAIN plan[new[1]].fields
  OBVIOUS
<1>2. \A r \in DOMAIN plan : \A i \in DOMAIN plan[r].fields : <<r, i>> \in A
  OBVIOUS
<1>3. Location(plan, old) = {new \in A : plan[new[1]].fields[new[2]].from = old}
  BY DEF Location
<1> HIDE DEF A
<1>4. ASSUME NEW r, NEW i, <<r, i>> \in Location(plan, old) PROVE At(plan, r, i, old)
  <2> DEFINE new == <<r, i>>
  <2>1. new \in A /\ plan[new[1]].fields[new[2]].from = old /\ new[1] = r /\ new[2] = i
    BY <1>3, <1>4
  <2>2. new[1] \in DOMAIN plan /\ new[2] \in DOMAIN plan[new[1]].fields
    BY <1>1, <2>1
  <2> HIDE DEF new
  <2> QED BY <2>1, <2>2 DEF At
<1>5. ASSUME NEW r, NEW i, At(plan, r, i, old) PROVE <<r, i>> \in Location(plan, old)
  <2> DEFINE new == <<r, i>>
  <2>1. new \in A /\ new[1] = r /\ new[2] = i
    BY <1>2, <1>5 DEF At
  <2> HIDE DEF new
  <2>2. new \in Location(plan, old)
    BY <1>3, <1>5, <2>1 DEF At
  <2> QED BY <2>2 DEF new
<1>6. \A new \in Location(plan, old) : new = <<new[1], new[2]>>
  BY <1>1, <1>3
<1> QED BY <1>4, <1>5, <1>6

\* e is what a plan makes of the warning w
Heir(plan, w, e) ==
    \/ w.section = 0 /\ e = w
    \/ /\ w.section # 0
       /\ e \in Alerts /\ e.code = w.code /\ At(plan, e.section, e.field, <<w.section, w.field>>)

\* no two fields of a plan were at the same place
NoDouble(plan) ==
    \A old \in Nat \X Nat : \A r, i, s, k : At(plan, r, i, old) /\ At(plan, s, k, old) => r = s /\ i = k

\* Alerts with the same fields are the same.
LEMMA AlertEqual ==
    ASSUME NEW a \in Alerts, NEW b \in Alerts,
           a.code = b.code, a.section = b.section, a.field = b.field
    PROVE  a = b
BY DEF Alerts

\* The remapped warnings are the heirs of the old ones, in any order that heirs inherit.
LEMMA RemappedIs ==
    ASSUME NEW plan \in Seq(PlannedRecords), NoDouble(plan), NEW W \in Seq(Alerts)
    PROVE  /\ Remapped(W, plan) \in Seq(Alerts)
           /\ \A e : e \in ToSet(Remapped(W, plan)) <=> \E w \in ToSet(W) : Heir(plan, w, e)
           /\ \A R, Q : /\ Ascending(R, W)
                        /\ \A w, v \in Alerts : \A e, f :
                             <<w, v>> \in R /\ Heir(plan, w, e) /\ Heir(plan, v, f) => <<e, f>> \in Q
                        => Ascending(Q, Remapped(W, plan))
<1> DEFINE place(w) == Location(plan, <<w.section, w.field>>)
           moved(w) == IF w.section = 0 THEN <<w>>
                       ELSE IF place(w) = {} THEN <<>>
                       ELSE LET new == CHOOSE p \in place(w) : TRUE
                            IN  <<Warning(w.code, new[1], new[2])>>
           ss == [k \in DOMAIN W |-> moved(W[k])]
<1>1. Remapped(W, plan) = FlattenSeq(ss)
  BY DEF Remapped
<1>2. DOMAIN W = 1 .. Len(W) /\ Len(W) \in Nat /\ \A k \in DOMAIN W : W[k] \in Alerts
  BY SeqDomain
<1>3. DOMAIN plan = 1 .. Len(plan) /\ \A r \in DOMAIN plan : DOMAIN plan[r].fields = 1 .. Len(plan[r].fields)
  BY SeqDomain, WrittenTyped
<1>4. ASSUME NEW w \in Alerts
      PROVE  /\ moved(w) \in Seq(Alerts) /\ \A R : Ascending(R, moved(w))
             /\ \A e : e \in ToSet(moved(w)) <=> Heir(plan, w, e)
  <2>1. /\ ToSet(<<>>) = {} /\ \A x : ToSet(<<x>>) = {x}
        /\ \A R : Ascending(R, <<>>) /\ \A x : Ascending(R, <<x>>)
    BY DEF ToSet, Ascending
  <2>2. CASE w.section = 0
    <3>1. moved(w) = <<w>>
      BY <2>2
    <3> HIDE DEF moved
    <3> QED BY SMTT(30), <2>1, <2>2, <3>1 DEF Heir
  <2>3. CASE w.section # 0 /\ place(w) = {}
    <3>1. moved(w) = <<>>
      BY <2>3
    <3>2. \A r, i : ~At(plan, r, i, <<w.section, w.field>>)
      BY <2>3, LocationIs
    <3> HIDE DEF moved
    <3>3. <<>> \in Seq(Alerts)
      BY EmptySeq
    <3> QED BY <2>1, <2>3, <3>1, <3>2, <3>3 DEF Heir
  <2>4. CASE w.section # 0 /\ place(w) # {}
    <3> DEFINE new == CHOOSE p \in place(w) : TRUE
               d == Warning(w.code, new[1], new[2])
    <3>1. moved(w) = <<d>> /\ new \in place(w)
      BY <2>4
    <3> HIDE DEF moved, new
    <3>2. new = <<new[1], new[2]>>
      BY <3>1, LocationIs
    <3>3. At(plan, new[1], new[2], <<w.section, w.field>>)
      BY <3>1, <3>2, LocationIs
    <3>4. new[1] \in Nat /\ new[2] \in Nat
      BY <3>3, <1>3 DEF At
    <3>5. d \in Alerts /\ d.code = w.code /\ d.section = new[1] /\ d.field = new[2]
      BY <3>4 DEF Warning, Alerts
    <3> HIDE DEF d
    <3>6. Heir(plan, w, d)
      BY <2>4, <3>3, <3>5 DEF Heir
    <3>7. ASSUME NEW e, Heir(plan, w, e) PROVE e = d
      <4>1. e \in Alerts /\ e.code = w.code /\ At(plan, e.section, e.field, <<w.section, w.field>>)
        BY <2>4, <3>7 DEF Heir
      <4>2. <<w.section, w.field>> \in Nat \X Nat
        BY DEF Alerts
      <4>3. e.section = new[1] /\ e.field = new[2]
        BY <3>3, <4>1, <4>2 DEF NoDouble
      <4> QED BY <3>5, <4>1, <4>3, AlertEqual
    <3>8. <<d>> \in Seq(Alerts)
      BY <3>5
    <3> QED BY <2>1, <3>1, <3>6, <3>7, <3>8
  <2> QED BY <2>2, <2>3, <2>4
<1> HIDE DEF moved
<1>5. ss \in Seq(Seq(Alerts)) /\ DOMAIN ss = DOMAIN W
  <2>1. ss \in [1 .. Len(W) -> Seq(Alerts)]
    BY <1>2, <1>4
  <2> QED BY <2>1, <1>2, FunctionIsSeq
<1>6. \A k \in DOMAIN W : ss[k] = moved(W[k])
  OBVIOUS
<1> HIDE DEF ss
<1>7. FlattenSeq(ss) \in Seq(Alerts) /\ ToSet(FlattenSeq(ss)) = UNION {ToSet(ss[k]) : k \in DOMAIN ss}
  BY <1>5, FlattenType, FlattenElements
<1>8. ASSUME NEW e, e \in ToSet(FlattenSeq(ss)) PROVE \E w \in ToSet(W) : Heir(plan, w, e)
  <2>1. PICK k \in DOMAIN W : e \in ToSet(ss[k])
    BY <1>5, <1>7, <1>8
  <2>2. Heir(plan, W[k], e)
    BY <1>2, <1>4, <1>6, <2>1
  <2> QED BY <2>2 DEF ToSet
<1>9. ASSUME NEW e, NEW w \in ToSet(W), Heir(plan, w, e) PROVE e \in ToSet(FlattenSeq(ss))
  <2>1. PICK k \in DOMAIN W : w = W[k]
    BY DEF ToSet
  <2>2. e \in ToSet(ss[k])
    BY <1>2, <1>4, <1>6, <1>9, <2>1
  <2> QED BY <1>5, <1>7, <2>1, <2>2
<1>10. ASSUME NEW R, NEW Q, Ascending(R, W),
              \A w, v \in Alerts : \A e, f :
                <<w, v>> \in R /\ Heir(plan, w, e) /\ Heir(plan, v, f) => <<e, f>> \in Q
       PROVE  Ascending(Q, FlattenSeq(ss))
  <2>1. ASSUME NEW i \in DOMAIN ss, NEW j \in DOMAIN ss, i < j, NEW a \in ToSet(ss[i]), NEW b \in ToSet(ss[j])
        PROVE  <<a, b>> \in Q
    <3>1. Heir(plan, W[i], a) /\ Heir(plan, W[j], b) /\ W[i] \in Alerts /\ W[j] \in Alerts
      BY <1>2, <1>4, <1>5, <1>6, <2>1
    <3>2. <<W[i], W[j]>> \in R
      BY <1>5, <1>10, <2>1 DEF Ascending
    <3> QED BY <1>10, <3>1, <3>2
  <2>2. \A i \in DOMAIN ss : Ascending(Q, ss[i])
    BY <1>2, <1>4, <1>5, <1>6
  <2> QED BY <1>5, <2>1, <2>2, FlattenAscending
<1> QED BY <1>1, <1>7, <1>8, <1>9, <1>10

\* a planned record judged as the reader would judge it, new fields without a warning
Good(q, version) ==
    /\ q \in PlannedRecords /\ q.handle # 0 /\ Judged(q)
    /\ RecordConforms(1, Written(q), version)
    /\ \A i \in DOMAIN q.fields : \A code : q.fields[i].from = None => ~Flagged(1, Written(q), i, code)

\* its other fields are p's, in their order and with their warnings
Follows(p, q) ==
    /\ \A i \in DOMAIN q.fields : q.fields[i].from # None => \E j \in DOMAIN p.fields : Same(p, q, i, j)
    /\ \A i, k \in DOMAIN q.fields, j, l \in DOMAIN p.fields :
         i < k /\ Same(p, q, i, j) /\ Same(p, q, k, l) => j < l
    /\ \A i \in DOMAIN q.fields, j \in DOMAIN p.fields : \A code :
         Same(p, q, i, j) => (Flagged(1, Written(q), i, code) <=> Flagged(1, Written(p), j, code))

\* record r of the plan is made from record origin[r] of the document, or from none
MadeFrom(doc, plan, origin) ==
    /\ plan \in Seq(PlannedRecords)
    /\ origin \in [DOMAIN plan -> 0 .. Len(doc.records)]
    /\ \A r \in DOMAIN plan :
         /\ Good(plan[r], doc.version)
         /\ origin[r] # 0 => Follows(Planned(doc, origin[r]), plan[r])
         /\ origin[r] = 0 => \A i \in DOMAIN plan[r].fields : plan[r].fields[i].from = None
    /\ \A r, s \in DOMAIN plan : origin[r] = origin[s] /\ origin[r] # 0 => r = s
    /\ \A r, s \in DOMAIN plan : plan[r].handle = plan[s].handle => r = s

\* A record is planned as it is.
LEMMA PlannedIs ==
    ASSUME NEW doc \in Documents, NEW r \in DOMAIN doc.records
    PROVE  /\ Planned(doc, r) \in PlannedRecords
           /\ DOMAIN Planned(doc, r).fields = DOMAIN doc.records[r].fields
           /\ Planned(doc, r).handle = doc.records[r].handle
           /\ \A i \in DOMAIN doc.records[r].fields :
                /\ Planned(doc, r).fields[i].field = doc.records[r].fields[i]
                /\ Planned(doc, r).fields[i].from = <<r, i>>
           /\ Forked(Planned(doc, r)) = doc.records[r].fields
           /\ Written(Planned(doc, r)) = BareRecords(doc)[r]
           /\ doc.records[r].fields \in Seq(Fields) /\ r \in Nat \ {0}
<1> DEFINE p == Planned(doc, r)
           f == doc.records[r].fields
<1>1. doc.records \in Seq(Records)
  BY DEF Documents
<1>2. doc.records[r] \in Records /\ r \in Nat \ {0}
  BY <1>1, SeqDomain
<1>3. f \in Seq(Fields) /\ doc.records[r].handle \in Nat
  BY <1>2 DEF Records
<1>4. DOMAIN f = 1 .. Len(f) /\ Len(f) \in Nat /\ \A i \in DOMAIN f : f[i] \in Fields
  BY <1>3, SeqDomain
<1> DEFINE g == [i \in DOMAIN f |-> [field |-> f[i], from |-> <<r, i>>]]
<1>5. p = [handle |-> doc.records[r].handle, fields |-> g]
  BY DEF Planned
<1>6. g \in Seq(PlannedFields)
  <2>1. \A i \in DOMAIN f : <<r, i>> \in Nat \X Nat
    BY <1>2, <1>4
  <2>2. g \in [1 .. Len(f) -> PlannedFields]
    BY <1>4, <2>1 DEF PlannedFields
  <2> QED BY <2>2, <1>4, FunctionIsSeq
<1>7. DOMAIN g = DOMAIN f /\ \A i \in DOMAIN f : g[i].field = f[i] /\ g[i].from = <<r, i>>
  OBVIOUS
<1>8. p.fields = g /\ p.handle = doc.records[r].handle
  BY <1>5
<1>9. p \in PlannedRecords
  BY <1>3, <1>5, <1>6 DEF PlannedRecords
<1>10. Forked(p) = f
  <2>1. Forked(p) \in Seq(Fields) /\ Len(Forked(p)) = Len(p.fields) /\ DOMAIN Forked(p) = DOMAIN p.fields
        /\ \A i \in DOMAIN p.fields : Forked(p)[i] = p.fields[i].field
    BY <1>9, WrittenTyped
  <2>2. \A i \in DOMAIN f : Forked(p)[i] = f[i]
    <3> HIDE DEF p, f, g
    <3> QED BY <2>1, <1>7, <1>8
  <2>3. Len(Forked(p)) = Len(f)
    BY <2>1, <1>3, <1>7, <1>8, SeqDomain
  <2> HIDE DEF p, f
  <2> QED BY <1>3, <1>4, <2>1, <2>2, <2>3, SeqEqual
<1>11. Written(p) = BareRecords(doc)[r]
  BY <1>10 DEF Written, BareRecords
<1> QED BY <1>2, <1>3, <1>7, <1>8, <1>9, <1>10, <1>11

\* A fork, field by field.
LEMMA ForkIs ==
    ASSUME NEW doc \in Documents, NEW plan \in Seq(PlannedRecords), NoDouble(plan)
    PROVE  /\ Fork(doc, plan) \in Documents
           /\ Fork(doc, plan).version = doc.version /\ Fork(doc, plan).header = doc.header
           /\ DOMAIN Fork(doc, plan).records = DOMAIN plan
           /\ \A r \in DOMAIN plan : /\ Fork(doc, plan).records[r].handle = plan[r].handle
                                     /\ Fork(doc, plan).records[r].fields = Forked(plan[r])
                                     /\ BareRecords(Fork(doc, plan))[r] = Written(plan[r])
           /\ Fork(doc, plan).warnings = Remapped(doc.warnings, plan)
           /\ Remapped(doc.warnings, plan) \in Seq(Alerts)
<1> DEFINE rr == [r \in DOMAIN plan |-> [handle |-> plan[r].handle, fields |-> Forked(plan[r])]]
           ww == Remapped(doc.warnings, plan)
           new == Fork(doc, plan)
<1>1. new = [doc EXCEPT !.records = rr, !.warnings = ww]
  BY DEF Fork, Forked
<1>2. DOMAIN plan = 1 .. Len(plan) /\ Len(plan) \in Nat /\ \A r \in DOMAIN plan : plan[r] \in PlannedRecords
  BY SeqDomain
<1>3. \A r \in DOMAIN plan : Forked(plan[r]) \in Seq(Fields) /\ plan[r].handle \in Nat
  BY <1>2, WrittenTyped DEF PlannedRecords
<1>4. rr \in Seq(Records)
  <2>1. rr \in [1 .. Len(plan) -> Records]
    BY <1>2, <1>3 DEF Records
  <2> QED BY <2>1, <1>2, FunctionIsSeq
<1>5. ww \in Seq(Alerts)
  BY RemappedIs DEF Documents
<1>6. DOMAIN rr = DOMAIN plan
      /\ \A r \in DOMAIN plan : rr[r].handle = plan[r].handle /\ rr[r].fields = Forked(plan[r])
  OBVIOUS
<1> HIDE DEF rr, ww
<1>7. /\ new \in Documents /\ new.version = doc.version /\ new.header = doc.header
      /\ new.records = rr /\ new.warnings = ww
  BY <1>1, <1>4, <1>5 DEF Documents
<1>8. \A r \in DOMAIN plan : BareRecords(new)[r] = Written(plan[r])
  BY <1>6, <1>7 DEF BareRecords, Written
<1> QED BY <1>5, <1>6, <1>7, <1>8 DEF ww

\* Which record it is makes no difference to the rules.
LEMMA RecordsAlike ==
    ASSUME NEW r \in Nat \ {0}, NEW s \in Nat \ {0}, NEW fields, NEW version
    PROVE  /\ RecordConforms(r, fields, version) <=> RecordConforms(s, fields, version)
           /\ \A i, code : Flagged(r, fields, i, code) <=> Flagged(s, fields, i, code)
<1>1. \A i : SpecOf(r, fields[i].type) = SpecOf(s, fields[i].type)
  BY RecordSpecs
<1>2. \A i : Refused(r, fields, i, version) <=> Refused(s, fields, i, version)
  BY <1>1 DEF Refused
<1>3. \A i, code : Flagged(r, fields, i, code) <=> Flagged(s, fields, i, code)
  BY <1>1 DEF Flagged
<1> QED BY <1>2, <1>3 DEF RecordConforms, SectionConforms

\* A field that was at an old place is in the record made from that place.
LEMMA AtIs ==
    ASSUME NEW doc \in Documents, NEW plan, NEW origin, MadeFrom(doc, plan, origin),
           NEW r, NEW i, NEW old \in Nat \X Nat, At(plan, r, i, old)
    PROVE  /\ r \in DOMAIN plan /\ i \in DOMAIN plan[r].fields
           /\ origin[r] = old[1] /\ old[1] \in DOMAIN doc.records
           /\ old[2] \in DOMAIN doc.records[old[1]].fields
           /\ Same(Planned(doc, old[1]), plan[r], i, old[2])
<1>1. r \in DOMAIN plan /\ i \in DOMAIN plan[r].fields /\ plan[r].fields[i].from = old
  BY DEF At
<1>2. old # None /\ old = <<old[1], old[2]>>
  BY VaultFormatAssumption
<1>3. origin[r] # 0 /\ origin[r] \in 0 .. Len(doc.records) /\ Follows(Planned(doc, origin[r]), plan[r])
  BY <1>1, <1>2 DEF MadeFrom
<1> DEFINE b == origin[r]
<1>4. b \in DOMAIN doc.records
  <2>1. doc.records \in Seq(Records)
    BY DEF Documents
  <2>2. DOMAIN doc.records = 1 .. Len(doc.records) /\ Len(doc.records) \in Nat
    BY <2>1, SeqDomain
  <2> QED BY <1>3, <2>2
<1>5. PICK l \in DOMAIN Planned(doc, b).fields : Same(Planned(doc, b), plan[r], i, l)
  BY <1>1, <1>2, <1>3 DEF Follows
<1>6. l \in DOMAIN doc.records[b].fields /\ Planned(doc, b).fields[l].from = <<b, l>>
  BY <1>4, <1>5, PlannedIs
<1>7. <<b, l>> = old
  BY <1>1, <1>5, <1>6 DEF Same
<1>8. b = old[1] /\ l = old[2]
  BY <1>7
<1> QED BY <1>1, <1>4, <1>5, <1>6, <1>8

\* A field that is as it was, was there.
LEMMA SamePlace ==
    ASSUME NEW doc \in Documents, NEW plan, NEW origin, MadeFrom(doc, plan, origin),
           NEW r \in DOMAIN plan, origin[r] # 0,
           NEW i \in DOMAIN plan[r].fields, NEW j \in DOMAIN doc.records[origin[r]].fields,
           Same(Planned(doc, origin[r]), plan[r], i, j)
    PROVE  /\ origin[r] \in DOMAIN doc.records /\ j \in Nat /\ origin[r] \in Nat \ {0}
           /\ At(plan, r, i, <<origin[r], j>>)
<1> DEFINE a == origin[r]
<1>1. doc.records \in Seq(Records)
  BY DEF Documents
<1>2. DOMAIN doc.records = 1 .. Len(doc.records) /\ Len(doc.records) \in Nat
  BY <1>1, SeqDomain
<1>3. a \in 0 .. Len(doc.records)
  BY DEF MadeFrom
<1>4. a \in DOMAIN doc.records /\ a \in Nat \ {0}
  BY <1>2, <1>3
<1>5. j \in DOMAIN doc.records[a].fields
  OBVIOUS
<1> HIDE DEF a
<1>6. doc.records[a].fields \in Seq(Fields)
  BY <1>4, PlannedIs
<1>7. j \in Nat
  BY <1>5, <1>6, SeqDomain
<1>8. Planned(doc, a).fields[j].from = <<a, j>>
  BY <1>4, <1>5, PlannedIs
<1>9. plan[r].fields[i].from = <<a, j>>
  BY <1>8 DEF Same, a
<1> QED BY <1>4, <1>7, <1>9 DEF At, a

\* No two fields of a plan come from one.
LEMMA MadeOnce ==
    ASSUME NEW doc \in Documents, NEW plan, NEW origin, MadeFrom(doc, plan, origin)
    PROVE  NoDouble(plan)
<1>1. ASSUME NEW old \in Nat \X Nat, NEW r, NEW i, NEW s, NEW k,
             At(plan, r, i, old), At(plan, s, k, old)
      PROVE  r = s /\ i = k
  <2> DEFINE a == old[1]
             j == old[2]
  <2>1. /\ r \in DOMAIN plan /\ i \in DOMAIN plan[r].fields /\ origin[r] = a
        /\ a \in DOMAIN doc.records /\ j \in DOMAIN doc.records[a].fields
        /\ Same(Planned(doc, a), plan[r], i, j)
    BY <1>1, AtIs
  <2>2. /\ s \in DOMAIN plan /\ k \in DOMAIN plan[s].fields /\ origin[s] = a
        /\ Same(Planned(doc, a), plan[s], k, j)
    BY <1>1, AtIs
  <2> HIDE DEF a, j
  <2>3. a # 0
    BY <2>1, PlannedIs
  <2>4. r = s
    BY <2>1, <2>2, <2>3 DEF MadeFrom
  <2>5. Follows(Planned(doc, a), plan[r]) /\ plan[r] \in PlannedRecords
    BY <2>1, <2>3 DEF MadeFrom, Good
  <2>6. j \in DOMAIN Planned(doc, a).fields
    BY <2>1, PlannedIs
  <2>7. i < k => j < j
    BY <2>1, <2>2, <2>4, <2>5, <2>6 DEF Follows
  <2>8. k < i => j < j
    BY <2>1, <2>2, <2>4, <2>5, <2>6 DEF Follows
  <2>9. i \in Nat /\ k \in Nat
    BY <2>1, <2>2, <2>4, <2>5, WrittenTyped
  <2>10. j \in Nat
    BY <2>1, PlannedIs, SeqDomain
  <2> QED BY <2>4, <2>7, <2>8, <2>9, <2>10
<1> QED BY <1>1 DEF NoDouble

\* The heir of a warning the reader would give is one it would give about the fork.
LEMMA MadeWarned ==
    ASSUME NEW doc \in Documents, NEW plan, NEW origin, MadeFrom(doc, plan, origin),
           NEW header, NEW bare, header = Bare(doc.header), bare = BareRecords(doc),
           NEW w \in Alerts, NEW e, Heir(plan, w, e), Warned(header, bare, w),
           NEW new, new = BareRecords(Fork(doc, plan))
    PROVE  Warned(header, new, e)
<1>1. NoDouble(plan) /\ plan \in Seq(PlannedRecords)
  BY MadeOnce DEF MadeFrom
<1>2. /\ bare \in Seq(Seq(Frames)) /\ DOMAIN bare = DOMAIN doc.records
      /\ DOMAIN bare = 1 .. Len(bare) /\ Len(bare) \in Nat
  BY BareRecordsTyped, SeqDomain
<1>3. CASE w.section = 0
  <2>1. e = w /\ w.section \notin DOMAIN bare
    BY <1>2, <1>3 DEF Heir
  <2> QED BY <2>1 DEF Warned
<1>4. CASE w.section # 0
  <2> DEFINE a == w.section
             j == w.field
             r == e.section
             i == e.field
             p == Planned(doc, a)
             q == plan[r]
  <2>1. e \in Alerts /\ e.code = w.code /\ At(plan, r, i, <<a, j>>) /\ a \in Nat /\ j \in Nat
    BY <1>4 DEF Heir, Alerts
  <2>2. /\ r \in DOMAIN plan /\ i \in DOMAIN q.fields /\ origin[r] = a
        /\ a \in DOMAIN doc.records /\ j \in DOMAIN doc.records[a].fields
        /\ Same(p, q, i, j)
    <3> DEFINE old == <<a, j>>
    <3>1. old \in Nat \X Nat /\ old[1] = a /\ old[2] = j /\ At(plan, r, i, old)
      BY <2>1
    <3> HIDE DEF old, a, j, r, i
    <3>2. /\ r \in DOMAIN plan /\ i \in DOMAIN plan[r].fields /\ origin[r] = old[1]
          /\ old[1] \in DOMAIN doc.records /\ old[2] \in DOMAIN doc.records[old[1]].fields
          /\ Same(Planned(doc, old[1]), plan[r], i, old[2])
      BY <3>1, AtIs
    <3> QED BY <3>1, <3>2
  <2>3. Follows(p, q) /\ q \in PlannedRecords
    BY <1>4, <2>2 DEF MadeFrom, Good
  <2>4. w \in SectionAlerts(a, bare[a])
    BY <1>4 DEF Warned, SectionAlerts
  <2>5. Flagged(a, bare[a], j, w.code) /\ bare[a] = Written(p) /\ a \in Nat \ {0} /\ j \in DOMAIN p.fields
    BY <2>2, <2>4, PlannedIs DEF SectionAlerts
  <2>6. r \in Nat \ {0}
    BY <1>1, <2>2, SeqDomain
  <2>7. Flagged(1, Written(p), j, w.code)
    BY <2>5, RecordsAlike
  <2>8. Flagged(1, Written(q), i, w.code)
    BY <2>2, <2>3, <2>5, <2>7 DEF Follows
  <2>9. Flagged(r, Written(q), i, w.code)
    BY <2>6, <2>8, RecordsAlike
  <2>10. DOMAIN Written(q) = DOMAIN q.fields
    BY <2>3, WrittenTyped
  <2>11. e \in SectionAlerts(r, Written(q))
    BY <2>1, <2>2, <2>9, <2>10 DEF SectionAlerts
  <2>12. new[r] = Written(q) /\ r \in DOMAIN new
    BY SMTT(30), <1>1, <2>2, ForkIs, BareRecordsTyped
  <2> QED BY <2>11, <2>12 DEF Warned
<1> QED BY <1>3, <1>4

\* And every warning it would give about the fork is such an heir.
LEMMA WarnedMade ==
    ASSUME NEW doc \in Documents, NEW plan, NEW origin, MadeFrom(doc, plan, origin),
           NEW header, NEW bare, header = Bare(doc.header), bare = BareRecords(doc),
           NEW new, new = BareRecords(Fork(doc, plan)), NEW e, Warned(header, new, e)
    PROVE  \E w \in Alerts : Heir(plan, w, e) /\ Warned(header, bare, w)
<1>1. NoDouble(plan) /\ plan \in Seq(PlannedRecords)
  BY MadeOnce DEF MadeFrom
<1>2. CASE e \in SectionAlerts(0, header)
  <2>1. e \in Alerts /\ e.section = 0
    BY <1>2 DEF SectionAlerts
  <2> QED BY <1>2, <2>1 DEF Heir, Warned
<1>3. CASE e \notin SectionAlerts(0, header)
  <2> DEFINE r == e.section
             i == e.field
             q == plan[r]
             a == origin[r]
             p == Planned(doc, a)
  <2>1. r \in DOMAIN new /\ e \in SectionAlerts(r, new[r])
    BY <1>3 DEF Warned
  <2>2. DOMAIN new = DOMAIN plan /\ new[r] = Written(q)
    BY <1>1, <2>1, ForkIs, BareRecordsTyped
  <2>3. q \in PlannedRecords /\ r \in Nat \ {0} /\ Good(q, doc.version)
    BY <1>1, <2>1, <2>2, SeqDomain DEF MadeFrom
  <2>4. DOMAIN Written(q) = DOMAIN q.fields
    BY <2>3, WrittenTyped
  <2>5. e \in Alerts /\ i \in DOMAIN q.fields /\ Flagged(r, Written(q), i, e.code)
    BY <2>1, <2>2, <2>4 DEF SectionAlerts
  <2>6. Flagged(1, Written(q), i, e.code)
    BY <2>3, <2>5, RecordsAlike
  <2>7. q.fields[i].from # None
    BY <2>3, <2>5, <2>6 DEF Good
  <2>8. a # 0 /\ a \in 0 .. Len(doc.records)
    BY <2>1, <2>2, <2>5, <2>7 DEF MadeFrom
  <2>9. Follows(p, q)
    BY <2>1, <2>2, <2>8 DEF MadeFrom
  <2>10. PICK j \in DOMAIN p.fields : Same(p, q, i, j)
    BY <2>5, <2>7, <2>9 DEF Follows
  <2>11. a \in DOMAIN doc.records
    <3>1. doc.records \in Seq(Records)
      BY DEF Documents
    <3>2. DOMAIN doc.records = 1 .. Len(doc.records) /\ Len(doc.records) \in Nat
      BY <3>1, SeqDomain
    <3> QED BY <2>8, <3>2
  <2>12. j \in DOMAIN doc.records[a].fields
    BY <2>10, <2>11, PlannedIs
  <2>13. At(plan, r, i, <<a, j>>) /\ j \in Nat /\ a \in Nat \ {0}
    BY <2>1, <2>2, <2>5, <2>8, <2>10, <2>12, SamePlace
  <2>14. Flagged(1, Written(p), j, e.code)
    BY <2>5, <2>6, <2>9, <2>10 DEF Follows
  <2>15. Flagged(a, bare[a], j, e.code) /\ j \in DOMAIN bare[a]
    <3>1. bare[a] = Written(p) /\ p \in PlannedRecords
      BY <2>11, PlannedIs
    <3>2. DOMAIN Written(p) = DOMAIN p.fields
      BY <3>1, WrittenTyped
    <3>3. Flagged(a, Written(p), j, e.code)
      BY <2>13, <2>14, RecordsAlike
    <3> QED BY <3>1, <3>2, <3>3, <2>10
  <2>16. a \in DOMAIN bare
    BY <2>11, BareRecordsTyped
  <2> DEFINE w == Warning(e.code, a, j)
  <2>17. w \in Alerts /\ w.code = e.code /\ w.section = a /\ w.field = j
    BY <2>5, <2>13 DEF Warning, Alerts
  <2> HIDE DEF w
  <2>18. w \in SectionAlerts(a, bare[a])
    BY <2>15, <2>17 DEF SectionAlerts
  <2>19. Warned(header, bare, w)
    BY <2>16, <2>17, <2>18 DEF Warned
  <2>20. Heir(plan, w, e)
    BY <2>5, <2>13, <2>17 DEF Heir
  <2> QED BY <2>17, <2>19, <2>20
<1> QED BY <1>2, <1>3

\* Where the heir of a warning is.
LEMMA HeirAt ==
    ASSUME NEW doc \in Documents, NEW plan, NEW origin, MadeFrom(doc, plan, origin),
           NEW w \in Alerts, w.section # 0, NEW e, Heir(plan, w, e)
    PROVE  /\ e \in Alerts /\ e.code = w.code /\ w.section \in Nat \ {0} /\ w.field \in Nat
           /\ e.section \in DOMAIN plan /\ e.section \in Nat \ {0}
           /\ e.field \in DOMAIN plan[e.section].fields /\ e.field \in Nat
           /\ origin[e.section] = w.section /\ w.section \in DOMAIN doc.records
           /\ w.field \in DOMAIN Planned(doc, w.section).fields
           /\ Same(Planned(doc, w.section), plan[e.section], e.field, w.field)
           /\ Follows(Planned(doc, w.section), plan[e.section])
<1> DEFINE a == w.section
           j == w.field
           r == e.section
           i == e.field
           old == <<a, j>>
<1>1. e \in Alerts /\ e.code = w.code /\ At(plan, r, i, old) /\ a \in Nat \ {0} /\ j \in Nat
  BY DEF Heir, Alerts
<1>2. old \in Nat \X Nat /\ old[1] = a /\ old[2] = j
  BY <1>1
<1> HIDE DEF old, a, j, r, i
<1>3. /\ r \in DOMAIN plan /\ i \in DOMAIN plan[r].fields /\ origin[r] = old[1]
      /\ old[1] \in DOMAIN doc.records /\ old[2] \in DOMAIN doc.records[old[1]].fields
      /\ Same(Planned(doc, old[1]), plan[r], i, old[2])
  BY <1>1, <1>2, AtIs
<1>4. plan \in Seq(PlannedRecords) /\ Follows(Planned(doc, a), plan[r])
  BY <1>1, <1>2, <1>3 DEF MadeFrom
<1>5. r \in Nat \ {0} /\ plan[r] \in PlannedRecords
  BY <1>3, <1>4, SeqDomain
<1>6. i \in Nat
  BY <1>3, <1>5, WrittenTyped
<1>7. j \in DOMAIN Planned(doc, a).fields
  BY <1>2, <1>3, PlannedIs
<1> QED BY <1>1, <1>2, <1>3, <1>4, <1>5, <1>6, <1>7 DEF a, j, r, i

\* records keep their order
Monotone(plan, origin) ==
    \A r, s \in DOMAIN plan : r < s /\ origin[r] # 0 /\ origin[s] # 0 => origin[r] < origin[s]

\* Heirs are in the order of the warnings as long as the records are.
LEMMA HeirsOrdered ==
    ASSUME NEW doc \in Documents, NEW plan, NEW origin, MadeFrom(doc, plan, origin),
           Monotone(plan, origin), NEW w \in Alerts, NEW v \in Alerts, NEW e, NEW f,
           Heir(plan, w, e), Heir(plan, v, f), <<w, v>> \in Earlier
    PROVE  <<e, f>> \in Earlier
<1>1. \/ w.section < v.section
      \/ /\ w.section = v.section
         /\ \/ w.field < v.field
            \/ w.field = v.field /\ w.code = "duplicate" /\ v.code = "malformed"
  BY DEF Earlier
<1>2. /\ w.section \in Nat /\ w.field \in Nat
      /\ v.section \in Nat /\ v.field \in Nat
  BY DEF Alerts
<1>3. CASE w.section = 0 /\ v.section = 0
  BY <1>3 DEF Heir
<1>4. CASE w.section = 0 /\ v.section # 0
  <2>1. e = w
    BY <1>4 DEF Heir
  <2>2. f \in Alerts /\ f.section \in Nat \ {0}
    BY <1>4, HeirAt
  <2> QED BY <1>4, <2>1, <2>2 DEF Earlier
<1>5. CASE w.section # 0 /\ v.section = 0
  BY <1>1, <1>2, <1>5
<1>6. CASE w.section # 0 /\ v.section # 0
  <2> DEFINE a == w.section
             b == v.section
             j == w.field
             l == v.field
             r == e.section
             s == f.section
             i == e.field
             k == f.field
  <2>1. /\ e \in Alerts /\ e.code = w.code /\ r \in DOMAIN plan /\ r \in Nat
        /\ i \in DOMAIN plan[r].fields /\ i \in Nat /\ origin[r] = a /\ a \in DOMAIN doc.records
        /\ j \in DOMAIN Planned(doc, a).fields /\ Same(Planned(doc, a), plan[r], i, j)
        /\ Follows(Planned(doc, a), plan[r])
    BY <1>6, HeirAt
  <2>2. /\ f \in Alerts /\ f.code = v.code /\ s \in DOMAIN plan /\ s \in Nat
        /\ k \in DOMAIN plan[s].fields /\ k \in Nat /\ origin[s] = b
        /\ l \in DOMAIN Planned(doc, b).fields /\ Same(Planned(doc, b), plan[s], k, l)
    BY <1>6, HeirAt
  <2>3. a \in Nat /\ b \in Nat /\ a # 0 /\ b # 0 /\ j \in Nat /\ l \in Nat
    BY <1>2, <1>6
  <2>4. \/ a < b
        \/ a = b /\ (j < l \/ (j = l /\ w.code = "duplicate" /\ v.code = "malformed"))
    BY <1>1
  <2> HIDE DEF a, b, j, l, i, k
  <2>5. CASE a < b
    <3>1. r # s
      BY <2>1, <2>2, <2>3, <2>5
    <3>2. ~(s < r)
      BY <2>1, <2>2, <2>3, <2>5 DEF Monotone
    <3>3. r < s
      BY <3>1, <3>2, <2>1, <2>2
    <3> QED BY <3>3, <2>1, <2>2 DEF Earlier
  <2>6. CASE a = b
    <3>1. r = s
      BY <2>1, <2>2, <2>3, <2>6 DEF MadeFrom
    <3> HIDE DEF r, s
    <3>2. j < l => i < k
      <4>1. i = k => j = l
        <5>1. i = k => Planned(doc, a).fields[j].from = Planned(doc, a).fields[l].from
          BY <2>1, <2>2, <2>6, <3>1 DEF Same
        <5>2. j \in DOMAIN doc.records[a].fields /\ l \in DOMAIN doc.records[a].fields
          BY <2>1, <2>2, <2>6, PlannedIs
        <5>3. Planned(doc, a).fields[j].from = <<a, j>> /\ Planned(doc, a).fields[l].from = <<a, l>>
          BY <2>1, <5>2, PlannedIs
        <5> QED BY <5>1, <5>3
      <4>2. k < i => l < j
        BY <2>1, <2>2, <2>6, <3>1 DEF Follows
      <4> QED BY <4>1, <4>2, <2>1, <2>2, <2>3
    <3>3. j = l => i = k
      <4>1. j = l => ~(i < k) /\ ~(k < i)
        <5>1. i < k => j < l
          BY <2>1, <2>2, <2>6, <3>1 DEF Follows
        <5>2. k < i => l < j
          BY <2>1, <2>2, <2>6, <3>1 DEF Follows
        <5> QED BY <5>1, <5>2, <2>3
      <4> QED BY <4>1, <2>1, <2>2
    <3>4. i < k \/ (i = k /\ e.code = "duplicate" /\ f.code = "malformed")
      BY <2>1, <2>2, <2>3, <2>4, <2>6, <3>2, <3>3
    <3> QED BY <2>1, <2>2, <3>1, <3>4 DEF Earlier, r, s, i, k
  <2> QED BY <2>4, <2>5, <2>6
<1> QED BY <1>3, <1>4, <1>5, <1>6

\* Two warnings have two heirs.
LEMMA HeirsApart ==
    ASSUME NEW doc \in Documents, NEW plan, NEW origin, MadeFrom(doc, plan, origin),
           NEW w \in Alerts, NEW v \in Alerts, NEW e, NEW f,
           Heir(plan, w, e), Heir(plan, v, f), e = f
    PROVE  w = v
<1>1. CASE w.section = 0 /\ v.section = 0
  BY <1>1 DEF Heir
<1>2. CASE w.section = 0 /\ v.section # 0
  BY <1>2, HeirAt DEF Heir
<1>3. CASE w.section # 0 /\ v.section = 0
  BY <1>3, HeirAt DEF Heir
<1>4. CASE w.section # 0 /\ v.section # 0
  <2> DEFINE r == e.section
             i == e.field
  <2>1. e.code = w.code /\ At(plan, r, i, <<w.section, w.field>>)
    BY <1>4 DEF Heir
  <2>2. e.code = v.code /\ At(plan, r, i, <<v.section, v.field>>)
    BY <1>4 DEF Heir
  <2>3. <<w.section, w.field>> = <<v.section, v.field>>
    BY <2>1, <2>2 DEF At
  <2>4. w.section = v.section /\ w.field = v.field
    BY <2>3
  <2> QED BY <2>1, <2>2, <2>4, AlertEqual
<1> QED BY <1>1, <1>2, <1>3, <1>4

\* A fork has the warnings the reader would give, in their order if nothing was moved.
LEMMA ForkWarnings ==
    ASSUME NEW doc \in Documents, Faithful(doc), NEW plan, NEW origin, MadeFrom(doc, plan, origin),
           NEW new, new = Fork(doc, plan)
    PROVE  /\ ToSet(new.warnings) = ToSet(Warnings(Bare(doc.header), BareRecords(new)))
           /\ \A i, j \in DOMAIN new.warnings : new.warnings[i] = new.warnings[j] => i = j
           /\ Monotone(plan, origin) /\ InOrder(doc)
              => new.warnings = Warnings(Bare(doc.header), BareRecords(new))
<1> DEFINE header == Bare(doc.header)
           bare == BareRecords(doc)
           nbare == BareRecords(new)
<1>1. NoDouble(plan) /\ plan \in Seq(PlannedRecords)
  BY MadeOnce DEF MadeFrom
<1>2. new \in Documents /\ new.warnings = Remapped(doc.warnings, plan) /\ new.warnings \in Seq(Alerts)
  BY <1>1, ForkIs
<1>3. header \in Seq(Frames) /\ bare \in Seq(Seq(Frames)) /\ nbare \in Seq(Seq(Frames))
  <2>1. doc.header \in Seq(Fields)
    BY DEF Documents
  <2> QED BY <1>2, <2>1, BareTyped, BareRecordsTyped
<1>4. /\ doc.warnings \in Seq(Alerts) /\ ToSet(doc.warnings) = ToSet(Warnings(header, bare))
      /\ \A i, j \in DOMAIN doc.warnings : doc.warnings[i] = doc.warnings[j] => i = j
  BY DEF Documents, Faithful
<1>5. /\ \A w : w \in ToSet(Warnings(header, bare)) <=> Warned(header, bare, w)
      /\ Ascending(Earlier, Warnings(header, bare))
  BY <1>3, WarningsAre
<1>6. /\ \A w : w \in ToSet(Warnings(header, nbare)) <=> Warned(header, nbare, w)
      /\ Ascending(Earlier, Warnings(header, nbare)) /\ Warnings(header, nbare) \in Seq(Alerts)
  BY <1>3, WarningsAre
<1>7. \A e : e \in ToSet(new.warnings) <=> \E w \in ToSet(doc.warnings) : Heir(plan, w, e)
  BY <1>1, <1>2, <1>4, RemappedIs
<1>8. \A w \in ToSet(doc.warnings) : w \in Alerts /\ Warned(header, bare, w)
  <2>1. \A w \in ToSet(doc.warnings) : w \in Alerts
    BY <1>4, SeqDomain DEF ToSet
  <2> QED BY <2>1, <1>4, <1>5
<1>9. new = Fork(doc, plan)
  OBVIOUS
<1> HIDE DEF header, bare, nbare
<1>10. ASSUME NEW e \in ToSet(new.warnings) PROVE e \in ToSet(Warnings(header, nbare))
  <2>1. PICK w \in ToSet(doc.warnings) : Heir(plan, w, e)
    BY <1>7
  <2>2. Warned(header, nbare, e)
    BY <1>8, <1>9, <2>1, MadeWarned DEF header, bare, nbare
  <2> QED BY <2>2, <1>6
<1>11. ASSUME NEW e \in ToSet(Warnings(header, nbare)) PROVE e \in ToSet(new.warnings)
  <2>1. Warned(header, nbare, e)
    BY <1>6
  <2>2. \E w \in Alerts : Heir(plan, w, e) /\ Warned(header, bare, w)
    BY <1>9, <2>1, WarnedMade DEF header, bare, nbare
  <2> QED BY <2>2, <1>4, <1>5, <1>7
<1>12. ToSet(new.warnings) = ToSet(Warnings(header, nbare))
  BY <1>10, <1>11
<1>13. \A i, j \in DOMAIN new.warnings : new.warnings[i] = new.warnings[j] => i = j
  <2> DEFINE R == {p \in Alerts \X Alerts : p[1] # p[2]}
  <2>1. Ascending(R, doc.warnings)
    <3>1. ASSUME NEW i \in DOMAIN doc.warnings, NEW j \in DOMAIN doc.warnings, i < j
          PROVE  <<doc.warnings[i], doc.warnings[j]>> \in R
      <4>1. doc.warnings[i] # doc.warnings[j]
        <5>1. i \in Nat /\ j \in Nat
          BY <1>4, SeqDomain
        <5> QED BY <1>4, <3>1, <5>1
      <4>2. doc.warnings[i] \in Alerts /\ doc.warnings[j] \in Alerts
        BY <1>4, SeqDomain
      <4> QED BY <4>1, <4>2
    <3> HIDE DEF R
    <3> QED BY <3>1 DEF Ascending
  <2>2. ASSUME NEW w \in Alerts, NEW v \in Alerts, NEW e, NEW f,
               <<w, v>> \in R, Heir(plan, w, e), Heir(plan, v, f)
        PROVE  <<e, f>> \in R
    <3>1. w # v
      BY <2>2
    <3>2. e # f
      BY <2>2, <3>1, HeirsApart
    <3>3. e \in Alerts /\ f \in Alerts
      BY <2>2 DEF Heir
    <3> QED BY <3>2, <3>3
  <2>3. ~\E i, j \in DOMAIN new.warnings : <<new.warnings[i], new.warnings[j]>> \in R
                                           /\ new.warnings[i] = new.warnings[j]
    OBVIOUS
  <2> HIDE DEF R
  <2>4. Ascending(R, new.warnings)
    BY <1>1, <1>2, <1>4, <2>1, <2>2, RemappedIs
  <2>5. \A i, j \in DOMAIN new.warnings : new.warnings[i] = new.warnings[j] => ~(i < j)
    BY <2>3, <2>4 DEF Ascending
  <2>6. DOMAIN new.warnings = 1 .. Len(new.warnings) /\ Len(new.warnings) \in Nat
    BY <1>2, SeqDomain
  <2> QED BY <2>5, <2>6
<1>14. ASSUME Monotone(plan, origin), InOrder(doc) PROVE new.warnings = Warnings(header, nbare)
  <2>1. Ascending(Earlier, doc.warnings)
    BY <1>5, <1>14 DEF InOrder, header, bare
  <2>2. \A w, v \in Alerts : \A e, f :
          <<w, v>> \in Earlier /\ Heir(plan, w, e) /\ Heir(plan, v, f) => <<e, f>> \in Earlier
    BY <1>14, HeirsOrdered
  <2>3. Ascending(Earlier, new.warnings)
    BY <1>1, <1>2, <1>4, <2>1, <2>2, RemappedIs
  <2> QED BY <1>2, <1>6, <1>12, <2>3, EarlierAsymmetric, AscendingUnique
<1> QED BY <1>12, <1>13, <1>14 DEF header, nbare

\* A fork of a faithful document is a faithful document.
LEMMA ForkFaithful ==
    ASSUME NEW doc \in Documents, Faithful(doc), NEW plan, NEW origin, MadeFrom(doc, plan, origin)
    PROVE  /\ Fork(doc, plan) \in Documents /\ Faithful(Fork(doc, plan))
           /\ Monotone(plan, origin) /\ InOrder(doc) => InOrder(Fork(doc, plan))
<1> DEFINE new == Fork(doc, plan)
           header == Bare(doc.header)
           nbare == BareRecords(new)
<1>1. NoDouble(plan) /\ plan \in Seq(PlannedRecords)
  BY MadeOnce DEF MadeFrom
<1>2. /\ new \in Documents /\ new.version = doc.version /\ new.header = doc.header
      /\ DOMAIN new.records = DOMAIN plan
      /\ \A r \in DOMAIN plan : /\ new.records[r].handle = plan[r].handle
                                /\ new.records[r].fields = Forked(plan[r])
                                /\ nbare[r] = Written(plan[r])
  BY <1>1, ForkIs
<1>3. DOMAIN nbare = DOMAIN plan
  BY <1>2, BareRecordsTyped
<1>4. /\ doc.header = Classified(0, header) /\ Conforms(header, BareRecords(doc))
      /\ doc.version = Level[header[1].payload]
  BY DEF Faithful
<1>5. /\ ToSet(new.warnings) = ToSet(Warnings(header, nbare))
      /\ \A i, j \in DOMAIN new.warnings : new.warnings[i] = new.warnings[j] => i = j
      /\ Monotone(plan, origin) /\ InOrder(doc) => new.warnings = Warnings(header, nbare)
  BY ForkWarnings
<1>6. \A r \in DOMAIN plan : Good(plan[r], doc.version) /\ r \in Nat \ {0}
  BY <1>1, SeqDomain DEF MadeFrom
<1> HIDE DEF new, header, nbare
<1>7. ASSUME NEW r \in DOMAIN plan
      PROVE  /\ new.records[r].fields = Classified(r, nbare[r])
             /\ RecordConforms(r, nbare[r], doc.version)
             /\ new.records[r].handle # 0
  <2>1. plan[r] \in PlannedRecords /\ Judged(plan[r]) /\ RecordConforms(1, Written(plan[r]), doc.version)
        /\ plan[r].handle # 0
    BY <1>6 DEF Good
  <2>2. Forked(plan[r]) = Classified(r, Written(plan[r]))
    BY <1>6, <2>1, JudgedClassified
  <2>3. RecordConforms(r, Written(plan[r]), doc.version)
    BY <1>6, <2>1, RecordsAlike
  <2> QED BY <1>2, <2>1, <2>2, <2>3
<1>8. Conforms(header, nbare)
  BY <1>3, <1>4, <1>7 DEF Conforms
<1>9. \A r, s \in DOMAIN new.records : new.records[r].handle = new.records[s].handle => r = s
  BY <1>2 DEF MadeFrom
<1>10. Bare(new.header) = header /\ nbare = BareRecords(new)
  BY <1>2 DEF header, nbare
<1>11. Faithful(new)
  BY <1>2, <1>3, <1>4, <1>5, <1>7, <1>8, <1>9, <1>10 DEF Faithful
<1>12. Monotone(plan, origin) /\ InOrder(doc) => InOrder(new)
  BY <1>5, <1>10 DEF InOrder
<1> QED BY <1>2, <1>11, <1>12 DEF new

-----------------------------------------------------------------------------
(* The edits of a session *)

\* A legal section ends with its only end.
LEMMA SectionEnded ==
    ASSUME NEW section, NEW fields \in Seq(Frames), NEW version, SectionConforms(section, fields, version)
    PROVE  Ended(fields)
<1> DEFINE n == Len(fields)
           end == FieldSpec("empty", 1, TRUE, "terminator", FALSE)
<1>1. /\ DOMAIN fields = 1 .. n /\ n \in Nat /\ n # 0
      /\ \A i \in DOMAIN fields : fields[i] \in Frames
      /\ fields[n].type = "end" /\ \A i \in DOMAIN fields : ~Refused(section, fields, i, version)
  <2>1. fields # <<>> /\ Last(fields) = fields[n]
    BY DEF SectionConforms, Last
  <2> QED BY <2>1, SeqDomain, EmptySeq DEF SectionConforms
<1>2. end # None /\ end.single /\ Mandatory(end) /\ end.kind = "empty" /\ end.role = "terminator"
  <2>1. SpecOf(0, "end") = end /\ SpecOf(0, "end") # None
    BY VaultSchemaAssumption, SpecOfEnd DEF SpecOf, HeaderSchema
  <2> QED BY <2>1 DEF FieldSpec, Mandatory
<1>3. \A i \in DOMAIN fields : fields[i].type = "end" =>
        SpecOf(section, fields[i].type) = end
  BY SpecOfEnd
<1> HIDE DEF end
<1>4. n \in DOMAIN fields
  BY <1>1
<1>5. ~Repeats(fields, n) /\ ~Malformed(end, fields[n].payload)
  BY <1>1, <1>2, <1>3, <1>4 DEF Refused
<1>6. fields[n].payload = "empty"
  BY <1>2, <1>5 DEF Malformed
<1>7. \A i \in 1 .. n - 1 : fields[i].type # "end"
  BY <1>1, <1>5 DEF Repeats
<1>8. fields[n] = [type |-> "end", payload |-> "empty"]
  BY <1>1, <1>4, <1>6 DEF Frames
<1> QED BY <1>1, <1>7, <1>8 DEF Ended

\* A planned record of a faithful document is as the reader would judge it.
LEMMA PlannedOriginal ==
    ASSUME NEW doc \in Documents, Faithful(doc), NEW r \in DOMAIN doc.records
    PROVE  /\ Original(Planned(doc, r)) /\ Good(Planned(doc, r), doc.version)
           /\ Follows(Planned(doc, r), Planned(doc, r))
<1> DEFINE p == Planned(doc, r)
           fields == doc.records[r].fields
<1>1. /\ p \in PlannedRecords /\ DOMAIN p.fields = DOMAIN fields /\ p.handle = doc.records[r].handle
      /\ \A i \in DOMAIN fields : p.fields[i].field = fields[i] /\ p.fields[i].from = <<r, i>>
      /\ Forked(p) = fields /\ Written(p) = BareRecords(doc)[r] /\ r \in Nat \ {0}
  BY PlannedIs
<1>2. DOMAIN BareRecords(doc) = DOMAIN doc.records
  BY BareRecordsTyped
<1>3. fields = Classified(r, Written(p)) /\ RecordConforms(r, Written(p), doc.version) /\ p.handle # 0
  BY <1>1, <1>2 DEF Faithful, Conforms
<1> HIDE DEF p, fields
<1>4. /\ Written(p) \in Seq(Frames) /\ Len(Written(p)) = Len(p.fields)
      /\ DOMAIN p.fields = 1 .. Len(p.fields) /\ Len(p.fields) \in Nat
      /\ \A i \in DOMAIN p.fields : Written(p)[i].type = p.fields[i].field.type
  BY <1>1, WrittenTyped
<1>5. \A i \in DOMAIN p.fields : p.fields[i].from # None
  <2>1. \A i \in DOMAIN p.fields : <<r, i>> \in Nat \X Nat
    BY <1>1, <1>4
  <2>2. None \notin Nat \X Nat
    BY VaultFormatAssumption
  <2>3. DOMAIN p.fields = DOMAIN fields /\ \A i \in DOMAIN fields : p.fields[i].from = <<r, i>>
    BY <1>1
  <2>4. \A i \in DOMAIN p.fields : p.fields[i].from \in Nat \X Nat
    BY <2>1, <2>3, Zenon
  <2> QED BY <2>2, <2>4
<1>6. \A i, j \in DOMAIN p.fields : Same(p, p, i, j) => i = j
  <2>1. ASSUME NEW i \in DOMAIN p.fields, NEW j \in DOMAIN p.fields, p.fields[i] = p.fields[j]
        PROVE  i = j
    <3>1. <<r, i>> = <<r, j>>
      BY <1>1, <2>1
    <3> QED BY <3>1
  <2> QED BY <2>1 DEF Same
<1>7. Ended(Written(p))
  BY <1>3, <1>4, SectionEnded DEF RecordConforms
<1>8. p.fields # <<>> /\ \A i \in DOMAIN p.fields : p.fields[i].field.type = "end" <=> i = Len(p.fields)
  <2>1. Len(p.fields) > 0
    BY <1>4, <1>7 DEF Ended
  <2>2. p.fields # <<>>
    BY <2>1
  <2> QED BY <1>4, <1>7, <2>1, <2>2 DEF Ended
<1>9. Original(p)
  BY <1>1, <1>5, <1>6, <1>8 DEF Original, Same
<1>10. Judged(p)
  BY <1>1, <1>3, JudgedClassified
<1>11. RecordConforms(1, Written(p), doc.version)
  BY <1>1, <1>3, RecordsAlike
<1>12. Good(p, doc.version)
  BY <1>1, <1>3, <1>5, <1>10, <1>11 DEF Good
<1>13. Follows(p, p)
  <2>1. \A i \in DOMAIN p.fields : Same(p, p, i, i)
    BY DEF Same
  <2> QED BY <1>6, <2>1 DEF Follows
<1> QED BY <1>9, <1>12, <1>13 DEF p

\* A record after an edit of one type, and its fields of the other types.
LEMMA EditedGood ==
    ASSUME NEW p, Original(p), NEW version \in Nat, Good(p, version),
           NEW q, NEW type, NEW new, Novel(new, type), Edited(p, q, type, new), Sound(new, version),
           type \in {"title", "password"} => Positions(q, type) # {}
    PROVE  Good(q, version) /\ Follows(p, q)
<1>1. /\ p \in PlannedRecords /\ p.handle # 0 /\ Judged(p) /\ RecordConforms(1, Written(p), version)
      /\ \A i \in DOMAIN p.fields : p.fields[i].from # None
  BY DEF Good, Original
<1>2. /\ \A i \in DOMAIN q.fields, j \in DOMAIN p.fields : \A code :
           Same(p, q, i, j) => (Flagged(1, Written(q), i, code) <=> Flagged(1, Written(p), j, code))
      /\ \A i \in DOMAIN q.fields : \A code : q.fields[i] = new => ~Flagged(1, Written(q), i, code)
  BY EditedFlags
<1>3. Judged(q) /\ RecordConforms(1, Written(q), version)
  BY <1>1, EditedJudged, EditedConforms
<1>4. /\ q \in PlannedRecords /\ q.handle = p.handle
      /\ \A i \in DOMAIN q.fields : q.fields[i] = new \/ \E j \in DOMAIN p.fields : q.fields[i] = p.fields[j]
      /\ \A i, k \in DOMAIN q.fields, j, l \in DOMAIN p.fields :
           i < k /\ q.fields[i] = p.fields[j] /\ q.fields[k] = p.fields[l] => j < l
  BY DEF Edited
<1>5. new.from = None
  BY DEF Novel
<1>6. \A i \in DOMAIN q.fields : q.fields[i].from = None => q.fields[i] = new
  BY <1>1, <1>4
<1>7. \A i \in DOMAIN q.fields : q.fields[i].from # None => \E j \in DOMAIN p.fields : Same(p, q, i, j)
  BY <1>4, <1>5 DEF Same
<1> QED BY <1>1, <1>2, <1>3, <1>4, <1>6, <1>7 DEF Good, Follows, Same

Editable(type, payload) ==
    \/ /\ type \in DOMAIN RecordSchema
       /\ RecordSchema[type].editable /\ RecordSchema[type].kind = "text" /\ payload \in {"sound", "other", "empty"}
       /\ Mandatory(RecordSchema[type]) => payload # "empty"
    \/ type = "protected" /\ payload = "sound"

\* What the tables let a client set may be put in.
LEMMA EditableTypes ==
    ASSUME NEW type, NEW payload, Editable(type, payload)
    PROVE  /\ type \in {"title", "password", "username", "email", "protected"}
           /\ type \in DOMAIN RecordSchema /\ type # "end"
           /\ RecordSchema[type].kind \in {"text", "uint"}
           /\ RecordSchema[type].role \in {"required", "optional"}
           /\ Mandatory(RecordSchema[type]) <=> type \in {"title", "password"}
           /\ Mandatory(RecordSchema[type]) <=> RecordSchema[type].role = "required"
           /\ RecordSchema[type].kind = "uint" => payload = "sound"
           /\ payload \in {"sound", "other", "empty"}
<1>1. type \in {"title", "password", "username", "email", "protected"}
  BY DEF Editable, RecordSchema, FieldSpec
<1>2. /\ type \in DOMAIN RecordSchema /\ type # "end"
      /\ RecordSchema[type].kind \in {"text", "uint"}
      /\ RecordSchema[type].role \in {"required", "optional"}
      /\ Mandatory(RecordSchema[type]) <=> type \in {"title", "password"}
      /\ Mandatory(RecordSchema[type]) <=> RecordSchema[type].role = "required"
      /\ RecordSchema[type].kind = "uint" <=> type = "protected"
  BY <1>1 DEF RecordSchema, FieldSpec, Mandatory
<1>3. type = "protected" => ~RecordSchema[type].editable \/ RecordSchema[type].kind # "text"
  BY DEF RecordSchema, FieldSpec
<1>4. payload \in {"sound", "other", "empty"} /\ (type = "protected" => payload = "sound")
  BY <1>3 DEF Editable
<1> QED BY <1>1, <1>2, <1>4

\* And is then decodable and not too new.
LEMMA SoundField ==
    ASSUME NEW type, NEW payload, Editable(type, payload),
           NEW version, RecordSchema[type].since <= version
    PROVE  Novel(NewField(type, payload), type) /\ Sound(NewField(type, payload), version)
<1> DEFINE new == NewField(type, payload)
           spec == RecordSchema[type]
<1>1. /\ type \in {"title", "password", "username", "email", "protected"}
      /\ type \in DOMAIN RecordSchema /\ type # "end"
      /\ spec.kind \in {"text", "uint"} /\ spec.role \in {"required", "optional"}
      /\ spec.role = "required" => payload # "empty"
      /\ spec.kind = "uint" => payload = "sound"
      /\ payload \in {"sound", "other", "empty"}
  <2>1. Mandatory(spec) => payload # "empty"
    BY DEF Editable
  <2> QED BY <2>1, EditableTypes
<1>2. /\ new.from = None /\ new.field.type = type /\ new.field.payload = payload
      /\ new.field.class = "understood" /\ new \in PlannedFields
  <2>1. type \in Types /\ payload \in Payloads
    BY <1>1 DEF Types, Payloads
  <2>2. new.field \in Fields
    BY <2>1 DEF NewField, Fields
  <2> QED BY <2>2 DEF NewField, PlannedFields
<1>3. SpecOf(1, type) = spec /\ spec # None
  BY <1>1, RecordSpecsAre
<1> HIDE DEF new, spec
<1>4. ~Malformed(spec, payload)
  BY <1>1 DEF Malformed
<1>5. Class(1, new.field) = "understood"
  BY <1>2, <1>3, <1>4 DEF Class
<1> QED BY <1>1, <1>2, <1>3, <1>4, <1>5 DEF Novel, Sound, new, spec

\* A type a record must have is there, and none that is there is too new.
LEMMA Present ==
    ASSUME NEW p \in PlannedRecords, NEW version, RecordConforms(1, Written(p), version), NEW type
    PROVE  /\ type \in {"title", "password"} => Positions(p, type) # {}
           /\ type \in DOMAIN RecordSchema /\ Positions(p, type) # {}
              => ~(RecordSchema[type].since > version)
<1>1. /\ DOMAIN Written(p) = DOMAIN p.fields
      /\ \A i \in DOMAIN p.fields : Written(p)[i].type = p.fields[i].field.type
  BY WrittenTyped
<1>2. ASSUME type \in {"title", "password"} PROVE Positions(p, type) # {}
  <2>1. Count(Written(p), type) = 1
    BY <1>2 DEF RecordConforms
  <2>2. {i \in DOMAIN Written(p) : Written(p)[i].type = type} = Positions(p, type)
    BY <1>1 DEF Positions
  <2>3. Cardinality(Positions(p, type)) = 1
    BY <2>1, <2>2 DEF Count
  <2> QED BY <2>3, FS_EmptySet
<1>3. ASSUME type \in DOMAIN RecordSchema, Positions(p, type) # {}
      PROVE  ~(RecordSchema[type].since > version)
  <2>1. PICK i \in DOMAIN p.fields : p.fields[i].field.type = type
    BY <1>3 DEF Positions
  <2>2. Written(p)[i].type = type /\ ~Refused(1, Written(p), i, version)
    BY <1>1, <2>1 DEF RecordConforms, SectionConforms
  <2>3. SpecOf(1, type) = RecordSchema[type] /\ RecordSchema[type] # None
    BY <1>3, RecordSpecsAre
  <2> QED BY <2>2, <2>3 DEF Refused
<1> QED BY <1>2, <1>3

\* Setting a field is an edit of its type.
LEMMA WithGood ==
    ASSUME NEW p, Original(p), NEW version \in Nat, Good(p, version),
           NEW type, NEW payload, Editable(type, payload), RecordSchema[type].since <= version,
           Unambiguous(p, type)
    PROVE  LET q == With(p, type, payload)
           IN  /\ Good(q, version) /\ Follows(p, q)
               /\ Edited(p, q, type, NewField(type, payload)) /\ Novel(NewField(type, payload), type)
<1> DEFINE q == With(p, type, payload)
           new == NewField(type, payload)
<1>1. Novel(new, type) /\ Sound(new, version)
  BY SoundField
<1>2. p \in PlannedRecords /\ RecordConforms(1, Written(p), version)
  BY DEF Good
<1> HIDE DEF new
<1>3. CASE Positions(p, type) = {}
  <2>1. q = Inserted(p, new)
    BY <1>3 DEF With, new
  <2> HIDE DEF q
  <2>2. Edited(p, q, type, new)
    BY <1>1, <1>3, <2>1, InsertedIs
  <2>3. type \notin {"title", "password"}
    BY <1>2, <1>3, Present
  <2>4. Good(q, version) /\ Follows(p, q)
    BY <1>1, <2>2, <2>3, EditedGood
  <2> QED BY <1>1, <2>2, <2>4 DEF new, q
<1>4. CASE Positions(p, type) # {}
  <2>1. q = Patched(p, type, new)
    BY <1>4 DEF With, new
  <2> HIDE DEF q
  <2>2. Edited(p, q, type, new)
    BY <1>1, <1>4, <2>1, PatchedIs
  <2>3. Positions(q, type) # {}
    <3>1. PICK i \in DOMAIN p.fields : p.fields[i].field.type = type
      BY <1>4 DEF Positions
    <3> DEFINE g == [k \in DOMAIN p.fields |-> IF p.fields[k].field.type = type THEN new ELSE p.fields[k]]
    <3>2. q.fields = g
      BY <1>2, <2>1 DEF Patched, PlannedRecords
    <3>3. i \in DOMAIN g /\ g[i] = new
      BY <3>1
    <3>4. new.field.type = type
      BY <1>1 DEF Novel
    <3> HIDE DEF g
    <3>5. i \in Positions(q, type)
      BY <3>2, <3>3, <3>4 DEF Positions
    <3> QED BY <3>5
  <2>4. Good(q, version) /\ Follows(p, q)
    BY <1>1, <2>2, <2>3, EditedGood
  <2> QED BY <1>1, <2>2, <2>4 DEF new, q
<1> QED BY <1>3, <1>4

\* So is removing it.
LEMMA WithoutGood ==
    ASSUME NEW p, Original(p), NEW version \in Nat, Good(p, version),
           NEW type, Editable(type, "sound"), type \notin {"title", "password"},
           Unambiguous(p, type), Positions(p, type) # {}
    PROVE  LET q == Without(p, type)
           IN  /\ Good(q, version) /\ Follows(p, q)
               /\ Edited(p, q, type, NewField(type, "sound")) /\ Novel(NewField(type, "sound"), type)
<1> DEFINE new == NewField(type, "sound")
<1>1. type \in DOMAIN RecordSchema /\ type # "end" /\ RecordSchema[type].since \in Nat
  <2>1. type \in {"title", "password", "username", "email", "protected"}
    BY EditableTypes
  <2> QED BY <2>1 DEF RecordSchema, FieldSpec
<1>2. p \in PlannedRecords /\ RecordConforms(1, Written(p), version)
  BY DEF Good
<1>3. RecordSchema[type].since <= version
  BY <1>1, <1>2, Present
<1>4. Novel(new, type) /\ Sound(new, version)
  BY <1>3, SoundField
<1> HIDE DEF new
<1>5. Edited(p, Without(p, type), type, new)
  BY <1>1, WithoutIs
<1>6. Good(Without(p, type), version) /\ Follows(p, Without(p, type))
  BY <1>4, <1>5, EditedGood
<1> QED BY <1>4, <1>5, <1>6 DEF new

\* The plan of a document, record by record.
LEMMA PlanIs ==
    ASSUME NEW doc \in Documents
    PROVE  /\ Plan(doc) \in Seq(PlannedRecords) /\ Len(Plan(doc)) = Len(doc.records)
           /\ DOMAIN Plan(doc) = DOMAIN doc.records /\ DOMAIN doc.records = 1 .. Len(doc.records)
           /\ Len(doc.records) \in Nat
           /\ \A r \in DOMAIN doc.records : Plan(doc)[r] = Planned(doc, r)
<1>1. doc.records \in Seq(Records)
  BY DEF Documents
<1>2. DOMAIN doc.records = 1 .. Len(doc.records) /\ Len(doc.records) \in Nat
  BY <1>1, SeqDomain
<1>3. \A r \in DOMAIN doc.records : Planned(doc, r) \in PlannedRecords
  BY PlannedIs
<1>4. Plan(doc) \in [1 .. Len(doc.records) -> PlannedRecords]
  BY <1>2, <1>3 DEF Plan
<1>5. Plan(doc) \in Seq(PlannedRecords) /\ Len(Plan(doc)) = Len(doc.records)
  BY <1>2, <1>4, FunctionIsSeq
<1> QED BY <1>2, <1>5 DEF Plan

\* a plan whose records are those of the document, one of them with the fields of one type
\* edited, and at most one new one
Assembly(doc, plan, origin, edited, type) ==
    /\ plan \in Seq(PlannedRecords) /\ origin \in [DOMAIN plan -> 0 .. Len(doc.records)]
    /\ edited \in Handles(doc) \cup {0} /\ type \in DOMAIN RecordSchema
    /\ \A r \in DOMAIN plan : origin[r] # 0 =>
         LET p == Planned(doc, origin[r])
         IN  \/ plan[r] = p
             \/ /\ Good(plan[r], doc.version) /\ Follows(p, plan[r])
                /\ plan[r].handle = p.handle /\ p.handle = edited
                /\ Except(Written(plan[r]), type) = Except(Written(p), type)
    /\ \A r \in DOMAIN plan : origin[r] = 0 =>
         /\ Good(plan[r], doc.version) /\ \A i \in DOMAIN plan[r].fields : plan[r].fields[i].from = None
         /\ plan[r].handle \notin Handles(doc)
    /\ \A r, s \in DOMAIN plan : origin[r] = origin[s] => r = s

\* An assembly is made from its document.
LEMMA Assembled ==
    ASSUME NEW doc \in Documents, Faithful(doc), NEW plan, NEW origin, NEW edited, NEW type,
           Assembly(doc, plan, origin, edited, type)
    PROVE  /\ MadeFrom(doc, plan, origin)
           /\ \A r \in DOMAIN plan : origin[r] # 0 =>
                origin[r] \in DOMAIN doc.records /\ plan[r].handle = doc.records[origin[r]].handle
<1>1. \A r \in DOMAIN plan : origin[r] # 0 => origin[r] \in DOMAIN doc.records
  <2>1. DOMAIN doc.records = 1 .. Len(doc.records) /\ Len(doc.records) \in Nat
    BY PlanIs
  <2> QED BY <2>1 DEF Assembly
<1>2. \A r \in DOMAIN plan : origin[r] # 0 =>
        /\ Good(plan[r], doc.version) /\ Follows(Planned(doc, origin[r]), plan[r])
        /\ plan[r].handle = Planned(doc, origin[r]).handle
  BY <1>1, PlannedOriginal DEF Assembly
<1>3. \A r, s \in DOMAIN doc.records : doc.records[r].handle = doc.records[s].handle => r = s
  BY DEF Faithful
<1>4. \A r \in DOMAIN plan : origin[r] # 0 => plan[r].handle = doc.records[origin[r]].handle
  BY <1>1, <1>2, PlannedIs
<1>5. \A r \in DOMAIN plan : /\ origin[r] = 0 => plan[r].handle \notin Handles(doc)
                             /\ origin[r] # 0 => plan[r].handle \in Handles(doc)
  BY <1>1, <1>4 DEF Assembly, Handles
<1>6. \A r, s \in DOMAIN plan : origin[r] = origin[s] => r = s
  BY DEF Assembly
<1>7. ASSUME NEW r \in DOMAIN plan, NEW s \in DOMAIN plan, plan[r].handle = plan[s].handle
      PROVE  r = s
  <2>1. CASE origin[r] = 0 /\ origin[s] = 0
    BY <1>6, <2>1
  <2>2. CASE origin[r] = 0 /\ origin[s] # 0
    BY <1>5, <1>7, <2>2
  <2>3. CASE origin[r] # 0 /\ origin[s] = 0
    BY <1>5, <1>7, <2>3
  <2>4. CASE origin[r] # 0 /\ origin[s] # 0
    <3>1. origin[r] = origin[s]
      BY <1>1, <1>3, <1>4, <1>7, <2>4
    <3> QED BY <1>6, <3>1
  <2> QED BY <2>1, <2>2, <2>3, <2>4
<1> QED BY <1>1, <1>2, <1>4, <1>6, <1>7 DEF MadeFrom, Assembly

\* Handles tell the records apart.
LEMMA FieldsOfIs ==
    ASSUME NEW doc \in Documents, Faithful(doc), NEW r \in DOMAIN doc.records
    PROVE  FieldsOf(doc, doc.records[r].handle) = BareRecords(doc)[r]
<1> DEFINE s == doc.records
           h == s[r].handle
           I == {i \in 1 .. Len(s) : s[i].handle = h}
<1>1. DOMAIN s = 1 .. Len(s) /\ r \in Nat \ {0}
  BY PlanIs, PlannedIs
<1>2. I = {r}
  <2>1. \A i \in DOMAIN s : s[i].handle = s[r].handle => i = r
    BY DEF Faithful
  <2>2. r \in I /\ \A i \in I : i = r
    BY <1>1, <2>1
  <2> HIDE DEF I
  <2> QED BY <2>2
<1>3. SelectInSeq(s, LAMBDA record : record.handle = h) = IF I # {} THEN Min(I) ELSE 0
  BY DEF SelectInSeq
<1>4. SelectInSeq(s, LAMBDA record : record.handle = h) = r
  BY <1>1, <1>2, <1>3, MinIs
<1>5. FieldsOf(doc, h) = Bare(s[r].fields)
  BY <1>1, <1>4 DEF FieldsOf
<1> QED BY <1>5, BareRecordsTyped

\* what an edit leaves alone
Keeps(old, new) ==
    /\ new.header = old.header
    /\ \E edited \in Handles(old) \cup {0}, type \in DOMAIN RecordSchema :
         \A handle \in Handles(old) \cap Handles(new) :
           IF handle = edited
           THEN Except(FieldsOf(new, handle), type) = Except(FieldsOf(old, handle), type)
           ELSE FieldsOf(new, handle) = FieldsOf(old, handle)

\* what a plan makes of a document is a document, and an edit of it
Kind(doc, plan, moved) ==
    /\ Fork(doc, plan) \in Documents /\ Faithful(Fork(doc, plan))
    /\ moved = 0 /\ InOrder(doc) => InOrder(Fork(doc, plan))
    /\ Keeps(doc, Fork(doc, plan))

\* Whatever was assembled, a fork of it is an edit.
LEMMA AssemblyKind ==
    ASSUME NEW doc \in Documents, Faithful(doc), NEW plan, NEW origin, NEW edited, NEW type,
           Assembly(doc, plan, origin, edited, type), NEW moved, moved = 0 => Monotone(plan, origin)
    PROVE  Kind(doc, plan, moved)
<1> DEFINE new == Fork(doc, plan)
<1>1. /\ MadeFrom(doc, plan, origin)
      /\ \A r \in DOMAIN plan : origin[r] # 0 =>
           origin[r] \in DOMAIN doc.records /\ plan[r].handle = doc.records[origin[r]].handle
  BY Assembled
<1>2. /\ new \in Documents /\ Faithful(new)
      /\ Monotone(plan, origin) /\ InOrder(doc) => InOrder(new)
  BY <1>1, ForkFaithful
<1>3. /\ new.header = doc.header /\ DOMAIN new.records = DOMAIN plan
      /\ \A r \in DOMAIN plan : new.records[r].handle = plan[r].handle /\ BareRecords(new)[r] = Written(plan[r])
  BY <1>1, MadeOnce, ForkIs DEF MadeFrom
<1> HIDE DEF new
<1>4. ASSUME NEW handle \in Handles(doc) \cap Handles(new)
      PROVE  IF handle = edited
             THEN Except(FieldsOf(new, handle), type) = Except(FieldsOf(doc, handle), type)
             ELSE FieldsOf(new, handle) = FieldsOf(doc, handle)
  <2>1. PICK r \in DOMAIN plan : handle = plan[r].handle
    BY <1>3 DEF Handles
  <2>2. origin[r] # 0
    BY <2>1 DEF Assembly
  <2>3. origin[r] \in DOMAIN doc.records /\ handle = doc.records[origin[r]].handle
    BY <1>1, <2>1, <2>2
  <2> DEFINE p == Planned(doc, origin[r])
  <2>4. FieldsOf(doc, handle) = Written(p) /\ p.handle = handle
    BY <2>3, FieldsOfIs, PlannedIs
  <2>5. FieldsOf(new, handle) = Written(plan[r])
    BY <1>2, <1>3, <2>1, FieldsOfIs
  <2>6. \/ plan[r] = p
        \/ p.handle = edited /\ Except(Written(plan[r]), type) = Except(Written(p), type)
    BY <2>2 DEF Assembly
  <2> HIDE DEF p
  <2> QED BY <2>4, <2>5, <2>6
<1>5. edited \in Handles(doc) \cup {0} /\ type \in DOMAIN RecordSchema
  BY DEF Assembly
<1>6. Keeps(doc, new)
  BY <1>3, <1>4, <1>5 DEF Keeps
<1> QED BY <1>2, <1>6 DEF Kind, new

\* One record edited.
LEMMA ReplacedKind ==
    ASSUME NEW doc \in Documents, Faithful(doc), NEW r \in DOMAIN doc.records,
           NEW q, Good(q, doc.version), Follows(Planned(doc, r), q), q.handle = doc.records[r].handle,
           NEW type \in DOMAIN RecordSchema,
           Except(Written(q), type) = Except(Written(Planned(doc, r)), type)
    PROVE  Kind(doc, [Plan(doc) EXCEPT ![r] = q], 0)
<1> DEFINE plan == [Plan(doc) EXCEPT ![r] = q]
           n == Len(doc.records)
           origin == [k \in 1 .. n |-> k]
<1>1. /\ Plan(doc) \in Seq(PlannedRecords) /\ DOMAIN Plan(doc) = 1 .. n /\ n \in Nat
      /\ DOMAIN doc.records = 1 .. n
      /\ \A k \in DOMAIN doc.records : Plan(doc)[k] = Planned(doc, k)
  BY PlanIs
<1>2. q \in PlannedRecords
  BY DEF Good
<1>3. plan \in Seq(PlannedRecords) /\ DOMAIN plan = 1 .. n
  <2>1. \A k \in 1 .. n : Plan(doc)[k] \in PlannedRecords
    BY <1>1, SeqDomain
  <2>2. Plan(doc) \in [1 .. n -> PlannedRecords]
    BY <1>1, SeqDef
  <2>3. plan \in [1 .. n -> PlannedRecords]
    BY <1>2, <2>2
  <2> QED BY <1>1, <2>3, FunctionIsSeq
<1>4. \A k \in 1 .. n : plan[k] = IF k = r THEN q ELSE Planned(doc, k)
  BY <1>1
<1>5. origin \in [DOMAIN plan -> 0 .. n] /\ \A k \in DOMAIN plan : origin[k] = k
  BY <1>1, <1>3
<1>6. \A k \in DOMAIN doc.records : Planned(doc, k).handle = doc.records[k].handle
  BY PlannedIs
<1> HIDE DEF plan, origin
<1>7. Assembly(doc, plan, origin, doc.records[r].handle, type)
  <2>1. \A k \in DOMAIN plan : /\ origin[k] # 0
                               /\ plan[k] = Planned(doc, k) \/ (k = r /\ plan[k] = q)
    BY <1>3, <1>4, <1>5
  <2>2. doc.records[r].handle \in Handles(doc)
    BY DEF Handles
  <2> QED BY <1>3, <1>5, <1>6, <2>1, <2>2 DEF Assembly
<1>8. Monotone(plan, origin)
  BY <1>5 DEF Monotone
<1> QED BY <1>7, <1>8, AssemblyKind DEF plan

\* One record removed.
LEMMA DeletedKind ==
    ASSUME NEW doc \in Documents, Faithful(doc), NEW r \in DOMAIN doc.records
    PROVE  Kind(doc, RemoveAt(Plan(doc), r), 0)
<1> DEFINE plan == RemoveAt(Plan(doc), r)
           n == Len(doc.records)
           origin == [k \in 1 .. n - 1 |-> IF k < r THEN k ELSE k + 1]
<1>1. /\ Plan(doc) \in Seq(PlannedRecords) /\ Len(Plan(doc)) = n /\ n \in Nat
      /\ DOMAIN doc.records = 1 .. n
      /\ \A k \in DOMAIN doc.records : Plan(doc)[k] = Planned(doc, k)
  BY PlanIs
<1>2. /\ plan \in Seq(PlannedRecords) /\ Len(plan) = n - 1
      /\ \A k \in 1 .. n - 1 : plan[k] = IF k < r THEN Plan(doc)[k] ELSE Plan(doc)[k + 1]
  <2>1. Removes(plan, PlannedRecords, Plan(doc), r)
    BY <1>1, RemoveIs
  <2> HIDE DEF plan
  <2> QED BY <1>1, <2>1 DEF Removes
<1>3. DOMAIN plan = 1 .. n - 1
  BY <1>2, SeqDomain
<1>4. origin \in [DOMAIN plan -> 0 .. n] /\ \A k \in DOMAIN plan : origin[k] = IF k < r THEN k ELSE k + 1
  BY <1>1, <1>3
<1> HIDE DEF plan, origin
<1>6. \A k \in DOMAIN plan : /\ plan[k] = Planned(doc, origin[k]) /\ origin[k] # 0
                             /\ origin[k] \in DOMAIN doc.records
  BY <1>1, <1>2, <1>3, <1>4
<1>7. \A k, l \in DOMAIN plan : k < l => origin[k] < origin[l]
  BY <1>1, <1>3, <1>4
<1>8. \A k, l \in DOMAIN plan : origin[k] = origin[l] => k = l
  BY <1>1, <1>3, <1>4
<1>9. Assembly(doc, plan, origin, 0, "title")
  BY <1>2, <1>4, <1>6, <1>8 DEF Assembly, RecordSchema
<1>10. Monotone(plan, origin)
  BY <1>7 DEF Monotone
<1> QED BY <1>9, <1>10, AssemblyKind DEF plan

\* One record moved.
LEMMA MovedKind ==
    ASSUME NEW doc \in Documents, Faithful(doc), NEW r \in DOMAIN doc.records, NEW to \in DOMAIN doc.records
    PROVE  Kind(doc, InsertAt(RemoveAt(Plan(doc), r), to, Planned(doc, r)), 1)
<1> DEFINE rest == RemoveAt(Plan(doc), r)
           plan == InsertAt(rest, to, Planned(doc, r))
           n == Len(doc.records)
           o(k) == IF k < r THEN k ELSE k + 1
           origin == [k \in 1 .. n |-> IF k < to THEN o(k) ELSE IF k = to THEN r ELSE o(k - 1)]
<1>1. /\ Plan(doc) \in Seq(PlannedRecords) /\ Len(Plan(doc)) = n /\ n \in Nat
      /\ DOMAIN doc.records = 1 .. n
      /\ \A k \in DOMAIN doc.records : Plan(doc)[k] = Planned(doc, k)
  BY PlanIs
<1>2. /\ rest \in Seq(PlannedRecords) /\ Len(rest) = n - 1
      /\ \A k \in 1 .. n - 1 : rest[k] = IF k < r THEN Plan(doc)[k] ELSE Plan(doc)[k + 1]
  <2>1. Removes(rest, PlannedRecords, Plan(doc), r)
    BY <1>1, RemoveIs
  <2> HIDE DEF plan, rest, origin, o
  <2> QED BY <1>1, <2>1 DEF Removes
<1>3. ASSUME NEW k \in 1 .. n - 1 PROVE rest[k] = Planned(doc, o(k))
  <2>1. CASE k < r
    <3>1. k \in DOMAIN doc.records
      BY <1>1
    <3> QED BY <1>1, <1>2, <2>1, <3>1
  <2>2. CASE ~(k < r)
    <3>1. k + 1 \in DOMAIN doc.records
      BY <1>1
    <3> QED BY <1>1, <1>2, <2>2, <3>1
  <2> QED BY <2>1, <2>2
<1>4. Planned(doc, r) \in PlannedRecords
  BY PlannedIs
<1> HIDE DEF rest
<1>5. /\ plan \in Seq(PlannedRecords) /\ Len(plan) = n
      /\ \A k \in 1 .. n : plan[k] = IF k < to THEN rest[k] ELSE IF k = to THEN Planned(doc, r) ELSE rest[k - 1]
  <2>1. Len(rest) + 1 = n /\ to \in 1 .. Len(rest) + 1
    BY <1>1, <1>2
  <2>2. Inserts(plan, PlannedRecords, rest, to, Planned(doc, r))
    <3> HIDE DEF origin, n, o
    <3> QED BY <1>2, <1>4, <2>1, InsertIs
  <2> HIDE DEF plan
  <2> QED BY <2>1, <2>2 DEF Inserts
<1>6. DOMAIN plan = 1 .. n
  BY <1>5, SeqDomain
<1>7. \A k \in DOMAIN plan :
        origin[k] = IF k < to THEN o(k) ELSE IF k = to THEN r ELSE o(k - 1)
  BY <1>6
<1>8. origin \in [DOMAIN plan -> 0 .. n]
  <2>1. n \in Nat /\ r \in 1 .. n /\ to \in 1 .. n
    BY <1>1
  <2> HIDE DEF n, plan
  <2>2. ASSUME NEW k \in 1 .. n
        PROVE  (IF k < to THEN o(k) ELSE IF k = to THEN r ELSE o(k - 1)) \in 0 .. n
    <3>1. CASE k < to
      BY <2>1, <3>1
    <3>2. CASE k = to
      BY <2>1, <3>2
    <3>3. CASE k > to
      BY <2>1, <3>3
    <3> QED BY <2>1, <3>1, <3>2, <3>3
  <2> HIDE DEF o
  <2>3. origin \in [1 .. n -> 0 .. n]
    BY <2>2
  <2> QED BY <1>6, <2>3
<1> HIDE DEF plan, origin
<1>10. \A k \in DOMAIN plan : /\ plan[k] = Planned(doc, origin[k]) /\ origin[k] # 0
                              /\ origin[k] \in DOMAIN doc.records
  BY <1>1, <1>3, <1>5, <1>6, <1>7
<1>11. \A k, l \in DOMAIN plan : origin[k] = origin[l] => k = l
  BY <1>1, <1>6, <1>7
<1>12. Assembly(doc, plan, origin, 0, "title")
  BY <1>5, <1>8, <1>10, <1>11 DEF Assembly, RecordSchema
<1> QED BY <1>12, AssemblyKind DEF plan, rest

\* A sequence of numbers has a bound.
LEMMA Bounded ==
    ASSUME NEW s \in Seq(Nat)
    PROVE  \E m \in Nat : \A i \in DOMAIN s : s[i] <= m
<1> DEFINE T == {t \in Seq(Nat) : \E m \in Nat : \A i \in DOMAIN t : t[i] <= m}
<1>1. <<>> \in T
  <2>1. <<>> \in Seq(Nat) /\ DOMAIN <<>> = {}
    BY EmptySeq
  <2> QED BY <2>1
<1>2. ASSUME NEW t \in Seq(Nat), NEW e \in Nat, t \in T PROVE Append(t, e) \in T
  <2>1. PICK m \in Nat : \A i \in DOMAIN t : t[i] <= m
    BY <1>2
  <2>2. /\ Append(t, e) \in Seq(Nat) /\ DOMAIN t = 1 .. Len(t) /\ Len(t) \in Nat
        /\ DOMAIN Append(t, e) = 1 .. Len(t) + 1
        /\ \A i \in DOMAIN Append(t, e) : Append(t, e)[i] = IF i = Len(t) + 1 THEN e ELSE t[i]
    BY AppendProperties, SeqDomain
  <2>3. \A i \in DOMAIN Append(t, e) : Append(t, e)[i] <= m + e
    <3>1. ASSUME NEW i \in DOMAIN Append(t, e) PROVE Append(t, e)[i] <= m + e
      <4>1. CASE i = Len(t) + 1
        BY <2>2, <4>1
      <4>2. CASE i # Len(t) + 1
        <5>1. i \in DOMAIN t
          BY <2>2, <4>2
        <5>2. t[i] <= m /\ t[i] \in Nat
          BY <2>1, <5>1, SeqDomain
        <5> QED BY <2>2, <4>2, <5>2
      <4> QED BY <4>1, <4>2
    <3> QED BY <3>1
  <2>4. m + e \in Nat
    OBVIOUS
  <2> QED BY <2>2, <2>3, <2>4
<1> HIDE DEF T
<1>3. s \in T
  BY <1>1, <1>2, SeqInd
<1> QED BY <1>3 DEF T

\* And a maximum.
LEMMA MaxOf ==
    ASSUME NEW S, S \subseteq Nat, S # {}, NEW m \in Nat, \A y \in S : y <= m
    PROVE  Max(S) \in S /\ \A y \in S : y <= Max(S)
<1> DEFINE T == {k \in Nat : k <= m /\ m - k \in S}
<1>1. T \subseteq Nat /\ T # {}
  <2>1. PICK y \in S : TRUE
    OBVIOUS
  <2>2. m - y \in Nat /\ m - (m - y) = y /\ m - y <= m
    BY <2>1
  <2>3. m - y \in T
    BY <2>2
  <2> QED BY <2>3
<1>2. \A y \in S : m - y \in T
  <2>1. ASSUME NEW y \in S PROVE m - y \in T
    <3>1. m - y \in Nat /\ m - (m - y) = y /\ m - y <= m
      OBVIOUS
    <3> QED BY <3>1
  <2> QED BY <2>1
<1>3. \A k \in T : k \in Nat /\ k <= m /\ m - k \in S
  OBVIOUS
<1> HIDE DEF T
<1>4. PICK k \in T : \A l \in T : k <= l
  BY <1>1, Least
<1>5. \A y \in S : y <= m - k
  <2>1. ASSUME NEW y \in S PROVE y <= m - k
    <3>1. k <= m - y /\ k \in Nat /\ y \in Nat
      BY <1>2, <1>3, <1>4
    <3> QED BY <3>1
  <2> QED BY <2>1
<1>6. \A y \in S : m - k >= y
  BY <1>3, <1>4, <1>5
<1>7. Max(S) \in S /\ \A y \in S : Max(S) >= y
  BY <1>3, <1>6 DEF Max
<1> QED BY <1>7

FreshHandle(doc) == 1 + Max({0} \cup {doc.records[r].handle : r \in DOMAIN doc.records})

\* A fresh handle is fresh.
LEMMA FreshIs ==
    ASSUME NEW doc \in Documents
    PROVE  /\ FreshHandle(doc) \in Nat \ {0}
           /\ \A r \in DOMAIN doc.records : FreshHandle(doc) # doc.records[r].handle
<1> DEFINE S == {0} \cup {doc.records[r].handle : r \in DOMAIN doc.records}
           n == Len(doc.records)
           s == [r \in 1 .. n |-> doc.records[r].handle]
<1>1. doc.records \in Seq(Records)
  BY DEF Documents
<1>2. DOMAIN doc.records = 1 .. n /\ n \in Nat /\ \A r \in DOMAIN doc.records : doc.records[r].handle \in Nat
  <2>1. DOMAIN doc.records = 1 .. n /\ n \in Nat /\ \A r \in DOMAIN doc.records : doc.records[r] \in Records
    BY <1>1, SeqDomain
  <2> QED BY <2>1 DEF Records
<1>3. s \in [1 .. n -> Nat]
  BY <1>2
<1>4. s \in Seq(Nat) /\ DOMAIN s = 1 .. n /\ \A r \in 1 .. n : s[r] = doc.records[r].handle
  BY <1>2, <1>3, FunctionIsSeq
<1> HIDE DEF s
<1>5. PICK m \in Nat : \A r \in DOMAIN s : s[r] <= m
  BY <1>4, Bounded
<1>6. S \subseteq Nat /\ S # {} /\ \A y \in S : y <= m
  BY <1>2, <1>4, <1>5
<1>7. \A r \in DOMAIN doc.records : doc.records[r].handle \in S
  OBVIOUS
<1>8. FreshHandle(doc) = 1 + Max(S)
  BY DEF FreshHandle
<1> HIDE DEF S
<1>9. Max(S) \in S /\ \A y \in S : y <= Max(S)
  BY <1>6, MaxOf
<1>10. Max(S) \in Nat
  BY <1>6, <1>9
<1> QED BY <1>2, <1>7, <1>8, <1>9, <1>10

\* what a new record is made of
NewRecord(fields) ==
    /\ fields \in Seq(PlannedFields) /\ Len(fields) > 0
    /\ \A i \in 1 .. Len(fields) - 1 :
         \E type \in {"uuid", "title", "username", "password"} : fields[i] = NewField(type, "sound")
    /\ fields[Len(fields)] = NewField("end", "empty")
    /\ \A i, j \in DOMAIN fields : fields[i].field.type = fields[j].field.type => i = j
    /\ \A type \in {"uuid", "title", "password"} : \E i \in DOMAIN fields : fields[i].field.type = type

\* The fields of a new record, one by one.
LEMMA NewFieldKind ==
    ASSUME NEW new, \/ \E type \in {"uuid", "title", "username", "password"} : new = NewField(type, "sound")
                    \/ new = NewField("end", "empty")
    PROVE  /\ new \in PlannedFields /\ new.from = None
           /\ new.field.type \in {"uuid", "title", "username", "password", "end"}
           /\ new.field.class = Class(1, new.field)
           /\ SpecOf(1, new.field.type) # None /\ SpecOf(1, new.field.type).since = 1
           /\ ~Malformed(SpecOf(1, new.field.type), new.field.payload)
<1> DEFINE type == new.field.type
           payload == new.field.payload
<1>1. /\ new.from = None /\ new.field.class = "understood"
      /\ new.field = [type |-> type, payload |-> payload, class |-> "understood"]
      /\ new = [field |-> new.field, from |-> None]
      /\ \/ type \in {"uuid", "title", "username", "password"} /\ payload = "sound"
         \/ type = "end" /\ payload = "empty"
  BY DEF NewField
<1> HIDE DEF type, payload
<1>2. type \in Types /\ payload \in Payloads
  BY <1>1 DEF Types, Payloads, RecordSchema
<1>3. new.field \in Fields
  BY <1>1, <1>2 DEF Fields
<1>4. new \in PlannedFields
  BY <1>1, <1>3 DEF PlannedFields
<1>5. SpecOf(1, type) = RecordSchema[type] /\ RecordSchema[type] # None
  <2>1. type \in DOMAIN RecordSchema
    BY <1>1 DEF RecordSchema
  <2> QED BY <2>1, RecordSpecsAre
<1>6. RecordSchema[type].since = 1 /\ ~Malformed(RecordSchema[type], payload)
  BY <1>1 DEF RecordSchema, FieldSpec, Malformed
<1>7. Class(1, new.field) = "understood"
  BY <1>5, <1>6 DEF Class, type, payload
<1> QED BY <1>1, <1>4, <1>5, <1>6, <1>7 DEF type, payload

\* A new record is legal, and judged as the reader would judge it.
LEMMA NewRecordGood ==
    ASSUME NEW fields, NewRecord(fields), NEW handle \in Nat \ {0}, NEW version \in 1 .. 2
    PROVE  LET q == [handle |-> handle, fields |-> fields]
           IN  Good(q, version) /\ \A i \in DOMAIN q.fields : q.fields[i].from = None
<1> DEFINE q == [handle |-> handle, fields |-> fields]
           n == Len(fields)
           w == Written(q)
<1>1. /\ fields \in Seq(PlannedFields) /\ DOMAIN fields = 1 .. n /\ n \in Nat /\ n > 0
      /\ fields[n] = NewField("end", "empty")
  BY SeqDomain DEF NewRecord
<1>2. \A i \in DOMAIN fields :
        /\ fields[i].from = None
        /\ fields[i].field.type \in {"uuid", "title", "username", "password", "end"}
        /\ fields[i].field.class = Class(1, fields[i].field)
        /\ SpecOf(1, fields[i].field.type) # None /\ SpecOf(1, fields[i].field.type).since = 1
        /\ ~Malformed(SpecOf(1, fields[i].field.type), fields[i].field.payload)
  <2>1. ASSUME NEW i \in DOMAIN fields
        PROVE  \/ \E type \in {"uuid", "title", "username", "password"} : fields[i] = NewField(type, "sound")
               \/ fields[i] = NewField("end", "empty")
    BY <1>1 DEF NewRecord
  <2> QED BY <2>1, NewFieldKind
<1>3. q \in PlannedRecords /\ q.fields = fields /\ q.handle = handle
  BY <1>1 DEF PlannedRecords
<1> HIDE DEF q, w
<1>4. /\ w \in Seq(Frames) /\ Len(w) = n /\ DOMAIN w = DOMAIN fields
      /\ \A i \in DOMAIN fields : w[i].type = fields[i].field.type /\ w[i].payload = fields[i].field.payload
  BY <1>3, WrittenTyped DEF w
<1>5. \A i \in DOMAIN fields : ~Repeats(w, i)
  <2>1. ASSUME NEW i \in DOMAIN fields, NEW j \in 1 .. i - 1 PROVE w[j].type # w[i].type
    <3>1. j \in DOMAIN fields /\ j # i
      BY <1>1
    <3> QED BY <1>4, <3>1 DEF NewRecord
  <2> QED BY <2>1 DEF Repeats
<1>6. \A i \in DOMAIN fields : ~Refused(1, w, i, version)
  <2>1. \A i \in DOMAIN fields : /\ ~(SpecOf(1, w[i].type).since > version)
                                 /\ ~Malformed(SpecOf(1, w[i].type), w[i].payload)
    BY <1>2, <1>4
  <2> QED BY <1>5, <2>1 DEF Refused
<1>7. \A i \in DOMAIN fields : \A code : ~Flagged(1, w, i, code)
  BY <1>2, <1>4, <1>5 DEF Flagged
<1>8. Judged(q)
  BY <1>2, <1>3 DEF Judged
<1>9. SectionConforms(1, w, version)
  <2>1. fields[n].field.type = "end"
    BY <1>1 DEF NewField
  <2>2. n \in DOMAIN fields /\ w[n].type = "end"
    BY <1>1, <1>4, <2>1
  <2>3. w # <<>> /\ Last(w) = w[n]
    <3>1. Len(w) # 0
      BY <1>1, <1>4
    <3> QED BY <3>1, <1>4, EmptySeq DEF Last
  <2> QED BY <1>4, <1>6, <2>2, <2>3 DEF SectionConforms
<1>10. ASSUME NEW type \in {"uuid", "title", "password"} PROVE Count(w, type) = 1
  <2> DEFINE P == {i \in DOMAIN w : w[i].type = type}
  <2>1. P \in SUBSET (DOMAIN w)
    OBVIOUS
  <2>2. PICK i \in DOMAIN fields : fields[i].field.type = type
    BY DEF NewRecord
  <2>3. P = {i}
    <3>1. i \in P
      BY <1>4, <2>2
    <3>2. \A j \in P : j = i
      BY <1>4, <2>2 DEF NewRecord
    <3> QED BY <3>1, <3>2
  <2> HIDE DEF P
  <2>4. Cardinality(P) = 1
    BY <1>4, <2>1, <2>3, CountIs
  <2> QED BY <2>4 DEF Count, P
<1>11. ASSUME NEW group \in Groups PROVE TypesOf(w) \cap group.any = {}
  <2>1. TypesOf(w) \subseteq {"uuid", "title", "username", "password", "end"}
    BY <1>2, <1>4 DEF TypesOf
  <2>2. group.any \cap {"uuid", "title", "username", "password", "end"} = {}
    BY DEF Groups
  <2> QED BY <2>1, <2>2
<1>12. RecordConforms(1, w, version)
  BY <1>9, <1>10, <1>11 DEF RecordConforms
<1> QED BY <1>2, <1>3, <1>7, <1>8, <1>12 DEF Good, q, w

\* the fields _new_record_fields makes
AddedFields(user) ==
    <<NewField("uuid", "sound"), NewField("title", "sound")>>
    \o (IF user THEN <<NewField("username", "sound")>> ELSE <<>>)
    \o <<NewField("password", "sound"), NewField("end", "empty")>>

\* Where everything is after a concatenation.
LEMMA Joined ==
    ASSUME NEW S, NEW s \in Seq(S), NEW t \in Seq(S), NEW u, u = s \o t
    PROVE  /\ u \in Seq(S) /\ Len(u) = Len(s) + Len(t) /\ DOMAIN u = 1 .. Len(u)
           /\ \A i \in 1 .. Len(s) : u[i] = s[i]
           /\ \A i \in 1 .. Len(t) : u[Len(s) + i] = t[i]
<1>1. /\ s \o t \in Seq(S) /\ Len(s \o t) = Len(s) + Len(t)
      /\ \A i \in 1 .. Len(s) + Len(t) : (s \o t)[i] = IF i <= Len(s) THEN s[i] ELSE t[i - Len(s)]
  BY ConcatProperties
<1>2. Len(s) \in Nat /\ Len(t) \in Nat /\ DOMAIN u = 1 .. Len(u)
  BY <1>1, SeqDomain
<1>3. \A i \in 1 .. Len(s) : u[i] = s[i]
  BY <1>1, <1>2
<1>4. ASSUME NEW i \in 1 .. Len(t) PROVE u[Len(s) + i] = t[i]
  <2>1. Len(s) + i \in 1 .. Len(s) + Len(t) /\ ~(Len(s) + i <= Len(s)) /\ Len(s) + i - Len(s) = i
    BY <1>2
  <2> QED BY <1>1, <2>1
<1> QED BY <1>1, <1>2, <1>3, <1>4

\* The fields of a new record, place by place.
LEMMA AddedIs ==
    ASSUME NEW user \in BOOLEAN
    PROVE  NewRecord(AddedFields(user))
<1> DEFINE a == NewField("uuid", "sound")
           b == NewField("title", "sound")
           c == NewField("username", "sound")
           d == NewField("password", "sound")
           e == NewField("end", "empty")
           fields == AddedFields(user)
<1>1. /\ a \in PlannedFields /\ b \in PlannedFields /\ c \in PlannedFields /\ d \in PlannedFields
      /\ e \in PlannedFields
  BY NewFieldKind
<1>2. /\ a.field.type = "uuid" /\ b.field.type = "title" /\ c.field.type = "username"
      /\ d.field.type = "password" /\ e.field.type = "end"
  BY DEF NewField
<1>3. /\ \E type \in {"uuid", "title", "username", "password"} : a = NewField(type, "sound")
      /\ \E type \in {"uuid", "title", "username", "password"} : b = NewField(type, "sound")
      /\ \E type \in {"uuid", "title", "username", "password"} : c = NewField(type, "sound")
      /\ \E type \in {"uuid", "title", "username", "password"} : d = NewField(type, "sound")
      /\ e = NewField("end", "empty")
  OBVIOUS
<1>4. fields = <<a, b>> \o (IF user THEN <<c>> ELSE <<>>) \o <<d, e>>
  BY DEF AddedFields
<1> HIDE DEF a, b, c, d, e, fields
<1>5. CASE user
  <2> DEFINE x == <<a, b>>
             y == <<c>>
             z == <<d, e>>
  <2>1. /\ x \in Seq(PlannedFields) /\ Len(x) = 2 /\ x[1] = a /\ x[2] = b
        /\ y \in Seq(PlannedFields) /\ Len(y) = 1 /\ y[1] = c
        /\ z \in Seq(PlannedFields) /\ Len(z) = 2 /\ z[1] = d /\ z[2] = e
        /\ fields = x \o y \o z
    BY <1>1, <1>4, <1>5
  <2> HIDE DEF x, y, z
  <2> DEFINE u == x \o y
  <2>9. u = x \o y /\ fields = u \o z
    BY <2>1
  <2> HIDE DEF u
  <2>10. u \in Seq(PlannedFields) /\ Len(u) = 3 /\ u[1] = a /\ u[2] = b /\ u[3] = c
    <3>1. /\ u \in Seq(PlannedFields) /\ Len(u) = Len(x) + Len(y)
          /\ \A i \in 1 .. Len(x) : u[i] = x[i]
          /\ \A i \in 1 .. Len(y) : u[Len(x) + i] = y[i]
      <4>1. x \in Seq(PlannedFields) /\ y \in Seq(PlannedFields) /\ u = x \o y
        BY <2>1, <2>9
      <4> QED BY ONLY <4>1, Joined
    <3> QED BY <2>1, <3>1
  <2>11. /\ fields \in Seq(PlannedFields) /\ Len(fields) = Len(u) + Len(z) /\ DOMAIN fields = 1 .. Len(fields)
         /\ \A i \in 1 .. Len(u) : fields[i] = u[i]
         /\ \A i \in 1 .. Len(z) : fields[Len(u) + i] = z[i]
    <3>1. u \in Seq(PlannedFields) /\ z \in Seq(PlannedFields) /\ fields = u \o z
      BY <2>1, <2>9, <2>10
    <3> QED BY ONLY <3>1, Joined
  <2>2. fields \in Seq(PlannedFields) /\ Len(fields) = 5 /\ DOMAIN fields = 1 .. 5
    BY <2>1, <2>10, <2>11
  <2>3. fields[1] = a /\ fields[2] = b /\ fields[3] = c /\ fields[4] = d /\ fields[5] = e
    BY <2>1, <2>10, <2>11
  <2>4. \A i \in 1 .. 5 : i = 1 \/ i = 2 \/ i = 3 \/ i = 4 \/ i = 5
    OBVIOUS
  <2>5. \A i \in 1 .. Len(fields) - 1 :
          \E type \in {"uuid", "title", "username", "password"} : fields[i] = NewField(type, "sound")
    BY <1>3, <2>2, <2>3, <2>4
  <2>6. \A i, j \in DOMAIN fields : fields[i].field.type = fields[j].field.type => i = j
    BY <1>2, <2>2, <2>3, <2>4
  <2>7. \A type \in {"uuid", "title", "password"} : \E i \in DOMAIN fields : fields[i].field.type = type
    <3>1. 1 \in DOMAIN fields /\ 2 \in DOMAIN fields /\ 4 \in DOMAIN fields
      BY <2>2
    <3> QED BY <1>2, <2>3, <3>1
  <2>8. fields[Len(fields)] = NewField("end", "empty") /\ Len(fields) > 0
    BY <1>3, <2>2, <2>3
  <2> QED BY <2>2, <2>5, <2>6, <2>7, <2>8 DEF NewRecord, fields
<1>6. CASE ~user
  <2> DEFINE x == <<a, b>>
             z == <<d, e>>
  <2>1. /\ x \in Seq(PlannedFields) /\ Len(x) = 2 /\ x[1] = a /\ x[2] = b
        /\ z \in Seq(PlannedFields) /\ Len(z) = 2 /\ z[1] = d /\ z[2] = e
        /\ fields = x \o <<>> \o z
    BY <1>1, <1>4, <1>6
  <2> HIDE DEF x, z
  <2>9. fields = x \o z
    BY <2>1, ConcatEmptySeq
  <2>10. /\ fields \in Seq(PlannedFields) /\ Len(fields) = Len(x) + Len(z) /\ DOMAIN fields = 1 .. Len(fields)
         /\ \A i \in 1 .. Len(x) : fields[i] = x[i]
         /\ \A i \in 1 .. Len(z) : fields[Len(x) + i] = z[i]
    <3>1. x \in Seq(PlannedFields) /\ z \in Seq(PlannedFields) /\ fields = x \o z
      BY <2>1, <2>9
    <3> QED BY ONLY <3>1, Joined
  <2>2. fields \in Seq(PlannedFields) /\ Len(fields) = 4 /\ DOMAIN fields = 1 .. 4
    BY <2>1, <2>10
  <2>3. fields[1] = a /\ fields[2] = b /\ fields[3] = d /\ fields[4] = e
    BY <2>1, <2>10
  <2>4. \A i \in 1 .. 4 : i = 1 \/ i = 2 \/ i = 3 \/ i = 4
    OBVIOUS
  <2>5. \A i \in 1 .. Len(fields) - 1 :
          \E type \in {"uuid", "title", "username", "password"} : fields[i] = NewField(type, "sound")
    BY <1>3, <2>2, <2>3, <2>4
  <2>6. \A i, j \in DOMAIN fields : fields[i].field.type = fields[j].field.type => i = j
    BY <1>2, <2>2, <2>3, <2>4
  <2>7. \A type \in {"uuid", "title", "password"} : \E i \in DOMAIN fields : fields[i].field.type = type
    <3>1. 1 \in DOMAIN fields /\ 2 \in DOMAIN fields /\ 3 \in DOMAIN fields
      BY <2>2
    <3> QED BY <1>2, <2>3, <3>1
  <2>8. fields[Len(fields)] = NewField("end", "empty") /\ Len(fields) > 0
    BY <1>3, <2>2, <2>3
  <2> QED BY <2>2, <2>5, <2>6, <2>7, <2>8 DEF NewRecord, fields
<1> QED BY <1>5, <1>6

AddedRecord(doc, user) == [handle |-> FreshHandle(doc), fields |-> AddedFields(user)]

\* One record added.
LEMMA AddedKind ==
    ASSUME NEW doc \in Documents, Faithful(doc), NEW user \in BOOLEAN
    PROVE  Kind(doc, Append(Plan(doc), AddedRecord(doc, user)), 0)
<1> DEFINE q == AddedRecord(doc, user)
           plan == Append(Plan(doc), q)
           n == Len(doc.records)
           origin == [k \in 1 .. n + 1 |-> IF k <= n THEN k ELSE 0]
<1>1. /\ Plan(doc) \in Seq(PlannedRecords) /\ Len(Plan(doc)) = n /\ n \in Nat
      /\ DOMAIN doc.records = 1 .. n
      /\ \A k \in DOMAIN doc.records : Plan(doc)[k] = Planned(doc, k)
  BY PlanIs
<1>2. doc.version \in 1 .. 2
  BY DEF Documents
<1>3. /\ FreshHandle(doc) \in Nat \ {0} /\ q.handle = FreshHandle(doc)
      /\ \A r \in DOMAIN doc.records : q.handle # doc.records[r].handle
  BY FreshIs DEF AddedRecord
<1>4. Good(q, doc.version) /\ \A i \in DOMAIN q.fields : q.fields[i].from = None
  BY <1>2, <1>3, AddedIs, NewRecordGood DEF AddedRecord
<1>5. q \in PlannedRecords
  BY <1>4 DEF Good
<1> HIDE DEF q
<1>6. /\ plan \in Seq(PlannedRecords) /\ DOMAIN plan = 1 .. n + 1
      /\ \A k \in 1 .. n + 1 : plan[k] = IF k = n + 1 THEN q ELSE Plan(doc)[k]
  <2>1. plan \in Seq(PlannedRecords) /\ Len(plan) = n + 1
    BY <1>1, <1>5, Appended
  <2>2. \A k \in 1 .. n + 1 : plan[k] = IF k = n + 1 THEN q ELSE Plan(doc)[k]
    BY <1>1, <1>5, AppendProperties
  <2> QED BY <2>1, <2>2, SeqDomain
<1>7. origin \in [DOMAIN plan -> 0 .. n] /\ \A k \in DOMAIN plan : origin[k] = IF k <= n THEN k ELSE 0
  BY <1>1, <1>6
<1> HIDE DEF plan, origin
<1>9. \A k \in DOMAIN plan : origin[k] # 0 => /\ plan[k] = Planned(doc, origin[k]) /\ origin[k] = k
                                             /\ origin[k] \in DOMAIN doc.records
  BY <1>1, <1>6, <1>7
<1>10. \A k \in DOMAIN plan : origin[k] = 0 => plan[k] = q /\ k = n + 1
  BY <1>1, <1>6, <1>7
<1>11. \A k, l \in DOMAIN plan : origin[k] = origin[l] => k = l
  BY <1>9, <1>10
<1>12. Assembly(doc, plan, origin, 0, "title")
  <2>1. q.handle \notin Handles(doc)
    BY <1>3 DEF Handles
  <2>2. \A r \in DOMAIN plan : origin[r] = 0 =>
          /\ Good(plan[r], doc.version) /\ \A i \in DOMAIN plan[r].fields : plan[r].fields[i].from = None
          /\ plan[r].handle \notin Handles(doc)
    BY <1>4, <1>10, <2>1
  <2> QED BY <1>6, <1>7, <1>9, <1>11, <2>2 DEF Assembly, RecordSchema
<1>13. Monotone(plan, origin)
  BY <1>9 DEF Monotone
<1> QED BY <1>12, <1>13, AssemblyKind DEF plan, q

\* One record edited by setting or removing a field.
LEMMA ReplacedByEdit ==
    ASSUME NEW doc \in Documents, Faithful(doc), NEW r \in DOMAIN doc.records,
           NEW p, p = Planned(doc, r), NEW type, NEW payload, Editable(type, payload), Unambiguous(p, type)
    PROVE  /\ RecordSchema[type].since <= doc.version
              => Kind(doc, [Plan(doc) EXCEPT ![r] = With(p, type, payload)], 0)
           /\ payload = "sound" /\ type \notin {"title", "password"} /\ Positions(p, type) # {}
              => Kind(doc, [Plan(doc) EXCEPT ![r] = Without(p, type)], 0)
<1>1. Original(p) /\ Good(p, doc.version) /\ doc.version \in Nat
  BY PlannedOriginal DEF Documents
<1>2. p.handle = doc.records[r].handle
  BY PlannedIs
<1>3. type \in DOMAIN RecordSchema
  BY EditableTypes
<1>4. ASSUME NEW q, NEW new, Edited(p, q, type, new), Novel(new, type), Good(q, doc.version), Follows(p, q)
      PROVE  Kind(doc, [Plan(doc) EXCEPT ![r] = q], 0)
  <2>1. Except(Written(q), type) = Except(Written(p), type)
    BY <1>1, <1>4, EditedExcept
  <2>2. q.handle = doc.records[r].handle
    BY <1>2, <1>4 DEF Edited
  <2> QED BY <1>3, <1>4, <2>1, <2>2, ReplacedKind
<1>5. ASSUME RecordSchema[type].since <= doc.version
      PROVE  Kind(doc, [Plan(doc) EXCEPT ![r] = With(p, type, payload)], 0)
  <2> DEFINE q == With(p, type, payload)
             new == NewField(type, payload)
  <2>1. Edited(p, q, type, new) /\ Novel(new, type) /\ Good(q, doc.version) /\ Follows(p, q)
    BY <1>1, <1>5, WithGood
  <2> HIDE DEF q, new
  <2>2. Kind(doc, [Plan(doc) EXCEPT ![r] = q], 0)
    BY <2>1, <1>4
  <2> QED BY <2>2 DEF q
<1>6. ASSUME payload = "sound", type \notin {"title", "password"}, Positions(p, type) # {}
      PROVE  Kind(doc, [Plan(doc) EXCEPT ![r] = Without(p, type)], 0)
  <2> DEFINE q == Without(p, type)
             new == NewField(type, "sound")
  <2>1. Edited(p, q, type, new) /\ Novel(new, type) /\ Good(q, doc.version) /\ Follows(p, q)
    BY <1>1, <1>6, WithoutGood
  <2> HIDE DEF q, new
  <2>2. Kind(doc, [Plan(doc) EXCEPT ![r] = q], 0)
    BY <2>1, <1>4
  <2> QED BY <2>2 DEF q
<1> QED BY <1>5, <1>6

\* every edit commits a plan of that kind
CommitsKind == \E plan, moved : moved \in {0, 1} /\ Commit(plan, moved) /\ Kind(live.doc, plan, moved)

\* Apply commits such a plan.
LEMMA ApplyKind ==
    ASSUME live.doc \in Documents, Faithful(live.doc), NEW r \in DOMAIN live.doc.records, Apply(r)
    PROVE  CommitsKind
<1> DEFINE p == Planned(live.doc, r)
           plan(q) == [Plan(live.doc) EXCEPT ![r] = q]
<1>1. PICK type \in DOMAIN RecordSchema :
        /\ RecordSchema[type].editable /\ RecordSchema[type].kind = "text"
        /\ Unambiguous(p, type)
        /\ \/ \E payload \in {"other", "empty"} :
                /\ Known(type)
                /\ Mandatory(RecordSchema[type]) => payload # "empty"
                /\ Commit(plan(With(p, type, payload)), 0)
           \/ /\ ~Mandatory(RecordSchema[type])
              /\ Positions(p, type) # {}
              /\ Commit(plan(Without(p, type)), 0)
  BY DEF Apply
<1> HIDE DEF p
<1>2. CASE \E payload \in {"other", "empty"} :
                /\ Known(type)
                /\ Mandatory(RecordSchema[type]) => payload # "empty"
                /\ Commit(plan(With(p, type, payload)), 0)
  <2>1. PICK payload \in {"other", "empty"} :
                /\ Known(type)
                /\ Mandatory(RecordSchema[type]) => payload # "empty"
                /\ Commit(plan(With(p, type, payload)), 0)
    BY <1>2
  <2>2. Editable(type, payload) /\ RecordSchema[type].since <= live.doc.version
    BY <1>1, <2>1 DEF Editable, Known
  <2>3. Kind(live.doc, plan(With(p, type, payload)), 0)
    BY <1>1, <2>2, ReplacedByEdit DEF p
  <2> QED BY <2>1, <2>3 DEF CommitsKind
<1>3. CASE /\ ~Mandatory(RecordSchema[type])
           /\ Positions(p, type) # {}
           /\ Commit(plan(Without(p, type)), 0)
  <2>1. Editable(type, "sound")
    BY <1>1, <1>3 DEF Editable
  <2>2. type \notin {"title", "password"}
    BY <1>3, <2>1, EditableTypes
  <2>3. Kind(live.doc, plan(Without(p, type)), 0)
    BY <1>1, <1>3, <2>1, <2>2, ReplacedByEdit DEF p
  <2> QED BY <1>3, <2>3 DEF CommitsKind
<1> QED BY <1>1, <1>2, <1>3

\* Protect commits such a plan.
LEMMA ProtectKind ==
    ASSUME live.doc \in Documents, Faithful(live.doc), NEW r \in DOMAIN live.doc.records, Protect(r)
    PROVE  CommitsKind
<1> DEFINE p == Planned(live.doc, r)
           plan(q) == [Plan(live.doc) EXCEPT ![r] = q]
           type == "protected"
<1>1. /\ Unambiguous(p, type)
      /\ \/ /\ Known(type) /\ Commit(plan(With(p, type, "sound")), 0)
         \/ /\ IsProtected(live.doc.records[r].fields) /\ Commit(plan(Without(p, type)), 0)
  BY DEF Protect
<1>2. Editable(type, "sound")
  BY DEF Editable
<1>3. CASE Known(type) /\ Commit(plan(With(p, type, "sound")), 0)
  <2>1. RecordSchema[type].since <= live.doc.version
    BY <1>3 DEF Known
  <2>2. Kind(live.doc, plan(With(p, type, "sound")), 0)
    BY <1>1, <1>2, <2>1, ReplacedByEdit
  <2> QED BY <1>3, <2>2 DEF CommitsKind
<1>4. CASE IsProtected(live.doc.records[r].fields) /\ Commit(plan(Without(p, type)), 0)
  <2> DEFINE fields == live.doc.records[r].fields
             I == {i \in 1 .. Len(fields) : fields[i].type = "protected"}
  <2>1. SelectInSeq(fields, LAMBDA f : f.type = "protected") = IF I # {} THEN Min(I) ELSE 0
    BY DEF SelectInSeq
  <2>2. I # {}
    BY <1>4, <2>1 DEF IsProtected
  <2>3. /\ DOMAIN p.fields = DOMAIN fields /\ fields \in Seq(Fields)
        /\ \A i \in DOMAIN fields : p.fields[i].field = fields[i]
    BY PlannedIs
  <2>4. DOMAIN fields = 1 .. Len(fields)
    BY <2>3, SeqDomain
  <2>5. \A i \in I : i \in Positions(p, type)
    BY <2>3, <2>4 DEF Positions
  <2>6. Kind(live.doc, plan(Without(p, type)), 0)
    BY <1>1, <1>2, <2>2, <2>5, ReplacedByEdit
  <2> QED BY <1>4, <2>6 DEF CommitsKind
<1> QED BY <1>1, <1>3, <1>4

\* Every edit commits such a plan.
LEMMA EditKind ==
    ASSUME live.doc \in Documents, Faithful(live.doc), Edit
    PROVE  CommitsKind
<1>1. CASE Add
  <2>1. PICK user \in BOOLEAN : Commit(Append(Plan(live.doc), AddedRecord(live.doc, user)), 0)
    BY <1>1 DEF Add, AddedRecord, AddedFields, FreshHandle
  <2>2. Kind(live.doc, Append(Plan(live.doc), AddedRecord(live.doc, user)), 0)
    BY AddedKind
  <2> QED BY <2>1, <2>2 DEF CommitsKind
<1>2. ASSUME NEW r \in DOMAIN live.doc.records, Apply(r) \/ Protect(r) \/ Delete(r) \/ Move(r)
      PROVE  CommitsKind
  <2>1. CASE Apply(r)
    BY <2>1, ApplyKind
  <2>2. CASE Protect(r)
    BY <2>2, ProtectKind
  <2>3. CASE Delete(r)
    <3>1. Commit(RemoveAt(Plan(live.doc), r), 0)
      BY <2>3 DEF Delete
    <3>2. Kind(live.doc, RemoveAt(Plan(live.doc), r), 0)
      BY DeletedKind
    <3> QED BY <3>1, <3>2 DEF CommitsKind
  <2>4. CASE Move(r)
    <3>1. PICK to \in DOMAIN live.doc.records :
            Commit(InsertAt(RemoveAt(Plan(live.doc), r), to, Planned(live.doc, r)), 1)
      BY <2>4 DEF Move
    <3>2. Kind(live.doc, InsertAt(RemoveAt(Plan(live.doc), r), to, Planned(live.doc, r)), 1)
      BY MovedKind
    <3> QED BY <3>1, <3>2 DEF CommitsKind
  <2> QED BY <1>2, <2>1, <2>2, <2>3, <2>4
<1> QED BY <1>1, <1>2 DEF Edit

-----------------------------------------------------------------------------
(* What is written is read back *)

\* What was classified is still there.
LEMMA BareClassified ==
    ASSUME NEW section, NEW fields \in Seq(Frames)
    PROVE  Bare(Classified(section, fields)) = fields
<1> DEFINE c == Classified(section, fields)
           b == Bare(c)
<1>1. DOMAIN fields = 1 .. Len(fields) /\ Len(fields) \in Nat /\ \A i \in DOMAIN fields : fields[i] \in Frames
  BY SeqDomain
<1>2. c \in Seq(Fields) /\ Len(c) = Len(fields) /\ DOMAIN c = DOMAIN fields
  BY <1>1, ClassifiedTyped DEF Classified
<1>3. \A i \in DOMAIN fields : c[i].type = fields[i].type /\ c[i].payload = fields[i].payload
  BY DEF Classified
<1> HIDE DEF c
<1>4. b \in Seq(Frames) /\ Len(b) = Len(fields)
      /\ \A i \in DOMAIN fields : b[i].type = fields[i].type /\ b[i].payload = fields[i].payload
  BY <1>2, <1>3, BareTyped
<1> HIDE DEF b
<1>5. \A i \in DOMAIN fields : b[i] = fields[i]
  <2>1. DOMAIN b = DOMAIN fields /\ \A i \in DOMAIN b : b[i] \in Frames
    BY <1>1, <1>4, SeqDomain
  <2> QED BY <1>1, <1>4, <2>1, FrameEqual
<1>6. b = fields
  BY <1>1, <1>4, <1>5, SeqEqual
<1> QED BY <1>6 DEF b, c

\* What the reader builds is faithful, and its warnings are in order.
LEMMA DocumentFaithful ==
    ASSUME NEW header \in Seq(Frames), NEW records \in Seq(Seq(Frames)), Conforms(header, records)
    PROVE  /\ Document(header, records) \in Documents
           /\ Faithful(Document(header, records)) /\ InOrder(Document(header, records))
<1> DEFINE doc == Document(header, records)
<1>1. VersionConforms(header)
  BY DEF Conforms
<1>2. doc \in Documents
  BY <1>1, DocumentTyped
<1>3. DOMAIN records = 1 .. Len(records) /\ Len(records) \in Nat /\ \A r \in DOMAIN records : records[r] \in Seq(Frames)
  BY SeqDomain
<1>4. /\ doc.version = Level[header[1].payload] /\ doc.header = Classified(0, header)
      /\ doc.warnings = Warnings(header, records) /\ DOMAIN doc.records = DOMAIN records
      /\ \A r \in DOMAIN records : /\ doc.records[r].handle = r
                                   /\ doc.records[r].fields = Classified(r, records[r])
  BY DEF Document
<1> HIDE DEF doc
<1>5. Bare(doc.header) = header
  BY <1>4, BareClassified
<1>6. /\ BareRecords(doc) \in Seq(Seq(Frames)) /\ Len(BareRecords(doc)) = Len(doc.records)
      /\ DOMAIN BareRecords(doc) = DOMAIN records
      /\ \A r \in DOMAIN records : BareRecords(doc)[r] = records[r]
  <2>1. \A r \in DOMAIN records : Bare(doc.records[r].fields) = records[r]
    BY <1>3, <1>4, BareClassified
  <2> QED BY <1>2, <1>4, <2>1, BareRecordsTyped
<1>7. BareRecords(doc) = records
  <2>1. doc.records \in Seq(Records)
    BY <1>2 DEF Documents
  <2>2. Len(BareRecords(doc)) = Len(records)
    BY <1>3, <1>4, <1>6, <2>1, SeqDomain
  <2>3. \A r \in 1 .. Len(records) : BareRecords(doc)[r] = records[r]
    BY <1>3, <1>6
  <2> DEFINE bare == BareRecords(doc)
  <2>4. bare \in Seq(Seq(Frames)) /\ Len(bare) = Len(records) /\ \A r \in 1 .. Len(records) : bare[r] = records[r]
    BY <1>6, <2>2, <2>3
  <2> HIDE DEF bare
  <2>5. bare = records
    BY <2>4, SeqEqual
  <2> QED BY <2>5 DEF bare
<1>8. /\ Ascending(Earlier, doc.warnings) /\ doc.warnings \in Seq(Alerts)
  BY <1>4, WarningsAre
<1>9. \A i, j \in DOMAIN doc.warnings : doc.warnings[i] = doc.warnings[j] => i = j
  BY <1>8, EarlierAsymmetric, AscendingInjective
<1>10. \A r \in DOMAIN doc.records : doc.records[r].handle # 0
  BY <1>3, <1>4
<1>11. Faithful(doc)
  BY <1>4, <1>5, <1>7, <1>9, <1>10 DEF Faithful
<1>12. InOrder(doc)
  BY <1>4, <1>5, <1>7 DEF InOrder
<1> QED BY <1>2, <1>11, <1>12 DEF doc

\* what can be written is read back as the same document
ReadsBack(wire, doc) ==
    LET at == Parsed(wire)
    IN  /\ at \in Progress /\ ~at.failed
        /\ Conforms(at.header, at.records) /\ TextFits(at.header, at.records)
        /\ EqualExact(doc, Document(at.header, at.records))

\* Fields are the same as themselves.
LEMMA SameFieldsSame ==
    ASSUME NEW a
    PROVE  SameFields(a, a)
BY DEF SameFields

\* What the writer writes of a document it accepts, the reader reads as that document.
LEMMA WritableReads ==
    ASSUME NEW doc \in Documents, Writable(doc)
    PROVE  ReadsBack(Wire(doc), doc)
<1> DEFINE header == Bare(doc.header)
           bare == BareRecords(doc)
           at == Parsed(Wire(doc))
           new == Document(header, bare)
<1>1. /\ Len(doc.records) <= MaxRecords /\ FieldCount(doc.header, bare) <= MaxFields /\ TextFits(header, bare)
      /\ Conforms(header, bare) /\ Level[doc.header[1].payload] = doc.version
      /\ doc.header = Classified(0, header) /\ doc.warnings = Warnings(header, bare)
      /\ \A r \in DOMAIN doc.records : doc.records[r].fields = Classified(r, bare[r])
  <2>1. \A r \in DOMAIN doc.records : bare[r] = Bare(doc.records[r].fields)
    BY BareRecordsTyped
  <2> QED BY <2>1 DEF Writable, WithinLimits, EvidenceAgrees
<1>2. doc.header \in Seq(Fields) /\ doc.records \in Seq(Records)
  BY DEF Documents
<1>3. /\ header \in Seq(Frames) /\ Len(header) = Len(doc.header)
      /\ \A i \in DOMAIN doc.header : header[i].payload = doc.header[i].payload
  BY <1>2, BareTyped
<1>4. bare \in Seq(Seq(Frames)) /\ Len(bare) = Len(doc.records) /\ DOMAIN bare = DOMAIN doc.records
  BY BareRecordsTyped
<1>5. Wire(doc) = header \o FlattenSeq(bare)
  BY DEF Wire
<1> HIDE DEF header, bare
<1>6. \A r \in DOMAIN bare : bare[r] \in Seq(Frames)
  BY <1>4, SeqDomain
<1>7. Ended(header)
  BY <1>1, <1>3, SectionEnded DEF Conforms
<1>8. \A r \in DOMAIN bare : Ended(bare[r])
  BY <1>1, <1>6, SectionEnded DEF Conforms, RecordConforms
<1>9. Len(header) + Len(FlattenSeq(bare)) <= MaxFields
  BY <1>1, <1>3 DEF FieldCount
<1>10. at \in Progress /\ ~at.failed /\ at.header = header /\ at.records = bare
  <2>1. /\ header \in Seq(Frames) /\ Ended(header)
        /\ bare \in Seq(Seq(Frames)) /\ \A r \in DOMAIN bare : Ended(bare[r])
        /\ Len(bare) <= MaxRecords /\ Len(header) + Len(FlattenSeq(bare)) <= MaxFields
    BY <1>1, <1>3, <1>4, <1>7, <1>8, <1>9
  <2> DEFINE bt == Parsed(header \o FlattenSeq(bare))
  <2>2. bt \in Progress /\ ~bt.failed /\ bt.header = header /\ bt.records = bare
    BY ONLY <2>1, ParsedAll
  <2>3. at = bt
    BY <1>5
  <2> HIDE DEF at, bt
  <2> QED BY <2>2, <2>3
<1>11. /\ new.version = Level[header[1].payload] /\ new.header = Classified(0, header)
       /\ new.warnings = Warnings(header, bare) /\ DOMAIN new.records = DOMAIN bare
       /\ \A r \in DOMAIN bare : new.records[r].fields = Classified(r, bare[r])
  BY DEF Document
<1>12. header[1].payload = doc.header[1].payload
  <2>1. header # <<>>
    BY <1>1 DEF Conforms, VersionConforms
  <2>2. Len(doc.header) # 0
    BY <1>3, <2>1, EmptySeq
  <2>3. 1 \in DOMAIN doc.header
    BY <1>2, <2>2, SeqDomain
  <2> QED BY <1>3, <2>3
<1>13. Len(new.records) = Len(doc.records)
  <2>1. new \in Documents
    BY <1>1, <1>3, <1>4, DocumentTyped DEF Conforms
  <2>2. new.records \in Seq(Records)
    BY <2>1 DEF Documents
  <2> HIDE DEF new
  <2> QED BY <1>2, <1>4, <1>11, <2>2, SeqDomain
<1> HIDE DEF new, at
<1>14. EqualExact(doc, new)
  <2>1. SameFields(doc.header, new.header)
    BY <1>1, <1>11, SameFieldsSame
  <2>2. \A r \in DOMAIN doc.records : SameFields(doc.records[r].fields, new.records[r].fields)
    BY <1>1, <1>4, <1>11, SameFieldsSame
  <2> QED BY <1>1, <1>11, <1>12, <1>13, <2>1, <2>2 DEF EqualExact
<1>15. ReadsBack(Wire(doc), doc)
  <2>1. EqualExact(doc, Document(at.header, at.records))
    BY <1>10, <1>14 DEF new
  <2> QED BY <1>1, <1>10, <2>1 DEF ReadsBack, at
<1> QED BY <1>15

-----------------------------------------------------------------------------
(* The reader *)

ReadRecords ==
    [step : ReadSteps \cup {"idle", "cleanup"}, use : ReadUses, lent : BOOLEAN,
     owners : SUBSET ReadOwners, got : Contents \cup {None}, at : Progress, doc : Documents \cup {None}]

WriteRecords ==
    [step : WriteSteps \cup {"idle", "publish", "cleanup", "abort"},
     kind : {"save", "create", "export"}, doc : Documents \cup {None},
     strength : 1 .. 2, salt : Nat, owners : SUBSET WriteOwners,
     verified : Contents \cup {None}, adopted : Contents \cup {None}, faulty : BOOLEAN]

\* The types of the variables, one by one.
LEMMA Typed ==
    ASSUME CodecInv
    PROVE  /\ read \in ReadRecords /\ write \in WriteRecords
           /\ file \in Contents \cup {None} /\ candidate \in Candidates \cup {None}
           /\ count \in [edits : Nat, moves : Nat, tasks : Nat, faults : Nat]
           /\ live \in Sessions \cup {None}
           /\ None \notin Contents /\ None \notin Candidates /\ None \notin Sessions /\ None \notin Documents
BY VaultCodecAssumption DEF CodecInv, NothingIsLeft, TypeOK, ReadRecords, WriteRecords

\* payloads are held only with what they borrow
Borrowed ==
    read.owners \cap {"builder", "document"} # {} =>
      /\ read.lent \/ "snapshot" \in read.owners
      /\ {"keys", "crypto"} \cap read.owners # {}

\* what a step of a transaction changes
ReadOnly == UNCHANGED <<file, candidate, output, live, write, left, count>>

\* A step of a transaction keeps the invariant if it keeps the part about reading.
LEMMA ReaderStep ==
    ASSUME CodecInv, ReadOnly, read.step \in ReadSteps, read' \in ReadRecords,
           read'.step \in (ReadSteps \ {"capture"}) \cup {"cleanup"},
           read'.use = read.use, read'.lent = read.lent,
           \/ read'.got = read.got
           \/ read.use = "open" /\ read'.got = file
           \/ read.use # "open" /\ read.step = "capture",
           read'.step \in AfterKey /\ read.use \in {"verify", "adopt"} => Fits(read'.got),
           ~write.faulty /\ read.use # "open" => read'.step # "cleanup" /\ read'.got = candidate.content,
           ReadInv', OwnersInv', Borrowed'
    PROVE  CodecInv'
<1>1. /\ file' = file /\ candidate' = candidate /\ output' = output /\ live' = live /\ write' = write
      /\ left' = left /\ count' = count
  BY DEF ReadOnly
<1>2. read.step # "idle" /\ read'.step # "idle" /\ read'.step # "capture"
  BY DEF ReadSteps
<1>3. TypeOK'
  BY <1>1 DEF CodecInv, NothingIsLeft, TypeOK, ReadRecords
<1>4. NothingIsLeft'
  BY <1>1, <1>2, <1>3 DEF CodecInv, NothingIsLeft, Borrowed
<1>5. PurposeInv'
  <2>1. /\ read.use = "open" => /\ write.step = "idle" /\ live = None
                                /\ read.got # None => read.got = file
        /\ read.use \in {"verify", "verifyNew"} => write.step = "reopen"
        /\ read.use \in {"adopt", "adoptNew"} => write.step = "handed" /\ write.kind # "export"
        /\ read.use \in {"verify", "adopt"} => ~Fresh
        /\ read.use \in {"verifyNew", "adoptNew"} => Fresh
    BY <1>2 DEF CodecInv, PurposeInv
  <2>2. (Fresh' <=> Fresh) /\ (Fits(read.got)' <=> Fits(read'.got))
    BY <1>1 DEF Fresh, Fits, SerialStrength
  <2> QED BY <1>1, <2>1, <2>2 DEF PurposeInv
<1>6. SessionInv' /\ DocumentInv' /\ TaskInv'
  BY <1>1 DEF CodecInv, SessionInv, DocumentInv, TaskInv, Fresh
<1>7. VerifiedInv'
  BY <1>1 DEF CodecInv, VerifiedInv, AsIntended, Fresh, Fits, SerialStrength
<1>8. UndisturbedInv'
  BY <1>1, <1>2 DEF CodecInv, UndisturbedInv, Made
<1> QED BY <1>4, <1>5, <1>6, <1>7, <1>8 DEF CodecInv

\* A refusal keeps it, for a file a user opens or after a fault.
LEMMA Refusal ==
    ASSUME CodecInv, ReadOnly, read.step \in ReadSteps, Refuse, write.faulty \/ read.use = "open"
    PROVE  CodecInv'
<1>1. read \in ReadRecords /\ write \in WriteRecords
  BY Typed
<1>2. /\ read' \in ReadRecords /\ read'.step = "cleanup" /\ read'.use = read.use /\ read'.lent = read.lent
      /\ read'.got = read.got /\ read'.owners = read.owners
  BY <1>1 DEF Refuse, ReadRecords
<1>3. Borrowed'
  BY <1>2 DEF CodecInv, NothingIsLeft, Borrowed
<1>4. ReadInv' /\ OwnersInv'
  BY <1>2 DEF ReadInv, OwnersInv, ReadSteps
<1>5. "cleanup" \notin AfterKey
  BY DEF AfterKey
<1> QED BY <1>2, <1>3, <1>4, <1>5, ReaderStep

\* What a reader of the candidate finds as long as nobody has interfered.
LEMMA Undisturbed ==
    ASSUME CodecInv, read.step # "idle", read.use # "open", ~write.faulty
    PROVE  /\ candidate # None /\ candidate.content.seal = "sound"
           /\ candidate.content.id = count.tasks
           /\ candidate.content.wire = Wire(write.doc) /\ ReadsBack(candidate.content.wire, write.doc)
           /\ read.use \in {"verify", "adopt"} => Fits(candidate.content)
           /\ read.step # "capture" => read.got = candidate.content
<1>1. read \in ReadRecords /\ write \in WriteRecords /\ candidate \in Candidates \cup {None} /\ None \notin Candidates
  BY Typed
<1>2. read.use \in {"verify", "verifyNew", "adopt", "adoptNew"}
  BY <1>1 DEF ReadRecords, ReadUses
<1>3. write.step \in {"reopen", "handed"} /\ (read.use \in {"verify", "adopt"} => ~Fresh)
  BY <1>2 DEF CodecInv, PurposeInv
<1>4. candidate = Made(Wire(write.doc), "sound") /\ Writable(write.doc)
  BY <1>3 DEF CodecInv, UndisturbedInv
<1>5. /\ candidate.content.seal = "sound" /\ candidate.content.id = count.tasks
      /\ candidate.content.wire = Wire(write.doc) /\ candidate.content.salt = write.salt
      /\ candidate.content.strength = write.strength /\ candidate.ours
  BY <1>4 DEF Made, Content
<1>6. candidate # None
  <2>1. Made(Wire(write.doc), "sound") \in Candidates
    <3>1. write.doc \in Documents
      BY <1>1, <1>3 DEF CodecInv, TaskInv, WriteRecords
    <3>2. Wire(write.doc) \in Seq(Frames) /\ write.strength \in 1 .. 2 /\ write.salt \in Nat /\ count.tasks \in Nat
      BY <1>1, <3>1, WireTyped, Typed DEF WriteRecords
    <3> QED BY <3>2 DEF Made, Content, Candidates, Contents, Seals
  <2> QED BY <1>1, <1>4, <2>1
<1>7. write.doc \in Documents
  BY <1>1, <1>3 DEF CodecInv, TaskInv, WriteRecords
<1>8. ReadsBack(candidate.content.wire, write.doc)
  BY <1>4, <1>5, <1>7, WritableReads
<1>9. ASSUME read.use \in {"verify", "adopt"} PROVE Fits(candidate.content)
  <2>1. /\ live # None /\ write.salt = live.salt /\ write.strength = 2
    BY <1>1, <1>3, <1>9 DEF CodecInv, TaskInv, Fresh
  <2>2. live.strength = 2 \/ live.hardened
    BY <2>1 DEF CodecInv, SessionInv
  <2> QED BY <1>5, <2>1, <2>2 DEF Fits, SerialStrength
<1>10. read.step # "capture" => read.got = candidate.content
  BY DEF CodecInv, UndisturbedInv
<1> QED BY <1>5, <1>6, <1>8, <1>9, <1>10

\* One step of a transaction goes on or is refused.
LEMMA Proceeds ==
    ASSUME CodecInv, NEW next \in ReadSteps, NEW accepted \in BOOLEAN, NEW gained \in SUBSET ReadOwners,
           NEW spent, Proceed(next, accepted, gained, spent)
    PROVE  \/ ~accepted /\ Refuse
           \/ /\ accepted /\ read' \in ReadRecords /\ read'.step = next
              /\ read'.use = read.use /\ read'.lent = read.lent /\ read'.got = read.got
              /\ read'.at = read.at /\ read'.doc = read.doc
              /\ read'.owners = (read.owners \ spent) \cup gained
<1>1. read \in ReadRecords
  BY Typed
<1>2. CASE accepted
  <2>1. read' = [read EXCEPT !.step = next, !.owners = (@ \ spent) \cup gained]
    BY <1>2 DEF Proceed
  <2>2. (read.owners \ spent) \cup gained \in SUBSET ReadOwners
    BY <1>1 DEF ReadRecords
  <2> QED BY <1>1, <1>2, <2>1, <2>2 DEF ReadRecords
<1>3. CASE ~accepted
  BY <1>3 DEF Proceed
<1> QED BY <1>2, <1>3

\* A reader of the candidate is past the key only with a key that fits.
LEMMA FitsKept ==
    ASSUME CodecInv, read.step \in AfterKey, read.use \in {"verify", "adopt"}
    PROVE  Fits(read.got)
BY DEF CodecInv, PurposeInv, AfterKey

\* The owners, by name.
LEMMA OwnerNames ==
    ReadOwners = {"builder", "document", "crypto", "keys", "hardened", "derived", "snapshot"}
BY DEF ReadOwners, CloseOrder, ToSet

\* A candidate that was captured is the one that is there.
LEMMA CaptureKept ==
    ASSUME CodecInv, ReadOnly, Capture
    PROVE  CodecInv'
<1> DEFINE there == IF read.use = "open" THEN file
                    ELSE IF candidate = None THEN None ELSE candidate.content
<1>1. read \in ReadRecords /\ write \in WriteRecords /\ read.step = "capture" /\ read.step \in ReadSteps
  BY Typed DEF Capture, ReadSteps
<1>2. there \in Contents \cup {None}
  BY Typed DEF Candidates
<1>3. CASE there = None
  <2>1. Refuse
    BY <1>3 DEF Capture
  <2>2. write.faulty \/ read.use = "open"
    <3> SUFFICES ASSUME ~write.faulty, read.use # "open" PROVE FALSE
      OBVIOUS
    <3>1. candidate # None
      BY <1>1, Undisturbed
    <3>2. candidate.content \in Contents /\ None \notin Contents
      BY <3>1, Typed DEF Candidates
    <3> QED BY <1>3, <3>1, <3>2
  <2> QED BY <1>1, <2>1, <2>2, Refusal
<1>4. CASE there # None
  <2> HIDE DEF there
  <2>1. read' = [read EXCEPT !.step = "envelope", !.owners = {"snapshot"}, !.got = there]
    BY <1>4 DEF Capture, there
  <2>2. /\ read' \in ReadRecords /\ read'.step = "envelope" /\ read'.use = read.use /\ read'.lent = read.lent
        /\ read'.owners = {"snapshot"} /\ read'.got = there
    BY <1>1, <1>2, <2>1, OwnerNames DEF ReadRecords, ReadSteps
  <2>3. ~read.lent
    BY <1>1 DEF CodecInv, ReadInv
  <2>4. read.use # "open" => read'.got = candidate.content
    <3> SUFFICES ASSUME read.use # "open" PROVE there = candidate.content
      BY <2>2
    <3> QED BY <1>4 DEF there
  <2>5. read.use = "open" => read'.got = file
    BY <2>2 DEF there
  <2>6. ReadInv' /\ OwnersInv' /\ Borrowed'
    BY <1>4, <2>2, <2>3 DEF ReadInv, OwnersInv, Borrowed
  <2>7. "envelope" \in (ReadSteps \ {"capture"}) \cup {"cleanup"} /\ "envelope" \notin AfterKey
    BY DEF ReadSteps, AfterKey
  <2> QED BY <1>1, <2>2, <2>4, <2>5, <2>6, <2>7, ReaderStep
<1> QED BY <1>3, <1>4

\* A step that goes on keeps the invariant, one that refuses is a reader's of its own or after a fault.
LEMMA ProceedsKept ==
    ASSUME CodecInv, ReadOnly, read.step \in ReadSteps \ {"capture"}, NEW next \in ReadSteps \ {"capture"},
           NEW accepted \in BOOLEAN, NEW gained \in SUBSET ReadOwners, NEW spent,
           Proceed(next, accepted, gained, spent),
           read.use # "open" /\ ~write.faulty => accepted,
           next \in AfterKey /\ read.use \in {"verify", "adopt"} /\ accepted => Fits(read.got),
           /\ accepted /\ read' \in ReadRecords /\ read'.step = next
           /\ read'.use = read.use /\ read'.lent = read.lent /\ read'.got = read.got
           /\ read'.at = read.at /\ read'.doc = read.doc
           /\ read'.owners = (read.owners \ spent) \cup gained
           => ReadInv' /\ OwnersInv' /\ Borrowed'
    PROVE  CodecInv'
<1>1. read \in ReadRecords /\ write \in WriteRecords
  BY Typed
<1>2. CASE ~accepted /\ Refuse
  BY <1>1, <1>2, Refusal
<1>3. CASE /\ accepted /\ read' \in ReadRecords /\ read'.step = next
           /\ read'.use = read.use /\ read'.lent = read.lent /\ read'.got = read.got
           /\ read'.at = read.at /\ read'.doc = read.doc
           /\ read'.owners = (read.owners \ spent) \cup gained
  <2>1. ReadInv' /\ OwnersInv' /\ Borrowed'
    BY <1>3
  <2>2. ~write.faulty /\ read.use # "open" => read'.step # "cleanup" /\ read'.got = candidate.content
    <3> SUFFICES ASSUME ~write.faulty, read.use # "open"
                 PROVE  read'.step # "cleanup" /\ read'.got = candidate.content
      OBVIOUS
    <3>1. read.step # "idle" /\ read.step # "capture" /\ next # "cleanup"
      BY DEF ReadSteps
    <3>2. read.got = candidate.content
      BY <3>1, Undisturbed
    <3> QED BY <1>3, <3>1, <3>2
  <2>3. read'.step \in AfterKey /\ read.use \in {"verify", "adopt"} => Fits(read'.got)
    BY <1>3
  <2> QED BY <1>3, <2>1, <2>2, <2>3, ReaderStep
<1>4. \/ ~accepted /\ Refuse
      \/ /\ accepted /\ read' \in ReadRecords /\ read'.step = next
         /\ read'.use = read.use /\ read'.lent = read.lent /\ read'.got = read.got
         /\ read'.at = read.at /\ read'.doc = read.doc
         /\ read'.owners = (read.owners \ spent) \cup gained
  <2>1. next \in ReadSteps
    OBVIOUS
  <2> QED BY <2>1, Proceeds
<1> QED BY <1>2, <1>3, <1>4

\* A candidate nobody touched is not torn.
LEMMA EnvelopeKept ==
    ASSUME CodecInv, ReadOnly, Envelope
    PROVE  CodecInv'
<1>1. read \in ReadRecords /\ write \in WriteRecords /\ read.step = "envelope"
  BY Typed DEF Envelope
<1>2. Proceed("key", read.got.seal # "torn", {}, {})
  BY DEF Envelope
<1>3. "key" \in ReadSteps \ {"capture"} /\ "key" \notin AfterKey /\ read.step \in ReadSteps \ {"capture"}
  BY <1>1 DEF ReadSteps, AfterKey
<1>4. read.use # "open" /\ ~write.faulty => read.got.seal # "torn"
  BY <1>1, Undisturbed
<1>5. ReadInv /\ OwnersInv
  BY DEF CodecInv
<1>6. ASSUME read'.step = "key", read'.lent = read.lent, read'.got = read.got, read'.owners = (read.owners \ {}) \cup {}
      PROVE  ReadInv' /\ OwnersInv' /\ Borrowed'
  BY <1>1, <1>5, <1>6 DEF ReadInv, OwnersInv, Borrowed, ReadSteps
<1> HIDE DEF Envelope
<1> QED BY <1>1, <1>2, <1>3, <1>4, <1>6, ProceedsKept

\* A candidate nobody touched was written under the key it is opened with.
LEMMA KeyKept ==
    ASSUME CodecInv, ReadOnly, Key
    PROVE  CodecInv'
<1>1. read \in ReadRecords /\ write \in WriteRecords /\ read.step = "key"
  BY Typed DEF Key
<1>2. PICK matches \in BOOLEAN :
        /\ read.use \in {"verify", "adopt"} => (matches <=> Fits(read.got))
        /\ read.use \in {"verifyNew", "adoptNew"} /\ read.got.id = count.tasks => matches
        /\ Proceed("unwrap", matches, {"derived"}, {})
  BY DEF Key
<1>3. "unwrap" \in ReadSteps \ {"capture"} /\ read.step \in ReadSteps \ {"capture"} /\ {"derived"} \in SUBSET ReadOwners
  BY <1>1, OwnerNames DEF ReadSteps
<1>4. read.use # "open" /\ ~write.faulty => matches
  <2> SUFFICES ASSUME read.use # "open", ~write.faulty PROVE matches
    OBVIOUS
  <2>1. /\ read.got.id = count.tasks
        /\ read.use \in {"verify", "adopt"} => Fits(read.got)
    BY <1>1, Undisturbed
  <2> QED BY <1>1, <1>2, <2>1 DEF ReadRecords, ReadUses
<1>5. ReadInv /\ OwnersInv
  BY DEF CodecInv
<1>6. ASSUME read'.step = "unwrap", read'.lent = read.lent, read'.got = read.got,
             read'.owners = (read.owners \ {}) \cup {"derived"}
      PROVE  ReadInv' /\ OwnersInv' /\ Borrowed'
  BY <1>1, <1>5, <1>6 DEF ReadInv, OwnersInv, Borrowed, ReadSteps
<1> QED BY <1>1, <1>2, <1>3, <1>4, <1>6, ProceedsKept

\* The keys are unwrapped.
LEMMA UnwrapKept ==
    ASSUME CodecInv, ReadOnly, Unwrap
    PROVE  CodecInv'
<1>1. read \in ReadRecords /\ read.step = "unwrap" /\ Proceed("decrypt", TRUE, {"keys"}, {})
  BY Typed DEF Unwrap
<1>2. /\ "decrypt" \in ReadSteps \ {"capture"} /\ read.step \in ReadSteps \ {"capture"}
      /\ {"keys"} \in SUBSET ReadOwners /\ read.step \in AfterKey
  BY <1>1, OwnerNames DEF ReadSteps, AfterKey
<1>3. ReadInv /\ OwnersInv
  BY DEF CodecInv
<1>4. ASSUME read'.step = "decrypt", read'.lent = read.lent, read'.got = read.got,
             read'.owners = (read.owners \ {}) \cup {"keys"}
      PROVE  ReadInv' /\ OwnersInv' /\ Borrowed'
  BY <1>1, <1>3, <1>4 DEF ReadInv, OwnersInv, Borrowed, ReadSteps
<1> QED BY <1>1, <1>2, <1>4, FitsKept, ProceedsKept

\* A candidate nobody touched authenticates.
LEMMA AuthenticateKept ==
    ASSUME CodecInv, ReadOnly, Authenticate
    PROVE  CodecInv'
<1>1. /\ read \in ReadRecords /\ write \in WriteRecords /\ read.step = "authenticate"
      /\ Proceed("validate", read.got.seal = "sound", {}, {})
  BY Typed DEF Authenticate
<1>2. "validate" \in ReadSteps \ {"capture"} /\ read.step \in ReadSteps \ {"capture"} /\ read.step \in AfterKey
  BY <1>1 DEF ReadSteps, AfterKey
<1>3. ReadInv /\ OwnersInv /\ NothingIsLeft
  BY DEF CodecInv
<1>4. read.use # "open" /\ ~write.faulty => read.got.seal = "sound"
  BY <1>1, Undisturbed
<1>5. ASSUME read.got.seal = "sound", read'.step = "validate", read'.lent = read.lent, read'.got = read.got,
             read'.at = read.at, read'.owners = (read.owners \ {}) \cup {}
      PROVE  ReadInv' /\ OwnersInv' /\ Borrowed'
  BY <1>1, <1>3, <1>5 DEF ReadInv, OwnersInv, Borrowed, ReadSteps, NothingIsLeft
<1> QED BY <1>1, <1>2, <1>4, <1>5, FitsKept, ProceedsKept

\* A candidate nobody touched conforms, since the writer checked its document.
LEMMA ValidateKept ==
    ASSUME CodecInv, ReadOnly, Validate
    PROVE  CodecInv'
<1> DEFINE ok == Conforms(read.at.header, read.at.records) /\ TextFits(read.at.header, read.at.records)
<1>1. /\ read \in ReadRecords /\ write \in WriteRecords /\ read.step = "validate"
      /\ Proceed("build", ok, {}, {})
  BY Typed DEF Validate
<1>2. "build" \in ReadSteps \ {"capture"} /\ read.step \in ReadSteps \ {"capture"} /\ read.step \in AfterKey
  BY <1>1 DEF ReadSteps, AfterKey
<1>3. ReadInv /\ OwnersInv /\ NothingIsLeft
  BY DEF CodecInv
<1>4. read.use # "open" /\ ~write.faulty => ok
  <2> SUFFICES ASSUME read.use # "open", ~write.faulty PROVE ok
    OBVIOUS
  <2>1. ReadsBack(read.got.wire, write.doc)
    BY <1>1, Undisturbed
  <2>2. read.at = Parsed(read.got.wire)
    BY <1>1, <1>3 DEF ReadInv
  <2> QED BY <2>1, <2>2 DEF ReadsBack
<1>5. ASSUME ok, read'.step = "build", read'.lent = read.lent, read'.got = read.got,
             read'.at = read.at, read'.owners = (read.owners \ {}) \cup {}
      PROVE  ReadInv' /\ OwnersInv' /\ Borrowed'
  <2>1. Conforms(read.at.header, read.at.records)
    BY <1>5
  <2> QED BY <1>1, <1>3, <1>5, <2>1 DEF ReadInv, OwnersInv, Borrowed, ReadSteps, NothingIsLeft
<1>6. ok \in BOOLEAN
  BY DEF Conforms
<1> HIDE DEF ok
<1> QED BY <1>1, <1>2, <1>4, <1>5, <1>6, FitsKept, ProceedsKept

\* A candidate nobody touched parses.
LEMMA DecryptKept ==
    ASSUME CodecInv, ReadOnly, Decrypt
    PROVE  CodecInv'
<1> DEFINE at == Parsed(read.got.wire)
<1>1. read \in ReadRecords /\ write \in WriteRecords /\ read.step = "decrypt" /\ read.step \in ReadSteps
  BY Typed DEF Decrypt, ReadSteps
<1>2. ReadInv /\ OwnersInv
  BY DEF CodecInv
<1>3. read.got \in Contents
  BY <1>1, <1>2 DEF ReadInv, ReadRecords
<1>4. at \in Progress
  BY <1>3, ParsedTyped DEF Contents
<1>5. CASE at.failed
  <2>1. Refuse
    BY <1>5 DEF Decrypt
  <2>2. write.faulty \/ read.use = "open"
    <3> SUFFICES ASSUME ~write.faulty, read.use # "open" PROVE FALSE
      OBVIOUS
    <3>1. ReadsBack(read.got.wire, write.doc)
      BY <1>1, Undisturbed
    <3> QED BY <1>5, <3>1 DEF ReadsBack
  <2> QED BY <1>1, <2>1, <2>2, Refusal
<1>6. CASE ~at.failed
  <2>1. read' = [read EXCEPT !.step = "authenticate", !.at = at, !.owners = @ \cup {"builder"}]
    BY <1>6 DEF Decrypt
  <2> HIDE DEF at
  <2>2. /\ read' \in ReadRecords /\ read'.step = "authenticate" /\ read'.use = read.use /\ read'.lent = read.lent
        /\ read'.owners = read.owners \cup {"builder"} /\ read'.got = read.got /\ read'.at = at
    BY <1>1, <1>4, <2>1, OwnerNames DEF ReadRecords, ReadSteps
  <2>3. ReadInv'
    BY <1>2, <1>6, <2>2, <1>1 DEF ReadInv, ReadSteps, at
  <2>4. OwnersInv' /\ Borrowed'
    BY <1>1, <1>2, <2>2 DEF OwnersInv, Borrowed
  <2>5. "authenticate" \in (ReadSteps \ {"capture"}) \cup {"cleanup"} /\ read.step \in AfterKey
    BY <1>1 DEF ReadSteps, AfterKey
  <2>6. ~write.faulty /\ read.use # "open" => read'.step # "cleanup" /\ read'.got = candidate.content
    BY <1>1, <2>2, Undisturbed
  <2>7. read'.step \in AfterKey /\ read.use \in {"verify", "adopt"} => Fits(read'.got)
    BY <2>2, <2>5, FitsKept
  <2> QED BY <1>1, <2>2, <2>3, <2>4, <2>5, <2>6, <2>7, ReaderStep
<1> QED BY <1>5, <1>6

\* The document that is built is what the file says.
LEMMA BuildKept ==
    ASSUME CodecInv, ReadOnly, Build
    PROVE  CodecInv'
<1> DEFINE doc == Document(read.at.header, read.at.records)
<1>1. read \in ReadRecords /\ write \in WriteRecords /\ read.step = "build" /\ read.step \in ReadSteps
  BY Typed DEF Build, ReadSteps
<1>2. ReadInv /\ OwnersInv
  BY DEF CodecInv
<1>3. /\ Conforms(read.at.header, read.at.records) /\ read.at = Parsed(read.got.wire)
      /\ ~read.at.failed /\ read.got.seal = "sound"
  BY <1>1, <1>2 DEF ReadInv
<1>4. doc \in Documents
  <2>1. read.at.header \in Seq(Frames) /\ read.at.records \in Seq(Seq(Frames))
    BY <1>1 DEF ReadRecords, Progress
  <2> QED BY <1>3, <2>1, DocumentFaithful
<1>5. Readable(read.got) /\ doc = ReadBack(read.got)
  BY <1>3 DEF Readable, ReadBack
<1>6. read' = [read EXCEPT !.step = "harden", !.doc = doc, !.at = Unread,
                           !.owners = (@ \ {"builder"}) \cup {"document"}]
  BY DEF Build
<1> HIDE DEF doc
<1>7. Unread \in Progress
  BY DEF Unread, Progress
<1>8. /\ read' \in ReadRecords /\ read'.step = "harden" /\ read'.use = read.use /\ read'.lent = read.lent
      /\ read'.owners = (read.owners \ {"builder"}) \cup {"document"} /\ read'.got = read.got /\ read'.doc = doc
  BY <1>1, <1>4, <1>6, <1>7, OwnerNames DEF ReadRecords, ReadSteps
<1>9. ReadInv'
  <2>1. read.got # None
    BY <1>1, <1>2 DEF ReadInv
  <2> QED BY <1>5, <1>8, <2>1 DEF ReadInv
<1>10. OwnersInv' /\ Borrowed'
  BY <1>1, <1>2, <1>8 DEF OwnersInv, Borrowed
<1>11. "harden" \in (ReadSteps \ {"capture"}) \cup {"cleanup"} /\ read.step \in AfterKey
  BY <1>1 DEF ReadSteps, AfterKey
<1>12. ~write.faulty /\ read.use # "open" => read'.step # "cleanup" /\ read'.got = candidate.content
  BY <1>1, <1>8, Undisturbed
<1>13. read'.step \in AfterKey /\ read.use \in {"verify", "adopt"} => Fits(read'.got)
  BY <1>8, <1>11, FitsKept
<1> QED BY <1>1, <1>8, <1>9, <1>10, <1>11, <1>12, <1>13, ReaderStep

\* A second derived key is one owner more.
LEMMA HardenKept ==
    ASSUME CodecInv, ReadOnly, Harden
    PROVE  CodecInv'
<1> DEFINE gained == IF Hardens THEN {"hardened"} ELSE {}
<1>1. read \in ReadRecords /\ read.step = "harden" /\ Proceed("adopt", TRUE, gained, {})
  BY Typed DEF Harden
<1>2. /\ "adopt" \in ReadSteps \ {"capture"} /\ read.step \in ReadSteps \ {"capture"}
      /\ gained \in SUBSET ReadOwners /\ read.step \in AfterKey /\ gained \ {"hardened"} = {}
  BY <1>1, OwnerNames DEF ReadSteps, AfterKey
<1> HIDE DEF gained
<1>3. ReadInv /\ OwnersInv
  BY DEF CodecInv
<1>4. ASSUME read'.step = "adopt", read'.lent = read.lent, read'.got = read.got, read'.doc = read.doc,
             read'.owners = (read.owners \ {}) \cup gained
      PROVE  ReadInv' /\ OwnersInv' /\ Borrowed'
  <2>1. ReadInv'
    BY <1>1, <1>3, <1>4 DEF ReadInv, ReadSteps
  <2>2. OwnersInv' /\ Borrowed'
    BY <1>1, <1>2, <1>3, <1>4 DEF OwnersInv, Borrowed
  <2> QED BY <2>1, <2>2
<1> QED BY <1>1, <1>2, <1>4, FitsKept, ProceedsKept

\* No key is left to itself.
LEMMA AdoptKept ==
    ASSUME CodecInv, ReadOnly, Adopt
    PROVE  CodecInv'
<1> DEFINE spent == {"derived", "keys", "hardened"}
<1>1. read \in ReadRecords /\ read.step = "adopt" /\ Proceed("manifest", TRUE, {"crypto"}, spent)
  BY Typed DEF Adopt
<1>2. /\ "manifest" \in ReadSteps \ {"capture"} /\ read.step \in ReadSteps \ {"capture"}
      /\ {"crypto"} \in SUBSET ReadOwners /\ read.step \in AfterKey
  BY <1>1, OwnerNames DEF ReadSteps, AfterKey
<1>3. ReadInv /\ OwnersInv
  BY DEF CodecInv
<1>4. ASSUME read'.step = "manifest", read'.lent = read.lent, read'.got = read.got, read'.doc = read.doc,
             read'.owners = (read.owners \ spent) \cup {"crypto"}
      PROVE  ReadInv' /\ OwnersInv' /\ Borrowed'
  <2>1. ReadInv'
    BY <1>1, <1>3, <1>4 DEF ReadInv, ReadSteps
  <2>2. OwnersInv' /\ Borrowed'
    BY <1>1, <1>3, <1>4 DEF OwnersInv, Borrowed
  <2> QED BY <2>1, <2>2
<1> HIDE DEF spent
<1> QED BY <1>1, <1>2, <1>4, FitsKept, ProceedsKept

\* Every step of a transaction keeps the invariant.
LEMMA ReadingKept ==
    ASSUME CodecInv, Reading
    PROVE  CodecInv'
<1>1. ReadOnly
  BY DEF Reading, ReadOnly, disk
<1> QED BY <1>1, CaptureKept, EnvelopeKept, KeyKept, UnwrapKept, DecryptKept, AuthenticateKept, ValidateKept,
           BuildKept, HardenKept, AdoptKept DEF Reading

CountRecords == [edits : Nat, moves : Nat, tasks : Nat, faults : Nat]

\* A fault changes one counter.
LEMMA FaultCounts ==
    ASSUME CodecInv, Faulty
    PROVE  /\ count' \in CountRecords /\ count'.tasks = count.tasks /\ count'.moves = count.moves
BY Typed DEF Faulty, CountRecords

\* An exception: the transaction is given up, and the task has had its fault.
LEMMA ReadFailsKept ==
    ASSUME CodecInv, ReadFails
    PROVE  CodecInv'
<1>1. /\ read.step \in ReadSteps /\ file' = file /\ candidate' = candidate /\ output' = output /\ live' = live
      /\ left' = left /\ Refuse /\ write' = [write EXCEPT !.faulty = TRUE]
  BY DEF ReadFails, disk
<1>2. /\ count' \in CountRecords /\ count'.tasks = count.tasks /\ count'.moves = count.moves
  BY FaultCounts DEF ReadFails
<1>3. /\ read' \in ReadRecords /\ read'.step = "cleanup" /\ read'.use = read.use /\ read'.lent = read.lent
      /\ read'.got = read.got /\ read'.owners = read.owners
  BY <1>1, Typed DEF Refuse, ReadRecords
<1>4. /\ write' \in WriteRecords /\ write'.faulty /\ write'.step = write.step /\ write'.kind = write.kind
      /\ write'.doc = write.doc /\ write'.strength = write.strength /\ write'.salt = write.salt
      /\ write'.verified = write.verified /\ write'.owners = write.owners
  BY <1>1, Typed DEF WriteRecords
<1>5. NothingIsLeft'
  <2>1. NothingIsLeft
    BY DEF CodecInv
  <2>2. TypeOK'
    BY <1>1, <1>2, <1>3, <1>4, <2>1 DEF NothingIsLeft, TypeOK, ReadRecords, WriteRecords, CountRecords
  <2> QED BY <1>1, <1>3, <1>4, <2>1, <2>2 DEF NothingIsLeft
<1>6. ReadInv' /\ OwnersInv'
  BY <1>3 DEF ReadInv, OwnersInv, ReadSteps
<1>7. PurposeInv'
  <2>1. PurposeInv /\ read.step # "idle" /\ "cleanup" \notin AfterKey
    BY <1>1 DEF CodecInv, ReadSteps, AfterKey
  <2> QED BY <1>1, <1>3, <1>4, <2>1 DEF PurposeInv, Fresh
<1>8. SessionInv' /\ DocumentInv' /\ TaskInv' /\ VerifiedInv'
  <2>1. SessionInv /\ DocumentInv /\ TaskInv /\ VerifiedInv
    BY DEF CodecInv
  <2> QED BY <1>1, <1>2, <1>4, <2>1
         DEF SessionInv, DocumentInv, TaskInv, VerifiedInv, Fresh, Fits, AsIntended, SerialStrength
<1>9. UndisturbedInv'
  BY <1>4 DEF UndisturbedInv
<1> QED BY <1>5, <1>6, <1>7, <1>8, <1>9 DEF CodecInv

\* The aggregate goes to whoever asked for it, and nothing stays.
LEMMA DeliverGives ==
    ASSUME CodecInv, read.step = "manifest", Deliver
    PROVE  /\ read' \in ReadRecords /\ read'.step = "idle" /\ read'.owners = {} /\ read'.use = "open"
           /\ Readable(read.got) /\ read.doc = ReadBack(read.got) /\ read.got \in Contents
           /\ read.doc \in Documents
<1>1. read \in ReadRecords /\ ReadInv /\ OwnersInv
  BY Typed DEF CodecInv
<1>2. read.owners \ Aggregate = {}
  BY <1>1 DEF OwnersInv, Aggregate
<1>3. Readable(read.got) /\ read.doc = ReadBack(read.got) /\ read.got \in Contents
  BY <1>1 DEF ReadInv, ReadRecords, ReadSteps
<1>4. read.doc \in Documents
  <2>1. Parsed(read.got.wire) \in Progress
    BY <1>3, ParsedTyped DEF Contents
  <2> QED BY <1>3, <2>1, DocumentFaithful DEF Readable, ReadBack, Progress
<1>5. Unread \in Progress
  BY DEF Unread, Progress
<1>6. read' = [NoRead EXCEPT !.owners = {}]
  BY <1>2 DEF Deliver
<1> QED BY <1>3, <1>4, <1>5, <1>6 DEF NoRead, ReadRecords, ReadUses

\* The session that is opened is faithful.
LEMMA OpenedKept ==
    ASSUME CodecInv, Opened
    PROVE  CodecInv'
<1>1. /\ read.step = "manifest" /\ read.use = "open" /\ Deliver
      /\ file' = file /\ candidate' = candidate /\ output' = output /\ write' = write
      /\ left' = left /\ count' = count
      /\ live' = [doc |-> read.doc, strength |-> read.got.strength, salt |-> read.got.salt,
                  hardened |-> Hardens]
  BY DEF Opened, disk
<1>2. /\ read' \in ReadRecords /\ read'.step = "idle" /\ read'.owners = {} /\ read'.use = "open"
      /\ Readable(read.got) /\ read.doc = ReadBack(read.got) /\ read.got \in Contents
      /\ read.doc \in Documents
  BY <1>1, DeliverGives
<1>3. write.step = "idle" /\ live = None /\ read.got = file /\ file # None
  <2>1. PurposeInv /\ ReadInv
    BY DEF CodecInv
  <2>2. write.step = "idle" /\ live = None /\ read.got = file
    BY <1>1, <1>2, <2>1 DEF PurposeInv, ReadInv, ReadSteps
  <2> QED BY <1>2, <2>2, Typed
<1>4. /\ live'.doc = read.doc /\ live'.strength = read.got.strength /\ live'.salt = read.got.salt
      /\ live'.hardened = Hardens /\ Hardens \in BOOLEAN
      /\ live' \in Sessions
  BY <1>1, <1>2 DEF Hardens, Contents, ByPassphrase, Sessions
<1>5. NothingIsLeft'
  <2>1. NothingIsLeft
    BY DEF CodecInv
  <2>2. TypeOK'
    BY <1>1, <1>2, <1>4, <2>1 DEF NothingIsLeft, TypeOK, ReadRecords
  <2> QED BY <1>1, <1>2, <2>1, <2>2 DEF NothingIsLeft
<1>6. ReadInv' /\ OwnersInv' /\ PurposeInv'
  BY <1>2 DEF ReadInv, OwnersInv, ReadSteps, PurposeInv
<1>7. SessionInv'
  <2>1. SessionInv
    BY DEF CodecInv
  <2>2. live'.strength = 2 \/ live'.hardened
    <3>1. read.got.strength = 2 \/ read.got.strength = 1
      BY <1>2 DEF Contents
    <3>2. ASSUME read.got.strength = 1 PROVE live'.hardened
      <4>1. Hardens
        BY <1>1, <3>2 DEF Hardens, ByPassphrase
      <4>2. Hardens = TRUE
        BY <1>4, <4>1
      <4> QED BY <1>4, <4>2
    <3> QED BY <1>4, <3>1, <3>2
  <2> QED BY <1>1, <1>3, <1>4, <2>1, <2>2 DEF SessionInv
<1>8. DocumentInv'
  <2>1. Parsed(read.got.wire) \in Progress
    BY <1>2, ParsedTyped DEF Contents
  <2>2. Faithful(read.doc) /\ InOrder(read.doc)
    BY <1>2, <2>1, DocumentFaithful DEF Readable, ReadBack, Progress
  <2> QED BY <1>4, <2>2 DEF DocumentInv
<1>9. TaskInv' /\ VerifiedInv'
  BY <1>1, <1>3 DEF TaskInv, VerifiedInv
<1>10. UndisturbedInv'
  BY <1>1, <1>2, <1>3 DEF CodecInv, UndisturbedInv, Made
<1> QED BY <1>5, <1>6, <1>7, <1>8, <1>9, <1>10 DEF CodecInv

\* Payloads are closed before what they borrow.
LEMMA CloseNextKept ==
    ASSUME CodecInv, CloseNext
    PROVE  CodecInv'
<1>1. PICK i \in DOMAIN CloseOrder :
        /\ read.step = "cleanup" /\ CloseOrder[i] \in read.owners
        /\ \A j \in 1 .. i - 1 : CloseOrder[j] \notin read.owners
        /\ read' = [read EXCEPT !.owners = @ \ {CloseOrder[i]}]
        /\ \/ UNCHANGED <<left, count>>
           \/ Faulty /\ left' = [left EXCEPT !.stuck = @ \cup {CloseOrder[i]}]
        /\ UNCHANGED <<disk, live, write>>
  BY DEF CloseNext
<1>2. i \in 1 .. 7 /\ CloseOrder[1] = "builder" /\ CloseOrder[2] = "document"
  BY <1>1 DEF CloseOrder
<1> DEFINE owner == CloseOrder[i]
<1>3. read \in ReadRecords /\ owner \in ReadOwners
  BY <1>1, Typed DEF ReadRecords
<1>4. \/ owner = "builder" \/ ("builder" \notin read.owners /\ owner = "document")
      \/ read.owners \cap {"builder", "document"} = {}
  <2>1. i = 1 \/ i = 2 \/ (1 \in 1 .. i - 1 /\ 2 \in 1 .. i - 1)
    BY <1>2
  <2>2. CASE i = 1
    BY <1>2, <2>2
  <2>3. CASE i = 2
    BY <1>1, <1>2, <2>3
  <2>4. CASE 1 \in 1 .. i - 1 /\ 2 \in 1 .. i - 1
    BY <1>1, <1>2, <2>4
  <2> QED BY <2>1, <2>2, <2>3, <2>4
<1> HIDE DEF owner
<1>5. /\ read' = [read EXCEPT !.owners = @ \ {owner}]
      /\ file' = file /\ candidate' = candidate /\ output' = output /\ live' = live /\ write' = write
  BY <1>1 DEF owner, disk
<1>6. /\ count' \in CountRecords /\ count'.tasks = count.tasks /\ count'.moves = count.moves
  BY <1>1, FaultCounts, Typed DEF CountRecords
<1>7. /\ left' \in [files : SUBSET {"partial", "verified"}, stuck : SUBSET (ReadOwners \cup WriteOwners)]
      /\ left'.files = left.files /\ left.stuck \subseteq left'.stuck
  <2>1. left \in [files : SUBSET {"partial", "verified"}, stuck : SUBSET (ReadOwners \cup WriteOwners)]
    BY DEF CodecInv, NothingIsLeft, TypeOK
  <2>2. left' = left \/ left' = [left EXCEPT !.stuck = @ \cup {owner}]
    BY <1>1 DEF owner
  <2> QED BY <1>3, <2>1, <2>2
<1>8. /\ read' \in ReadRecords /\ read'.step = "cleanup" /\ read'.use = read.use /\ read'.lent = read.lent
      /\ read'.got = read.got /\ read'.owners = read.owners \ {owner}
  BY <1>1, <1>3, <1>5 DEF ReadRecords
<1>9. NothingIsLeft'
  <2>1. NothingIsLeft
    BY DEF CodecInv
  <2>2. TypeOK'
    BY <1>5, <1>6, <1>7, <1>8, <2>1 DEF NothingIsLeft, TypeOK, ReadRecords, CountRecords
  <2>3. Borrowed'
    <3>1. Borrowed
      BY <2>1 DEF NothingIsLeft, Borrowed
    <3> QED BY <1>4, <1>8, <3>1 DEF Borrowed
  <2> QED BY <1>5, <1>7, <1>8, <2>1, <2>2, <2>3 DEF NothingIsLeft, Borrowed
<1>10. ReadInv' /\ OwnersInv'
  BY <1>8 DEF ReadInv, OwnersInv, ReadSteps
<1>11. PurposeInv'
  <2>1. PurposeInv /\ read.step # "idle" /\ "cleanup" \notin AfterKey
    BY <1>1 DEF CodecInv, AfterKey
  <2> QED BY <1>5, <1>8, <2>1 DEF PurposeInv, Fresh
<1>12. SessionInv' /\ DocumentInv' /\ TaskInv' /\ VerifiedInv'
  <2>1. SessionInv /\ DocumentInv /\ TaskInv /\ VerifiedInv
    BY DEF CodecInv
  <2> QED BY <1>5, <1>6, <2>1
         DEF SessionInv, DocumentInv, TaskInv, VerifiedInv, Fresh, Fits, AsIntended, SerialStrength
<1>13. UndisturbedInv'
  <2>1. UndisturbedInv
    BY DEF CodecInv
  <2> QED BY <1>1, <1>5, <1>6, <1>8, <2>1 DEF UndisturbedInv, Made
<1> QED BY <1>9, <1>10, <1>11, <1>12, <1>13 DEF CodecInv

\* A transaction that was given up has closed everything.
LEMMA ReadEndsKept ==
    ASSUME CodecInv, ReadEnds
    PROVE  CodecInv'
<1> DEFINE step == CASE read.use = "open" -> write.step
                     [] read.use \in {"verify", "verifyNew"} -> "cleanup"
                     [] OTHER -> "abort"
<1>1. /\ read.step = "cleanup" /\ ToSet(CloseOrder) \cap read.owners = {}
      /\ read' = [NoRead EXCEPT !.owners = read.owners] /\ write' = [write EXCEPT !.step = step]
      /\ file' = file /\ candidate' = candidate /\ output' = output /\ live' = live /\ left' = left
      /\ count' = count
  BY DEF ReadEnds, disk
<1>2. read \in ReadRecords /\ write \in WriteRecords
  BY Typed
<1>3. read.owners = {}
  BY <1>1, <1>2 DEF ReadRecords, ReadOwners
<1>4. read' \in ReadRecords /\ read'.step = "idle" /\ read'.owners = {}
  <2>1. Unread \in Progress
    BY DEF Unread, Progress
  <2> QED BY <1>1, <1>3, <2>1 DEF NoRead, ReadRecords, ReadUses
<1>5. /\ read.use = "open" => step = write.step
      /\ read.use \in {"verify", "verifyNew"} => step = "cleanup" /\ write.step = "reopen"
      /\ read.use \in {"adopt", "adoptNew"} => step = "abort" /\ write.step = "handed"
  <2>1. /\ read.use \in {"verify", "verifyNew"} => write.step = "reopen"
        /\ read.use \in {"adopt", "adoptNew"} => write.step = "handed"
    BY <1>1 DEF CodecInv, PurposeInv
  <2> QED BY <2>1
<1>6. \/ step = write.step
      \/ step \in {"cleanup", "abort"} /\ write.step \in {"reopen", "handed"} /\ write.faulty
  <2>1. read.use # "open" => write.faulty
    BY <1>1 DEF CodecInv, UndisturbedInv
  <2> QED BY <1>2, <1>5, <2>1 DEF ReadRecords, ReadUses
<1> HIDE DEF step
<1>7. /\ write' \in WriteRecords /\ write'.step = step /\ write'.kind = write.kind
      /\ write'.doc = write.doc /\ write'.strength = write.strength /\ write'.salt = write.salt
      /\ write'.verified = write.verified /\ write'.owners = write.owners /\ write'.faulty = write.faulty
  <2>1. step \in WriteSteps \cup {"idle", "publish", "cleanup", "abort"}
    BY <1>2, <1>6 DEF WriteRecords
  <2> QED BY <1>1, <1>2, <2>1 DEF WriteRecords
<1>8. NothingIsLeft'
  <2>1. NothingIsLeft
    BY DEF CodecInv
  <2>2. TypeOK'
    BY <1>1, <1>4, <1>7, <2>1 DEF NothingIsLeft, TypeOK, ReadRecords, WriteRecords
  <2> QED BY <1>1, <1>4, <1>6, <1>7, <2>1, <2>2 DEF NothingIsLeft
<1>9. ReadInv' /\ OwnersInv' /\ PurposeInv'
  BY <1>4 DEF ReadInv, OwnersInv, PurposeInv, ReadSteps
<1>10. SessionInv' /\ DocumentInv' /\ TaskInv' /\ VerifiedInv'
  <2>1. SessionInv /\ DocumentInv /\ TaskInv /\ VerifiedInv
    BY DEF CodecInv
  <2> QED BY <1>1, <1>6, <1>7, <2>1
         DEF SessionInv, DocumentInv, TaskInv, VerifiedInv, Fresh, Fits, AsIntended, SerialStrength
<1>11. UndisturbedInv'
  <2>1. UndisturbedInv
    BY DEF CodecInv
  <2> QED BY <1>1, <1>4, <1>6, <1>7, <2>1 DEF UndisturbedInv, Made
<1> QED BY <1>8, <1>9, <1>10, <1>11 DEF CodecInv

\* A user opens a file.
LEMMA OpenKept ==
    ASSUME CodecInv, Open
    PROVE  CodecInv'
<1>1. /\ read.step = "idle" /\ write.step = "idle" /\ live = None
      /\ file' = file /\ candidate' = candidate /\ output' = output /\ live' = live /\ left' = left
      /\ write' = write /\ count' = [count EXCEPT !.tasks = @ + 1]
  BY DEF Open, Idle, disk
<1>2. PICK lent \in BOOLEAN : (lent => file # None) /\ StartRead("open", lent)
  BY DEF Open
<1>3. count' \in CountRecords /\ count'.tasks = count.tasks + 1 /\ count'.moves = count.moves /\ count.tasks \in Nat
  BY <1>1, Typed DEF CountRecords
<1>4. /\ read' \in ReadRecords /\ read'.use = "open" /\ read'.owners = {} /\ read'.lent = lent
      /\ read'.step = (IF lent THEN "envelope" ELSE "capture") /\ read'.got = (IF lent THEN file ELSE None)
  <2>1. Unread \in Progress /\ file \in Contents \cup {None}
    BY Typed DEF Unread, Progress
  <2> DEFINE step == IF lent THEN "envelope" ELSE "capture"
             got == IF lent THEN file ELSE None
  <2>2. read' = [NoRead EXCEPT !.use = "open", !.lent = lent, !.step = step, !.got = got]
    BY <1>2 DEF StartRead
  <2>3. step \in ReadSteps /\ got \in Contents \cup {None}
    BY <2>1 DEF ReadSteps
  <2> HIDE DEF step, got
  <2>4. read'.step = step /\ read'.got = got /\ read'.use = "open" /\ read'.owners = {} /\ read'.lent = lent
    BY <2>2 DEF NoRead
  <2>5. read' \in ReadRecords
    BY <2>1, <2>2, <2>3 DEF NoRead, ReadRecords, ReadUses
  <2> QED BY <2>4, <2>5 DEF step, got
<1>5. NothingIsLeft'
  <2>1. NothingIsLeft
    BY DEF CodecInv
  <2>2. TypeOK'
    BY <1>1, <1>3, <1>4, <2>1 DEF NothingIsLeft, TypeOK, ReadRecords, CountRecords
  <2> QED BY <1>1, <1>4, <2>1, <2>2 DEF NothingIsLeft
<1>6. ReadInv' /\ OwnersInv'
  BY <1>2, <1>4 DEF ReadInv, OwnersInv
<1>7. PurposeInv'
  BY <1>1, <1>2, <1>4 DEF PurposeInv
<1>8. SessionInv'
  <2>1. SessionInv /\ (file # None => file.salt \in Nat)
    BY Typed DEF CodecInv, Contents
  <2> QED BY <1>1, <1>3, <2>1 DEF SessionInv
<1>9. DocumentInv' /\ TaskInv' /\ VerifiedInv'
  BY <1>1 DEF DocumentInv, TaskInv, VerifiedInv
<1>10. UndisturbedInv'
  BY <1>1, <1>4 DEF CodecInv, UndisturbedInv
<1> QED BY <1>5, <1>6, <1>7, <1>8, <1>9, <1>10 DEF CodecInv

-----------------------------------------------------------------------------
(* The writer and the service *)

\* A service operation begins with nothing done.
LEMMA StartKept ==
    ASSUME CodecInv, NEW kind \in {"save", "create", "export"}, NEW doc \in Documents, NEW salt \in Nat,
           Start(kind, doc, 2, salt),
           kind = "save" => live # None /\ doc = live.doc /\ salt = live.salt,
           kind = "create" => live = None /\ file = None /\ doc = NewDocument,
           kind = "export" => live # None,
           kind # "save" => salt = count.tasks + 1
    PROVE  CodecInv'
<1>1. /\ read.step = "idle" /\ write.step = "idle"
      /\ file' = file /\ candidate' = candidate /\ output' = output /\ live' = live /\ left' = left
      /\ read' = read /\ count' = [count EXCEPT !.tasks = @ + 1]
      /\ write' = [NoWrite EXCEPT !.step = "check", !.kind = kind, !.doc = doc, !.strength = 2, !.salt = salt]
  BY DEF Start, Idle, disk
<1>2. count' \in CountRecords /\ count'.tasks = count.tasks + 1 /\ count'.moves = count.moves /\ count.tasks \in Nat
  BY <1>1, Typed DEF CountRecords
<1>3. /\ write' \in WriteRecords /\ write'.step = "check" /\ write'.kind = kind /\ write'.doc = doc
      /\ write'.strength = 2 /\ write'.salt = salt /\ write'.owners = {}
  <2>1. NoWrite \in WriteRecords /\ "check" \in WriteSteps /\ NoWrite.owners = {}
    BY DEF NoWrite, WriteRecords, WriteSteps
  <2> HIDE DEF NoWrite
  <2>2. write' \in WriteRecords
    <3>1. /\ doc \in Documents \cup {None} /\ 2 \in 1 .. 2
          /\ "check" \in WriteSteps \cup {"idle", "publish", "cleanup", "abort"}
      BY <2>1
    <3>2. \A w \in WriteRecords, k \in {"save", "create", "export"}, d \in Documents \cup {None}, s \in Nat :
            [w EXCEPT !.step = "check", !.kind = k, !.doc = d, !.strength = 2, !.salt = s] \in WriteRecords
      BY ONLY <3>1 DEF WriteRecords
    <3> QED BY <1>1, <2>1, <3>1, <3>2
  <2>3. write'.step = "check" /\ write'.kind = kind
    BY <1>1, <2>1 DEF WriteRecords
  <2>4. write'.doc = doc /\ write'.strength = 2
    BY <1>1, <2>1 DEF WriteRecords
  <2>5. write'.salt = salt /\ write'.owners = {}
    BY <1>1, <2>1 DEF WriteRecords
  <2> QED BY <2>2, <2>3, <2>4, <2>5
<1>4. NothingIsLeft'
  <2>1. NothingIsLeft
    BY DEF CodecInv
  <2>2. TypeOK'
    BY <1>1, <1>2, <1>3, <2>1 DEF NothingIsLeft, TypeOK, WriteRecords, CountRecords
  <2> QED BY <1>1, <1>3, <2>1, <2>2 DEF NothingIsLeft
<1>5. ReadInv' /\ OwnersInv' /\ PurposeInv'
  <2>1. ReadInv /\ OwnersInv
    BY DEF CodecInv
  <2> QED BY <1>1, <2>1 DEF ReadInv, OwnersInv, PurposeInv
<1>6. SessionInv'
  <2>1. /\ SessionInv /\ (file # None => file.salt \in Nat) /\ (live # None => live.salt \in Nat)
    BY Typed DEF CodecInv, Contents, Sessions
  <2> QED BY <1>1, <1>2, <2>1 DEF SessionInv
<1>7. DocumentInv'
  BY <1>1 DEF CodecInv, DocumentInv
<1>8. TaskInv'
  <2>1. live # None => live.salt \in Nat /\ live.salt <= count.tasks
    BY Typed DEF CodecInv, SessionInv, Sessions
  <2>2. doc # None
    BY Typed
  <2> QED BY <1>1, <1>2, <1>3, <2>1, <2>2 DEF TaskInv, Fresh
<1>9. VerifiedInv' /\ UndisturbedInv'
  BY <1>1, <1>3 DEF VerifiedInv, UndisturbedInv
<1> QED BY <1>4, <1>5, <1>6, <1>7, <1>8, <1>9 DEF CodecInv

\* A new document is as the reader would hand it out.
LEMMA NewDocumentFaithful ==
    NewDocument \in Documents /\ Faithful(NewDocument) /\ InOrder(NewDocument)
<1> DEFINE header == <<[type |-> "version", payload |-> "current"], [type |-> "end", payload |-> "empty"]>>
<1>1. header \in Seq(Frames) /\ <<>> \in Seq(Seq(Frames))
  BY DEF Frames, Types, Payloads, HeaderSchema
<1>2. /\ Len(header) = 2 /\ DOMAIN header = {1, 2}
      /\ header[1].type = "version" /\ header[1].payload = "current"
      /\ header[2].type = "end" /\ header[2].payload = "empty" /\ header # <<>>
  OBVIOUS
<1> HIDE DEF header
<1>3. VersionConforms(header)
  <2>1. {i \in DOMAIN header : header[i].type = "version"} = {1}
    BY <1>2
  <2>2. Count(header, "version") = 1
    BY <2>1, FS_Singleton DEF Count
  <2>3. Supported(header[1].payload)
    BY <1>2 DEF Supported, Level
  <2> QED BY <1>2, <2>2, <2>3 DEF VersionConforms
<1>4. Level[header[1].payload] = 2
  BY <1>2 DEF Level
<1>5. SectionConforms(0, header, 2)
  <2>1. Last(header).type = "end"
    BY <1>1, <1>2 DEF Last
  <2>2. ~Refused(0, header, 1, 2)
    <3>1. SpecOf(0, "version") = FieldSpec("uint", 1, TRUE, "required", FALSE)
      BY DEF SpecOf, HeaderSchema
    <3>2. ~Repeats(header, 1)
      BY DEF Repeats
    <3>3. ~Malformed(FieldSpec("uint", 1, TRUE, "required", FALSE), "current")
      BY DEF Malformed, FieldSpec
    <3>4. ~(FieldSpec("uint", 1, TRUE, "required", FALSE).since > 2)
      BY DEF FieldSpec
    <3> QED BY <1>2, <3>1, <3>2, <3>3, <3>4 DEF Refused
  <2>3. ~Refused(0, header, 2, 2)
    <3>1. SpecOf(0, "end") = FieldSpec("empty", 1, TRUE, "terminator", FALSE)
      BY DEF SpecOf, HeaderSchema
    <3>2. ~Repeats(header, 2)
      BY <1>2 DEF Repeats
    <3>3. ~Malformed(FieldSpec("empty", 1, TRUE, "terminator", FALSE), "empty")
      BY DEF Malformed, FieldSpec
    <3>4. ~(FieldSpec("empty", 1, TRUE, "terminator", FALSE).since > 2)
      BY DEF FieldSpec
    <3> QED BY <1>2, <3>1, <3>2, <3>3, <3>4 DEF Refused
  <2> QED BY <1>2, <2>1, <2>2, <2>3 DEF SectionConforms
<1>6. Conforms(header, <<>>)
  BY <1>3, <1>4, <1>5 DEF Conforms
<1>7. NewDocument = Document(header, <<>>)
  BY DEF NewDocument, header
<1> QED BY <1>1, <1>6, <1>7, DocumentFaithful

\* A document for another level is a document.
LEMMA RetargetedTyped ==
    ASSUME NEW doc \in Documents, NEW version \in 1 .. 2
    PROVE  Retargeted(doc, version) \in Documents
<1> DEFINE name == CHOOSE payload \in DOMAIN Level : Level[payload] = version
           at(field) == IF field.type = "version" THEN [field EXCEPT !.payload = name] ELSE field
           header == [i \in DOMAIN doc.header |-> at(doc.header[i])]
<1>1. name \in Payloads
  <2>1. \E payload \in DOMAIN Level : Level[payload] = version
    <3>1. version = 1 \/ version = 2
      OBVIOUS
    <3>2. "old" \in DOMAIN Level /\ Level["old"] = 1 /\ "current" \in DOMAIN Level /\ Level["current"] = 2
      BY DEF Level
    <3> QED BY <3>1, <3>2
  <2>2. name \in DOMAIN Level
    BY <2>1
  <2> HIDE DEF name
  <2> QED BY <2>2 DEF Level, Payloads
<1> HIDE DEF name
<1>2. ASSUME NEW field \in Fields PROVE at(field) \in Fields
  BY <1>1 DEF Fields
<1>3. header \in Seq(Fields)
  <2>1. doc.header \in Seq(Fields)
    BY DEF Documents
  <2>2. DOMAIN doc.header = 1 .. Len(doc.header) /\ Len(doc.header) \in Nat
        /\ \A i \in DOMAIN doc.header : doc.header[i] \in Fields
    BY <2>1, SeqDomain
  <2>3. header \in [1 .. Len(doc.header) -> Fields]
    BY <1>2, <2>2
  <2> QED BY <2>2, <2>3, FunctionIsSeq
<1>4. Retargeted(doc, version) = [doc EXCEPT !.version = version, !.header = header]
  BY DEF Retargeted, name
<1> HIDE DEF header
<1> QED BY <1>3, <1>4 DEF Documents

\* A weak file opened by passphrase is saved strong, under its own key.
LEMMA SaveKept ==
    ASSUME CodecInv, Save
    PROVE  CodecInv'
<1>1. live # None /\ Start("save", live.doc, SerialStrength(live), live.salt)
  BY DEF Save
<1>2. live.doc \in Documents /\ live.salt \in Nat
  BY <1>1, Typed DEF Sessions
<1>3. SerialStrength(live) = 2
  BY <1>1 DEF CodecInv, SessionInv, SerialStrength
<1> QED BY <1>1, <1>2, <1>3, StartKept

\* A new file is begun under a salt of its own.
LEMMA CreateKept ==
    ASSUME CodecInv, Create
    PROVE  CodecInv'
<1>1. live = None /\ file = None /\ Start("create", NewDocument, 2, FreshSalt)
  BY DEF Create
<1>2. FreshSalt = count.tasks + 1 /\ FreshSalt \in Nat
  BY Typed DEF FreshSalt
<1> QED BY <1>1, <1>2, NewDocumentFaithful, StartKept

\* So is an export.
LEMMA ExportKept ==
    ASSUME CodecInv, Export
    PROVE  CodecInv'
<1>1. live # None
  BY DEF Export
<1>2. PICK version \in 1 .. 2 :
        Start("export", IF version = live.doc.version THEN live.doc ELSE Retargeted(live.doc, version),
              2, FreshSalt)
  BY DEF Export
<1> DEFINE doc == IF version = live.doc.version THEN live.doc ELSE Retargeted(live.doc, version)
<1>3. live.doc \in Documents
  BY <1>1, Typed DEF Sessions
<1>4. doc \in Documents
  BY <1>3, RetargetedTyped
<1>5. Start("export", doc, 2, FreshSalt)
  BY <1>2
<1>6. FreshSalt = count.tasks + 1 /\ FreshSalt \in Nat
  BY Typed DEF FreshSalt
<1> HIDE DEF doc
<1> QED BY <1>1, <1>4, <1>5, <1>6, StartKept

\* While the writer is not waiting for a reader there is none.
LEMMA Alone ==
    ASSUME CodecInv, write.step \notin {"idle", "reopen", "handed"}
    PROVE  read.step = "idle" /\ read.owners = {} /\ read \in ReadRecords
<1>1. read \in ReadRecords /\ PurposeInv /\ NothingIsLeft
  BY Typed DEF CodecInv
<1>2. read.step = "idle"
  BY <1>1 DEF ReadRecords, ReadUses, PurposeInv
<1> QED BY <1>1, <1>2 DEF NothingIsLeft

\* A step of the writer within a service operation, nobody reading afterwards.
LEMMA WriterStep ==
    ASSUME CodecInv, write.step # "idle", file' = file, live' = live, output' = output, left' = left,
           candidate' \in Candidates \cup {None},
           count' \in CountRecords, count'.tasks = count.tasks, count'.moves = count.moves,
           read' \in ReadRecords, read'.step = "idle", read'.owners = {},
           write' \in WriteRecords, write'.step # "idle", write'.kind = write.kind, write'.doc = write.doc,
           write'.strength = write.strength, write'.salt = write.salt,
           write.kind = "export" => write'.step # "publish",
           VerifiedInv', UndisturbedInv'
    PROVE  CodecInv'
<1>1. NothingIsLeft'
  <2>1. NothingIsLeft
    BY DEF CodecInv
  <2>2. TypeOK'
    BY <2>1 DEF NothingIsLeft, TypeOK, ReadRecords, WriteRecords, CountRecords
  <2> QED BY <2>1, <2>2 DEF NothingIsLeft
<1>2. ReadInv' /\ OwnersInv' /\ PurposeInv'
  BY DEF ReadInv, OwnersInv, PurposeInv, ReadSteps
<1>3. SessionInv' /\ DocumentInv' /\ TaskInv'
  <2>1. SessionInv /\ DocumentInv /\ TaskInv
    BY DEF CodecInv
  <2> QED BY <2>1 DEF SessionInv, DocumentInv, TaskInv, Fresh
<1> QED BY <1>1, <1>2, <1>3 DEF CodecInv

\* The writer goes on to its next step.
LEMMA WritesOn ==
    ASSUME CodecInv, NEW next \in WriteSteps, NEW gained \in SUBSET WriteOwners, WriteOn(next, gained)
    PROVE  /\ write' \in WriteRecords /\ write'.kind = write.kind /\ write'.doc = write.doc
           /\ write'.strength = write.strength /\ write'.salt = write.salt
           /\ write'.verified = write.verified /\ write'.faulty = write.faulty /\ write'.step = next
BY Typed DEF WriteOn, WriteRecords

\* Or gives up.
LEMMA GivesUp ==
    ASSUME CodecInv, GiveUp
    PROVE  /\ write' \in WriteRecords /\ write'.kind = write.kind /\ write'.doc = write.doc
           /\ write'.strength = write.strength /\ write'.salt = write.salt
           /\ write'.verified = write.verified /\ write'.faulty = write.faulty /\ write'.step = "cleanup"
BY Typed DEF GiveUp, WriteRecords

\* The writer's owners, by name.
LEMMA OwnerSet == WriteOwners = {"keys", "artifact", "descriptor", "reopened"}
BY DEF WriteOwners

\* A document is written if it can be.
LEMMA CheckKept ==
    ASSUME CodecInv, Check, UNCHANGED <<file, output, live, read, left, count>>
    PROVE  CodecInv'
<1>1. /\ write.step = "check" /\ candidate' = candidate /\ count' \in CountRecords
      /\ candidate \in Candidates \cup {None}
  BY Typed DEF Check, CountRecords
<1>2. read.step = "idle" /\ read.owners = {} /\ read \in ReadRecords
  BY <1>1, Alone
<1>3. IF Writable(write.doc) THEN WriteOn("manifest", {}) ELSE GiveUp
  BY DEF Check
<1>4. "manifest" \in WriteSteps /\ {} \in SUBSET WriteOwners
  BY DEF WriteSteps
<1>5. /\ write' \in WriteRecords /\ write'.kind = write.kind /\ write'.doc = write.doc
      /\ write'.strength = write.strength /\ write'.salt = write.salt
      /\ write'.verified = write.verified /\ write'.faulty = write.faulty
      /\ write'.step \in {"manifest", "cleanup"}
      /\ ~write.faulty => (write'.step = "manifest" <=> Writable(write.doc))
  <2>1. CASE Writable(write.doc)
    <3>1. WriteOn("manifest", {})
      BY <1>3, <2>1
    <3> QED BY <1>4, <2>1, <3>1, WritesOn
  <2>2. CASE ~Writable(write.doc)
    <3>1. GiveUp
      BY <1>3, <2>2
    <3> QED BY <2>2, <3>1, GivesUp
  <2> QED BY <2>1, <2>2
<1>6. VerifiedInv' /\ UndisturbedInv'
  BY <1>2, <1>5 DEF VerifiedInv, UndisturbedInv
<1> QED BY <1>1, <1>2, <1>5, <1>6, WriterStep

\* A step that only goes on to the next.
LEMMA GoingOn ==
    ASSUME CodecInv, UNCHANGED <<file, output, live, read, left, count, candidate>>,
           NEW gained \in SUBSET WriteOwners,
           \/ write.step = "manifest" /\ WriteOn("keys", gained)
           \/ write.step = "keys" /\ WriteOn("create", gained)
           \/ write.step = "retain" /\ WriteOn("reopen", gained)
    PROVE  CodecInv'
<1>1. /\ write.step \in {"manifest", "keys", "retain"} /\ candidate' = candidate /\ count' \in CountRecords
      /\ candidate \in Candidates \cup {None}
  BY Typed DEF CountRecords
<1>2. read.step = "idle" /\ read.owners = {} /\ read \in ReadRecords
  BY <1>1, Alone
<1>3. /\ write' \in WriteRecords /\ write'.kind = write.kind /\ write'.doc = write.doc
      /\ write'.strength = write.strength /\ write'.salt = write.salt
      /\ write'.verified = write.verified /\ write'.faulty = write.faulty
      /\ \/ write.step = "manifest" /\ write'.step = "keys"
         \/ write.step = "keys" /\ write'.step = "create"
         \/ write.step = "retain" /\ write'.step = "reopen"
  <2>1. write \in WriteRecords /\ {"keys", "create", "reopen"} \subseteq WriteSteps
    BY Typed DEF WriteSteps
  <2>2. CASE write.step = "manifest" /\ WriteOn("keys", gained)
    BY <2>1, <2>2, WritesOn
  <2>3. CASE write.step = "keys" /\ WriteOn("create", gained)
    BY <2>1, <2>3, WritesOn
  <2>4. CASE write.step = "retain" /\ WriteOn("reopen", gained)
    BY <2>1, <2>4, WritesOn
  <2> QED BY <2>2, <2>3, <2>4
<1>4. VerifiedInv' /\ UndisturbedInv'
  <2>1. UndisturbedInv
    BY DEF CodecInv
  <2>2. VerifiedInv'
    BY <1>3 DEF VerifiedInv
  <2>3. UndisturbedInv'
    BY <1>1, <1>2, <1>3, <2>1 DEF UndisturbedInv, Made
  <2> QED BY <2>2, <2>3
<1> QED BY <1>1, <1>2, <1>3, <1>4, WriterStep

\* Two candidates with the same fields are the same.
LEMMA SameCandidate ==
    ASSUME NEW a \in Candidates, NEW b \in Candidates, a.ours = b.ours,
           a.content.wire = b.content.wire, a.content.strength = b.content.strength,
           a.content.salt = b.content.salt, a.content.seal = b.content.seal, a.content.id = b.content.id
    PROVE  a = b
<1>1. a.content = b.content
  BY DEF Candidates, Contents
<1> QED BY <1>1 DEF Candidates

\* What the writer makes is a candidate.
LEMMA MadeTyped ==
    ASSUME CodecInv, NEW wire \in Seq(Frames), NEW seal \in Seals
    PROVE  /\ Made(wire, seal) \in Candidates /\ Made(wire, seal).ours = TRUE
           /\ Made(wire, seal).content = Content(wire, write.strength, write.salt, seal, count.tasks)
<1>1. write.strength \in 1 .. 2 /\ write.salt \in Nat /\ count.tasks \in Nat
  BY Typed DEF WriteRecords
<1> QED BY <1>1 DEF Made, Content, Candidates, Contents

\* An empty candidate.
LEMMA CreateCandidateKept ==
    ASSUME CodecInv, CreateCandidate, UNCHANGED <<file, output, live, read, left, count>>
    PROVE  CodecInv'
<1>1. /\ write.step = "create" /\ WriteOn("fields", {"artifact"}) /\ count' \in CountRecords
      /\ candidate' = Made(<<>>, "torn") /\ write \in WriteRecords
  BY Typed DEF CreateCandidate, Made, CountRecords
<1>2. read.step = "idle" /\ read.owners = {} /\ read \in ReadRecords
  BY <1>1, Alone
<1>3. /\ write' \in WriteRecords /\ write'.kind = write.kind /\ write'.doc = write.doc
      /\ write'.strength = write.strength /\ write'.salt = write.salt
      /\ write'.verified = write.verified /\ write'.faulty = write.faulty /\ write'.step = "fields"
  BY <1>1, OwnerSet DEF WriteOn, WriteRecords, WriteSteps
<1>4. candidate' \in Candidates
  <2>1. <<>> \in Seq(Frames) /\ "torn" \in Seals
    BY DEF Seals
  <2> QED BY <1>1, <2>1, MadeTyped
<1>5. candidate' = Made(<<>>, "torn")'
  BY <1>1, <1>3 DEF Made
<1>6. VerifiedInv' /\ UndisturbedInv'
  <2>1. UndisturbedInv
    BY DEF CodecInv
  <2>2. VerifiedInv'
    BY <1>3 DEF VerifiedInv
  <2>3. UndisturbedInv'
    BY <1>1, <1>2, <1>3, <1>5, <2>1 DEF UndisturbedInv
  <2> QED BY <2>2, <2>3
<1> QED BY <1>1, <1>2, <1>3, <1>4, <1>6, WriterStep

\* The whole file in it, unless it is no longer ours.
LEMMA WriteFieldsKept ==
    ASSUME CodecInv, WriteFields, UNCHANGED <<file, output, live, read, left, count>>
    PROVE  CodecInv'
<1>1. /\ write.step = "fields" /\ WriteOn("retain", {}) /\ count' \in CountRecords /\ write \in WriteRecords
      /\ candidate' = IF Ours /\ candidate.content.id = count.tasks
                      THEN [candidate EXCEPT !.content.wire = Wire(write.doc), !.content.seal = "sound"]
                      ELSE candidate
  BY Typed DEF WriteFields, CountRecords
<1>2. read.step = "idle" /\ read.owners = {} /\ read \in ReadRecords
  BY <1>1, Alone
<1>3. /\ write' \in WriteRecords /\ write'.kind = write.kind /\ write'.doc = write.doc
      /\ write'.strength = write.strength /\ write'.salt = write.salt
      /\ write'.verified = write.verified /\ write'.faulty = write.faulty /\ write'.step = "retain"
  BY <1>1 DEF WriteOn, WriteRecords, WriteSteps
<1>4. Wire(write.doc) \in Seq(Frames) /\ "sound" \in Seals /\ "torn" \in Seals /\ <<>> \in Seq(Frames)
  <2>1. write.doc \in Documents
    BY <1>1 DEF CodecInv, TaskInv, WriteRecords
  <2> QED BY <2>1, WireTyped DEF Seals
<1>5. candidate \in Candidates \cup {None}
  BY Typed
<1> DEFINE frames == Wire(write.doc)
<1> HIDE DEF frames
<1>6. ASSUME NEW c \in Candidates
      PROVE  LET new == [c EXCEPT !.content.wire = frames, !.content.seal = "sound"]
             IN  /\ new \in Candidates /\ new.ours = c.ours /\ new.content.wire = frames
                 /\ new.content.seal = "sound" /\ new.content.strength = c.content.strength
                 /\ new.content.salt = c.content.salt /\ new.content.id = c.content.id
  BY <1>4 DEF Candidates, Contents, frames
<1>7. candidate' \in Candidates \cup {None}
  <2>1. CASE Ours /\ candidate.content.id = count.tasks
    BY <1>1, <1>5, <1>6, <2>1 DEF Ours, frames
  <2>2. CASE ~(Ours /\ candidate.content.id = count.tasks)
    BY <1>1, <1>5, <2>2
  <2> QED BY <2>1, <2>2
<1>8. ~write.faulty => candidate' = Made(frames, "sound")
  <2> SUFFICES ASSUME ~write.faulty PROVE candidate' = Made(frames, "sound")
    OBVIOUS
  <2>1. candidate = Made(<<>>, "torn")
    BY <1>1 DEF CodecInv, UndisturbedInv
  <2>2. /\ candidate \in Candidates /\ candidate.ours = TRUE /\ candidate.content.strength = write.strength
        /\ candidate.content.salt = write.salt /\ candidate.content.id = count.tasks
    <3>1. /\ candidate \in Candidates /\ candidate.ours = TRUE
          /\ candidate.content = Content(<<>>, write.strength, write.salt, "torn", count.tasks)
      BY <1>4, <2>1, MadeTyped
    <3> QED BY <3>1 DEF Content
  <2>3. Ours
    BY <2>2, Typed DEF Ours
  <2>4. candidate' = [candidate EXCEPT !.content.wire = frames, !.content.seal = "sound"]
    BY <1>1, <2>2, <2>3 DEF frames
  <2>5. frames \in Seq(Frames)
    BY <1>4 DEF frames
  <2>6. /\ Made(frames, "sound") \in Candidates /\ Made(frames, "sound").ours = TRUE
        /\ Made(frames, "sound").content.wire = frames /\ Made(frames, "sound").content.seal = "sound"
        /\ Made(frames, "sound").content.strength = write.strength
        /\ Made(frames, "sound").content.salt = write.salt /\ Made(frames, "sound").content.id = count.tasks
    <3>1. "sound" \in Seals
      BY <1>4
    <3>2. /\ Made(frames, "sound") \in Candidates /\ Made(frames, "sound").ours = TRUE
          /\ Made(frames, "sound").content = Content(frames, write.strength, write.salt, "sound", count.tasks)
      BY <2>5, <3>1, MadeTyped
    <3> QED BY <3>2 DEF Content
  <2>7. /\ candidate' \in Candidates /\ candidate'.ours = TRUE /\ candidate'.content.wire = frames
        /\ candidate'.content.seal = "sound" /\ candidate'.content.strength = write.strength
        /\ candidate'.content.salt = write.salt /\ candidate'.content.id = count.tasks
    BY <1>6, <2>2, <2>4
  <2> QED BY <2>6, <2>7, SameCandidate
<1>9. Made(frames, "sound")' = Made(frames, "sound") /\ frames' = frames
  BY <1>3 DEF Made, frames
<1>10. VerifiedInv' /\ UndisturbedInv'
  <2>1. UndisturbedInv
    BY DEF CodecInv
  <2>2. VerifiedInv'
    BY <1>3 DEF VerifiedInv
  <2>3. UndisturbedInv'
    BY <1>1, <1>2, <1>3, <1>8, <1>9, <2>1 DEF UndisturbedInv, frames
  <2> QED BY <2>2, <2>3
<1> QED BY <1>1, <1>2, <1>3, <1>7, <1>10, WriterStep

\* Every step of the writer up to the candidate keeps the invariant.
LEMMA WritingKept ==
    ASSUME CodecInv, Writing
    PROVE  CodecInv'
<1>1. UNCHANGED <<file, output, live, read, left, count>>
  BY DEF Writing
<1>2. {} \in SUBSET WriteOwners /\ {"keys"} \in SUBSET WriteOwners /\ {"descriptor"} \in SUBSET WriteOwners
  BY OwnerSet
<1>3. CASE Check
  BY <1>1, <1>3, CheckKept
<1>4. CASE WriteManifest
  BY <1>1, <1>2, <1>4, GoingOn DEF WriteManifest
<1>5. CASE NewKeys
  BY <1>1, <1>2, <1>5, GoingOn DEF NewKeys
<1>6. CASE CreateCandidate
  BY <1>1, <1>6, CreateCandidateKept
<1>7. CASE WriteFields
  BY <1>1, <1>7, WriteFieldsKept
<1>8. CASE RetainDescriptor
  BY <1>1, <1>2, <1>8, GoingOn DEF RetainDescriptor
<1> QED BY <1>3, <1>4, <1>5, <1>6, <1>7, <1>8 DEF Writing

\* A reader of the candidate begins.
LEMMA StartsToRead ==
    ASSUME CodecInv, read.step = "idle", NEW use \in {"verify", "verifyNew", "adopt", "adoptNew"},
           StartRead(use, FALSE), UNCHANGED <<disk, live, write, left, count>>,
           use \in {"verify", "verifyNew"} => write.step = "reopen",
           use \in {"adopt", "adoptNew"} => write.step = "handed" /\ write.kind # "export",
           use \in {"verify", "adopt"} <=> ~Fresh
    PROVE  CodecInv'
<1>1. /\ file' = file /\ candidate' = candidate /\ output' = output /\ live' = live /\ left' = left
      /\ write' = write /\ count' = count
  BY DEF disk
<1>2. /\ read' \in ReadRecords /\ read'.step = "capture" /\ read'.use = use /\ read'.lent = FALSE
      /\ read'.owners = {}
  <2>1. Unread \in Progress
    BY DEF Unread, Progress
  <2>2. read' = [NoRead EXCEPT !.use = use, !.lent = FALSE, !.step = "capture", !.got = None]
    BY DEF StartRead
  <2>3. read'.step = "capture" /\ read'.use = use /\ read'.lent = FALSE /\ read'.owners = {}
    BY <2>2 DEF NoRead
  <2>4. read' \in ReadRecords
    BY <2>1, <2>2 DEF NoRead, ReadRecords, ReadUses, ReadSteps
  <2> QED BY <2>3, <2>4
<1>3. NothingIsLeft'
  <2>1. NothingIsLeft
    BY DEF CodecInv
  <2>2. TypeOK'
    BY <1>1, <1>2, <2>1 DEF NothingIsLeft, TypeOK, ReadRecords
  <2> QED BY <1>1, <1>2, <2>1, <2>2 DEF NothingIsLeft
<1>4. ReadInv' /\ OwnersInv'
  BY <1>2 DEF ReadInv, OwnersInv
<1>5. PurposeInv'
  <2>1. "capture" \notin AfterKey
    BY DEF AfterKey
  <2> QED BY <1>1, <1>2, <2>1 DEF PurposeInv, Fresh
<1>6. SessionInv' /\ DocumentInv' /\ TaskInv' /\ VerifiedInv'
  <2>1. SessionInv /\ DocumentInv /\ TaskInv /\ VerifiedInv
    BY DEF CodecInv
  <2> QED BY <1>1, <2>1
         DEF SessionInv, DocumentInv, TaskInv, VerifiedInv, Fresh, Fits, AsIntended, SerialStrength
<1>7. UndisturbedInv'
  BY <1>1, <1>2 DEF CodecInv, UndisturbedInv, Made
<1> QED BY <1>3, <1>4, <1>5, <1>6, <1>7 DEF CodecInv

\* The candidate is read back, once by the writer and once by the service.
LEMMA ReopenKept ==
    ASSUME CodecInv, Reopen \/ ReopenAgain
    PROVE  CodecInv'
<1>1. CASE Reopen
  <2>1. /\ write.step = "reopen" /\ read.step = "idle" /\ UNCHANGED <<disk, live, write, left, count>>
        /\ StartRead(IF Fresh THEN "verifyNew" ELSE "verify", FALSE)
    BY <1>1 DEF Reopen
  <2>2. CASE Fresh
    BY <2>1, <2>2, StartsToRead
  <2>3. CASE ~Fresh
    BY <2>1, <2>3, StartsToRead
  <2> QED BY <2>2, <2>3
<1>2. CASE ReopenAgain
  <2>1. /\ write.step = "handed" /\ write.kind # "export" /\ read.step = "idle"
        /\ UNCHANGED <<disk, live, write, left, count>>
        /\ StartRead(IF Fresh THEN "adoptNew" ELSE "adopt", FALSE)
    BY <1>2 DEF ReopenAgain
  <2>2. CASE Fresh
    BY <2>1, <2>2, StartsToRead
  <2>3. CASE ~Fresh
    BY <2>1, <2>3, StartsToRead
  <2> QED BY <2>2, <2>3
<1> QED BY <1>1, <1>2

\* What a reader of an undisturbed candidate hands over.
LEMMA UndisturbedResult ==
    ASSUME CodecInv, read.step = "manifest", read.use # "open", ~write.faulty
    PROVE  /\ read.got = candidate.content /\ EqualExact(write.doc, read.doc) /\ AsIntended(read.got)
           /\ Writable(write.doc) /\ candidate = Made(Wire(write.doc), "sound")
<1>1. read \in ReadRecords /\ read.step # "idle" /\ read.step # "capture"
  BY Typed
<1>2. write.step \in {"reopen", "handed"}
  BY <1>1 DEF CodecInv, PurposeInv, ReadRecords, ReadUses
<1>3. candidate = Made(Wire(write.doc), "sound") /\ Writable(write.doc)
  BY <1>2 DEF CodecInv, UndisturbedInv
<1>4. read.got = candidate.content /\ ReadsBack(candidate.content.wire, write.doc)
  BY <1>1, Undisturbed
<1>5. read.doc = ReadBack(read.got)
  BY DEF CodecInv, ReadInv
<1>6. EqualExact(write.doc, read.doc)
  BY <1>4, <1>5 DEF ReadBack, ReadsBack
<1>7. read.got = Content(Wire(write.doc), write.strength, write.salt, "sound", count.tasks)
  BY <1>3, <1>4 DEF Made
<1>8. AsIntended(read.got)
  BY <1>7 DEF AsIntended, Content
<1> QED BY <1>3, <1>4, <1>6, <1>8

\* What comes back of an undisturbed candidate is what was written.
LEMMA CompareKept ==
    ASSUME CodecInv, Compare
    PROVE  CodecInv'
<1> DEFINE step == IF AsIntended(read.got) /\ EqualExact(write.doc, read.doc) THEN "match" ELSE "cleanup"
<1>1. /\ read.step = "manifest" /\ read.use \in {"verify", "verifyNew"} /\ Deliver
      /\ write' = [write EXCEPT !.step = step, !.verified = read.got, !.owners = @ \cup {"reopened"}]
      /\ file' = file /\ candidate' = candidate /\ output' = output /\ live' = live /\ left' = left
      /\ count' = count
  BY DEF Compare, disk
<1>2. /\ read' \in ReadRecords /\ read'.step = "idle" /\ read'.owners = {} /\ read'.use = "open"
      /\ Readable(read.got) /\ read.doc = ReadBack(read.got) /\ read.got \in Contents
  BY <1>1, DeliverGives
<1>3. write.step = "reopen" /\ (read.use = "verify" <=> ~Fresh)
  BY <1>1 DEF CodecInv, PurposeInv
<1>4. step \in {"match", "cleanup"} /\ (step = "match" <=> AsIntended(read.got) /\ EqualExact(write.doc, read.doc))
  OBVIOUS
<1> HIDE DEF step
<1>5. /\ write' \in WriteRecords /\ write'.step = step /\ write'.kind = write.kind
      /\ write'.doc = write.doc /\ write'.strength = write.strength /\ write'.salt = write.salt
      /\ write'.verified = read.got /\ write'.faulty = write.faulty
  <2>1. write \in WriteRecords /\ {"match", "cleanup"} \subseteq WriteSteps \cup {"cleanup"}
    BY Typed DEF WriteSteps
  <2> QED BY <1>1, <1>2, <1>4, <2>1, OwnerSet DEF WriteRecords
<1>6. VerifiedInv'
  <2>1. ~Fresh => Fits(read.got)
    BY <1>1, <1>3, FitsKept DEF AfterKey
  <2>2. read.got # None
    BY <1>2, Typed
  <2> QED BY <1>1, <1>2, <1>4, <1>5, <2>1, <2>2
         DEF VerifiedInv, Fresh, Fits, AsIntended, SerialStrength
<1>7. UndisturbedInv'
  <2> SUFFICES ASSUME ~write.faulty PROVE UndisturbedInv'
    BY <1>5 DEF UndisturbedInv
  <2>1. /\ read.got = candidate.content /\ step = "match" /\ Writable(write.doc)
        /\ candidate = Made(Wire(write.doc), "sound")
    BY <1>1, <1>4, UndisturbedResult
  <2> QED BY <1>1, <1>2, <1>5, <2>1 DEF UndisturbedInv, Made
<1>8. candidate \in Candidates \cup {None} /\ count' \in CountRecords
  BY <1>1, Typed DEF CountRecords
<1> QED BY <1>1, <1>2, <1>3, <1>4, <1>5, <1>6, <1>7, <1>8, WriterStep

\* And so it does the second time.
LEMMA CompareAgainKept ==
    ASSUME CodecInv, CompareAgain
    PROVE  CodecInv'
<1> DEFINE step == IF EqualExact(write.doc, read.doc) THEN "publish" ELSE "abort"
<1>1. /\ read.step = "manifest" /\ read.use \in {"adopt", "adoptNew"} /\ Deliver
      /\ write' = [write EXCEPT !.step = step, !.adopted = read.got]
      /\ file' = file /\ candidate' = candidate /\ output' = output /\ live' = live /\ left' = left
      /\ count' = count
  BY DEF CompareAgain, disk
<1>2. /\ read' \in ReadRecords /\ read'.step = "idle" /\ read'.owners = {} /\ read'.use = "open"
      /\ read.got \in Contents
  BY <1>1, DeliverGives
<1>3. write.step = "handed" /\ write.kind # "export"
  BY <1>1 DEF CodecInv, PurposeInv
<1>4. step \in {"publish", "abort"} /\ (step = "publish" <=> EqualExact(write.doc, read.doc))
  OBVIOUS
<1> HIDE DEF step
<1>5. /\ write' \in WriteRecords /\ write'.step = step /\ write'.kind = write.kind
      /\ write'.doc = write.doc /\ write'.strength = write.strength /\ write'.salt = write.salt
      /\ write'.verified = write.verified /\ write'.faulty = write.faulty
  <2>1. write \in WriteRecords
    BY Typed
  <2> QED BY <1>1, <1>2, <1>4, <2>1 DEF WriteRecords
<1>6. VerifiedInv'
  <2>1. VerifiedInv
    BY DEF CodecInv
  <2> QED BY <1>1, <1>3, <1>5, <2>1 DEF VerifiedInv, Fresh, Fits, AsIntended, SerialStrength
<1>7. UndisturbedInv'
  <2> SUFFICES ASSUME ~write.faulty PROVE UndisturbedInv'
    BY <1>5 DEF UndisturbedInv
  <2>1. step = "publish" /\ Writable(write.doc) /\ candidate = Made(Wire(write.doc), "sound")
    BY <1>1, <1>4, UndisturbedResult
  <2>2. write.verified = candidate.content
    BY <1>3 DEF CodecInv, UndisturbedInv
  <2> QED BY <1>1, <1>2, <1>5, <2>1, <2>2 DEF UndisturbedInv, Made
<1>8. candidate \in Candidates \cup {None} /\ count' \in CountRecords
  BY <1>1, Typed DEF CountRecords
<1> QED BY <1>1, <1>2, <1>3, <1>4, <1>5, <1>6, <1>7, <1>8, WriterStep

\* What was verified is handed on.
LEMMA FinishingKept ==
    ASSUME CodecInv, Finishing
    PROVE  CodecInv'
<1>1. /\ file' = file /\ candidate' = candidate /\ output' = output /\ live' = live /\ left' = left
      /\ count' = count /\ read' = read
      /\ Match \/ CloseReopened
  BY DEF Finishing, disk
<1>2. write.step \in {"match", "close"} /\ write \in WriteRecords
  BY <1>1, Typed DEF Match, CloseReopened
<1>3. read.step = "idle" /\ read.owners = {} /\ read \in ReadRecords
  BY <1>2, Alone
<1>4. candidate \in Candidates \cup {None} /\ count \in CountRecords /\ None \notin Candidates
  BY Typed DEF CountRecords
<1>5. /\ write' \in WriteRecords /\ write'.kind = write.kind
      /\ write'.doc = write.doc /\ write'.strength = write.strength /\ write'.salt = write.salt
      /\ write'.verified = write.verified /\ write'.faulty = write.faulty
      /\ write'.step \in {"close", "handed", "cleanup"}
      /\ ~write.faulty => write'.step # "cleanup"
  <2>1. {} \in SUBSET WriteOwners /\ "close" \in WriteSteps /\ "handed" \in WriteSteps
    BY DEF WriteSteps
  <2>2. CASE CloseReopened
    BY <1>2, <2>1, <2>2 DEF CloseReopened, WriteRecords
  <2>3. CASE Match /\ Ours /\ candidate.content = write.verified
    <3>1. WriteOn("close", {})
      BY <2>3 DEF Match
    <3> QED BY <2>1, <3>1, WritesOn
  <2>4. CASE Match /\ ~(Ours /\ candidate.content = write.verified)
    <3>1. GiveUp /\ write.step = "match"
      BY <2>4 DEF Match
    <3>2. write.faulty
      <4> SUFFICES ASSUME ~write.faulty PROVE FALSE
        OBVIOUS
      <4>1. candidate = Made(Wire(write.doc), "sound") /\ write.verified = candidate.content
        BY <3>1 DEF CodecInv, UndisturbedInv
      <4>2. Wire(write.doc) \in Seq(Frames) /\ "sound" \in Seals
        <5>1. write.doc \in Documents
          BY <1>2 DEF CodecInv, TaskInv, WriteRecords
        <5> QED BY <5>1, WireTyped DEF Seals
      <4>3. candidate \in Candidates /\ candidate.ours = TRUE
        BY <4>1, <4>2, MadeTyped
      <4> QED BY <1>4, <2>4, <4>1, <4>3 DEF Ours
    <3> QED BY <3>1, <3>2, GivesUp
  <2> QED BY <1>1, <2>2, <2>3, <2>4
<1>6. VerifiedInv'
  <2>1. VerifiedInv
    BY DEF CodecInv
  <2> QED BY <1>1, <1>2, <1>5, <2>1 DEF VerifiedInv, Fresh, Fits, AsIntended, SerialStrength
<1>7. UndisturbedInv'
  <2>1. UndisturbedInv
    BY DEF CodecInv
  <2> SUFFICES ASSUME ~write.faulty PROVE UndisturbedInv'
    BY <1>5 DEF UndisturbedInv
  <2>2. /\ Writable(write.doc) /\ candidate = Made(Wire(write.doc), "sound")
        /\ write.verified = candidate.content
    BY <1>2, <2>1 DEF UndisturbedInv
  <2>3. write'.step \in {"close", "handed"}
    BY <1>5
  <2>4. Made(Wire(write.doc), "sound")' = Made(Wire(write.doc), "sound")
    BY <1>1, <1>5 DEF Made
  <2> QED BY <1>1, <1>3, <1>5, <2>2, <2>3, <2>4 DEF UndisturbedInv
<1>8. /\ write.step # "idle" /\ write'.step # "idle" /\ write'.step # "publish"
      /\ candidate' \in Candidates \cup {None} /\ count' \in CountRecords
      /\ count'.tasks = count.tasks /\ count'.moves = count.moves
  BY <1>1, <1>2, <1>4, <1>5
<1>9. read' \in ReadRecords /\ read'.step = "idle" /\ read'.owners = {}
  BY <1>1, <1>3
<1> QED BY <1>1, <1>5, <1>6, <1>7, <1>8, <1>9, WriterStep

\* An exception ends the attempt.
LEMMA WriteFailsKept ==
    ASSUME CodecInv, WriteFails
    PROVE  CodecInv'
<1> DEFINE step == IF write.step = "handed" THEN "abort" ELSE "cleanup"
<1>1. /\ file' = file /\ candidate' = candidate /\ output' = output /\ live' = live /\ left' = left
      /\ read' = read /\ read.step = "idle" /\ write.step \in WriteSteps /\ Faulty
      /\ write' = [write EXCEPT !.step = step, !.faulty = TRUE]
  BY DEF WriteFails, disk
<1>2. step \in {"abort", "cleanup"}
  OBVIOUS
<1> HIDE DEF step
<1>3. /\ write' \in WriteRecords /\ write'.step = step /\ write'.kind = write.kind
      /\ write'.doc = write.doc /\ write'.strength = write.strength /\ write'.salt = write.salt
      /\ write'.faulty = TRUE
  <2>1. write \in WriteRecords
    BY Typed
  <2> QED BY <1>1, <1>2, <2>1 DEF WriteRecords
<1>4. read.owners = {} /\ read \in ReadRecords
  BY <1>1, Typed DEF CodecInv, NothingIsLeft
<1>5. VerifiedInv' /\ UndisturbedInv'
  BY <1>2, <1>3 DEF VerifiedInv, UndisturbedInv
<1>6. candidate \in Candidates \cup {None} /\ write.step # "idle"
  BY <1>1, Typed DEF WriteSteps
<1> QED BY <1>1, <1>2, <1>3, <1>4, <1>5, <1>6, FaultCounts, WriterStep

LeftRecords == [files : SUBSET {"partial", "verified"}, stuck : SUBSET (ReadOwners \cup WriteOwners)]

\* The end of a service operation, whatever it leaves behind.
LEMMA TaskEnds ==
    ASSUME CodecInv, read.step = "idle", read' = read, write' = NoWrite,
           candidate' \in Candidates \cup {None}, count' \in CountRecords, left' \in LeftRecords,
           "partial" \in left'.files => "artifact" \in left'.stuck,
           file' \in Contents \cup {None}, live' \in Sessions \cup {None},
           output' \in [content : Contents, doc : Documents] \cup {None},
           SessionInv', DocumentInv'
    PROVE  CodecInv'
<1>1. NothingIsLeft /\ read \in ReadRecords
  BY Typed DEF CodecInv
<1>2. write'.step = "idle" /\ write'.owners = {} /\ write' \in WriteRecords
  BY DEF NoWrite, WriteRecords
<1>3. TypeOK'
  BY <1>1, <1>2 DEF NothingIsLeft, TypeOK, ReadRecords, WriteRecords, CountRecords, LeftRecords
<1>4. NothingIsLeft'
  BY <1>1, <1>2, <1>3 DEF NothingIsLeft
<1>5. ReadInv' /\ OwnersInv' /\ PurposeInv'
  <2>1. ReadInv /\ OwnersInv
    BY DEF CodecInv
  <2> QED BY <2>1 DEF ReadInv, OwnersInv, PurposeInv, ReadSteps
<1>6. TaskInv' /\ VerifiedInv' /\ UndisturbedInv'
  BY <1>2 DEF TaskInv, VerifiedInv, UndisturbedInv
<1> QED BY <1>4, <1>5, <1>6 DEF CodecInv

\* What an end leaves alone.
LEMMA Unchanged ==
    ASSUME CodecInv, file' = file, live' = live, output' = output,
           count' \in CountRecords, count'.tasks = count.tasks, count'.moves = count.moves
    PROVE  /\ file' \in Contents \cup {None} /\ live' \in Sessions \cup {None}
           /\ output' \in [content : Contents, doc : Documents] \cup {None}
           /\ SessionInv' /\ DocumentInv'
<1>1. SessionInv /\ DocumentInv /\ TypeOK
  BY DEF CodecInv, NothingIsLeft
<1> QED BY <1>1 DEF TypeOK, SessionInv, DocumentInv

\* The operation raises, and a partial candidate that stays is known to be stuck.
LEMMA EndsTask ==
    ASSUME CodecInv, NEW what \in {"partial", "verified"}, NEW there,
           NEW stuck \in SUBSET WriteOwners, EndTask(what, there, stuck),
           what = "partial" => there = Removed \/ "artifact" \in stuck,
           read.step = "idle", UNCHANGED <<file, output, live, read>>,
           count' \in CountRecords, count'.tasks = count.tasks, count'.moves = count.moves
    PROVE  CodecInv'
<1>1. left \in LeftRecords /\ ("partial" \in left.files => "artifact" \in left.stuck)
  BY DEF CodecInv, NothingIsLeft, TypeOK, LeftRecords
<1>2. /\ write' = NoWrite /\ candidate' = None
      /\ left' = [files |-> IF there # None /\ there.ours THEN left.files \cup {what} ELSE left.files,
                  stuck |-> left.stuck \cup stuck]
  BY DEF EndTask
<1>3. left' \in LeftRecords
  BY <1>1, <1>2 DEF LeftRecords
<1>4. "partial" \in left'.files => "artifact" \in left'.stuck
  <2>1. there = Removed => ~(there # None /\ there.ours)
    BY DEF Removed, Ours
  <2> QED BY <1>1, <1>2, <2>1
<1> QED BY <1>2, <1>3, <1>4, Unchanged, TaskEnds

\* The finally clause of the writer.
LEMMA CleanUpKept ==
    ASSUME CodecInv, CleanUp
    PROVE  CodecInv'
<1>1. write.step = "cleanup" /\ UNCHANGED <<file, output, live, read>>
  BY DEF CleanUp
<1>2. read.step = "idle"
  BY <1>1, Alone
<1>3. CASE EndTask("partial", Removed, {}) /\ UNCHANGED count
  <2>1. count' \in CountRecords /\ count'.tasks = count.tasks /\ count'.moves = count.moves
    BY <1>3, Typed DEF CountRecords
  <2> QED BY <1>1, <1>2, <1>3, <2>1, EndsTask
<1>4. CASE Faulty /\ EndTask("partial", candidate, {"artifact"})
  <2>1. {"artifact"} \in SUBSET WriteOwners
    BY OwnerSet
  <2> QED BY <1>1, <1>2, <1>4, <2>1, FaultCounts, EndsTask
<1>5. CASE Faulty /\ \E owner \in write.owners \cap {"reopened", "keys"} : EndTask("partial", Removed, {owner})
  <2>1. PICK owner \in {"reopened", "keys"} : EndTask("partial", Removed, {owner})
    BY <1>5
  <2>2. {owner} \in SUBSET WriteOwners
    BY OwnerSet
  <2> QED BY <1>1, <1>2, <1>5, <2>1, <2>2, FaultCounts, EndsTask
<1> QED BY <1>3, <1>4, <1>5 DEF CleanUp

\* The service gives up a verified candidate.
LEMMA AbortKept ==
    ASSUME CodecInv, Abort
    PROVE  CodecInv'
<1>1. /\ write.step = "abort" /\ UNCHANGED <<file, output, live, read>> /\ count' = count
      /\ EndTask("verified", candidate, {})
  BY DEF Abort
<1>2. read.step = "idle"
  BY <1>1, Alone
<1>3. count' \in CountRecords /\ count'.tasks = count.tasks /\ count'.moves = count.moves
  BY <1>1, Typed DEF CountRecords
<1> QED BY <1>1, <1>2, <1>3, EndsTask

\* The store refuses or fails.
LEMMA PublishFailsKept ==
    ASSUME CodecInv, PublishFails
    PROVE  CodecInv'
<1>1. /\ read.step = "idle" /\ candidate' = None /\ write' = NoWrite /\ read' = read
      /\ UNCHANGED count \/ Faulty
      /\ file' = file /\ output' = output /\ live' = live /\ left' = left
  BY DEF PublishFails, Publishing
<1>2. count' \in CountRecords /\ count'.tasks = count.tasks /\ count'.moves = count.moves
  BY <1>1, FaultCounts, Typed DEF CountRecords
<1>3. left \in LeftRecords /\ ("partial" \in left.files => "artifact" \in left.stuck)
  BY DEF CodecInv, NothingIsLeft, TypeOK, LeftRecords
<1> QED BY <1>1, <1>2, <1>3, Unchanged, TaskEnds

\* What is published becomes the file, and its revision the session.
LEMMA PublishedKept ==
    ASSUME CodecInv, Published
    PROVE  CodecInv'
<1>1. /\ read.step = "idle" /\ candidate' = None /\ write' = NoWrite /\ read' = read
      /\ left' = left /\ count' = count
      /\ output' = [content |-> candidate.content, doc |-> write.doc]
      /\ file' = IF write.kind = "export" THEN file ELSE candidate.content
      /\ live' = IF write.kind # "export" /\ write.adopted = candidate.content
                 THEN [doc |-> write.doc, strength |-> write.strength, salt |-> write.salt,
                       hardened |-> FALSE]
                 ELSE live
      /\ candidate # None /\ candidate.content = write.verified
  BY DEF Published, Publishing, AsVerified
<1>2. write.step \in {"handed", "publish"} /\ write \in WriteRecords
  BY Typed DEF Published, Publishing
<1>3. candidate.content \in Contents /\ candidate.content # None
  BY <1>1, Typed DEF Candidates
<1>4. /\ write.doc \in Documents /\ write.strength = 2 /\ write.salt \in Nat
      /\ write.kind = "save" => live # None /\ write.doc = live.doc /\ write.salt = live.salt
      /\ write.kind = "create" => live = None /\ file = None /\ write.doc = NewDocument
      /\ write.kind \in {"save", "create", "export"}
      /\ Fresh => write.salt = count.tasks
  BY <1>2 DEF CodecInv, TaskInv, WriteRecords
<1>5. candidate.content.salt = write.salt
  <2>1. AsIntended(write.verified) /\ (~Fresh => Fits(write.verified))
    BY <1>2 DEF CodecInv, VerifiedInv
  <2>2. CASE Fresh
    BY <1>1, <2>1, <2>2 DEF AsIntended
  <2>3. CASE ~Fresh
    BY <1>1, <1>4, <2>1, <2>3 DEF Fits, Fresh
  <2> QED BY <2>2, <2>3
<1>6. SessionInv /\ DocumentInv /\ count.tasks \in Nat /\ live \in Sessions \cup {None}
      /\ file \in Contents \cup {None}
  BY Typed DEF CodecInv
<1>7. write.salt <= count.tasks
  <2>1. CASE Fresh
    BY <1>4, <1>6, <2>1
  <2>2. CASE ~Fresh
    BY <1>4, <1>6, <2>2 DEF Fresh, SessionInv
  <2> QED BY <2>1, <2>2
<1>8. CASE write.kind = "export"
  <2>1. file' = file /\ live' = live
    BY <1>1, <1>8
  <2>2. SessionInv' /\ DocumentInv'
    BY <1>1, <1>6, <2>1 DEF SessionInv, DocumentInv
  <2>3. file' \in Contents \cup {None} /\ live' \in Sessions \cup {None}
    BY <1>6, <2>1
  <2>4. output' \in [content : Contents, doc : Documents] \cup {None}
    BY <1>1, <1>3, <1>4
  <2>5. left' \in LeftRecords /\ ("partial" \in left'.files => "artifact" \in left'.stuck)
    BY <1>1 DEF CodecInv, NothingIsLeft, TypeOK, LeftRecords
  <2>6. candidate' \in Candidates \cup {None} /\ count' \in CountRecords
    BY <1>1, Typed DEF CountRecords
  <2> QED BY <1>1, <2>2, <2>3, <2>4, <2>5, <2>6, TaskEnds
<1>9. CASE write.kind # "export"
  <2>1. file' = candidate.content
    BY <1>1, <1>9
  <2>2. \/ live' = live
        \/ /\ live' \in Sessions /\ live'.doc = write.doc /\ live'.strength = 2 /\ live'.salt = write.salt
    <3>1. [doc |-> write.doc, strength |-> write.strength, salt |-> write.salt, hardened |-> FALSE] \in Sessions
      BY <1>4 DEF Sessions
    <3> QED BY <1>1, <1>4, <1>9, <3>1
  <2>3. SessionInv'
    <3>1. file' # None /\ file'.salt <= count'.tasks
      BY <1>1, <1>3, <1>5, <1>7, <2>1
    <3> QED BY <1>1, <1>6, <1>7, <2>2, <3>1 DEF SessionInv
  <2>4. DocumentInv'
    <3>1. Faithful(write.doc) /\ (count.moves = 0 => InOrder(write.doc))
      BY <1>4, <1>6, <1>9, NewDocumentFaithful DEF DocumentInv
    <3> QED BY <1>1, <1>6, <2>2, <3>1 DEF DocumentInv
  <2>5. file' \in Contents \cup {None} /\ live' \in Sessions \cup {None}
    BY <1>3, <1>6, <2>1, <2>2
  <2>6. output' \in [content : Contents, doc : Documents] \cup {None}
    BY <1>1, <1>3, <1>4
  <2>7. left' \in LeftRecords /\ ("partial" \in left'.files => "artifact" \in left'.stuck)
    BY <1>1 DEF CodecInv, NothingIsLeft, TypeOK, LeftRecords
  <2>8. candidate' \in Candidates \cup {None} /\ count' \in CountRecords
    BY <1>1, Typed DEF CountRecords
  <2> QED BY <1>1, <2>3, <2>4, <2>5, <2>6, <2>7, <2>8, TaskEnds
<1> QED BY <1>8, <1>9

\* Another program does what it likes with the candidate.
LEMMA MeddleKept ==
    ASSUME CodecInv, Meddle
    PROVE  CodecInv'
<1>1. /\ candidate # None /\ Faulty /\ write' = [write EXCEPT !.faulty = TRUE]
      /\ file' = file /\ output' = output /\ live' = live /\ read' = read /\ left' = left
  BY DEF Meddle
<1>2. count' \in CountRecords /\ count'.tasks = count.tasks /\ count'.moves = count.moves
  BY <1>1, FaultCounts
<1>3. candidate \in Candidates /\ file \in Contents \cup {None}
  BY <1>1, Typed
<1>4. candidate' \in Candidates \cup {None}
  <2>1. CASE candidate' = None
    BY <2>1
  <2>2. CASE file # None /\ \E ours \in {FALSE, candidate.ours} : candidate' = [content |-> file, ours |-> ours]
    <3>1. PICK ours \in {FALSE, candidate.ours} : candidate' = [content |-> file, ours |-> ours]
      BY <2>2
    <3>2. ours \in BOOLEAN /\ file \in Contents
      BY <1>3, <2>2 DEF Candidates
    <3> QED BY <3>1, <3>2 DEF Candidates
  <2>3. CASE candidate' = [candidate EXCEPT !.content.seal = "forged", !.content.id = 0]
    BY <1>3, <2>3 DEF Candidates, Contents, Seals
  <2> QED BY <2>1, <2>2, <2>3 DEF Meddle
<1>5. /\ write' \in WriteRecords /\ write'.faulty /\ write'.step = write.step /\ write'.kind = write.kind
      /\ write'.doc = write.doc /\ write'.strength = write.strength /\ write'.salt = write.salt
      /\ write'.verified = write.verified /\ write'.owners = write.owners
  BY <1>1, Typed DEF WriteRecords
<1>6. NothingIsLeft'
  <2>1. NothingIsLeft
    BY DEF CodecInv
  <2>2. TypeOK'
    BY <1>1, <1>2, <1>4, <1>5, <2>1 DEF NothingIsLeft, TypeOK, WriteRecords, CountRecords
  <2> QED BY <1>1, <1>5, <2>1, <2>2 DEF NothingIsLeft
<1>7. ReadInv' /\ OwnersInv'
  BY <1>1 DEF CodecInv, ReadInv, OwnersInv
<1>8. PurposeInv' /\ SessionInv' /\ DocumentInv' /\ TaskInv' /\ VerifiedInv'
  <2>1. PurposeInv /\ SessionInv /\ DocumentInv /\ TaskInv /\ VerifiedInv
    BY DEF CodecInv
  <2>2. PurposeInv'
    BY <1>1, <1>5, <2>1 DEF PurposeInv, Fresh, Fits, SerialStrength
  <2>3. SessionInv' /\ DocumentInv' /\ TaskInv' /\ VerifiedInv'
    BY <1>1, <1>2, <1>5, <2>1
       DEF SessionInv, DocumentInv, TaskInv, VerifiedInv, Fresh, Fits, AsIntended, SerialStrength
  <2> QED BY <2>2, <2>3
<1>9. UndisturbedInv'
  BY <1>5 DEF UndisturbedInv
<1> QED BY <1>6, <1>7, <1>8, <1>9 DEF CodecInv

\* An edit goes on beside an export, whose document is a copy.
LEMMA EditKept ==
    ASSUME CodecInv, Edit
    PROVE  CodecInv'
<1>1. live # None /\ live \in Sessions /\ ~Frozen
  BY Typed DEF Edit
<1>2. live.doc \in Documents /\ DocumentInv /\ Faithful(live.doc)
  BY <1>1 DEF CodecInv, DocumentInv, Sessions
<1>3. PICK plan, moved : moved \in {0, 1} /\ Commit(plan, moved) /\ Kind(live.doc, plan, moved)
  BY <1>2, EditKind DEF CommitsKind
<1> DEFINE doc == Fork(live.doc, plan)
<1>4. /\ file' = file /\ candidate' = candidate /\ output' = output /\ read' = read /\ write' = write
      /\ left' = left /\ live' = [live EXCEPT !.doc = doc]
      /\ count' = [count EXCEPT !.edits = @ + 1, !.moves = @ + moved]
  BY <1>3 DEF Commit, disk
<1>5. /\ doc \in Documents /\ Faithful(doc)
      /\ moved = 0 /\ InOrder(live.doc) => InOrder(doc)
  BY <1>3 DEF Kind
<1> HIDE DEF doc
<1>6. /\ live' \in Sessions /\ live' # None /\ live'.doc = doc /\ live'.strength = live.strength
      /\ live'.salt = live.salt /\ live'.hardened = live.hardened
  BY <1>1, <1>4, <1>5, Typed DEF Sessions
<1>7. /\ count' \in CountRecords /\ count'.tasks = count.tasks /\ count.moves \in Nat
      /\ count'.moves = count.moves + moved
  <2>1. moved \in Nat /\ count \in CountRecords
    BY <1>3, Typed DEF CountRecords
  <2>2. count' \in CountRecords
    <3>1. \A c \in CountRecords, e, m \in Nat : [c EXCEPT !.edits = e, !.moves = m] \in CountRecords
      BY DEF CountRecords
    <3>2. count.edits + 1 \in Nat /\ count.moves + moved \in Nat
      BY <2>1 DEF CountRecords
    <3> QED BY <1>4, <2>1, <3>1, <3>2
  <2> QED BY <1>4, <2>1, <2>2 DEF CountRecords
<1>8. NothingIsLeft'
  <2>1. NothingIsLeft
    BY DEF CodecInv
  <2>2. TypeOK'
    BY <1>4, <1>6, <1>7, <2>1 DEF NothingIsLeft, TypeOK, CountRecords
  <2> QED BY <1>4, <2>1, <2>2 DEF NothingIsLeft
<1>9. ReadInv' /\ OwnersInv'
  BY <1>4 DEF CodecInv, ReadInv, OwnersInv
<1>10. PurposeInv' /\ VerifiedInv'
  <2>1. PurposeInv /\ VerifiedInv
    BY DEF CodecInv
  <2>2. Fresh' = Fresh
    BY <1>4 DEF Fresh
  <2>3. SerialStrength(live)' = SerialStrength(live)
    BY <1>6 DEF SerialStrength
  <2>4. PurposeInv'
    BY <1>1, <1>4, <1>6, <2>1, <2>2, <2>3 DEF PurposeInv, Fits
  <2>5. VerifiedInv'
    BY <1>4, <1>6, <2>1, <2>2, <2>3 DEF VerifiedInv, Fits, AsIntended
  <2> QED BY <2>4, <2>5
<1>11. SessionInv'
  BY <1>1, <1>4, <1>6, <1>7 DEF CodecInv, SessionInv
<1>12. DocumentInv'
  BY <1>1, <1>2, <1>3, <1>5, <1>6, <1>7 DEF DocumentInv
<1>13. TaskInv'
  <2>1. TaskInv
    BY DEF CodecInv
  <2> QED BY <1>1, <1>4, <1>6, <1>7, <2>1 DEF TaskInv, Frozen, Fresh
<1>14. UndisturbedInv'
  BY <1>4, <1>7 DEF CodecInv, UndisturbedInv, Made
<1> QED BY <1>8, <1>9, <1>10, <1>11, <1>12, <1>13, <1>14 DEF CodecInv

-----------------------------------------------------------------------------
(* The theorems *)

\* It holds at the start.
LEMMA InitKept ==
    ASSUME Init
    PROVE  CodecInv
<1>1. /\ live = None /\ read = NoRead /\ write = NoWrite /\ candidate = None /\ output = None
      /\ left = [files |-> {}, stuck |-> {}]
      /\ count = [edits |-> 0, moves |-> 0, tasks |-> 0, faults |-> 0]
  BY DEF Init
<1>2. file = None \/ (file \in Contents /\ file.salt = 0)
  <2>1. CASE file = None
    BY <2>1
  <2>2. ASSUME NEW source \in Sources, file = Content(Flat(source), source.strength, 0, source.seal, 0)
        PROVE  file \in Contents /\ file.salt = 0
    <3>1. /\ source.header \in Seq(Frames) /\ source.records \in Seq(Seq(Frames))
          /\ source.strength \in 1 .. 2 /\ source.seal \in Seals
      BY VaultCodecAssumption
    <3>2. FlattenSeq(source.records) \in Seq(Frames)
      BY <3>1, FlattenType
    <3>3. Flat(source) \in Seq(Frames)
      BY <3>1, <3>2, ConcatProperties DEF Flat
    <3> QED BY <2>2, <3>1, <3>3 DEF Content, Contents
  <2> QED BY <2>1, <2>2 DEF Init
<1>3. Unread \in Progress
  BY DEF Unread, Progress
<1>4. read \in ReadRecords /\ read.step = "idle" /\ read.owners = {} /\ read.use = "open"
  BY <1>1, <1>3 DEF NoRead, ReadRecords, ReadUses
<1>5. write \in WriteRecords /\ write.step = "idle" /\ write.owners = {} /\ write.faulty = FALSE
  BY <1>1 DEF NoWrite, WriteRecords
<1>6. count \in CountRecords /\ count.tasks = 0
  BY <1>1 DEF CountRecords
<1>7. left \in LeftRecords /\ left.files = {}
  BY <1>1 DEF LeftRecords
<1>8. TypeOK
  BY <1>1, <1>2, <1>4, <1>5, <1>6, <1>7
     DEF TypeOK, ReadRecords, WriteRecords, CountRecords, LeftRecords
<1>9. NothingIsLeft
  BY <1>4, <1>5, <1>7, <1>8 DEF NothingIsLeft
<1>10. ReadInv /\ OwnersInv /\ PurposeInv
  BY <1>4 DEF ReadInv, OwnersInv, PurposeInv, ReadSteps
<1>11. SessionInv /\ DocumentInv
  BY <1>1, <1>2, <1>6 DEF SessionInv, DocumentInv
<1>12. TaskInv /\ VerifiedInv /\ UndisturbedInv
  BY <1>4, <1>5 DEF TaskInv, VerifiedInv, UndisturbedInv
<1> QED BY <1>9, <1>10, <1>11, <1>12 DEF CodecInv

\* A stuttering step keeps it.
LEMMA StutterKept ==
    ASSUME CodecInv, UNCHANGED vars
    PROVE  CodecInv'
<1>1. /\ file' = file /\ live' = live /\ read' = read /\ write' = write /\ candidate' = candidate
      /\ output' = output /\ left' = left /\ count' = count
  BY DEF vars
<1>2. NothingIsLeft'
  BY <1>1 DEF CodecInv, NothingIsLeft, TypeOK
<1>3. ReadInv' /\ OwnersInv' /\ PurposeInv'
  BY <1>1 DEF CodecInv, ReadInv, OwnersInv, PurposeInv, Fresh, Fits, SerialStrength
<1>4. SessionInv' /\ DocumentInv' /\ TaskInv'
  BY <1>1 DEF CodecInv, SessionInv, DocumentInv, TaskInv, Fresh
<1>5. VerifiedInv' /\ UndisturbedInv'
  BY <1>1 DEF CodecInv, VerifiedInv, UndisturbedInv, Made, Fresh, Fits, AsIntended, SerialStrength
<1> QED BY <1>2, <1>3, <1>4, <1>5 DEF CodecInv

\* Every step of the specification keeps the invariant.
LEMMA StepKept ==
    ASSUME CodecInv, [Next]_vars
    PROVE  CodecInv'
<1>1. CASE Open \/ Save \/ Create \/ Export
  BY <1>1, OpenKept, SaveKept, CreateKept, ExportKept
<1>2. CASE Reading \/ ReadFails \/ Opened \/ CloseNext \/ ReadEnds
  BY <1>2, ReadingKept, ReadFailsKept, OpenedKept, CloseNextKept, ReadEndsKept
<1>3. CASE Writing \/ Reopen \/ Compare \/ Finishing \/ WriteFails
  BY <1>3, WritingKept, ReopenKept, CompareKept, FinishingKept, WriteFailsKept
<1>4. CASE CleanUp \/ Abort \/ ReopenAgain \/ CompareAgain
  BY <1>4, CleanUpKept, AbortKept, ReopenKept, CompareAgainKept
<1>5. CASE Published \/ PublishFails \/ Meddle \/ Edit
  BY <1>5, PublishedKept, PublishFailsKept, MeddleKept, EditKept
<1>6. CASE UNCHANGED vars
  BY <1>6, StutterKept
<1> QED BY <1>1, <1>2, <1>3, <1>4, <1>5, <1>6 DEF Next

\* The inductive invariant holds in every reachable state, for every set of files, every limit
\* and every number of operations, edits, faults and interferences.
THEOREM CodecCorrect == Spec => []CodecInv
<1>1. Init => CodecInv
  BY InitKept
<1>2. CodecInv /\ [Next]_vars => CodecInv'
  BY StepKept
<1> QED BY <1>1, <1>2, PTL DEF Spec

\* A transaction of reader.py or writer.py that fails or succeeds leaves nothing open and no file
\* behind but what a failing close or removal left, and closes payloads before what they borrow.
THEOREM CodecLeavesNothing == Spec => []NothingIsLeft
<1>1. CodecInv => NothingIsLeft
  BY DEF CodecInv
<1> QED BY <1>1, CodecCorrect, PTL

\* Without a fault or an interference no attempt of the writer is given up after its first check:
\* what validate_document_for_serialization accepts, the reader reads back as the same document.
THEOREM CodecAgrees == Spec => []WriterAgreesWithReader
<1>1. CodecInv => WriterAgreesWithReader
  BY DEF CodecInv, UndisturbedInv, WriterAgreesWithReader
<1> QED BY <1>1, CodecCorrect, PTL

\* A faithful document says of its fields what the reader would.
LEMMA FaithfulIsExact ==
    ASSUME NEW doc \in Documents, Faithful(doc)
    PROVE  LET header == Bare(doc.header)
               bare == BareRecords(doc)
           IN  /\ doc.header = Classified(0, header)
               /\ \A r \in DOMAIN bare : doc.records[r].fields = Classified(r, bare[r])
               /\ ToSet(doc.warnings) = ToSet(Warnings(header, bare))
               /\ Len(doc.warnings) = Len(Warnings(header, bare))
               /\ Conforms(header, bare)
               /\ InOrder(doc) /\ WithinLimits(doc) => Writable(doc)
<1> DEFINE header == Bare(doc.header)
           bare == BareRecords(doc)
           warnings == Warnings(header, bare)
<1>1. /\ doc.header = Classified(0, header)
      /\ \A r \in DOMAIN bare : doc.records[r].fields = Classified(r, bare[r])
      /\ Conforms(header, bare) /\ doc.version = Level[header[1].payload]
      /\ ToSet(doc.warnings) = ToSet(warnings)
      /\ \A i, j \in DOMAIN doc.warnings : doc.warnings[i] = doc.warnings[j] => i = j
  BY DEF Faithful
<1>2. /\ header \in Seq(Frames) /\ doc.header \in Seq(Fields) /\ bare \in Seq(Seq(Frames))
      /\ doc.warnings \in Seq(Alerts)
  BY BareTyped, BareRecordsTyped DEF Documents
<1>3. warnings \in Seq(Alerts) /\ Ascending(Earlier, warnings)
  BY <1>2, WarningsAre
<1>4. \A i, j \in DOMAIN warnings : warnings[i] = warnings[j] => i = j
  <2> HIDE DEF warnings
  <2> QED BY <1>3, EarlierAsymmetric, AscendingInjective
<1>5. Len(doc.warnings) = Cardinality(ToSet(doc.warnings))
  BY <1>1, <1>2, InjectiveLength
<1>6. Len(warnings) = Cardinality(ToSet(warnings))
  <2> HIDE DEF warnings
  <2> QED BY <1>3, <1>4, InjectiveLength
<1>7. ASSUME InOrder(doc), WithinLimits(doc) PROVE Writable(doc)
  <2>1. DOMAIN bare = DOMAIN doc.records /\ \A r \in DOMAIN doc.records : bare[r] = Bare(doc.records[r].fields)
    BY DEF BareRecords
  <2>2. EvidenceAgrees(doc)
    BY <1>1, <1>7, <2>1 DEF EvidenceAgrees, InOrder
  <2>3. Level[doc.header[1].payload] = doc.version
    <3>1. header # <<>>
      BY <1>1 DEF Conforms, VersionConforms
    <3>2. 1 \in DOMAIN doc.header
      <4>1. Len(header) = Len(doc.header) /\ Len(header) # 0
        BY <1>2, <3>1, BareTyped, EmptySeq
      <4> QED BY <1>2, <4>1, SeqDomain
    <3>3. header[1].payload = doc.header[1].payload
      BY <3>2 DEF Bare
    <3> QED BY <1>1, <3>3
  <2> QED BY <1>1, <1>7, <2>2, <2>3 DEF Writable
<1> HIDE DEF warnings
<1> QED BY <1>1, <1>5, <1>6, <1>7 DEF warnings

\* Whatever was edited, a session's classes and preservation warnings are those the reader would
\* give, its document is legal, and within the limits it can be written if nothing was reordered.
THEOREM CodecEvidence == Spec => []EvidenceIsExact
<1>1. CodecInv => EvidenceIsExact
  <2> SUFFICES ASSUME CodecInv, live # None PROVE EvidenceIsExact
    BY DEF EvidenceIsExact
  <2>1. live.doc \in Documents /\ Faithful(live.doc) /\ (count.moves = 0 => InOrder(live.doc))
    BY Typed DEF CodecInv, DocumentInv, Sessions
  <2> QED BY <2>1, FaithfulIsExact DEF EvidenceIsExact
<1> QED BY <1>1, CodecCorrect, PTL

\* Only a publication changes what is published.
LEMMA OnlyPublished ==
    ASSUME [Next]_vars, output' # output
    PROVE  Published
BY DEF Next, vars, disk, Open, Save, Create, Export, Start, Reading, ReadFails, Opened, CloseNext, ReadEnds,
       Writing, Reopen, Compare, Finishing, WriteFails, CleanUp, Abort, ReopenAgain, CompareAgain,
       PublishFails, Meddle, Edit, Add, Apply, Protect, Delete, Move, Commit

\* What LocalVaultStore publishes authenticates and reads back as the revision that was asked for,
\* stretched no weaker than the file it replaces, whatever became of the candidate meanwhile.
THEOREM CodecPublishes == Spec => PublishedIsTheRevision
<1>1. ASSUME CodecInv, [Next]_vars, output' # output
      PROVE  LET at == Parsed(output'.content.wire)
             IN  /\ output'.content.seal = "sound" /\ ~at.failed
                 /\ EqualExact(output'.doc, Document(at.header, at.records))
                 /\ output'.content.strength >= IF file = None THEN 2 ELSE file.strength
                 /\ write.kind = "export" => output'.content.salt # live.salt
  <2>1. /\ Publishing /\ candidate # None /\ candidate.content = write.verified
        /\ output' = [content |-> candidate.content, doc |-> write.doc]
    BY <1>1, OnlyPublished DEF Published, AsVerified
  <2>2. /\ output'.content = write.verified /\ output'.doc = write.doc
        /\ write.step \in {"handed", "publish"} /\ write \in WriteRecords
    BY <1>1, <2>1, Typed DEF Publishing
  <2>3. /\ Readable(write.verified) /\ AsIntended(write.verified) /\ (~Fresh => Fits(write.verified))
        /\ EqualExact(write.doc, ReadBack(write.verified))
    BY <1>1, <2>2 DEF CodecInv, VerifiedInv
  <2>4. /\ write.strength = 2 /\ (write.kind = "save" => live # None)
        /\ (write.kind = "export" => live.salt < count.tasks)
        /\ (Fresh => write.salt = count.tasks)
    BY <1>1, <2>2 DEF CodecInv, TaskInv
  <2>5. write.verified.strength = 2
    <3>1. CASE Fresh
      BY <2>3, <2>4, <3>1 DEF AsIntended
    <3>2. CASE ~Fresh
      BY <1>1, <2>3, <2>4, <3>2 DEF Fits, Fresh, SerialStrength, CodecInv, SessionInv
    <3> QED BY <3>1, <3>2
  <2>6. (IF file = None THEN 2 ELSE file.strength) \in 1 .. 2
    BY <1>1, Typed DEF Contents
  <2>7. write.kind = "export" => write.verified.salt # live.salt
    <3> SUFFICES ASSUME write.kind = "export" PROVE write.verified.salt # live.salt
      OBVIOUS
    <3>1. Fresh /\ write.verified.salt = count.tasks
      BY <2>3, <2>4 DEF Fresh, AsIntended
    <3>2. live.salt < count.tasks /\ count.tasks \in Nat /\ live.salt \in Nat
      <4>1. live # None
        BY <1>1, <2>2 DEF CodecInv, TaskInv
      <4> QED BY <1>1, <2>4, <4>1, Typed DEF Sessions
    <3> QED BY <3>1, <3>2
  <2> QED BY <2>2, <2>3, <2>5, <2>6, <2>7 DEF Readable, ReadBack
<1>2. CodecInv /\ [Next]_vars =>
        [output' # output =>
           LET at == Parsed(output'.content.wire)
           IN  /\ output'.content.seal = "sound" /\ ~at.failed
               /\ EqualExact(output'.doc, Document(at.header, at.records))
               /\ output'.content.strength >= IF file = None THEN 2 ELSE file.strength
               /\ write.kind = "export" => output'.content.salt # live.salt]_vars
  BY <1>1
<1> QED BY <1>2, CodecCorrect, PTL DEF Spec, PublishedIsTheRevision

\* A document that stays keeps everything.
LEMMA KeepsItself ==
    ASSUME NEW doc
    PROVE  Keeps(doc, doc)
<1>1. "uuid" \in DOMAIN RecordSchema
  BY DEF RecordSchema
<1> QED BY <1>1 DEF Keeps

\* A step changes the session's document as an edit does, or not at all.
LEMMA StepKeeps ==
    ASSUME CodecInv, [Next]_vars, live # None, live' # None
    PROVE  Keeps(live.doc, live'.doc)
<1>1. CASE Edit
  <2>1. live.doc \in Documents /\ Faithful(live.doc)
    BY Typed DEF CodecInv, DocumentInv, Sessions
  <2>2. PICK plan, moved : Commit(plan, moved) /\ Kind(live.doc, plan, moved)
    BY <1>1, <2>1, EditKind DEF CommitsKind
  <2>3. live'.doc = Fork(live.doc, plan)
    BY <2>2, Typed DEF Commit, Sessions
  <2> QED BY <2>2, <2>3 DEF Kind
<1>2. CASE Published
  <2>1. live'.doc = live.doc
    <3>1. write.kind # "export" /\ write.step # "idle" => write.doc = live.doc
      BY Typed DEF CodecInv, TaskInv, WriteRecords
    <3>2. write.step # "idle"
      BY <1>2 DEF Published, Publishing
    <3> QED BY <1>2, <3>1, <3>2 DEF Published
  <2> QED BY <2>1, KeepsItself
<1>3. CASE Opened
  BY <1>3 DEF Opened, CodecInv, PurposeInv
<1>4. CASE ~Edit /\ ~Published /\ ~Opened
  <2>1. live' = live
    BY <1>4
       DEF Next, vars, disk, Open, Save, Create, Export, Start, Reading, ReadFails, CloseNext, ReadEnds,
           Writing, Reopen, Compare, Finishing, WriteFails, CleanUp, Abort, ReopenAgain, CompareAgain,
           PublishFails, Meddle
  <2> QED BY <2>1, KeepsItself
<1> QED BY <1>1, <1>2, <1>3, <1>4

\* An edit of session.py changes the fields of one type in one record, adds a record or removes
\* one: every other field of every record keeps its bytes and its place among them.
THEOREM CodecKeepsFields == Spec => OtherFieldsKept
<1>1. CodecInv /\ [Next]_vars => (live # None /\ live' # None => Keeps(live.doc, live'.doc))
  BY StepKeeps
<1>2. CodecInv /\ [Next]_vars =>
        [live # None /\ live' # None =>
           /\ live'.doc.header = live.doc.header
           /\ \E edited \in Handles(live.doc) \cup {0}, type \in DOMAIN RecordSchema :
                \A handle \in Handles(live.doc) \cap Handles(live'.doc) :
                  IF handle = edited
                  THEN Except(FieldsOf(live'.doc, handle), type) = Except(FieldsOf(live.doc, handle), type)
                  ELSE FieldsOf(live'.doc, handle) = FieldsOf(live.doc, handle)]_vars
  BY <1>1 DEF Keeps
<1> QED BY <1>2, CodecCorrect, PTL DEF Spec, OtherFieldsKept

=============================================================================
