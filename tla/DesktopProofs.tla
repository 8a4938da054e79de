----------------------------- MODULE DesktopProofs -----------------------------
(***************************************************************************)
(* Proofs about Desktop: DesktopInv is inductive, and every property of    *)
(* the module follows from it, for any numbers of commands, searches and   *)
(* clipboard marks.                                                        *)
(*                                                                         *)
(* A command of the worker ends in one of three ways: it returns a facade  *)
(* that succeeds the present one, it raises, or it calls the GUI thread.   *)
(* ReturnStep, RaiseStep and CallStep prove the invariant for these, and   *)
(* the commands are instances; DeliverStep, ServedStep and UserStep do the *)
(* same for the GUI thread.                                                *)
(***************************************************************************)
EXTENDS Desktop, SequenceTheorems, TLAPS

USE DesktopAssumption

-----------------------------------------------------------------------------
(* Sequences of elements of any kind *)

LEMMA Appended ==
    ASSUME NEW s, s \in Seq(Range(s)), NEW e
    PROVE  /\ Append(s, e) \in Seq(Range(Append(s, e)))
           /\ Len(s) \in Nat
           /\ Len(Append(s, e)) = Len(s) + 1
           /\ \A i \in 1..Len(s) : Append(s, e)[i] = s[i]
           /\ Append(s, e)[Len(s) + 1] = e
  <1> DEFINE S == Range(s) \cup {e}
  <1>1. s \in Seq(S)
    BY SeqMonotonic
  <1>2. Append(s, e) \in Seq(S)
    BY <1>1, AppendProperties
  <1>3. Append(s, e) \in Seq(Range(Append(s, e)))
    BY <1>2, SeqOfRange
  <1>4. Len(s) \in Nat
    BY <1>1, LenProperties
  <1> QED
    BY <1>1, <1>3, <1>4, AppendProperties

LEMMA Shortened ==
    ASSUME NEW s, s \in Seq(Range(s)), s # <<>>
    PROVE  /\ Tail(s) \in Seq(Range(Tail(s)))
           /\ Head(s) = s[1]
           /\ Len(s) \in Nat \ {0}
           /\ Len(Tail(s)) = Len(s) - 1
           /\ \A i \in 1..Len(Tail(s)) : Tail(s)[i] = s[i + 1]
  <1>1. /\ Tail(s) \in Seq(Range(s))
        /\ Len(Tail(s)) = Len(s) - 1
        /\ \A i \in 1..Len(Tail(s)) : Tail(s)[i] = s[i + 1]
    BY HeadTailProperties
  <1>2. Tail(s) \in Seq(Range(Tail(s)))
    BY <1>1, SeqOfRange
  <1>3. Len(s) \in Nat \ {0}
    BY EmptySeq
  <1> QED
    BY <1>1, <1>2, <1>3

LEMMA Elements ==
    ASSUME NEW s, s \in Seq(Range(s))
    PROVE  Range(s) = {s[i] : i \in 1..Len(s)}
  BY RangeEquality

LEMMA RangeOfTail ==
    ASSUME NEW s, s \in Seq(Range(s)), s # <<>>
    PROVE  Range(s) = Range(Tail(s)) \cup {Head(s)}
  <1>1. /\ Tail(s) \in Seq(Range(Tail(s)))
        /\ Head(s) = s[1]
        /\ Len(s) \in Nat \ {0}
        /\ Len(Tail(s)) = Len(s) - 1
        /\ \A i \in 1..Len(Tail(s)) : Tail(s)[i] = s[i + 1]
    BY Shortened
  <1>2. /\ Range(s) = {s[i] : i \in 1..Len(s)}
        /\ Range(Tail(s)) = {Tail(s)[i] : i \in 1..Len(Tail(s))}
    BY <1>1, Elements
  <1>3. 1 \in 1..Len(s) /\ \A i \in 1..Len(Tail(s)) : i + 1 \in 1..Len(s)
    BY <1>1
  <1>4. \A i \in 1..Len(s) : i = 1 \/ (i - 1 \in 1..Len(Tail(s)) /\ (i - 1) + 1 = i)
    BY <1>1
  <1>5. Range(Tail(s)) \cup {Head(s)} \subseteq Range(s)
    BY <1>1, <1>2, <1>3, Zenon
  <1>6. \A i \in 1..Len(s) : s[i] \in Range(Tail(s)) \cup {Head(s)}
    <2> SUFFICES ASSUME NEW i \in 1..Len(s), i # 1
                 PROVE  s[i] \in Range(Tail(s))
      BY <1>1, Zenon
    <2>1. i - 1 \in 1..Len(Tail(s)) /\ (i - 1) + 1 = i
      BY <1>4
    <2>2. Tail(s)[i - 1] = s[(i - 1) + 1]
      BY <1>1, <2>1, Zenon
    <2>3. Tail(s)[i - 1] = s[i]
      BY <2>1, <2>2, Zenon
    <2> QED
      BY <1>2, <2>1, <2>3, Zenon
  <1> QED
    BY <1>2, <1>5, <1>6, Zenon

LEMMA CompletionForm ==
    ASSUME NEW c, NEW outcome
    PROVE  \/ Completion(c, outcome) = <<>>
           \/ \E e : Completion(c, outcome) = <<e>> /\ e.kind \in {"searched", "recorded"}
  <1>1. CASE c.op = "search"
    BY <1>1 DEF Completion
  <1>2. CASE c.op = "record"
    BY <1>2 DEF Completion
  <1>3. CASE c.op \notin {"search", "record"}
    BY <1>3 DEF Completion
  <1> QED
    BY <1>1, <1>2, <1>3

\* What the worker emits at the end of a command.
LEMMA Emitted ==
    ASSUME events \in Seq(Range(events)), NEW e, NEW c, NEW outcome,
           events' = events \o <<e>> \o Completion(c, outcome)
    PROVE  /\ events' \in Seq(Range(events'))
           /\ Len(events) \in Nat
           /\ Len(events') \in Nat
           /\ Len(events') > Len(events)
           /\ \A i \in 1..Len(events) : events'[i] = events[i]
           /\ events'[Len(events) + 1] = e
           /\ \A i \in 1..Len(events') : i > Len(events) + 1 => events'[i].kind \in {"searched", "recorded"}
  <1>1. PICK a :
        /\ a = events \o <<e>>
        /\ a \in Seq(Range(a))
        /\ Len(events) \in Nat
        /\ Len(a) = Len(events) + 1
        /\ \A i \in 1..Len(events) : a[i] = events[i]
        /\ a[Len(events) + 1] = e
    <2> WITNESS Append(events, e)
    <2> QED
      BY Appended, AppendIsConcat
  <1>2. events' = a \o Completion(c, outcome)
    BY <1>1
  <1>3. CASE Completion(c, outcome) = <<>>
    <2>1. events' = a
      BY <1>1, <1>2, <1>3, ConcatEmptySeq
    <2>2. \A i \in 1..Len(a) : ~(i > Len(events) + 1)
      BY <1>1
    <2>3. Len(a) \in Nat /\ Len(a) > Len(events)
      BY <1>1
    <2> QED
      BY <1>1, <2>1, <2>2, <2>3, Zenon
  <1>4. ASSUME NEW f, Completion(c, outcome) = <<f>>, f.kind \in {"searched", "recorded"}
        PROVE  /\ events' \in Seq(Range(events'))
               /\ Len(events') = Len(a) + 1
               /\ \A i \in 1..Len(a) : events'[i] = a[i]
               /\ events'[Len(a) + 1].kind \in {"searched", "recorded"}
    <2>1. events' = Append(a, f)
      BY <1>1, <1>2, <1>4, AppendIsConcat
    <2>2. /\ Append(a, f) \in Seq(Range(Append(a, f)))
          /\ Len(Append(a, f)) = Len(a) + 1
          /\ \A i \in 1..Len(a) : Append(a, f)[i] = a[i]
          /\ Append(a, f)[Len(a) + 1] = f
      <3>1. a \in Seq(Range(a))
        BY <1>1
      <3> QED
        BY <3>1, Appended, SMTT(30)
    <2> QED
      BY <1>4, <2>1, <2>2, Zenon
  <1>5. CASE \E f : Completion(c, outcome) = <<f>> /\ f.kind \in {"searched", "recorded"}
    <2>1. /\ events' \in Seq(Range(events'))
          /\ Len(events') = Len(a) + 1
          /\ \A i \in 1..Len(a) : events'[i] = a[i]
          /\ events'[Len(a) + 1].kind \in {"searched", "recorded"}
      BY <1>4, <1>5
    <2>2. Len(events') \in Nat /\ Len(events') > Len(events)
      BY <1>1, <2>1
    <2>3. \A i \in 1..Len(events') : i > Len(events) + 1 => i = Len(a) + 1
      BY <1>1, <2>1
    <2>4. \A i \in 1..Len(events') : i > Len(events) + 1 => events'[i].kind \in {"searched", "recorded"}
      BY <2>1, <2>3, Zenon
    <2>5. \A i \in 1..Len(events) : i \in 1..Len(a)
      BY <1>1
    <2>6. \A i \in 1..Len(events) : events'[i] = events[i]
      BY <1>1, <2>1, <2>5, Zenon
    <2>7. Len(events) + 1 \in 1..Len(a)
      BY <1>1
    <2>8. events'[Len(events) + 1] = e
      BY <1>1, <2>1, <2>7, Zenon
    <2> QED
      BY <1>1, <2>1, <2>2, <2>4, <2>6, <2>8
  <1> QED
    BY <1>3, <1>5, CompletionForm, Zenon

LEMMA Positions ==
    ASSUME NEW m \in Nat, NEW n \in Nat
    PROVE  \A i \in 1..m : \/ i \in 1..n
                           \/ i > n /\ i = n + 1
                           \/ i > n /\ i > n + 1
  OBVIOUS

LEMMA OneBefore ==
    ASSUME NEW m \in Nat, NEW n, n = m + 1
    PROVE  \A i \in 1..m : i + 1 = n => i = m
  OBVIOUS

LEMMA FourSwitches ==
    ASSUME NEW a \in BOOLEAN, NEW b \in BOOLEAN, NEW c \in BOOLEAN, NEW d \in BOOLEAN
    PROVE  LET r == [active |-> a, ticking |-> b, submitted |-> c, refused |-> d] IN
           /\ r \in [{"active", "submitted", "ticking", "refused"} -> BOOLEAN]
           /\ r.active = a
           /\ r.ticking = b
           /\ r.submitted = c
           /\ r.refused = d
  OBVIOUS

LEMMA Called ==
    ASSUME events \in Seq(Range(events)), NEW e, events' = Append(events, e)
    PROVE  /\ events' \in Seq(Range(events'))
           /\ Len(events) \in Nat
           /\ Len(events') \in Nat
           /\ Len(events') = Len(events) + 1
           /\ \A i \in 1..Len(events) : i \in 1..Len(events')
           /\ \A i \in 1..Len(events) : events'[i] = events[i]
           /\ \A i \in 1..Len(events') : \/ i \in 1..Len(events)
                                         \/ i = Len(events') /\ events'[i] = e
  <1>1. /\ events' \in Seq(Range(events'))
        /\ Len(events) \in Nat
        /\ Len(events') = Len(events) + 1
        /\ \A i \in 1..Len(events) : events'[i] = events[i]
        /\ events'[Len(events) + 1] = e
    BY Appended
  <1>2. \A i \in 1..Len(events) : i \in 1..Len(events')
    BY <1>1
  <1>3. \A i \in 1..Len(events') : i \in 1..Len(events) \/ i = Len(events) + 1
    BY <1>1
  <1>4. \A i \in 1..Len(events') : \/ i \in 1..Len(events)
                                   \/ i = Len(events') /\ events'[i] = e
    <2>1. events'[Len(events')] = e
      BY <1>1
    <2>2. \A i \in 1..Len(events') : i \in 1..Len(events) \/ i = Len(events')
      BY <1>1, <1>3
    <2> QED
      BY <2>1, <2>2, Zenon
  <1> QED
    BY <1>1, <1>2, <1>4

-----------------------------------------------------------------------------
(* What a command may publish *)

LEMMA Published ==
    ASSUME NEW f, FacadeOK(f), NEW phase \in Phases
    PROVE  LET g == Publish(f, phase) IN
           /\ FacadeOK(g)
           /\ g.phase = phase
           /\ g.generation = f.generation + 1
           /\ g.keys = f.keys
           /\ g.next = f.next
           /\ g.handles = f.handles
           /\ g.owner = 0
  BY DEF FacadeOK, Publish

LEMMA RestoredSucceeds ==
    ASSUME FacadeOK(facade), Distinct(facade), NEW phase \in Phases
    PROVE  /\ Successor(facade)
           /\ Successor(Restored(phase))
           /\ Restored(phase).phase = phase
           /\ Restored(phase).owner = 0
  <1>1. Successor(facade)
    BY DEF Successor, FacadeOK
  <1>2. Successor(Restored(phase))
    BY <1>1, Published DEF Restored, Successor, FacadeOK, Distinct
  <1> QED
    BY <1>1, <1>2, Published DEF Restored

LEMMA LockedSucceeds ==
    ASSUME FacadeOK(facade)
    PROVE  /\ Successor(LockedFacade)
           /\ LockedFacade.phase = "LOCKED"
           /\ LockedFacade.owner = 0
  <1> DEFINE f == [facade EXCEPT !.keys = NoKeys]
  <1>1. DOMAIN NoKeys = {} /\ \A S : NoKeys \in [{} -> S]
    BY DEF NoKeys
  <1>3. /\ DOMAIN f = DOMAIN facade
        /\ f.keys = NoKeys
        /\ f.phase = facade.phase
        /\ f.generation = facade.generation
        /\ f.decision = facade.decision
        /\ f.owner = facade.owner
        /\ f.next = facade.next
        /\ f.handles = facade.handles
    BY DEF FacadeOK
  <1>2. FacadeOK(f)
    <2> HIDE DEF f
    <2>1. DOMAIN f.keys = {} /\ f.keys \in [{} -> 1..(f.next - 1)]
      BY <1>1, <1>3
    <2> QED
      BY <1>3, <2>1 DEF FacadeOK
  <1>4. LockedFacade = Publish(f, "LOCKED") /\ "LOCKED" \in Phases
    BY DEF LockedFacade, Phases
  <1> HIDE DEF f
  <1>5. /\ FacadeOK(LockedFacade)
        /\ LockedFacade.generation = facade.generation + 1
        /\ LockedFacade.keys = NoKeys
        /\ LockedFacade.next = facade.next
        /\ LockedFacade.handles = facade.handles
    BY <1>2, <1>3, <1>4, Published
  <1>6. facade.next \in Nat /\ facade.handles \in Nat
    BY DEF FacadeOK
  <1>7. Successor(LockedFacade)
    BY <1>1, <1>5, <1>6 DEF Successor, Distinct
  <1> QED
    BY <1>2, <1>4, <1>7, Published

LEMMA AdoptedSucceeds ==
    ASSUME FacadeOK(facade), NEW phase \in Phases
    PROVE  /\ Successor(Adopted(phase))
           /\ Adopted(phase).phase = phase
           /\ Adopted(phase).owner = 0
  <1> DEFINE h == facade.handles + 1
             keys == [x \in {h} |-> facade.next]
             f == [facade EXCEPT !.keys = keys, !.handles = h, !.next = @ + 1]
  <1>1. /\ DOMAIN f = DOMAIN facade
        /\ f.keys = keys
        /\ f.phase = facade.phase
        /\ f.generation = facade.generation
        /\ f.decision = facade.decision
        /\ f.owner = facade.owner
        /\ f.next = facade.next + 1
        /\ f.handles = facade.handles + 1
    BY DEF FacadeOK
  <1>2. FacadeOK(f)
    <2> HIDE DEF f
    <2>1. /\ facade.next \in Nat
          /\ facade.handles \in Nat
          /\ facade.next \in 1..(f.next - 1)
          /\ h \in 1..f.handles
      BY <1>1 DEF FacadeOK
    <2>2. DOMAIN f.keys = {h} /\ f.keys \in [{h} -> 1..(f.next - 1)]
      BY <1>1, <2>1
    <2> QED
      BY <1>1, <2>1, <2>2 DEF FacadeOK
  <1>3. Adopted(phase) = Publish(f, phase)
    BY DEF Adopted
  <1> HIDE DEF f
  <1>4. Successor(Adopted(phase))
    BY <1>1, <1>2, <1>3, Published DEF Successor, FacadeOK, Distinct
  <1> QED
    BY <1>2, <1>3, <1>4, Published

LEMMA ExtendedSucceeds ==
    ASSUME FacadeOK(facade), Distinct(facade), NEW phase \in Phases
    PROVE  /\ Successor(Publish(Extended, phase))
           /\ Publish(Extended, phase).phase = phase
           /\ Publish(Extended, phase).owner = 0
  <1> DEFINE h == facade.handles + 1
             keys == [x \in DOMAIN facade.keys \cup {h} |-> IF x = h THEN facade.next ELSE facade.keys[x]]
             f == Extended
  <1>1. /\ DOMAIN f = DOMAIN facade
        /\ f.keys = keys
        /\ f.phase = facade.phase
        /\ f.generation = facade.generation
        /\ f.decision = facade.decision
        /\ f.owner = facade.owner
        /\ f.next = facade.next + 1
        /\ f.handles = facade.handles + 1
    BY DEF FacadeOK, Extended
  <1>2. h \notin DOMAIN facade.keys
    BY DEF FacadeOK
  <1>3. FacadeOK(f)
    <2> HIDE DEF f
    <2>1. /\ facade.next \in Nat
          /\ facade.handles \in Nat
          /\ \A x \in DOMAIN facade.keys : x \in 1..f.handles /\ facade.keys[x] \in 1..(f.next - 1)
          /\ facade.next \in 1..(f.next - 1)
          /\ h \in 1..f.handles
      BY <1>1 DEF FacadeOK
    <2>2. /\ f.keys \in [DOMAIN f.keys -> 1..(f.next - 1)]
          /\ DOMAIN f.keys \subseteq 1..f.handles
      BY <1>1, <2>1
    <2> HIDE DEF keys
    <2> QED
      BY <1>1, <2>1, <2>2 DEF FacadeOK
  <1>4. \A x \in DOMAIN facade.keys : facade.keys[x] \in 1..(facade.next - 1)
    BY DEF FacadeOK
  <1>5. \A x \in DOMAIN keys : /\ x = h => keys[x] = facade.next
                               /\ x # h => x \in DOMAIN facade.keys /\ keys[x] = facade.keys[x]
    BY <1>2
  <1>6. facade.next \in Nat /\ facade.handles \in Nat /\ facade.generation \in Nat
    BY DEF FacadeOK
  <1>7. Distinct(f)
    BY <1>1, <1>4, <1>5, <1>6 DEF Distinct
  <1>8. \A x \in DOMAIN keys : \/ x \in DOMAIN facade.keys /\ keys[x] = facade.keys[x]
                               \/ keys[x] >= facade.next
    BY <1>2, <1>6
  <1> HIDE DEF f, keys, h
  <1>9. Successor(Publish(f, phase))
    <2> DEFINE g == Publish(f, phase)
    <2>1. /\ FacadeOK(g)
          /\ g.generation = facade.generation + 1
          /\ g.keys = keys
          /\ g.next = facade.next + 1
          /\ g.handles = facade.handles + 1
      BY <1>1, <1>3, Published
    <2> HIDE DEF g
    <2>2. Distinct(g)
      BY <1>1, <1>7, <2>1 DEF Distinct
    <2>3. \A x \in DOMAIN g.keys : \/ x \in DOMAIN facade.keys /\ g.keys[x] = facade.keys[x]
                                   \/ g.keys[x] >= facade.next
      BY <1>8, <2>1
    <2>4. Successor(g)
      BY <1>6, <2>1, <2>2, <2>3 DEF Successor
    <2> QED
      BY <2>4 DEF g
  <1> QED
    BY <1>3, <1>9, Published DEF f

LEMMA AwaitingSucceeds ==
    ASSUME FacadeOK(facade), Distinct(facade),
           NEW decision \in {"close", "replace"}, NEW owner \in 0..MaxAsked
    PROVE  LET f == Awaiting(decision, owner) IN
           /\ Successor(f)
           /\ f.phase = "AWAITING_DECISION"
           /\ f.owner = owner
  BY DEF Awaiting, Successor, FacadeOK, Distinct, Phases

-----------------------------------------------------------------------------
(* What the GUI was told stays true *)

LEMMA Carried ==
    ASSUME FacadeOK(facade), NEW f, Successor(f)
    PROVE  /\ \A key, handle : KeyOf(key, handle, facade) => KeyOf(key, handle, f)
           /\ \A p : Names(p, facade) => Names(p, f)
           /\ \A s : SnapshotOK(s, facade) => SnapshotOK(s, f)
           /\ \A c : CommandOK(c, facade) => CommandOK(c, f)
  <1>1. ASSUME NEW key, NEW handle, KeyOf(key, handle, facade)
        PROVE  KeyOf(key, handle, f)
    BY <1>1 DEF KeyOf, Successor, FacadeOK
  <1>2. ASSUME NEW p, Names(p, facade)
        PROVE  Names(p, f)
    BY <1>1, <1>2 DEF Names
  <1>3. /\ facade.generation \in Nat
        /\ f.generation \in Nat
        /\ f = facade \/ f.generation = facade.generation + 1
    BY DEF Successor, FacadeOK
  <1>4. ASSUME NEW s, SnapshotOK(s, facade)
        PROVE  SnapshotOK(s, f)
    BY <1>1, <1>3, <1>4 DEF SnapshotOK
  <1>5. ASSUME NEW c, CommandOK(c, facade)
        PROVE  CommandOK(c, f)
    BY <1>2, <1>3, <1>5 DEF CommandOK
  <1> QED
    BY <1>1, <1>2, <1>4, <1>5

LEMMA SnapshotIsOK ==
    ASSUME NEW f, FacadeOK(f), Distinct(f)
    PROVE  /\ SnapshotOK(Snapshot(f), f)
           /\ Snapshot(f).phase = f.phase
  <1>1. \A h \in DOMAIN f.keys : KeyOf(f.keys[h], h, f)
    BY DEF KeyOf, FacadeOK, Distinct
  <1> QED
    BY <1>1 DEF SnapshotOK, Snapshot, FacadeOK

-----------------------------------------------------------------------------
(* The three ways a step of the worker can end *)

LEMMA InvTypes ==
    ASSUME TypeOK
    PROVE  /\ FacadeOK(facade)
           /\ queue \in Seq(Commands)
           /\ owners \subseteq 1..MaxAsked
           /\ 0 \notin owners
           /\ facade.owner \in 0..MaxAsked
           /\ facade.phase \in Phases
           /\ idle \in [{"active", "submitted", "ticking", "refused"} -> BOOLEAN]
           /\ asked \in 0..MaxAsked
           /\ clipboard # None => clipboard \in Nonces \cup {Foreign}
  BY DEF TypeOK, FacadeOK

\* A command returns a facade that succeeds the present one.
LEMMA ReturnStep ==
    ASSUME DesktopInv,
           worker.pc \in {"ready", "served"},
           NEW f, Successor(f),
           NEW kept \in {0, f.owner}, NEW outcome,
           f.phase \in Locking => clipboard \notin Nonces,
           Return(f, kept, outcome), WorkerKeeps, astray' = FALSE
    PROVE  DesktopInv'
  <1> DEFINE c == worker.command
             e == [kind |-> "result", snapshot |-> Snapshot(f)]
  <1>0. /\ TypeOK
        /\ Distinct(facade)
        /\ QueueInv
        /\ EventsInv
        /\ WorkerInv
        /\ GuiInv
        /\ LatestInv
        /\ IdleInv
        /\ ClearingInv
        /\ SecretIsTimed
        /\ SecretsHaveOwners
        /\ IdleIsWatched
    BY DEF DesktopInv
  <1>1. /\ facade' = f
        /\ worker' = Free
        /\ events' = events \o <<e>> \o Completion(c, outcome)
        /\ owners' = owners \ ({c.id, facade.owner} \ {kept})
        /\ idle' = [idle EXCEPT !.refused = @ \/ (c.idle /\ f.phase \in Unlocked)]
    BY DEF Return, Refused
  <1>2. /\ queue' = queue
        /\ screen' = screen
        /\ search' = search
        /\ editor' = editor
        /\ passphrase' = passphrase
        /\ clipboard' = clipboard
        /\ port' = port
        /\ clearing' = clearing
        /\ down' = down
        /\ asked' = asked
        /\ typed' = typed
    BY DEF WorkerKeeps, clip
  <1>3. /\ FacadeOK(facade)
        /\ queue \in Seq(Commands)
        /\ 0 \notin owners
        /\ idle \in [{"active", "submitted", "ticking", "refused"} -> BOOLEAN]
    BY <1>0, InvTypes
  <1>4. worker # Free /\ worker.command \in Commands /\ c.idle \in BOOLEAN
    <2>1. worker # Free
      BY DEF Free
    <2>2. worker.command \in Commands
      BY <1>0 DEF TypeOK
    <2> QED
      BY <2>1, <2>2 DEF Commands
  <1>5. /\ FacadeOK(f)
        /\ Distinct(f)
        /\ SnapshotOK(Snapshot(f), f)
        /\ Snapshot(f).phase = f.phase
    BY SnapshotIsOK DEF Successor
  <1>6. /\ events \in Seq(Range(events))
        /\ events' \in Seq(Range(events'))
        /\ Len(events) \in Nat
        /\ Len(events') \in Nat
        /\ Len(events') > Len(events)
        /\ \A i \in 1..Len(events) : events'[i] = events[i]
        /\ events'[Len(events) + 1] = e
        /\ \A i \in 1..Len(events') : i > Len(events) + 1 => events'[i].kind \in {"searched", "recorded"}
    <2>1. events \in Seq(Range(events))
      BY <1>0 DEF EventsInv
    <2> QED
      BY <1>1, <2>1, Emitted, Zenon
  <1>7. /\ idle'.active = idle.active
        /\ idle'.ticking = idle.ticking
        /\ idle'.submitted = idle.submitted
        /\ idle' \in [{"active", "submitted", "ticking", "refused"} -> BOOLEAN]
        /\ idle.refused => idle'.refused
        /\ c.idle /\ f.phase \in Unlocked => idle'.refused
    BY <1>1, <1>3, <1>4
  <1>8. TypeOK'
    BY <1>0, <1>1, <1>2, <1>5, <1>7 DEF TypeOK, Free
  <1>9. QueueInv'
    BY <1>0, <1>1, <1>2, <1>3, Carried DEF QueueInv
  <1>10. EventsInv'
    <2>1. \A i \in 1..Len(events) : events[i].kind # "call" /\ EventOK(events[i], facade, worker)
      BY <1>0 DEF EventsInv, EventOK
    <2>2. \A i \in 1..Len(events) : EventOK(events[i], f, Free)
      BY <1>3, <2>1, Carried DEF EventOK
    <2>3. EventOK(e, f, Free) /\ e.kind # "call"
      BY <1>5 DEF EventOK
    <2>4. \A i \in 1..Len(events') : \/ i \in 1..Len(events)
                                     \/ i = Len(events) + 1
                                     \/ i > Len(events) + 1
      BY <1>6
    <2>5. \A i \in 1..Len(events') : EventOK(events'[i], f, Free) /\ events'[i].kind # "call"
      <3> SUFFICES ASSUME NEW i \in 1..Len(events')
                   PROVE  EventOK(events'[i], f, Free) /\ events'[i].kind # "call"
        OBVIOUS
      <3>1. CASE i \in 1..Len(events)
        BY <1>6, <2>1, <2>2, <3>1, Zenon
      <3>2. CASE i = Len(events) + 1
        BY <1>6, <2>3, <3>2, Zenon
      <3>3. CASE i > Len(events) + 1
        BY <1>6, <3>3 DEF EventOK
      <3> QED
        BY <2>4, <3>1, <3>2, <3>3
    <2> QED
      BY <1>1, <1>6, <2>5, Zenon DEF EventsInv
  <1>11. WorkerInv'
    BY <1>1 DEF WorkerInv, Free, Calling
  <1>12. GuiInv'
    BY <1>0, <1>1, <1>2, <1>3, Carried DEF GuiInv, EditorOK
  <1>13. LatestInv'
    <2>1. PICK n \in 1..Len(events') : n = Len(events) + 1
      BY <1>6
    <2>2. n \in 0..Len(events') /\ n # 0
      BY <1>6
    <2>3. \A j \in 1..Len(events') : j > n => events'[j].kind # "result"
      BY <1>6, <2>1
    <2>4. events'[n].kind = "result" /\ events'[n].snapshot.phase = f.phase
      BY <1>5, <1>6, <2>1
    <2>5. Newest(n)'
      BY <2>3, <2>4, Zenon DEF Newest
    <2>6. (NewestPhase(n) = facade.phase)'
      BY <1>1, <2>2, <2>4, Zenon DEF NewestPhase
    <2> QED
      BY <2>2, <2>5, <2>6, Zenon DEF LatestInv
  <1>14. IdleInv'
    BY <1>0, <1>2, <1>7 DEF IdleInv
  <1>15. SecretIsTimed'
    BY <1>0, <1>1, <1>2 DEF SecretIsTimed, Locking
  <1>16. SecretsHaveOwners'
    <2>1. Pipeline = Range(queue) \cup {c} /\ Pipeline' = Range(queue)
      BY <1>1, <1>2, <1>4 DEF Pipeline
    <2>2. owners' \subseteq {d.id : d \in Range(queue)} \cup {f.owner}
      BY <1>0, <1>1, <1>3, <2>1 DEF SecretsHaveOwners
    <2> QED
      BY <1>0, <1>1, <1>2, <1>8, <2>1, <2>2 DEF SecretsHaveOwners
  <1>17. IdleIsWatched'
    <2>1. Range(events) \subseteq Range(events') /\ e \in Range(events')
      <3>1. /\ Range(events) = {events[i] : i \in 1..Len(events)}
            /\ Range(events') = {events'[i] : i \in 1..Len(events')}
        BY <1>6, Elements
      <3>2. /\ \A i \in 1..Len(events) : i \in 1..Len(events')
            /\ Len(events) + 1 \in 1..Len(events')
        BY <1>6
      <3> QED
        BY <1>6, <3>1, <3>2, ZenonT(40)
    <2>2. Pipeline = Range(queue) \cup {c} /\ Pipeline' = Range(queue)
      BY <1>1, <1>2, <1>4 DEF Pipeline
    <2>3. e.kind = "result" /\ e.snapshot.phase = f.phase
      BY <1>5
    <2> QED
      BY <1>0, <1>2, <1>7, <2>1, <2>2, <2>3 DEF IdleIsWatched
  <1>18. ClearingInv'
    BY <1>0, <1>2 DEF ClearingInv
  <1> QED
    BY <1>1, <1>5, <1>8, <1>9, <1>10, <1>11, <1>12, <1>13, <1>14, <1>15, <1>16, <1>17, <1>18
       DEF DesktopInv, ActsOnWhatWasChosen

\* A command raises before it has changed anything.

LEMMA RaiseStep ==
    ASSUME DesktopInv, worker.pc = "ready", Raise, WorkerKeeps, astray' = FALSE
    PROVE  DesktopInv'
  <1> DEFINE c == worker.command
             e == [kind |-> "failed"]
  <1>0. /\ TypeOK
        /\ Distinct(facade)
        /\ QueueInv
        /\ EventsInv
        /\ WorkerInv
        /\ GuiInv
        /\ LatestInv
        /\ IdleInv
        /\ ClearingInv
        /\ SecretIsTimed
        /\ SecretsHaveOwners
        /\ IdleIsWatched
    BY DEF DesktopInv
  <1>1. /\ facade' = facade
        /\ worker' = Free
        /\ events' = events \o <<e>> \o Completion(c, None)
        /\ owners' = owners \ {c.id}
        /\ idle' = [idle EXCEPT !.refused = @ \/ (c.idle /\ facade.phase \in Unlocked)]
    BY DEF Raise, Refused
  <1>2. /\ queue' = queue
        /\ screen' = screen
        /\ search' = search
        /\ editor' = editor
        /\ passphrase' = passphrase
        /\ clipboard' = clipboard
        /\ port' = port
        /\ clearing' = clearing
        /\ down' = down
        /\ asked' = asked
        /\ typed' = typed
    BY DEF WorkerKeeps, clip
  <1>3. idle \in [{"active", "submitted", "ticking", "refused"} -> BOOLEAN]
    BY <1>0, InvTypes
  <1>4. worker # Free /\ worker.command \in Commands /\ c.idle \in BOOLEAN
    <2>1. worker # Free
      BY DEF Free
    <2>2. worker.command \in Commands
      BY <1>0 DEF TypeOK
    <2> QED
      BY <2>1, <2>2 DEF Commands
  <1>5. /\ Pipeline = Range(queue) \cup {c}
        /\ Pipeline' = Range(queue)
    BY <1>1, <1>2, <1>4 DEF Pipeline
  <1>6. /\ events \in Seq(Range(events))
        /\ events' \in Seq(Range(events'))
        /\ Len(events) \in Nat
        /\ Len(events') \in Nat
        /\ Len(events') > Len(events)
        /\ \A i \in 1..Len(events) : events'[i] = events[i]
        /\ events'[Len(events) + 1] = e
        /\ \A i \in 1..Len(events') : i > Len(events) + 1 => events'[i].kind \in {"searched", "recorded"}
    <2>1. events \in Seq(Range(events))
      BY <1>0 DEF EventsInv
    <2> QED
      BY <1>1, <2>1, Emitted, Zenon
  <1>7. /\ idle'.active = idle.active
        /\ idle'.ticking = idle.ticking
        /\ idle'.submitted = idle.submitted
        /\ idle' \in [{"active", "submitted", "ticking", "refused"} -> BOOLEAN]
        /\ idle.refused => idle'.refused
        /\ c.idle /\ facade.phase \in Unlocked => idle'.refused
    BY <1>1, <1>3, <1>4
  <1>8. TypeOK'
    BY <1>0, <1>1, <1>2, <1>7 DEF TypeOK, Free
  <1>9. Distinct(facade)' /\ QueueInv' /\ GuiInv' /\ SecretIsTimed'
    BY <1>0, <1>1, <1>2 DEF QueueInv, GuiInv, SecretIsTimed
  <1>10. \A i \in 1..Len(events') : \/ i \in 1..Len(events) /\ events'[i] = events[i]
                                    \/ /\ i > Len(events)
                                       /\ events'[i].kind \in {"failed", "searched", "recorded"}
    <2>1. \A i \in 1..Len(events') : \/ i \in 1..Len(events)
                                     \/ i > Len(events) /\ i = Len(events) + 1
                                     \/ i > Len(events) /\ i > Len(events) + 1
      <3>1. Len(events) \in Nat /\ Len(events') \in Nat
        BY <1>6
      <3> QED
        BY <3>1, Positions, Zenon
    <2>2. e.kind = "failed"
      OBVIOUS
    <2> QED
      BY <1>6, <2>1, <2>2, Zenon
  <1>11. EventsInv'
    <2>1. \A i \in 1..Len(events) : events[i].kind # "call" /\ EventOK(events[i], facade, worker)
      BY <1>0 DEF EventsInv, EventOK
    <2>2. \A i \in 1..Len(events) : EventOK(events[i], facade, Free)
      BY <2>1 DEF EventOK
    <2>3. \A i \in 1..Len(events') : EventOK(events'[i], facade, Free) /\ events'[i].kind # "call"
      BY <1>10, <2>1, <2>2 DEF EventOK
    <2> QED
      BY <1>1, <1>6, <2>3, Zenon DEF EventsInv
  <1>12. WorkerInv'
    BY <1>1 DEF WorkerInv, Free, Calling
  <1>13. PICK n \in 0..Len(events) : Newest(n) /\ NewestPhase(n) = facade.phase
    BY <1>0 DEF LatestInv
  <1>14. LatestInv'
    <2>1. n \in 0..Len(events') /\ (n # 0 => n \in 1..Len(events))
      BY <1>6
    <2>2. Newest(n)'
      <3>1. n > 0 => events'[n].kind = "result"
        BY <1>6, <1>13, <2>1 DEF Newest
      <3>2. \A j \in 1..Len(events') : j > n => events'[j].kind # "result"
        BY <1>10, <1>13, Zenon DEF Newest
      <3> QED
        BY <3>1, <3>2, Zenon DEF Newest
    <2>3. (NewestPhase(n) = facade.phase)'
      BY <1>1, <1>2, <1>6, <1>13, <2>1 DEF NewestPhase
    <2> QED
      BY <2>1, <2>2, <2>3, Zenon DEF LatestInv
  <1>15. IdleInv'
    BY <1>0, <1>2, <1>7 DEF IdleInv
  <1>16. SecretsHaveOwners'
    <2>1. owners' \subseteq {d.id : d \in Range(queue)} \cup {facade.owner}
      BY <1>0, <1>1, <1>5 DEF SecretsHaveOwners
    <2> QED
      BY <1>0, <1>1, <1>2, <1>5, <1>8, <2>1 DEF SecretsHaveOwners
  <1>17. IdleIsWatched'
    <2>1. /\ Range(events) = {events[i] : i \in 1..Len(events)}
          /\ Range(events') = {events'[i] : i \in 1..Len(events')}
      BY <1>6, Elements
    <2>2. \A i \in 1..Len(events) : i \in 1..Len(events')
      BY <1>6
    <2>3. Range(events) \subseteq Range(events')
      BY <1>6, <2>1, <2>2, Zenon
    <2>4. n # 0 => n \in 1..Len(events)
      BY <1>6
    \* a command that fails on a locked vault finds the news of the lock queued
    <2>5. facade.phase \in Unlocked \/ screen.phase \notin Unlocked
            \/ \E x \in Range(events') : x.kind = "result" /\ x.snapshot.phase \notin Unlocked
      <3>1. CASE n = 0
        BY <1>13, <3>1 DEF NewestPhase
      <3>2. CASE n # 0
        <4>1. events[n].kind = "result" /\ events[n].snapshot.phase = facade.phase
          BY <1>13, <2>4, <3>2 DEF Newest, NewestPhase
        <4>2. events[n] \in Range(events')
          BY <2>1, <2>3, <2>4, <3>2, Zenon
        <4> QED
          BY <4>1, <4>2
      <3> QED
        BY <3>1, <3>2
    <2> QED
      BY <1>0, <1>2, <1>5, <1>7, <2>3, <2>5 DEF IdleIsWatched
  <1>18. ClearingInv'
    BY <1>0, <1>2 DEF ClearingInv
  <1> QED
    BY <1>8, <1>9, <1>11, <1>12, <1>14, <1>15, <1>16, <1>17, <1>18 DEF DesktopInv, ActsOnWhatWasChosen

\* A command needs the clipboard before it can end.

LEMMA CallStep ==
    ASSUME DesktopInv, worker.pc = "ready",
           NEW f, Successor(f), f.owner = 0,
           NEW call \in {"copy", "clear"}, NEW outcome,
           call = "copy" => facade.phase \notin Locking /\ f.phase \notin Locking,
           worker.command.op \in {"lock", "save"} /\ facade.phase = "UNLOCKED_DIRTY"
             => worker.command.drain,
           CallGui(call, f, outcome), WorkerKeeps, astray' = FALSE
    PROVE  DesktopInv'
  <1> DEFINE c == worker.command
             e == [kind |-> "call", call |-> call]
  <1>0. /\ TypeOK
        /\ Distinct(facade)
        /\ QueueInv
        /\ EventsInv
        /\ WorkerInv
        /\ GuiInv
        /\ LatestInv
        /\ IdleInv
        /\ ClearingInv
        /\ SecretIsTimed
        /\ SecretsHaveOwners
        /\ IdleIsWatched
    BY DEF DesktopInv
  <1>1. /\ facade' = facade
        /\ worker' = [command |-> c, pc |-> "calling", after |-> f, outcome |-> outcome]
        /\ events' = Append(events, e)
        /\ owners' = owners
        /\ idle' = idle
    BY DEF CallGui
  <1>2. /\ queue' = queue
        /\ screen' = screen
        /\ search' = search
        /\ editor' = editor
        /\ passphrase' = passphrase
        /\ clipboard' = clipboard
        /\ port' = port
        /\ clearing' = clearing
        /\ down' = down
        /\ asked' = asked
        /\ typed' = typed
    BY DEF WorkerKeeps, clip
  <1>3. worker'.pc = "calling" /\ worker'.command = c /\ worker'.after = f
    BY <1>1
  <1>4. worker # Free /\ worker' # Free
    BY <1>3 DEF Free
  <1>5. Pipeline' = Pipeline
    BY <1>2, <1>3, <1>4 DEF Pipeline
  <1>6. /\ events \in Seq(Range(events))
        /\ events' \in Seq(Range(events'))
        /\ Len(events) \in Nat
        /\ Len(events') \in Nat
        /\ \A i \in 1..Len(events) : i \in 1..Len(events')
        /\ \A i \in 1..Len(events) : events'[i] = events[i]
        /\ \A i \in 1..Len(events') : \/ i \in 1..Len(events)
                                      \/ i = Len(events') /\ events'[i] = e
    <2>1. events \in Seq(Range(events))
      BY <1>0 DEF EventsInv
    <2> QED
      BY <1>1, <2>1, Called, Zenon
  <1>7. TypeOK'
    BY <1>0, <1>1, <1>2, <1>3 DEF TypeOK
  <1>8. Distinct(facade)' /\ QueueInv' /\ GuiInv' /\ SecretIsTimed' /\ IdleInv' /\ facade' = facade
    BY <1>0, <1>1, <1>2 DEF QueueInv, GuiInv, SecretIsTimed, IdleInv
  <1>9. \A i \in 1..Len(events') : \/ i \in 1..Len(events) /\ events'[i] = events[i]
                                   \/ i = Len(events') /\ events'[i] = e
    BY <1>6, Zenon
  <1>10. EventsInv'
    <2>1. \A i \in 1..Len(events) : events[i].kind # "call" /\ EventOK(events[i], facade, worker)
      BY <1>0 DEF EventsInv, EventOK
    <2>2. \A i \in 1..Len(events) : EventOK(events[i], facade, worker')
      BY <2>1 DEF EventOK
    <2>3. EventOK(e, facade, worker')
      BY <1>3 DEF EventOK
    <2>4. \A i \in 1..Len(events') : /\ EventOK(events'[i], facade, worker')
                                     /\ events'[i].kind = "call" => i = Len(events')
      BY <1>9, <2>1, <2>2, <2>3, Zenon
    <2> QED
      BY <1>6, <1>8, <2>4, Zenon DEF EventsInv
  <1>11. WorkerInv'
    BY <1>1, <1>3, <1>4 DEF WorkerInv, Calling, Successor
  <1>12. LatestInv'
    <2>1. PICK n \in 0..Len(events) : Newest(n) /\ NewestPhase(n) = facade.phase
      BY <1>0 DEF LatestInv
    <2>2. n \in 0..Len(events') /\ (n # 0 => n \in 1..Len(events))
      BY <1>6
    <2>3. Newest(n)'
      <3>1. n > 0 => events'[n].kind = "result"
        BY <1>6, <2>1, <2>2 DEF Newest
      <3>2. e.kind # "result"
        OBVIOUS
      <3>3. \A j \in 1..Len(events') : j > n => events'[j].kind # "result"
        BY <1>9, <2>1, <3>2, Zenon DEF Newest
      <3> QED
        BY <3>1, <3>3, Zenon DEF Newest
    <2>4. (NewestPhase(n) = facade.phase)'
      BY <1>1, <1>2, <1>6, <2>1, <2>2 DEF NewestPhase
    <2> QED
      BY <2>2, <2>3, <2>4, Zenon DEF LatestInv
  <1>13. SecretsHaveOwners'
    BY <1>0, <1>1, <1>2, <1>5, <1>7 DEF SecretsHaveOwners
  <1>14. IdleIsWatched'
    <2>1. /\ Range(events) = {events[i] : i \in 1..Len(events)}
          /\ Range(events') = {events'[i] : i \in 1..Len(events')}
      BY <1>6, Elements
    <2>2. \A i \in 1..Len(events) : i \in 1..Len(events') /\ events'[i] = events[i]
      BY <1>6, Zenon
    <2>3. Range(events) \subseteq Range(events')
      BY <2>1, <2>2, Zenon
    <2> QED
      BY <1>0, <1>1, <1>2, <1>5, <2>3 DEF IdleIsWatched
  <1>18. ClearingInv'
    BY <1>0, <1>2 DEF ClearingInv
  <1> QED
    BY <1>7, <1>8, <1>10, <1>11, <1>12, <1>13, <1>14, <1>18 DEF DesktopInv, ActsOnWhatWasChosen

-----------------------------------------------------------------------------
(* The commands *)

\* A record that is found under a key is the one that was on the screen.

LEMMA Chosen ==
    ASSUME FacadeOK(facade), NEW c, Names(c, facade)
    PROVE  /\ \A h \in Resolved(c) : h = c.meant
           /\ c.key = 0 => c.meant = 0
  BY DEF FacadeOK, Names, KeyOf, Resolved

\* What DesktopInv says of a command that is about to run.
LEMMA ReadyToRun ==
    ASSUME DesktopInv, worker.pc = "ready"
    PROVE  /\ FacadeOK(facade)
           /\ Distinct(facade)
           /\ worker.command \in Commands
           /\ worker.command.id \in 0..MaxAsked
           /\ CommandOK(worker.command, facade)
           /\ Names(worker.command, facade)
           /\ facade.phase \in Phases
           /\ facade.phase \in Locking => clipboard \notin Nonces
           /\ astray = FALSE
  <1>1. astray = FALSE
    BY DEF DesktopInv, TypeOK, ActsOnWhatWasChosen
  <1>2. worker.command \in Commands
    BY DEF DesktopInv, TypeOK
  <1>3. worker.command.id \in 0..MaxAsked
    BY <1>2 DEF Commands
  <1> QED
    BY <1>1, <1>2, <1>3 DEF DesktopInv, TypeOK, FacadeOK, WorkerInv, CommandOK, SecretIsTimed, Locking

LEMMA ActsOnChosen ==
    ASSUME FacadeOK(facade), NEW c, Names(c, facade), astray = FALSE
    PROVE  /\ (\E h \in Resolved(c) : ActsOn(c, h)) => astray' = FALSE
           /\ c.key = 0 /\ ActsOn(c, 0) => astray' = FALSE
  BY Chosen, Zenon DEF ActsOn

LEMMA RunRejectedStep ==
    ASSUME DesktopInv, RunRejected
    PROVE  DesktopInv'
  <1>1. worker.pc = "ready" /\ Raise /\ WorkerKeeps /\ astray' = astray
    BY DEF RunRejected
  <1> QED
    BY <1>1, ReadyToRun, RaiseStep, Zenon

\* The facade with the phase it has, or another one that shows its records.
LEMMA RestoredStep ==
    ASSUME DesktopInv, worker.pc = "ready", NEW phase \in Phases, NEW outcome,
           phase \in Locking => phase = facade.phase,
           Return(Restored(phase), 0, outcome), WorkerKeeps, astray' = FALSE
    PROVE  DesktopInv'
  <1>1. /\ Successor(Restored(phase))
        /\ Restored(phase).phase \in Locking => clipboard \notin Nonces
    BY ReadyToRun, RestoredSucceeds, Zenon
  <1>2. worker.pc \in {"ready", "served"} /\ 0 \in {0, Restored(phase).owner}
    OBVIOUS
  <1> QED
    BY <1>1, <1>2, ReturnStep, Zenon

\* The vault is gone as soon as the clipboard is cleared.
LEMMA LockingStep ==
    ASSUME DesktopInv, worker.pc = "ready", NEW outcome,
           worker.command.op \in {"lock", "save"} /\ facade.phase = "UNLOCKED_DIRTY"
             => worker.command.drain,
           CallGui("clear", LockedFacade, outcome), WorkerKeeps, astray' = FALSE
    PROVE  DesktopInv'
  <1>1. Successor(LockedFacade) /\ LockedFacade.owner = 0
    BY ReadyToRun, LockedSucceeds, Zenon
  <1>2. "clear" \in {"copy", "clear"} /\ "clear" # "copy"
    OBVIOUS
  <1> QED
    BY <1>1, <1>2, CallStep, Zenon

LEMMA UnlockedPhases ==
    /\ Unlocked \subseteq Phases
    /\ \A phase \in Unlocked : phase \notin Locking
    /\ "UNLOCKED_CLEAN" \in Unlocked /\ "UNLOCKED_DIRTY" \in Unlocked
    /\ "AWAITING_DECISION" \notin Locking
  BY DEF Unlocked, Phases, Locking

LEMMA RunSearchStep ==
    ASSUME DesktopInv, RunSearch
    PROVE  DesktopInv'
  <1>1. worker.pc = "ready" /\ Return(Restored(facade.phase), 0, None) /\ WorkerKeeps /\ astray' = astray
    BY DEF RunSearch, Running
  <1> QED
    BY <1>1, ReadyToRun, RestoredStep, Zenon

LEMMA RunWebsiteStep ==
    ASSUME DesktopInv, RunWebsite
    PROVE  DesktopInv'
  <1>1. /\ worker.pc = "ready"
        /\ \E h \in Resolved(worker.command) : ActsOn(worker.command, h)
        /\ Return(Restored(facade.phase), 0, None)
        /\ WorkerKeeps
    BY DEF RunWebsite, Running
  <1>2. astray' = FALSE
    BY <1>1, ReadyToRun, ActsOnChosen, Zenon
  <1> QED
    BY <1>1, <1>2, ReadyToRun, RestoredStep, Zenon

LEMMA RunCopyStep ==
    ASSUME DesktopInv, RunCopy
    PROVE  DesktopInv'
  <1> DEFINE f == Restored(facade.phase)
  <1>1. /\ worker.pc = "ready"
        /\ worker.command.op = "copy"
        /\ facade.phase \in Unlocked
        /\ \E h \in Resolved(worker.command) : ActsOn(worker.command, h)
        /\ CallGui("copy", f, None)
        /\ WorkerKeeps
    BY DEF RunCopy, Running, Current
  <1>2. astray' = FALSE
    BY <1>1, ReadyToRun, ActsOnChosen, Zenon
  <1>3. /\ Successor(f)
        /\ f.owner = 0
        /\ f.phase \notin Locking
        /\ facade.phase \notin Locking
    BY <1>1, ReadyToRun, RestoredSucceeds, UnlockedPhases, Zenon
  <1>4. "copy" \in {"copy", "clear"} /\ worker.command.op \notin {"lock", "save"}
    BY <1>1
  <1> QED
    BY <1>1, <1>2, <1>3, <1>4, CallStep, Zenon

LEMMA RunRecordStep ==
    ASSUME DesktopInv, RunRecord
    PROVE  DesktopInv'
  <1> DEFINE c == worker.command
  <1>1. /\ worker.pc = "ready"
        /\ c.op = "record"
        /\ CommitEdit(c)
        /\ WorkerKeeps
    BY DEF RunRecord, Running
  <1>2. facade.phase \in Unlocked
    BY DEF RunRecord, BeginEdit, Current
  <1>3. /\ FacadeOK(facade)
        /\ Distinct(facade)
        /\ Names(c, facade)
        /\ facade.phase \in Phases
        /\ facade.phase \notin Locking
        /\ astray = FALSE
    BY <1>1, <1>2, ReadyToRun, UnlockedPhases, Zenon
  <1>4. ASSUME IF c.key = 0
               THEN Return(Publish(Extended, "UNLOCKED_DIRTY"), 0, "committed")
               ELSE Return(Restored("UNLOCKED_DIRTY"), 0, "committed"),
               IF c.key = 0 THEN ActsOn(c, 0) ELSE \E h \in Resolved(c) : ActsOn(c, h)
        PROVE  DesktopInv'
    <2>1. astray' = FALSE
      BY <1>3, <1>4, ActsOnChosen
    <2>2. CASE c.key = 0
      <3> DEFINE f == Publish(Extended, "UNLOCKED_DIRTY")
      <3>1. Successor(f) /\ f.phase \notin Locking
        BY <1>3, ExtendedSucceeds, UnlockedPhases
      <3>2. Return(f, 0, "committed")
        BY <1>4, <2>2
      <3>3. worker.pc \in {"ready", "served"} /\ 0 \in {0, f.owner}
        BY <1>1
      <3> QED
        BY <1>1, <2>1, <3>1, <3>2, <3>3, ReturnStep, Zenon
    <2>3. CASE c.key # 0
      BY <1>1, <1>4, <2>1, <2>3, RestoredStep, UnlockedPhases
    <2> QED
      BY <2>2, <2>3
  <1>5. ASSUME Return(facade, 0, "committed"), astray' = astray
        PROVE  DesktopInv'
    <2>1. Successor(facade)
      BY <1>3, RestoredSucceeds, Zenon
    <2>2. worker.pc \in {"ready", "served"} /\ 0 \in {0, facade.owner}
      BY <1>1
    <2> QED
      BY <1>1, <1>3, <1>5, <2>1, <2>2, ReturnStep, Zenon
  <1>6. ASSUME Return(Restored(facade.phase), 0, "rejected"), astray' = astray
        PROVE  DesktopInv'
    BY <1>1, <1>3, <1>6, RestoredStep, Zenon
  <1>7. ASSUME Raise, astray' = astray
        PROVE  DesktopInv'
    BY <1>1, <1>3, <1>7, RaiseStep, Zenon
  <1>8. ASSUME CallGui("clear", LockedFacade, "rejected"), astray' = astray
        PROVE  DesktopInv'
    <2>1. c.op \notin {"lock", "save"}
      BY <1>1
    <2> QED
      BY <1>1, <1>3, <1>8, <2>1, LockingStep, Zenon
  <1> QED
    BY <1>1, <1>4, <1>5, <1>6, <1>7, <1>8 DEF CommitEdit

LEMMA RunSaveStep ==
    ASSUME DesktopInv, RunSave
    PROVE  DesktopInv'
  <1>1. /\ worker.pc = "ready"
        /\ worker.command.op = "save"
        /\ \/ Return(Restored("UNLOCKED_CLEAN"), 0, None)
           \/ Return(Restored(facade.phase), 0, None)
           \/ CallGui("clear", LockedFacade, None)
        /\ WorkerKeeps
        /\ astray' = astray
    BY DEF RunSave, Running
  <1>2. /\ facade.phase \in Phases
        /\ astray = FALSE
        /\ worker.command.drain
    BY <1>1, ReadyToRun DEF CommandOK
  <1>3. CASE Return(Restored("UNLOCKED_CLEAN"), 0, None)
    BY <1>1, <1>2, <1>3, RestoredStep, UnlockedPhases
  <1>4. CASE Return(Restored(facade.phase), 0, None)
    BY <1>1, <1>2, <1>4, RestoredStep, Zenon
  <1>5. CASE CallGui("clear", LockedFacade, None)
    BY <1>1, <1>2, <1>5, LockingStep, Zenon
  <1> QED
    BY <1>1, <1>3, <1>4, <1>5

LEMMA RunLockStep ==
    ASSUME DesktopInv, RunLock
    PROVE  DesktopInv'
  <1>1. /\ worker.pc = "ready"
        /\ worker.command.op = "lock"
        /\ worker.command.generation = facade.generation
        /\ \/ CallGui("clear", LockedFacade, None)
           \/ Return(Restored(facade.phase), 0, None)
        /\ WorkerKeeps
        /\ astray' = astray
    BY DEF RunLock, Running, Current
  <1>2. /\ facade.phase \in Phases
        /\ astray = FALSE
        /\ facade.phase = "UNLOCKED_DIRTY" => worker.command.drain
    BY <1>1, ReadyToRun DEF CommandOK
  <1>3. CASE CallGui("clear", LockedFacade, None)
    BY <1>1, <1>2, <1>3, LockingStep, Zenon
  <1>4. CASE Return(Restored(facade.phase), 0, None)
    BY <1>1, <1>2, <1>4, RestoredStep, Zenon
  <1> QED
    BY <1>1, <1>3, <1>4

\* A decision is asked for, and may keep the passphrase of the command.
LEMMA AwaitingStep ==
    ASSUME DesktopInv, worker.pc = "ready",
           NEW decision \in {"close", "replace"}, NEW owner \in 0..MaxAsked,
           Return(Awaiting(decision, owner), owner, None), WorkerKeeps, astray' = FALSE
    PROVE  DesktopInv'
  <1> DEFINE f == Awaiting(decision, owner)
  <1>1. /\ Successor(f)
        /\ f.owner = owner
        /\ f.phase \notin Locking
    BY ReadyToRun, AwaitingSucceeds, UnlockedPhases
  <1>2. worker.pc \in {"ready", "served"} /\ owner \in {0, f.owner}
    BY <1>1
  <1> QED
    BY <1>1, <1>2, ReturnStep, ZenonT(40)

LEMMA RunRequestCloseStep ==
    ASSUME DesktopInv, RunRequestClose
    PROVE  DesktopInv'
  <1>1. /\ worker.pc = "ready"
        /\ worker.command.op = "close"
        /\ \/ Return(Awaiting("close", 0), 0, None)
           \/ CallGui("clear", LockedFacade, None)
        /\ WorkerKeeps
        /\ astray' = astray
    BY DEF RunRequestClose, Running
  <1>2. astray = FALSE /\ 0 \in 0..MaxAsked /\ worker.command.op \notin {"lock", "save"}
    BY <1>1, ReadyToRun
  <1>3. CASE Return(Awaiting("close", 0), 0, None)
    BY <1>1, <1>2, <1>3, AwaitingStep
  <1>4. CASE CallGui("clear", LockedFacade, None)
    BY <1>1, <1>2, <1>4, LockingStep, Zenon
  <1> QED
    BY <1>1, <1>3, <1>4

\* A session that is adopted at once, or after the clipboard has been cleared.
LEMMA AdoptedStep ==
    ASSUME DesktopInv, worker.pc = "ready", NEW phase \in Unlocked,
           worker.command.op \notin {"lock", "save"},
           \/ Return(Adopted(phase), 0, None)
           \/ CallGui("clear", Adopted(phase), None),
           WorkerKeeps, astray' = FALSE
    PROVE  DesktopInv'
  <1> DEFINE f == Adopted(phase)
  <1>1. /\ Successor(f)
        /\ f.owner = 0
        /\ f.phase \notin Locking
    BY ReadyToRun, AdoptedSucceeds, UnlockedPhases
  <1>2. /\ worker.pc \in {"ready", "served"}
        /\ 0 \in {0, f.owner}
        /\ "clear" \in {"copy", "clear"}
    OBVIOUS
  <1>3. CASE Return(f, 0, None)
    BY <1>1, <1>2, <1>3, ReturnStep, Zenon
  <1>4. CASE CallGui("clear", f, None)
    BY <1>1, <1>2, <1>4, CallStep, Zenon
  <1> QED
    BY <1>3, <1>4

LEMMA ReplaceStep ==
    ASSUME DesktopInv, worker.pc = "ready", worker.command.op \notin {"lock", "save"},
           NEW prior \in Phases, prior \in Locking => prior = facade.phase,
           Replace(prior), WorkerKeeps, astray' = FALSE
    PROVE  DesktopInv'
  <1>1. CASE Return(Restored(prior), 0, None)
    BY <1>1, RestoredStep, Zenon
  <1>2. CASE \/ Return(Adopted("UNLOCKED_CLEAN"), 0, None)
             \/ CallGui("clear", Adopted("UNLOCKED_CLEAN"), None)
    BY <1>2, AdoptedStep, UnlockedPhases, Zenon
  <1>3. CASE CallGui("clear", LockedFacade, None)
    BY <1>3, LockingStep, Zenon
  <1> QED
    BY <1>1, <1>2, <1>3 DEF Replace

LEMMA RunOpenStep ==
    ASSUME DesktopInv, RunOpen
    PROVE  DesktopInv'
  <1>1. /\ worker.pc = "ready"
        /\ worker.command.op = "open"
        /\ \/ Return(Awaiting("replace", worker.command.id), worker.command.id, None)
           \/ Replace(facade.phase)
           \/ Return(Adopted("UNLOCKED_DIRTY"), 0, None)
        /\ WorkerKeeps
        /\ astray' = astray
    BY DEF RunOpen, Running
  <1>2. /\ astray = FALSE
        /\ facade.phase \in Phases
        /\ worker.command.id \in 0..MaxAsked
        /\ worker.command.op \notin {"lock", "save"}
    BY <1>1, ReadyToRun
  <1>3. CASE Return(Awaiting("replace", worker.command.id), worker.command.id, None)
    BY <1>1, <1>2, <1>3, AwaitingStep
  <1>4. CASE Replace(facade.phase)
    BY <1>1, <1>2, <1>4, ReplaceStep, Zenon
  <1>5. CASE Return(Adopted("UNLOCKED_DIRTY"), 0, None)
    BY <1>1, <1>2, <1>5, AdoptedStep, UnlockedPhases, Zenon
  <1> QED
    BY <1>1, <1>3, <1>4, <1>5

LEMMA RunResolveCloseStep ==
    ASSUME DesktopInv, RunResolveClose
    PROVE  DesktopInv'
  <1> DEFINE prior == IF worker.command.choice = "save" THEN "UNLOCKED_CLEAN" ELSE "UNLOCKED_DIRTY"
  <1>1. /\ worker.pc = "ready"
        /\ worker.command.op = "resolve"
        /\ \/ Return(Restored("UNLOCKED_DIRTY"), 0, None)
           \/ CallGui("clear", LockedFacade, None)
           \/ Replace(prior)
        /\ WorkerKeeps
        /\ astray' = astray
    BY DEF RunResolveClose, Running
  <1>2. /\ astray = FALSE
        /\ worker.command.op \notin {"lock", "save"}
    BY <1>1, ReadyToRun
  <1>3. CASE Return(Restored("UNLOCKED_DIRTY"), 0, None)
    BY <1>1, <1>2, <1>3, RestoredStep, UnlockedPhases
  <1>4. CASE CallGui("clear", LockedFacade, None)
    BY <1>1, <1>2, <1>4, LockingStep, Zenon
  <1>5. CASE Replace(prior)
    <2>1. prior \in Phases /\ prior \notin Locking
      BY UnlockedPhases
    <2> QED
      BY <1>1, <1>2, <1>5, <2>1, ReplaceStep, Zenon
  <1> QED
    BY <1>1, <1>3, <1>4, <1>5

LEMMA ResumeStep ==
    ASSUME DesktopInv, Resume
    PROVE  DesktopInv'
  <1>1. /\ worker.pc = "served"
        /\ Return(worker.after, 0, worker.outcome)
        /\ WorkerKeeps
        /\ astray' = astray
    BY DEF Resume
  <1>2. /\ Successor(worker.after)
        /\ worker.after.phase \in Locking => clipboard \notin Nonces
    BY <1>1 DEF DesktopInv, WorkerInv, Calling
  <1>3. worker.pc \in {"ready", "served"} /\ 0 \in {0, worker.after.owner}
    BY <1>1
  <1>4. astray = FALSE
    BY DEF DesktopInv, TypeOK, ActsOnWhatWasChosen
  <1> QED
    BY <1>1, <1>2, <1>3, <1>4, ReturnStep, Zenon

LEMMA TakeStep ==
    ASSUME DesktopInv, Take
    PROVE  DesktopInv'
  <1>0. /\ TypeOK
        /\ Distinct(facade)
        /\ QueueInv
        /\ EventsInv
        /\ WorkerInv
        /\ GuiInv
        /\ LatestInv
        /\ IdleInv
        /\ ClearingInv
        /\ ActsOnWhatWasChosen
        /\ SecretIsTimed
        /\ SecretsHaveOwners
        /\ IdleIsWatched
    BY DEF DesktopInv
  <1>1. /\ worker = Free
        /\ queue # <<>>
        /\ worker' = [command |-> Head(queue), pc |-> "ready"]
        /\ queue' = Tail(queue)
    BY DEF Take
  <1>2. /\ facade' = facade
        /\ events' = events
        /\ screen' = screen
        /\ search' = search
        /\ editor' = editor
        /\ passphrase' = passphrase
        /\ idle' = idle
        /\ clipboard' = clipboard
        /\ port' = port
        /\ clearing' = clearing
        /\ owners' = owners
        /\ down' = down
        /\ asked' = asked
        /\ typed' = typed
        /\ astray' = astray
    BY DEF Take, gui, clip
  <1>3. /\ worker'.pc = "ready"
        /\ worker'.command = Head(queue)
        /\ worker' # Free
        /\ worker.pc = "free"
    BY <1>1 DEF Free
  <1>4. /\ queue \in Seq(Commands)
        /\ queue \in Seq(Range(queue))
        /\ Head(queue) \in Commands
        /\ Tail(queue) \in Seq(Commands)
    <2>1. queue \in Seq(Commands)
      BY <1>0 DEF TypeOK
    <2>2. queue \in Seq(Range(queue))
      BY <2>1, SeqOfRange
    <2> QED
      BY <1>1, <2>1, <2>2, HeadTailProperties
  <1>5. /\ Head(queue) = queue[1]
        /\ Len(queue) \in Nat \ {0}
        /\ Len(Tail(queue)) = Len(queue) - 1
        /\ \A i \in 1..Len(Tail(queue)) : Tail(queue)[i] = queue[i + 1]
    BY <1>1, <1>4, Shortened, Zenon
  <1>6. Pipeline' = Pipeline
    <2>1. Range(queue) = Range(Tail(queue)) \cup {Head(queue)}
      BY <1>1, <1>4, RangeOfTail, Zenon
    <2> QED
      BY <1>1, <1>3, <2>1 DEF Pipeline
  <1>7. TypeOK'
    BY <1>0, <1>1, <1>2, <1>3, <1>4 DEF TypeOK
  <1>8. QueueInv'
    <2>1. \A i \in 1..Len(Tail(queue)) : i + 1 \in 1..Len(queue)
      BY <1>5
    <2> QED
      BY <1>0, <1>1, <1>2, <1>5, <2>1, Zenon DEF QueueInv
  <1>9. EventsInv'
    BY <1>0, <1>2, <1>3 DEF EventsInv, EventOK
  <1>10. WorkerInv'
    <2>1. CommandOK(queue[1], facade)
      BY <1>0, <1>5 DEF QueueInv
    <2> QED
      BY <1>2, <1>3, <1>5, <2>1 DEF WorkerInv, Calling
  <1>11. GuiInv' /\ LatestInv' /\ IdleInv' /\ ActsOnWhatWasChosen' /\ SecretIsTimed' /\ Distinct(facade)'
         /\ ClearingInv'
    BY <1>0, <1>2, <1>3 DEF GuiInv, LatestInv, Newest, NewestPhase, IdleInv, ActsOnWhatWasChosen, SecretIsTimed,
                            ClearingInv
  <1>12. SecretsHaveOwners' /\ IdleIsWatched'
    BY <1>0, <1>2, <1>6, <1>7 DEF SecretsHaveOwners, IdleIsWatched
  <1> QED
    BY <1>7, <1>8, <1>9, <1>10, <1>11, <1>12 DEF DesktopInv

-----------------------------------------------------------------------------
(* The GUI thread *)

LEMMA Submitted ==
    ASSUME TypeOK, QueueInv, NEW c \in Commands, CommandOK(c, facade), facade' = facade, Submit(c)
    PROVE  /\ asked' \in 0..MaxAsked
           /\ queue' \in Seq(Commands)
           /\ QueueInv'
           /\ Range(queue') = Range(queue) \cup {c}
  <1>1. queue \in Seq(Commands) /\ asked \in 0..MaxAsked
    BY DEF TypeOK
  <1>2. asked < MaxAsked /\ asked' = asked + 1 /\ queue' = Append(queue, c)
    BY DEF Submit
  <1>3. /\ queue' \in Seq(Commands)
        /\ Len(queue) \in Nat
        /\ Len(queue') = Len(queue) + 1
        /\ \A i \in 1..Len(queue) : queue'[i] = queue[i]
        /\ queue'[Len(queue) + 1] = c
    BY <1>1, <1>2, AppendProperties
  <1>4. asked' \in 0..MaxAsked
    BY <1>1, <1>2
  <1>5. \A i \in 1..Len(queue') : i \in 1..Len(queue) \/ i = Len(queue) + 1
    BY <1>3
  <1>6. QueueInv'
    BY <1>3, <1>5, Zenon DEF QueueInv
  <1>7. Range(queue) = {queue[i] : i \in 1..Len(queue)} /\ Range(queue') = {queue'[i] : i \in 1..Len(queue')}
    BY <1>1, <1>3, RangeEquality
  <1>8. (\A i \in 1..Len(queue) : i \in 1..Len(queue')) /\ Len(queue) + 1 \in 1..Len(queue')
    BY <1>3
  <1>9. Range(queue') = Range(queue) \cup {c}
    <2>1. \A i \in 1..Len(queue') : queue'[i] \in Range(queue) \cup {c}
      BY <1>3, <1>5, <1>7, Zenon
    <2>2. \A i \in 1..Len(queue) : queue[i] \in Range(queue')
      BY <1>3, <1>7, <1>8, Zenon
    <2>3. c \in Range(queue')
      BY <1>3, <1>7, <1>8, Zenon
    <2> QED
      BY <1>7, <2>1, <2>2, <2>3, ZenonT(40)
  <1> QED
    BY <1>3, <1>4, <1>6, <1>9

\* An event is taken off the queue.
LEMMA Delivered ==
    ASSUME EventsInv, events # <<>>, events' = Tail(events)
    PROVE  /\ events' \in Seq(Range(events'))
           /\ Head(events) = events[1]
           /\ Len(events) \in Nat \ {0}
           /\ Len(events') = Len(events) - 1
           /\ \A i \in 1..Len(events') : i + 1 \in 1..Len(events) /\ events'[i] = events[i + 1]
           /\ Range(events) = Range(events') \cup {Head(events)}
           /\ EventOK(Head(events), facade, worker)
           /\ \A i \in 1..Len(events') : EventOK(events'[i], facade, worker)
           /\ \A i \in 1..Len(events') : events'[i].kind = "call" => i = Len(events')
           /\ Head(events).kind = "call" => Len(events) = 1
  <1>1. events \in Seq(Range(events))
    BY DEF EventsInv
  <1>2. /\ Tail(events) \in Seq(Range(Tail(events)))
        /\ Head(events) = events[1]
        /\ Len(events) \in Nat \ {0}
        /\ Len(Tail(events)) = Len(events) - 1
        /\ \A i \in 1..Len(Tail(events)) : Tail(events)[i] = events[i + 1]
    BY <1>1, Shortened, Zenon
  <1>3. Len(events') = Len(events) - 1 /\ \A i \in 1..Len(events') : events'[i] = events[i + 1]
    BY <1>2
  <1>4. 1 \in 1..Len(events) /\ \A i \in 1..Len(events') : i + 1 \in 1..Len(events)
    BY <1>2, <1>3
  <1>5. Range(events) = Range(events') \cup {Head(events)}
    BY <1>1, RangeOfTail
  <1>6. \A i \in 1..Len(events') : EventOK(events'[i], facade, worker)
    BY <1>3, <1>4, Zenon DEF EventsInv
  <1>7. \A i \in 1..Len(events') : events'[i].kind = "call" => i + 1 = Len(events)
    BY <1>3, <1>4, Zenon DEF EventsInv
  <1>8. \A i \in 1..Len(events') : events'[i].kind = "call" => i = Len(events')
    <2>1. \A i \in 1..Len(events') : i + 1 = Len(events) => i = Len(events')
      <3>1. Len(events') \in Nat /\ Len(events) = Len(events') + 1
        BY <1>2, <1>3
      <3> QED
        BY <3>1, OneBefore, Zenon
    <2> QED
      BY <1>7, <2>1, Zenon
  <1>9. EventOK(Head(events), facade, worker) /\ (Head(events).kind = "call" => 1 = Len(events))
    BY <1>2, <1>4, Zenon DEF EventsInv
  <1> QED
    BY <1>2, <1>3, <1>4, <1>5, <1>6, <1>8, <1>9, ZenonT(40)

\* The newest phase is still on its way, or has just arrived.
LEMMA LatestStep ==
    ASSUME EventsInv, LatestInv, events # <<>>, events' = Tail(events), facade' = facade,
           \/ Head(events).kind = "result" /\ screen' = Head(events).snapshot
           \/ Head(events).kind # "result" /\ screen' = screen
    PROVE  LatestInv'
  <1>1. PICK n \in 0..Len(events) : Newest(n) /\ NewestPhase(n) = facade.phase
    BY DEF LatestInv
  <1>2. /\ Head(events) = events[1]
        /\ Len(events) \in Nat \ {0}
        /\ Len(events') = Len(events) - 1
        /\ \A i \in 1..Len(events') : i + 1 \in 1..Len(events) /\ events'[i] = events[i + 1]
    BY Delivered, Zenon
  <1>3. \A j \in 1..Len(events) : j > n => events[j].kind # "result"
    BY <1>1 DEF Newest
  <1>4. CASE n = 0
    <2>1. 1 \in 1..Len(events) /\ 1 > n
      BY <1>2, <1>4
    <2>2. Head(events).kind # "result" /\ screen' = screen
      BY <1>2, <1>3, <2>1
    <2>3. \A j \in 1..Len(events') : j + 1 > n
      BY <1>2, <1>4
    <2>4. \A j \in 1..Len(events') : events'[j].kind # "result"
      BY <1>2, <1>3, <2>3, Zenon
    <2>5. 0 \in 0..Len(events') /\ ~(0 > 0)
      BY <1>2
    <2>6. Newest(0)'
      BY <2>4, <2>5, Zenon DEF Newest
    <2>7. (NewestPhase(0) = facade.phase)'
      BY <1>1, <1>4, <2>2 DEF NewestPhase
    <2> QED
      BY <2>5, <2>6, <2>7, Zenon DEF LatestInv
  <1>5. CASE n # 0
    <2>1. events[n].kind = "result" /\ events[n].snapshot.phase = facade.phase
      BY <1>1, <1>5 DEF Newest, NewestPhase
    <2>2. PICK m \in 0..Len(events') : m + 1 = n
      <3>1. n - 1 \in 0..Len(events') /\ (n - 1) + 1 = n
        BY <1>2, <1>5
      <3> QED
        BY <3>1, Zenon
    <2>3. \A j \in 1..Len(events') : j > m => j + 1 > n
      BY <1>2, <2>2
    <2>4. \A j \in 1..Len(events') : j > m => events'[j].kind # "result"
      BY <1>2, <1>3, <2>3, Zenon
    <2>5. CASE m = 0
      <3>1. n = 1 /\ ~(m > 0)
        BY <2>2, <2>5
      <3>2. screen'.phase = facade.phase
        BY <1>2, <2>1, <3>1
      <3>3. Newest(m)'
        BY <2>4, <3>1, Zenon DEF Newest
      <3>4. (NewestPhase(m) = facade.phase)'
        BY <2>5, <3>2 DEF NewestPhase
      <3> QED
        BY <3>3, <3>4, Zenon DEF LatestInv
    <2>6. CASE m # 0
      <3>1. m \in 1..Len(events')
        BY <1>2, <2>6
      <3>2. events'[m] = events[n]
        BY <1>2, <2>2, <3>1, Zenon
      <3>3. Newest(m)'
        BY <2>1, <2>4, <3>2, Zenon DEF Newest
      <3>4. (NewestPhase(m) = facade.phase)'
        BY <2>1, <2>6, <3>2, Zenon DEF NewestPhase
      <3> QED
        BY <3>3, <3>4, Zenon DEF LatestInv
    <2> QED
      BY <2>5, <2>6
  <1> QED
    BY <1>4, <1>5

\* An event other than a call, and what the listeners do about it.
LEMMA DeliverStep ==
    ASSUME DesktopInv, NEW kind, kind # "call",
           Arrived(kind), GuiKeeps, events' = Tail(events),
           worker' = worker, clip' = clip, owners' = owners,
           \/ /\ kind = "result"
              /\ screen' = Head(events).snapshot
              /\ idle' = Synchronized(screen'.phase \in Unlocked)
           \/ kind # "result" /\ screen' = screen /\ idle' = idle,
           queue' \in Seq(Commands), QueueInv', Range(queue) \subseteq Range(queue'),
           asked' \in 0..MaxAsked,
           search' \in [inFlight : BOOLEAN, pending : Queries \cup {None}],
           passphrase' \in BOOLEAN,
           EditorOK(editor', facade)
    PROVE  DesktopInv'
  <1>0. /\ TypeOK
        /\ Distinct(facade)
        /\ EventsInv
        /\ WorkerInv
        /\ GuiInv
        /\ LatestInv
        /\ IdleInv
        /\ ActsOnWhatWasChosen
        /\ SecretIsTimed
        /\ SecretsHaveOwners
        /\ IdleIsWatched
    BY DEF DesktopInv
  <1>1. /\ facade' = facade
        /\ clipboard' = clipboard
        /\ port' = port
        /\ clearing' = clearing
        /\ clearing = None
        /\ down' = down
        /\ typed' = typed
        /\ astray' = astray
        /\ ~down
    BY DEF GuiKeeps, clip, Arrived, GuiIsFree
  <1>2. events # <<>> /\ Head(events).kind = kind
    BY DEF Arrived
  <1>3. /\ events' \in Seq(Range(events'))
        /\ Range(events) = Range(events') \cup {Head(events)}
        /\ EventOK(Head(events), facade, worker)
        /\ \A i \in 1..Len(events') : EventOK(events'[i], facade, worker)
        /\ \A i \in 1..Len(events') : events'[i].kind = "call" => i = Len(events')
    BY <1>0, <1>2, Delivered, Zenon
  <1>4. SnapshotOK(screen', facade) /\ screen'.phase \in Phases
    BY <1>0, <1>2, <1>3 DEF EventOK, GuiInv, SnapshotOK
  <1>5. idle \in [{"active", "submitted", "ticking", "refused"} -> BOOLEAN]
    BY <1>0, InvTypes
  <1>6. IdleInv' /\ idle' \in [{"active", "submitted", "ticking", "refused"} -> BOOLEAN]
                 /\ (idle'.ticking => idle'.active)
    <2>1. CASE idle' = idle /\ (screen'.phase \in Unlocked <=> screen.phase \in Unlocked)
      BY <1>0, <1>1, <1>5, <2>1 DEF IdleInv, TypeOK
    <2>2. CASE idle' = Synchronized(screen'.phase \in Unlocked)
                 /\ ~(screen'.phase \in Unlocked <=> screen.phase \in Unlocked)
      <3>1. (screen'.phase \in Unlocked) # idle.active
        BY <1>0, <1>1, <2>2 DEF IdleInv
      <3>2. idle' = [active |-> screen'.phase \in Unlocked, ticking |-> screen'.phase \in Unlocked,
                     submitted |-> idle.submitted /\ ~(screen'.phase \in Unlocked),
                     refused |-> idle.refused /\ ~(screen'.phase \in Unlocked)]
        BY <2>2, <3>1 DEF Synchronized
      <3>3. CASE screen'.phase \in Unlocked
        <4>1. idle' = [active |-> TRUE, ticking |-> TRUE, submitted |-> FALSE, refused |-> FALSE]
          BY <1>5, <3>2, <3>3
        <4>2. /\ idle' \in [{"active", "submitted", "ticking", "refused"} -> BOOLEAN]
              /\ idle'.active = TRUE
              /\ idle'.ticking = TRUE
              /\ idle'.submitted = FALSE
          BY <4>1, FourSwitches
        <4> QED
          BY <3>3, <4>2 DEF IdleInv
      <3>4. CASE screen'.phase \notin Unlocked
        <4>1. idle' = [active |-> FALSE, ticking |-> FALSE, submitted |-> idle.submitted, refused |-> idle.refused]
          <5>1. idle.submitted \in BOOLEAN /\ idle.refused \in BOOLEAN
            BY <1>5
          <5>2. /\ (screen'.phase \in Unlocked) = FALSE
                /\ (idle.submitted /\ ~(screen'.phase \in Unlocked)) = idle.submitted
                /\ (idle.refused /\ ~(screen'.phase \in Unlocked)) = idle.refused
            BY <3>4, <5>1
          <5> QED
            BY <3>2, <5>2, Zenon
        <4>2. /\ idle' \in [{"active", "submitted", "ticking", "refused"} -> BOOLEAN]
              /\ idle'.active = FALSE
              /\ idle'.ticking = FALSE
          <5>1. idle.submitted \in BOOLEAN /\ idle.refused \in BOOLEAN
            BY <1>5
          <5> QED
            BY <4>1, <5>1, FourSwitches
        <4> QED
          BY <3>4, <4>2 DEF IdleInv
      <3> QED
        BY <3>3, <3>4
    <2>3. CASE idle' = Synchronized(screen'.phase \in Unlocked)
                 /\ (screen'.phase \in Unlocked <=> screen.phase \in Unlocked)
      <3>1. (screen'.phase \in Unlocked) = idle.active
        BY <1>0, <1>1, <1>5, <2>3 DEF IdleInv
      <3>2. idle' = idle
        BY <2>3, <3>1 DEF Synchronized
      <3> QED
        BY <2>1, <2>3, <3>2
    <2> QED
      BY <2>1, <2>2, <2>3
  <1>7. TypeOK'
    BY <1>0, <1>1, <1>4, <1>6 DEF TypeOK
  <1>8. EventsInv'
    BY <1>1, <1>3, Zenon DEF EventsInv
  <1>9. WorkerInv' /\ GuiInv' /\ Distinct(facade)' /\ ActsOnWhatWasChosen' /\ SecretIsTimed'
    BY <1>0, <1>1, <1>4 DEF WorkerInv, Calling, Successor, GuiInv, ActsOnWhatWasChosen, SecretIsTimed
  <1>10. LatestInv'
    BY <1>0, <1>1, <1>2, LatestStep
  <1>11. Pipeline \subseteq Pipeline'
    BY DEF Pipeline
  <1>12. SecretsHaveOwners'
    BY <1>0, <1>1, <1>7, <1>11 DEF SecretsHaveOwners
  <1>13. IdleIsWatched'
    <2> SUFFICES ASSUME screen'.phase \in Unlocked
                 PROVE  /\ idle'.active
                        /\ \/ idle'.ticking /\ ~idle'.submitted
                           \/ /\ idle'.submitted
                              /\ \/ idle'.refused
                                 \/ \E c \in Pipeline' : c.idle
                                 \/ \E e \in Range(events') : e.kind = "result" /\ e.snapshot.phase \notin Unlocked
      BY DEF IdleIsWatched
    <2>1. idle'.active /\ (idle'.ticking <=> ~idle'.submitted)
      BY <1>1, <1>6 DEF IdleInv
    <2>2. CASE ~idle.active
      <3>1. ~idle.submitted \/ ~idle'.submitted
        BY <1>0, <1>1, <1>5, <2>2 DEF IdleInv, Synchronized
      <3>2. ~idle'.submitted
        BY <1>0, <1>1, <1>5, <2>2, <3>1 DEF IdleInv, Synchronized
      <3> QED
        BY <2>1, <3>2
    <2>3. CASE idle.active
      <3>1. idle' = idle /\ screen.phase \in Unlocked
        BY <1>0, <1>1, <1>5, <2>3 DEF IdleInv, Synchronized
      <3>2. ~(Head(events).kind = "result" /\ Head(events).snapshot.phase \notin Unlocked)
        BY <1>2
      <3> QED
        BY <1>0, <1>1, <1>3, <1>11, <2>1, <3>1, <3>2 DEF IdleIsWatched
    <2> QED
      BY <2>2, <2>3
  <1>18. ClearingInv'
    <2>1. clearing' # "call"
      BY <1>1
    <2> QED
      BY <2>1 DEF ClearingInv
  <1> QED
    BY <1>6, <1>7, <1>8, <1>9, <1>10, <1>12, <1>13, <1>18 DEF DesktopInv

\* The call of the worker, which is the last event there is.
LEMMA ServedStep ==
    ASSUME DesktopInv, events # <<>>, Head(events).kind = "call", Served, clearing' = None,
           clipboard' \in Nonces \cup {Foreign, None},
           port' \in Nonces \cup {None},
           clipboard' \in Nonces => /\ port' = clipboard'
                                    /\ facade.phase \notin Locking
                                    /\ worker.after.phase \notin Locking
    PROVE  DesktopInv'
  <1>0. /\ TypeOK
        /\ Distinct(facade)
        /\ QueueInv
        /\ EventsInv
        /\ WorkerInv
        /\ GuiInv
        /\ LatestInv
        /\ IdleInv
        /\ ActsOnWhatWasChosen
        /\ SecretsHaveOwners
        /\ IdleIsWatched
    BY DEF DesktopInv
  <1>1. /\ facade' = facade
        /\ queue' = queue
        /\ events' = Tail(events)
        /\ worker' = [worker EXCEPT !.pc = "served"]
        /\ screen' = screen
        /\ search' = search
        /\ editor' = editor
        /\ passphrase' = passphrase
        /\ idle' = idle
        /\ owners' = owners
        /\ down' = down
        /\ asked' = asked
        /\ typed' = typed
        /\ astray' = astray
    BY DEF Served, GuiKeeps, gui
  <1>2. events # <<>> /\ Head(events).kind = "call"
    OBVIOUS
  <1>3. /\ events' \in Seq(Range(events'))
        /\ Len(events) \in Nat \ {0}
        /\ Len(events') = Len(events) - 1
        /\ Range(events) = Range(events') \cup {Head(events)}
        /\ EventOK(Head(events), facade, worker)
        /\ Len(events) = 1
    BY <1>0, <1>1, <1>2, Delivered, Zenon
  <1>4. worker.pc = "calling"
    BY <1>2, <1>3 DEF EventOK
  <1>5. /\ worker'.pc = "served"
        /\ worker'.command = worker.command
        /\ worker'.after = worker.after
        /\ DOMAIN worker' = DOMAIN worker
        /\ worker # Free
        /\ worker' # Free
    BY <1>0, <1>1, <1>4 DEF WorkerInv, Calling, Free
  <1>6. Pipeline' = Pipeline
    BY <1>1, <1>5 DEF Pipeline
  <1>7. TypeOK'
    BY <1>0, <1>1, <1>4, <1>5 DEF TypeOK
  <1>8. EventsInv'
    <2>1. \A i : i \notin 1..Len(events')
      BY <1>3
    <2> QED
      BY <1>3, <2>1 DEF EventsInv
  <1>9. WorkerInv'
    BY <1>0, <1>1, <1>4, <1>5 DEF WorkerInv, Calling, Successor
  <1>10. LatestInv'
    <2>1. Head(events).kind # "result"
      BY <1>2
    <2> QED
      BY <1>0, <1>1, <1>2, <2>1, LatestStep, Zenon
  <1>11. /\ Distinct(facade)'
         /\ QueueInv'
         /\ GuiInv'
         /\ IdleInv'
         /\ ActsOnWhatWasChosen'
    BY <1>0, <1>1 DEF QueueInv, GuiInv, IdleInv, ActsOnWhatWasChosen
  <1>12. SecretIsTimed'
    BY <1>1 DEF SecretIsTimed, Locking
  <1>13. SecretsHaveOwners'
    BY <1>0, <1>1, <1>6, <1>7 DEF SecretsHaveOwners
  <1>14. IdleIsWatched'
    BY <1>0, <1>1, <1>2, <1>3, <1>6 DEF IdleIsWatched
  <1>18. ClearingInv'
    <2>1. clearing' # "call"
      OBVIOUS
    <2> QED
      BY <2>1 DEF ClearingInv
  <1> QED
    BY <1>7, <1>8, <1>9, <1>10, <1>11, <1>12, <1>13, <1>14, <1>18 DEF DesktopInv

\* Whatever the user does is a matter of the GUI thread and of one submission.
LEMMA UserStep ==
    ASSUME DesktopInv, UserKeeps,
           queue' \in Seq(Commands), QueueInv', Range(queue) \subseteq Range(queue'),
           asked' \in 0..MaxAsked, typed' \in 0..MaxTyped,
           search' \in [inFlight : BOOLEAN, pending : Queries \cup {None}],
           passphrase' \in BOOLEAN,
           owners' \subseteq owners \cup {c.id : c \in Range(queue')},
           EditorOK(editor', facade)
    PROVE  DesktopInv'
  <1>0. /\ TypeOK
        /\ Distinct(facade)
        /\ EventsInv
        /\ WorkerInv
        /\ GuiInv
        /\ LatestInv
        /\ IdleInv
        /\ ActsOnWhatWasChosen
        /\ SecretIsTimed
        /\ SecretsHaveOwners
        /\ IdleIsWatched
    BY DEF DesktopInv
  <1>1. /\ facade' = facade
        /\ worker' = worker
        /\ events' = events
        /\ screen' = screen
        /\ idle' = idle
        /\ clipboard' = clipboard
        /\ port' = port
        /\ clearing' = clearing
        /\ clearing = None
        /\ down' = down
        /\ astray' = astray
        /\ ~down
    BY DEF UserKeeps, clip, GuiIsFree
  <1>2. owners' \subseteq 1..MaxAsked
    <2>1. Range(queue') \subseteq Commands
      BY RangeEquality, ElementOfSeq
    <2>2. \A c \in Commands : c.id \in 1..MaxAsked
      BY DEF Commands
    <2>3. owners \subseteq 1..MaxAsked
      BY <1>0, InvTypes
    <2> QED
      BY <2>1, <2>2, <2>3
  <1>3. TypeOK'
    BY <1>0, <1>1, <1>2 DEF TypeOK
  <1>4. Pipeline \subseteq Pipeline' /\ Range(queue') \subseteq Pipeline'
    BY <1>1 DEF Pipeline
  <1>5. GuiInv'
    BY <1>0, <1>1 DEF GuiInv
  <1>6. /\ Distinct(facade)'
        /\ EventsInv'
        /\ WorkerInv'
        /\ LatestInv'
        /\ IdleInv'
        /\ ActsOnWhatWasChosen'
        /\ SecretIsTimed'
    BY <1>0, <1>1 DEF EventsInv, WorkerInv, Calling, Successor, LatestInv, Newest, NewestPhase,
                      IdleInv, ActsOnWhatWasChosen, SecretIsTimed
  <1>7. SecretsHaveOwners'
    BY <1>0, <1>1, <1>3, <1>4 DEF SecretsHaveOwners
  <1>8. IdleIsWatched'
    BY <1>0, <1>1, <1>4 DEF IdleIsWatched
  <1>18. ClearingInv'
    <2>1. clearing' # "call"
      BY <1>1
    <2> QED
      BY <2>1 DEF ClearingInv
  <1> QED
    BY <1>3, <1>5, <1>6, <1>7, <1>8, <1>18 DEF DesktopInv

-----------------------------------------------------------------------------
(* Requests *)

LEMMA Requested ==
    ASSUME DesktopInv, asked < MaxAsked, NEW op \in Ops
    PROVE  LET c == Request(op, screen.generation) IN
           /\ c \in Commands
           /\ c.op = op
           /\ c.id = asked + 1
           /\ c.generation = screen.generation
           /\ c.key = 0
           /\ c.meant = 0
           /\ c.generation \in 0..facade.generation
           /\ Names(c, facade)
           /\ op \notin {"save", "lock"} => CommandOK(c, facade)
  <1> DEFINE c == Request(op, screen.generation)
  <1>1. /\ facade.generation \in Nat
        /\ screen.generation \in 0..facade.generation
        /\ asked \in 0..MaxAsked
    BY DEF DesktopInv, TypeOK, FacadeOK, GuiInv, SnapshotOK
  <1>2. /\ c.op = op
        /\ c.id = asked + 1
        /\ c.generation = screen.generation
        /\ c.key = 0
        /\ c.meant = 0
    BY DEF Request
  <1>3. c \in Commands
    <2>1. asked + 1 \in 1..MaxAsked /\ screen.generation \in Nat
      BY <1>1
    <2> QED
      BY <2>1 DEF Request, Commands
  <1>4. Names(c, facade)
    BY <1>2 DEF Names
  <1> HIDE DEF c
  <1>5. op \notin {"save", "lock"} => CommandOK(c, facade)
    BY <1>1, <1>2, <1>4 DEF CommandOK
  <1> QED
    BY <1>1, <1>2, <1>3, <1>4, <1>5 DEF c

LEMMA InvQueue ==
    ASSUME DesktopInv
    PROVE  /\ TypeOK
           /\ QueueInv
           /\ queue \in Seq(Commands)
           /\ asked \in 0..MaxAsked
           /\ typed \in 0..MaxTyped
           /\ search \in [inFlight : BOOLEAN, pending : Queries \cup {None}]
           /\ passphrase \in BOOLEAN
           /\ EditorOK(editor, facade)
           /\ SnapshotOK(screen, facade)
  BY DEF DesktopInv, TypeOK, GuiInv

LEMMA SubmitsPlain ==
    ASSUME DesktopInv, facade' = facade, NEW op \in Ops \ {"save", "lock"},
           Submit(Request(op, screen.generation))
    PROVE  /\ asked' \in 0..MaxAsked
           /\ queue' \in Seq(Commands)
           /\ QueueInv'
           /\ Range(queue') = Range(queue) \cup {Request(op, screen.generation)}
           /\ Request(op, screen.generation).id = asked + 1
  <1>1. asked < MaxAsked /\ op \in Ops
    BY DEF Submit
  <1>2. /\ Request(op, screen.generation) \in Commands
        /\ CommandOK(Request(op, screen.generation), facade)
        /\ Request(op, screen.generation).id = asked + 1
    BY <1>1, Requested
  <1> QED
    BY <1>2, InvQueue, Submitted, Zenon

LEMMA SubmitsSearch ==
    ASSUME DesktopInv, facade' = facade, NEW query \in Queries, SubmitSearch(query)
    PROVE  /\ asked' \in 0..MaxAsked
           /\ queue' \in Seq(Commands)
           /\ QueueInv'
           /\ Range(queue) \subseteq Range(queue')
           /\ search' \in [inFlight : BOOLEAN, pending : Queries \cup {None}]
  <1> DEFINE r == Request("search", screen.generation)
  <1>1. PICK c : c = [r EXCEPT !.query = query]
    OBVIOUS
  <1>2. Submit(c) /\ search' = [inFlight |-> TRUE, pending |-> None]
    BY <1>1 DEF SubmitSearch
  <1>3. asked < MaxAsked /\ "search" \in Ops
    BY <1>2 DEF Submit, Ops
  <1>4. /\ r \in Commands
        /\ r.op = "search"
        /\ Names(r, facade)
        /\ r.generation \in 0..facade.generation
    BY <1>3, Requested
  <1> HIDE DEF r
  <1>5. /\ c \in Commands
        /\ c.op = r.op
        /\ c.generation = r.generation
        /\ c.key = r.key
        /\ c.meant = r.meant
    BY <1>1, <1>4 DEF Commands
  <1>6. CommandOK(c, facade)
    BY <1>4, <1>5 DEF CommandOK, Names
  <1>7. search' \in [inFlight : BOOLEAN, pending : Queries \cup {None}]
    BY <1>2
  <1> QED
    BY <1>2, <1>5, <1>6, <1>7, InvQueue, Submitted

\* copy, website and record name a record the GUI was told of, or a new one.
LEMMA SubmitsRecord ==
    ASSUME DesktopInv, facade' = facade, NEW op \in {"copy", "website", "record"},
           NEW key \in Nat, NEW meant \in Nat,
           \A p : p.key = key /\ p.meant = meant => Names(p, facade),
           Submit([Request(op, screen.generation) EXCEPT !.key = key, !.meant = meant])
    PROVE  /\ asked' \in 0..MaxAsked
           /\ queue' \in Seq(Commands)
           /\ QueueInv'
           /\ \E c \in Range(queue') : c.id = asked + 1 /\ Range(queue') = Range(queue) \cup {c}
  <1> DEFINE r == Request(op, screen.generation)
  <1>1. PICK c : c = [r EXCEPT !.key = key, !.meant = meant]
    OBVIOUS
  <1>2. Submit(c)
    BY <1>1
  <1>3. asked < MaxAsked /\ op \in Ops
    BY <1>2 DEF Submit, Ops
  <1>4. /\ r \in Commands
        /\ r.op = op
        /\ r.id = asked + 1
        /\ r.generation \in 0..facade.generation
    BY <1>3, Requested
  <1> HIDE DEF r
  <1>5. /\ c \in Commands
        /\ c.op = r.op
        /\ c.id = r.id
        /\ c.generation = r.generation
        /\ c.key = key
        /\ c.meant = meant
    BY <1>1, <1>4 DEF Commands
  <1>6. CommandOK(c, facade)
    BY <1>4, <1>5 DEF CommandOK
  <1>7. /\ asked' \in 0..MaxAsked
        /\ queue' \in Seq(Commands)
        /\ QueueInv'
        /\ Range(queue') = Range(queue) \cup {c}
    BY <1>2, <1>5, <1>6, InvQueue, Submitted, Zenon
  <1> QED
    BY <1>4, <1>5, <1>7

\* A lock that is current is submitted by a screen that shows the phase there is.
LEMMA SubmitsLock ==
    ASSUME DesktopInv, facade' = facade, NEW byIdle \in BOOLEAN, RequestLock(byIdle)
    PROVE  /\ asked' \in 0..MaxAsked
           /\ queue' \in Seq(Commands)
           /\ QueueInv'
           /\ \E c \in Range(queue') : c.idle = byIdle /\ Range(queue') = Range(queue) \cup {c}
           /\ passphrase' = FALSE
  <1> DEFINE r == Request("lock", screen.generation)
  <1>1. PICK c : c = [r EXCEPT !.drain = (screen.phase = "UNLOCKED_DIRTY"), !.idle = byIdle]
    OBVIOUS
  <1>2. Submit(c) /\ passphrase' = FALSE
    BY <1>1 DEF RequestLock
  <1>3. asked < MaxAsked /\ "lock" \in Ops
    BY <1>2 DEF Submit, Ops
  <1>4. /\ r \in Commands
        /\ r.op = "lock"
        /\ Names(r, facade)
        /\ r.generation = screen.generation
        /\ r.generation \in 0..facade.generation
    BY <1>3, Requested
  <1> HIDE DEF r
  <1>5. /\ c \in Commands
        /\ c.op = r.op
        /\ c.generation = r.generation
        /\ c.key = r.key
        /\ c.meant = r.meant
        /\ c.drain = (screen.phase = "UNLOCKED_DIRTY")
        /\ c.idle = byIdle
    BY <1>1, <1>4 DEF Commands
  <1>6. screen.generation = facade.generation => screen.phase = facade.phase
    BY InvQueue DEF SnapshotOK
  <1>7. CommandOK(c, facade)
    BY <1>4, <1>5, <1>6 DEF CommandOK, Names
  <1>8. /\ asked' \in 0..MaxAsked
        /\ queue' \in Seq(Commands)
        /\ QueueInv'
        /\ Range(queue') = Range(queue) \cup {c}
    BY <1>2, <1>5, <1>7, InvQueue, Submitted, Zenon
  <1> QED
    BY <1>2, <1>5, <1>8

LEMMA SubmitsSave ==
    ASSUME DesktopInv, facade' = facade,
           Submit([Request("save", screen.generation) EXCEPT !.drain = TRUE])
    PROVE  /\ asked' \in 0..MaxAsked
           /\ queue' \in Seq(Commands)
           /\ QueueInv'
           /\ Range(queue) \subseteq Range(queue')
  <1> DEFINE r == Request("save", screen.generation)
  <1>1. PICK c : c = [r EXCEPT !.drain = TRUE]
    OBVIOUS
  <1>2. Submit(c)
    BY <1>1
  <1>3. asked < MaxAsked /\ "save" \in Ops
    BY <1>2 DEF Submit, Ops
  <1>4. /\ r \in Commands
        /\ r.op = "save"
        /\ Names(r, facade)
        /\ r.generation \in 0..facade.generation
    BY <1>3, Requested
  <1> HIDE DEF r
  <1>5. /\ c \in Commands
        /\ c.op = r.op
        /\ c.generation = r.generation
        /\ c.key = r.key
        /\ c.meant = r.meant
        /\ c.drain = TRUE
    BY <1>1, <1>4 DEF Commands
  <1>6. CommandOK(c, facade)
    BY <1>4, <1>5 DEF CommandOK, Names
  <1> QED
    BY <1>2, <1>5, <1>6, InvQueue, Submitted

LEMMA SubmitsResolve ==
    ASSUME DesktopInv, facade' = facade, NEW choice \in {"save", "discard", "cancel"},
           Submit([Request("resolve", screen.generation) EXCEPT
                      !.choice = choice, !.drain = (choice = "save")])
    PROVE  /\ asked' \in 0..MaxAsked
           /\ queue' \in Seq(Commands)
           /\ QueueInv'
           /\ Range(queue) \subseteq Range(queue')
  <1> DEFINE r == Request("resolve", screen.generation)
  <1>1. PICK c : c = [r EXCEPT !.choice = choice, !.drain = (choice = "save")]
    OBVIOUS
  <1>2. Submit(c)
    BY <1>1
  <1>3. asked < MaxAsked /\ "resolve" \in Ops
    BY <1>2 DEF Submit, Ops
  <1>4. /\ r \in Commands
        /\ r.op = "resolve"
        /\ Names(r, facade)
        /\ r.generation \in 0..facade.generation
    BY <1>3, Requested
  <1> HIDE DEF r
  <1>5. /\ c \in Commands
        /\ c.op = r.op
        /\ c.generation = r.generation
        /\ c.key = r.key
        /\ c.meant = r.meant
    BY <1>1, <1>4 DEF Commands
  <1>6. CommandOK(c, facade)
    BY <1>4, <1>5 DEF CommandOK, Names
  <1> QED
    BY <1>2, <1>5, <1>6, InvQueue, Submitted

-----------------------------------------------------------------------------
(* The steps of the GUI thread *)

LEMMA AcceptResultStep ==
    ASSUME DesktopInv, AcceptResult
    PROVE  DesktopInv'
  <1>1. /\ Arrived("result")
        /\ GuiKeeps
        /\ screen' = Head(events).snapshot
        /\ events' = Tail(events)
        /\ passphrase' = (passphrase /\ screen'.phase \notin {"EMPTY", "LOCKED"})
        /\ idle' = Synchronized(screen'.phase \in Unlocked)
        /\ editor' = IF screen'.phase \in {"EMPTY", "LOCKED"} THEN None ELSE editor
        /\ queue' = queue
        /\ worker' = worker
        /\ search' = search
        /\ clip' = clip
        /\ owners' = owners
        /\ asked' = asked
        /\ facade' = facade
    BY DEF AcceptResult, GuiKeeps
  <1>2. passphrase' \in BOOLEAN /\ EditorOK(editor', facade)
    BY <1>1, InvQueue DEF EditorOK
  <1>3. /\ queue' \in Seq(Commands)
        /\ QueueInv'
        /\ Range(queue) \subseteq Range(queue')
        /\ asked' \in 0..MaxAsked
        /\ search' \in [inFlight : BOOLEAN, pending : Queries \cup {None}]
    BY <1>1, InvQueue DEF QueueInv
  <1>4. "result" # "call"
    OBVIOUS
  <1> QED
    BY <1>1, <1>2, <1>3, <1>4, DeliverStep, Zenon

LEMMA RejectCommandStep ==
    ASSUME DesktopInv, RejectCommand
    PROVE  DesktopInv'
  <1>1. /\ Arrived("failed")
        /\ GuiKeeps
        /\ events' = Tail(events)
        /\ editor' = IF editor = None THEN None ELSE [editor EXCEPT !.awaiting = FALSE]
        /\ queue' = queue
        /\ worker' = worker
        /\ screen' = screen
        /\ search' = search
        /\ passphrase' = passphrase
        /\ idle' = idle
        /\ clip' = clip
        /\ owners' = owners
        /\ asked' = asked
        /\ facade' = facade
    BY DEF RejectCommand, GuiKeeps
  <1>2. passphrase' \in BOOLEAN /\ EditorOK(editor', facade)
    BY <1>1, InvQueue DEF EditorOK, Names
  <1>3. /\ queue' \in Seq(Commands)
        /\ QueueInv'
        /\ Range(queue) \subseteq Range(queue')
        /\ asked' \in 0..MaxAsked
        /\ search' \in [inFlight : BOOLEAN, pending : Queries \cup {None}]
    BY <1>1, InvQueue DEF QueueInv
  <1>4. "failed" # "call" /\ "failed" # "result"
    OBVIOUS
  <1> QED
    BY <1>1, <1>2, <1>3, <1>4, DeliverStep, Zenon

LEMMA FinishSearchStep ==
    ASSUME DesktopInv, FinishSearch
    PROVE  DesktopInv'
  <1>1. /\ Arrived("searched")
        /\ GuiKeeps
        /\ events' = Tail(events)
        /\ \/ /\ search' = [search EXCEPT !.inFlight = FALSE]
              /\ queue' = queue
              /\ asked' = asked
           \/ search.pending # None /\ SubmitSearch(search.pending)
        /\ worker' = worker
        /\ screen' = screen
        /\ editor' = editor
        /\ passphrase' = passphrase
        /\ idle' = idle
        /\ clip' = clip
        /\ owners' = owners
        /\ facade' = facade
    BY DEF FinishSearch, GuiKeeps
  <1>2. passphrase' \in BOOLEAN /\ EditorOK(editor', facade)
    BY <1>1, InvQueue
  <1>3. /\ queue' \in Seq(Commands)
        /\ QueueInv'
        /\ Range(queue) \subseteq Range(queue')
        /\ asked' \in 0..MaxAsked
        /\ search' \in [inFlight : BOOLEAN, pending : Queries \cup {None}]
    <2>1. CASE search' = [search EXCEPT !.inFlight = FALSE] /\ queue' = queue /\ asked' = asked
      BY <1>1, <2>1, InvQueue DEF QueueInv
    <2>2. CASE search.pending # None /\ SubmitSearch(search.pending)
      <3>1. search.pending \in Queries
        BY <2>2, InvQueue
      <3> QED
        BY <1>1, <2>2, <3>1, SubmitsSearch
    <2> QED
      BY <1>1, <2>1, <2>2
  <1>4. "searched" # "call" /\ "searched" # "result"
    OBVIOUS
  <1> QED
    BY <1>1, <1>2, <1>3, <1>4, DeliverStep, Zenon

LEMMA FinishRecordStep ==
    ASSUME DesktopInv, FinishRecord
    PROVE  DesktopInv'
  <1>1. /\ Arrived("recorded")
        /\ GuiKeeps
        /\ events' = Tail(events)
        /\ editor' \in {editor, None, [editor EXCEPT !.awaiting = FALSE]}
        /\ editor = None => editor' = None
        /\ queue' = queue
        /\ worker' = worker
        /\ screen' = screen
        /\ search' = search
        /\ passphrase' = passphrase
        /\ idle' = idle
        /\ clip' = clip
        /\ owners' = owners
        /\ asked' = asked
        /\ facade' = facade
    BY DEF FinishRecord, GuiKeeps
  <1>2. passphrase' \in BOOLEAN /\ EditorOK(editor', facade)
    <2>1. CASE editor' \in {editor, None}
      BY <1>1, <2>1, InvQueue DEF EditorOK
    <2>2. CASE editor # None /\ editor' = [editor EXCEPT !.awaiting = FALSE]
      BY <1>1, <2>2, InvQueue DEF EditorOK, Names
    <2> QED
      BY <1>1, <2>1, <2>2
  <1>3. /\ queue' \in Seq(Commands)
        /\ QueueInv'
        /\ Range(queue) \subseteq Range(queue')
        /\ asked' \in 0..MaxAsked
        /\ search' \in [inFlight : BOOLEAN, pending : Queries \cup {None}]
    BY <1>1, InvQueue DEF QueueInv
  <1>4. "recorded" # "call" /\ "recorded" # "result"
    OBVIOUS
  <1> QED
    BY <1>1, <1>2, <1>3, <1>4, DeliverStep, Zenon

LEMMA ClipTypes ==
    ASSUME DesktopInv
    PROVE  /\ clipboard \in Nonces \cup {Foreign, None}
           /\ port \in Nonces \cup {None}
           /\ clearing \in {"call", "timer", None}
           /\ clipboard \in Nonces => /\ port = clipboard \/ clearing # None
                                    /\ facade.phase \notin Locking
           /\ clipboard \in Nonces /\ worker.pc = "served" => worker.after.phase \notin Locking
  BY DEF DesktopInv, TypeOK, SecretIsTimed, Locking, WorkerInv

\* After the comparison, content of Bonobo's is about to be cleared.
LEMMA Compared ==
    ASSUME DesktopInv, clearing = None, NEW caller \in {"call", "timer"}, ClearOwned(caller)
    PROVE  /\ port' = None
           /\ clipboard' = clipboard
           /\ clearing' \in {caller, None}
           /\ clipboard \in Nonces => clearing' # None
  BY ClipTypes DEF ClearOwned

LEMMA CopyToClipboardStep ==
    ASSUME DesktopInv, CopyToClipboard
    PROVE  DesktopInv'
  <1>1. /\ events # <<>>
        /\ Head(events).kind = "call"
        /\ Head(events).call = "copy"
        /\ clearing = None
        /\ clearing' = clearing
        /\ Served
        /\ \/ \E n \in Nonces : clipboard' = n /\ port' = n
           \/ clipboard' = clipboard /\ port' = port
    BY DEF CopyToClipboard, Arrived, GuiIsFree
  <1>2. facade.phase \notin Locking /\ worker.after.phase \notin Locking
    <2>1. EventsInv /\ events # <<>> /\ events' = Tail(events)
      BY <1>1 DEF DesktopInv, Served
    <2>2. EventOK(Head(events), facade, worker)
      BY <2>1, Delivered, Zenon
    <2> QED
      BY <1>1, <2>2 DEF EventOK
  <1>3. /\ clipboard' \in Nonces \cup {Foreign, None}
        /\ port' \in Nonces \cup {None}
        /\ clipboard' \in Nonces => port' = clipboard'
    BY <1>1, ClipTypes
  <1> QED
    BY <1>1, <1>2, <1>3, ServedStep

\* The clipboard changes and nothing else does.
LEMMA ClipboardStep ==
    ASSUME DesktopInv,
           clipboard' \in {clipboard, Foreign, None}, port' \in {port, None},
           clipboard' \in Nonces => clearing' # None,
           \/ clearing' \in {clearing, "timer", None}
           \/ /\ clearing' = "call"
              /\ events # <<>>
              /\ Head(events).kind = "call",
           UNCHANGED <<facade, queue, worker, events, gui, owners, down, asked, typed, astray>>
    PROVE  DesktopInv'
  <1>1. /\ facade' = facade
        /\ queue' = queue
        /\ worker' = worker
        /\ events' = events
        /\ screen' = screen
        /\ search' = search
        /\ editor' = editor
        /\ passphrase' = passphrase
        /\ idle' = idle
        /\ owners' = owners
        /\ down' = down
        /\ asked' = asked
        /\ typed' = typed
        /\ astray' = astray
    BY DEF gui
  <1>2. /\ clipboard' \in Nonces \cup {Foreign, None}
        /\ port' \in Nonces \cup {None}
        /\ clearing' \in {"call", "timer", None}
        /\ clipboard' \in Nonces => /\ facade.phase \notin Locking
                                  /\ (worker.pc = "served" => worker.after.phase \notin Locking)
    BY ClipTypes
  <1>3. TypeOK'
    BY <1>1, <1>2 DEF DesktopInv, TypeOK
  <1>4. Pipeline' = Pipeline
    BY <1>1 DEF Pipeline
  <1>5. /\ Distinct(facade)'
        /\ QueueInv'
        /\ EventsInv'
        /\ GuiInv'
        /\ LatestInv'
        /\ IdleInv'
        /\ ActsOnWhatWasChosen'
    BY <1>1 DEF DesktopInv, QueueInv, EventsInv, GuiInv, LatestInv, Newest, NewestPhase, IdleInv,
                ActsOnWhatWasChosen
  <1>6. SecretIsTimed'
    BY <1>1, <1>2 DEF SecretIsTimed, Locking
  <1>7. WorkerInv'
    BY <1>1, <1>2 DEF DesktopInv, WorkerInv, Calling, Successor
  <1>8. SecretsHaveOwners' /\ IdleIsWatched'
    BY <1>1, <1>3, <1>4 DEF DesktopInv, SecretsHaveOwners, IdleIsWatched
  <1>9. ClearingInv'
    <2>1. CASE events # <<>> /\ Head(events).kind = "call"
      <3>1. EventsInv
        BY DEF DesktopInv
      <3>2. Head(events) = events[1] /\ 1 \in 1..Len(events)
        <4>1. events \in Seq(Range(events))
          BY <3>1 DEF EventsInv
        <4> QED
          BY <2>1, <4>1, Shortened
      <3>3. worker.pc = "calling"
        BY <2>1, <3>1, <3>2 DEF EventsInv, EventOK
      <3> QED
        BY <1>1, <2>1, <3>3 DEF ClearingInv
    <2>2. CASE clearing' \in {clearing, "timer", None}
      BY <1>1, <2>2 DEF DesktopInv, ClearingInv
    <2> QED
      BY <2>1, <2>2
  <1> QED
    BY <1>3, <1>5, <1>6, <1>7, <1>8, <1>9 DEF DesktopInv

LEMMA ClearClipboardStep ==
    ASSUME DesktopInv, ClearClipboard
    PROVE  DesktopInv'
  <1>1. /\ events # <<>>
        /\ Head(events).kind = "call"
        /\ clearing = None
        /\ ClearOwned("call")
        /\ \/ clearing' = None /\ Served
           \/ clearing' # None /\ UNCHANGED <<queue, worker, events, gui, owners, asked>> /\ GuiKeeps
    BY DEF ClearClipboard, Arrived, GuiIsFree
  <1>2. /\ port' = None
        /\ clipboard' = clipboard
        /\ clearing' \in {"call", None}
        /\ clipboard \in Nonces => clearing' # None
    BY <1>1, Compared
  <1>3. CASE clearing' = None /\ Served
    <2>1. clipboard' \in Nonces \cup {Foreign, None} /\ port' \in Nonces \cup {None} /\ clipboard' \notin Nonces
      BY <1>2, <1>3, ClipTypes
    <2> QED
      BY <1>1, <1>3, <2>1, ServedStep
  <1>4. CASE clearing' # None /\ UNCHANGED <<queue, worker, events, gui, owners, asked>> /\ GuiKeeps
    <2>1. UNCHANGED <<facade, queue, worker, events, gui, owners, down, asked, typed, astray>>
      BY <1>4 DEF GuiKeeps
    <2>2. clearing' = "call"
      BY <1>2, <1>4
    <2> QED
      BY <1>1, <1>2, <1>4, <2>1, <2>2, ClipboardStep
  <1> QED
    BY <1>1, <1>3, <1>4

LEMMA ClearStep ==
    ASSUME DesktopInv, Clear
    PROVE  DesktopInv'
  <1>1. /\ clipboard' = None
        /\ clearing' = None
        /\ port' = port
        /\ \/ clearing = "call" /\ Served
           \/ UNCHANGED <<queue, worker, events, gui, owners, asked>> /\ GuiKeeps
    BY DEF Clear
  <1>2. port' \in Nonces \cup {None} /\ clipboard' \notin Nonces
    BY <1>1, ClipTypes
  <1>3. CASE clearing = "call" /\ Served
    <2>1. events # <<>> /\ Head(events).kind = "call"
      BY <1>3 DEF DesktopInv, ClearingInv
    <2> QED
      BY <1>1, <1>2, <1>3, <2>1, ServedStep
  <1>4. CASE UNCHANGED <<queue, worker, events, gui, owners, asked>> /\ GuiKeeps
    <2>1. UNCHANGED <<facade, queue, worker, events, gui, owners, down, asked, typed, astray>>
      BY <1>4 DEF GuiKeeps
    <2> QED
      BY <1>1, <1>2, <2>1, ClipboardStep
  <1> QED
    BY <1>1, <1>3, <1>4

LEMMA ClipboardExpiresStep ==
    ASSUME DesktopInv, ClipboardExpires
    PROVE  DesktopInv'
  <1>1. /\ clearing = None
        /\ ClearOwned("timer")
        /\ UNCHANGED <<facade, queue, worker, events, gui, owners, down, asked, typed, astray>>
    BY DEF ClipboardExpires, GuiIsFree
  <1>2. /\ port' = None
        /\ clipboard' = clipboard
        /\ clearing' \in {"timer", None}
        /\ clipboard \in Nonces => clearing' # None
    BY <1>1, Compared
  <1> QED
    BY <1>1, <1>2, ClipboardStep

LEMMA OtherApplicationCopiesStep ==
    ASSUME DesktopInv, OtherApplicationCopies
    PROVE  DesktopInv'
  <1>1. /\ clipboard' = Foreign
        /\ port' = port
        /\ clearing' = clearing
        /\ UNCHANGED <<facade, queue, worker, events, gui, owners, down, asked, typed, astray>>
    BY DEF OtherApplicationCopies
  <1> QED
    BY <1>1, ClipboardStep

LEMMA IdlePollStep ==
    ASSUME DesktopInv, IdlePoll
    PROVE  DesktopInv'
  <1>0. /\ TypeOK
        /\ Distinct(facade)
        /\ EventsInv
        /\ WorkerInv
        /\ GuiInv
        /\ LatestInv
        /\ IdleInv
        /\ ActsOnWhatWasChosen
        /\ SecretIsTimed
        /\ SecretsHaveOwners
    BY DEF DesktopInv
  <1>1. /\ ~down
        /\ idle.ticking
        /\ idle' = [idle EXCEPT !.submitted = TRUE, !.ticking = FALSE]
        /\ RequestLock(TRUE)
        /\ facade' = facade
        /\ worker' = worker
        /\ events' = events
        /\ screen' = screen
        /\ search' = search
        /\ editor' = editor
        /\ clipboard' = clipboard
        /\ port' = port
        /\ clearing' = clearing
        /\ clearing = None
        /\ owners' = owners
        /\ down' = down
        /\ typed' = typed
        /\ astray' = astray
    BY DEF IdlePoll, clip, GuiIsFree
  <1>2. /\ asked' \in 0..MaxAsked
        /\ queue' \in Seq(Commands)
        /\ QueueInv'
        /\ \E c \in Range(queue') : c.idle = TRUE /\ Range(queue') = Range(queue) \cup {c}
        /\ passphrase' = FALSE
    BY <1>1, SubmitsLock
  <1>3. idle \in [{"active", "submitted", "ticking", "refused"} -> BOOLEAN]
    BY <1>0, InvTypes
  <1>4. /\ idle' \in [{"active", "submitted", "ticking", "refused"} -> BOOLEAN]
        /\ idle'.active = idle.active
        /\ idle'.submitted = TRUE
        /\ idle'.ticking = FALSE
    BY <1>1, <1>3
  <1>5. TypeOK'
    BY <1>0, <1>1, <1>2, <1>4 DEF TypeOK
  <1>6. Pipeline \subseteq Pipeline' /\ Range(queue') \subseteq Pipeline'
    BY <1>1, <1>2 DEF Pipeline
  <1>7. /\ Distinct(facade)'
        /\ EventsInv'
        /\ WorkerInv'
        /\ GuiInv'
        /\ LatestInv'
        /\ ActsOnWhatWasChosen'
        /\ SecretIsTimed'
    BY <1>0, <1>1 DEF EventsInv, WorkerInv, Calling, Successor, GuiInv, LatestInv, Newest, NewestPhase,
                      ActsOnWhatWasChosen, SecretIsTimed
  <1>8. IdleInv'
    BY <1>0, <1>1, <1>4 DEF IdleInv
  <1>9. SecretsHaveOwners'
    BY <1>0, <1>1, <1>2, <1>5, <1>6 DEF SecretsHaveOwners
  <1>10. IdleIsWatched'
    BY <1>0, <1>1, <1>2, <1>4, <1>6, <1>8 DEF IdleIsWatched, IdleInv
  <1>18. ClearingInv'
    <2>1. clearing' # "call"
      BY <1>1
    <2> QED
      BY <2>1 DEF ClearingInv
  <1> QED
    BY <1>2, <1>5, <1>7, <1>8, <1>9, <1>10, <1>18 DEF DesktopInv

LEMMA ShutdownStep ==
    ASSUME DesktopInv, Shutdown
    PROVE  DesktopInv'
  <1>0. /\ TypeOK
        /\ Distinct(facade)
        /\ EventsInv
        /\ WorkerInv
        /\ GuiInv
        /\ LatestInv
        /\ ActsOnWhatWasChosen
        /\ SecretIsTimed
        /\ SecretsHaveOwners
    BY DEF DesktopInv
  <1>1. /\ down' = TRUE
        /\ queue' = <<>>
        /\ owners' = owners \ {c.id : c \in Range(queue)}
        /\ search' = [search EXCEPT !.pending = None]
        /\ passphrase' = FALSE
        /\ idle' = [idle EXCEPT !.active = FALSE, !.ticking = FALSE]
        /\ facade' = facade
        /\ worker' = worker
        /\ events' = events
        /\ screen' = screen
        /\ editor' = editor
        /\ clipboard' = clipboard
        /\ port' = port
        /\ clearing' = clearing
        /\ clearing = None
        /\ asked' = asked
        /\ typed' = typed
        /\ astray' = astray
    BY DEF Shutdown, clip, GuiIsFree
  <1>2. idle \in [{"active", "submitted", "ticking", "refused"} -> BOOLEAN]
    BY <1>0, InvTypes
  <1>3. /\ idle' \in [{"active", "submitted", "ticking", "refused"} -> BOOLEAN]
        /\ idle'.ticking = FALSE
    BY <1>1, <1>2
  <1>4. queue' \in Seq(Commands) /\ QueueInv'
    BY <1>1 DEF QueueInv
  <1>5. search' \in [inFlight : BOOLEAN, pending : Queries \cup {None}]
    BY <1>0, <1>1 DEF TypeOK
  <1>6. TypeOK'
    BY <1>0, <1>1, <1>3, <1>4, <1>5 DEF TypeOK
  <1>7. /\ Distinct(facade)'
        /\ EventsInv'
        /\ WorkerInv'
        /\ GuiInv'
        /\ LatestInv'
        /\ ActsOnWhatWasChosen'
        /\ SecretIsTimed'
    BY <1>0, <1>1 DEF EventsInv, WorkerInv, Calling, Successor, GuiInv, LatestInv, Newest, NewestPhase,
                      ActsOnWhatWasChosen, SecretIsTimed
  <1>8. IdleInv' /\ IdleIsWatched'
    BY <1>1 DEF IdleInv, IdleIsWatched
  <1>9. SecretsHaveOwners'
    <2>1. Pipeline = Range(queue) \cup (IF worker = Free THEN {} ELSE {worker.command})
      BY DEF Pipeline
    <2>2. (IF worker = Free THEN {} ELSE {worker.command}) \subseteq Pipeline'
      BY <1>1 DEF Pipeline
    <2> QED
      BY <1>0, <1>1, <1>6, <2>1, <2>2 DEF SecretsHaveOwners
  <1>18. ClearingInv'
    <2>1. clearing' # "call"
      BY <1>1
    <2> QED
      BY <2>1 DEF ClearingInv
  <1> QED
    BY <1>4, <1>6, <1>7, <1>8, <1>9, <1>18 DEF DesktopInv

-----------------------------------------------------------------------------
(* The user *)

\* UserKeeps, and what most actions leave alone besides.
LEMMA UserFrame ==
    ASSUME DesktopInv, UserKeeps
    PROVE  /\ facade' = facade
           /\ screen' = screen
           /\ queue' = queue => queue' \in Seq(Commands) /\ QueueInv' /\ Range(queue) \subseteq Range(queue')
           /\ asked' = asked => asked' \in 0..MaxAsked
           /\ typed' = typed => typed' \in 0..MaxTyped
           /\ typed < MaxTyped /\ typed' = typed + 1 => typed' \in 0..MaxTyped
           /\ search' = search => search' \in [inFlight : BOOLEAN, pending : Queries \cup {None}]
           /\ passphrase' \in {passphrase, FALSE, TRUE} => passphrase' \in BOOLEAN
           /\ owners' = owners => owners' \subseteq owners \cup {c.id : c \in Range(queue')}
           /\ editor' = editor => EditorOK(editor', facade)
  <1>1. /\ facade' = facade
        /\ screen' = screen
    BY DEF UserKeeps
  <1>2. queue' = queue => queue' \in Seq(Commands) /\ QueueInv' /\ Range(queue) \subseteq Range(queue')
    BY <1>1, InvQueue DEF QueueInv
  <1>3. /\ typed' = typed => typed' \in 0..MaxTyped
        /\ typed < MaxTyped /\ typed' = typed + 1 => typed' \in 0..MaxTyped
    BY InvQueue
  <1>4. passphrase' \in {passphrase, FALSE, TRUE} => passphrase' \in BOOLEAN
    BY InvQueue
  <1> QED
    BY <1>1, <1>2, <1>3, <1>4, InvQueue

LEMMA TypePassphraseStep ==
    ASSUME DesktopInv, TypePassphrase
    PROVE  DesktopInv'
  <1>1. UserKeeps /\ typed < MaxTyped /\ typed' = typed + 1 /\ passphrase' = TRUE
        /\ queue' = queue /\ search' = search /\ editor' = editor /\ owners' = owners /\ asked' = asked
    BY DEF TypePassphrase
  <1> QED
    BY <1>1, UserFrame, UserStep

LEMMA OpenVaultStep ==
    ASSUME DesktopInv, OpenVault
    PROVE  DesktopInv'
  <1> DEFINE r == Request("open", screen.generation)
  <1>1. /\ UserKeeps
        /\ passphrase' = FALSE
        /\ \/ Submit(r) /\ owners' = owners \cup {asked + 1}
           \/ queue' = queue /\ asked' = asked /\ owners' = owners
        /\ search' = search
        /\ editor' = editor
        /\ typed' = typed
    BY DEF OpenVault
  <1>2. CASE Submit(r) /\ owners' = owners \cup {asked + 1}
    <2>1. "open" \in Ops \ {"save", "lock"} /\ facade' = facade
      BY <1>1 DEF Ops, UserKeeps
    <2>2. /\ asked' \in 0..MaxAsked
          /\ queue' \in Seq(Commands)
          /\ QueueInv'
          /\ Range(queue') = Range(queue) \cup {r}
          /\ r.id = asked + 1
      BY <1>2, <2>1, SubmitsPlain, Zenon
    <2>3. r.id \in {c.id : c \in Range(queue')}
      BY <2>2, Zenon
    <2> HIDE DEF r
    <2>4. owners' \subseteq owners \cup {c.id : c \in Range(queue')} /\ Range(queue) \subseteq Range(queue')
      BY <1>2, <2>2, <2>3
    <2> QED
      BY <1>1, <2>2, <2>4, UserFrame, UserStep
  <1>3. CASE queue' = queue /\ asked' = asked /\ owners' = owners
    BY <1>1, <1>3, UserFrame, UserStep
  <1> QED
    BY <1>1, <1>2, <1>3

LEMMA SetSearchStep ==
    ASSUME DesktopInv, NEW query \in Queries, SetSearch(query)
    PROVE  DesktopInv'
  <1>1. /\ UserKeeps
        /\ typed < MaxTyped
        /\ typed' = typed + 1
        /\ \/ search' = [search EXCEPT !.pending = query] /\ queue' = queue /\ asked' = asked
           \/ SubmitSearch(query)
        /\ editor' = editor
        /\ passphrase' = passphrase
        /\ owners' = owners
    BY DEF SetSearch
  <1>2. CASE search' = [search EXCEPT !.pending = query] /\ queue' = queue /\ asked' = asked
    <2>1. search' \in [inFlight : BOOLEAN, pending : Queries \cup {None}]
      BY <1>2, InvQueue
    <2> QED
      BY <1>1, <1>2, <2>1, UserFrame, UserStep
  <1>3. CASE SubmitSearch(query)
    <2>1. /\ asked' \in 0..MaxAsked
          /\ queue' \in Seq(Commands)
          /\ QueueInv'
          /\ Range(queue) \subseteq Range(queue')
          /\ search' \in [inFlight : BOOLEAN, pending : Queries \cup {None}]
      BY <1>1, <1>3, UserFrame, SubmitsSearch
    <2> QED
      BY <1>1, <2>1, UserFrame, UserStep
  <1> QED
    BY <1>1, <1>2, <1>3

LEMMA RowNamed ==
    ASSUME DesktopInv, NEW handle \in DOMAIN screen.rows
    PROVE  /\ screen.rows[handle] \in Nat
           /\ handle \in Nat
           /\ \A p : p.key = screen.rows[handle] /\ p.meant = handle => Names(p, facade)
  <1>1. KeyOf(screen.rows[handle], handle, facade) /\ screen.rows[handle] \in Nat
    BY InvQueue DEF SnapshotOK
  <1>2. handle \in Nat
    BY <1>1 DEF KeyOf
  <1>3. ASSUME NEW p, p.key = screen.rows[handle], p.meant = handle
        PROVE  Names(p, facade)
    BY <1>1, <1>3 DEF Names
  <1> QED
    BY <1>1, <1>2, <1>3

LEMMA UseRecordStep ==
    ASSUME DesktopInv, NEW op \in {"copy", "website"}, NEW handle \in DOMAIN screen.rows,
           UseRecord(op, handle)
    PROVE  DesktopInv'
  <1>1. /\ UserKeeps
        /\ Submit([Request(op, screen.generation) EXCEPT !.key = screen.rows[handle], !.meant = handle])
        /\ search' = search
        /\ editor' = editor
        /\ passphrase' = passphrase
        /\ owners' = owners
        /\ typed' = typed
        /\ facade' = facade
    BY DEF UseRecord, UserKeeps
  <1>2. op \in {"copy", "website", "record"}
    OBVIOUS
  <1>3. /\ asked' \in 0..MaxAsked
        /\ queue' \in Seq(Commands)
        /\ QueueInv'
        /\ Range(queue) \subseteq Range(queue')
    <2>1. /\ asked' \in 0..MaxAsked
          /\ queue' \in Seq(Commands)
          /\ QueueInv'
          /\ \E c \in Range(queue') : c.id = asked + 1 /\ Range(queue') = Range(queue) \cup {c}
      BY <1>1, <1>2, RowNamed, SubmitsRecord, Zenon
    <2> QED
      BY <2>1
  <1> QED
    BY <1>1, <1>3, UserFrame, UserStep

LEMMA OpenEditorStep ==
    ASSUME DesktopInv, NEW handle \in DOMAIN screen.rows \cup {0}, OpenEditor(handle)
    PROVE  DesktopInv'
  <1>1. /\ UserKeeps
        /\ editor' = [key |-> IF handle = 0 THEN 0 ELSE screen.rows[handle],
                      meant |-> handle, awaiting |-> FALSE]
        /\ queue' = queue
        /\ search' = search
        /\ passphrase' = passphrase
        /\ owners' = owners
        /\ asked' = asked
        /\ typed' = typed
    BY DEF OpenEditor
  <1>2. EditorOK(editor', facade)
    <2>1. CASE handle = 0
      BY <1>1, <2>1 DEF EditorOK, Names
    <2>2. CASE handle # 0
      <3>1. editor'.key = screen.rows[handle] /\ editor'.meant = handle /\ editor'.awaiting = FALSE
        BY <1>1, <2>2
      <3>2. handle \in DOMAIN screen.rows
        BY <2>2
      <3> QED
        BY <3>1, <3>2, RowNamed DEF EditorOK
    <2> QED
      BY <2>1, <2>2
  <1> QED
    BY <1>1, <1>2, UserFrame, UserStep

LEMMA CloseEditorStep ==
    ASSUME DesktopInv, CloseEditor
    PROVE  DesktopInv'
  <1>1. UserKeeps /\ editor' = None /\ queue' = queue /\ search' = search /\ passphrase' = passphrase
        /\ owners' = owners /\ asked' = asked /\ typed' = typed
    BY DEF CloseEditor
  <1>2. EditorOK(editor', facade)
    BY <1>1 DEF EditorOK
  <1> QED
    BY <1>1, <1>2, UserFrame, UserStep

LEMMA ConfirmRecordStep ==
    ASSUME DesktopInv, ConfirmRecord
    PROVE  DesktopInv'
  <1>1. /\ UserKeeps
        /\ editor # None
        /\ Submit([Request("record", screen.generation) EXCEPT !.key = editor.key, !.meant = editor.meant])
        /\ owners' = owners \cup {asked + 1} \/ owners' = owners
        /\ editor' = [editor EXCEPT !.awaiting = TRUE]
        /\ search' = search
        /\ passphrase' = passphrase
        /\ typed' = typed
        /\ facade' = facade
    BY DEF ConfirmRecord, UserKeeps
  <1>2. /\ EditorOK(editor', facade)
        /\ editor.key \in Nat
        /\ editor.meant \in Nat
        /\ Names(editor, facade)
    BY <1>1, InvQueue DEF EditorOK, Names
  <1>3. \A p : p.key = editor.key /\ p.meant = editor.meant => Names(p, facade)
    BY <1>2 DEF Names
  <1>4. /\ asked' \in 0..MaxAsked
        /\ queue' \in Seq(Commands)
        /\ QueueInv'
        /\ \E c \in Range(queue') : c.id = asked + 1 /\ Range(queue') = Range(queue) \cup {c}
    <2>1. "record" \in {"copy", "website", "record"}
      OBVIOUS
    <2> QED
      BY <1>1, <1>2, <1>3, <2>1, SubmitsRecord, Zenon
  <1>5. owners' \subseteq owners \cup {c.id : c \in Range(queue')} /\ Range(queue) \subseteq Range(queue')
    BY <1>1, <1>4
  <1> QED
    BY <1>1, <1>2, <1>4, <1>5, UserFrame, UserStep

LEMMA SaveStep ==
    ASSUME DesktopInv, Save
    PROVE  DesktopInv'
  <1>1. /\ UserKeeps
        /\ Submit([Request("save", screen.generation) EXCEPT !.drain = TRUE])
        /\ search' = search
        /\ editor' = editor
        /\ passphrase' = passphrase
        /\ owners' = owners
        /\ typed' = typed
        /\ facade' = facade
    BY DEF Save, UserKeeps
  <1>2. /\ asked' \in 0..MaxAsked
        /\ queue' \in Seq(Commands)
        /\ QueueInv'
        /\ Range(queue) \subseteq Range(queue')
    BY <1>1, SubmitsSave, Zenon
  <1> QED
    BY <1>1, <1>2, UserFrame, UserStep

LEMMA LockStep ==
    ASSUME DesktopInv, Lock
    PROVE  DesktopInv'
  <1>1. /\ UserKeeps
        /\ RequestLock(FALSE)
        /\ search' = search
        /\ editor' = editor
        /\ owners' = owners
        /\ typed' = typed
        /\ facade' = facade
    BY DEF Lock, UserKeeps
  <1>2. /\ asked' \in 0..MaxAsked
        /\ queue' \in Seq(Commands)
        /\ QueueInv'
        /\ Range(queue) \subseteq Range(queue')
        /\ passphrase' = FALSE
    BY <1>1, SubmitsLock
  <1> QED
    BY <1>1, <1>2, UserFrame, UserStep

LEMMA RequestCloseStep ==
    ASSUME DesktopInv, RequestClose
    PROVE  DesktopInv'
  <1>1. /\ UserKeeps
        /\ Submit(Request("close", screen.generation))
        /\ passphrase' = FALSE
        /\ search' = search
        /\ editor' = editor
        /\ owners' = owners
        /\ typed' = typed
        /\ facade' = facade
    BY DEF RequestClose, UserKeeps
  <1>2. /\ asked' \in 0..MaxAsked
        /\ queue' \in Seq(Commands)
        /\ QueueInv'
        /\ Range(queue) \subseteq Range(queue')
    <2>1. "close" \in Ops \ {"save", "lock"}
      BY DEF Ops
    <2> QED
      BY <1>1, <2>1, SubmitsPlain
  <1> QED
    BY <1>1, <1>2, UserFrame, UserStep

LEMMA ResolveCloseStep ==
    ASSUME DesktopInv, NEW choice \in {"save", "discard", "cancel"}, ResolveClose(choice)
    PROVE  DesktopInv'
  <1>1. /\ UserKeeps
        /\ Submit([Request("resolve", screen.generation) EXCEPT
                      !.choice = choice, !.drain = (choice = "save")])
        /\ passphrase' = (passphrase /\ choice = "cancel")
        /\ search' = search
        /\ editor' = editor
        /\ owners' = owners
        /\ typed' = typed
        /\ facade' = facade
    BY DEF ResolveClose, UserKeeps
  <1>2. /\ asked' \in 0..MaxAsked
        /\ queue' \in Seq(Commands)
        /\ QueueInv'
        /\ Range(queue) \subseteq Range(queue')
    BY <1>1, SubmitsResolve, Zenon
  <1>3. passphrase' \in BOOLEAN
    BY <1>1, InvQueue
  <1> QED
    BY <1>1, <1>2, <1>3, UserFrame, UserStep

LEMMA UserStepsKeep ==
    ASSUME DesktopInv, User
    PROVE  DesktopInv'
  BY TypePassphraseStep, OpenVaultStep, SetSearchStep, UseRecordStep, OpenEditorStep, CloseEditorStep,
     ConfirmRecordStep, SaveStep, LockStep, RequestCloseStep, ResolveCloseStep, Zenon DEF User

-----------------------------------------------------------------------------
(* The invariant holds, and what follows from it *)

LEMMA DesktopInvInit ==
    ASSUME Init
    PROVE  DesktopInv
  <1>1. /\ facade = [phase |-> "EMPTY", generation |-> 0, keys |-> NoKeys, next |-> 1,
                     handles |-> 0, decision |-> None, owner |-> 0]
        /\ queue = <<>>
        /\ worker = Free
        /\ events = <<>>
        /\ screen = Snapshot(facade)
        /\ search = [inFlight |-> FALSE, pending |-> None]
        /\ editor = None
        /\ passphrase = FALSE
        /\ idle = Unarmed
        /\ clipboard = Foreign
        /\ port = None
        /\ clearing = None
        /\ owners = {}
        /\ down = FALSE
        /\ asked = 0
        /\ typed = 0
        /\ astray = FALSE
    BY DEF Init
  <1>2. DOMAIN NoKeys = {} /\ \A S : NoKeys \in [{} -> S]
    BY DEF NoKeys
  <1>3. /\ facade.phase = "EMPTY"
        /\ facade.keys = NoKeys
        /\ FacadeOK(facade)
    <2>1. /\ facade.phase = "EMPTY"
          /\ facade.generation = 0
          /\ facade.keys = NoKeys
          /\ facade.next = 1
          /\ facade.handles = 0
          /\ facade.decision = None
          /\ facade.owner = 0
          /\ DOMAIN facade = {"phase", "generation", "keys", "next", "handles", "decision", "owner"}
      BY <1>1
    <2> QED
      BY <1>2, <2>1 DEF FacadeOK, Phases
  <1>4. Distinct(facade)
    BY <1>2, <1>3 DEF Distinct
  <1>5. SnapshotOK(screen, facade) /\ screen.phase = "EMPTY"
    BY <1>1, <1>3, <1>4, SnapshotIsOK
  <1>6. TypeOK
    <2>1. queue \in Seq(Commands) /\ search \in [inFlight : BOOLEAN, pending : Queries \cup {None}]
      BY <1>1
    <2>2. idle \in [{"active", "submitted", "ticking", "refused"} -> BOOLEAN] /\ ~idle.ticking
      <3>1. Unarmed \in [{"active", "submitted", "ticking", "refused"} -> BOOLEAN]
        BY FourSwitches DEF Unarmed
      <3>2. ~Unarmed.ticking
        BY DEF Unarmed
      <3> QED
        BY <1>1, <3>1, <3>2
    <2>3. worker.pc = "free"
      BY <1>1 DEF Free
    <2>4. asked \in 0..MaxAsked /\ typed \in 0..MaxTyped
      BY <1>1
    <2> QED
      BY <1>1, <1>3, <1>5, <2>1, <2>2, <2>3, <2>4 DEF TypeOK, Phases
  <1>7. QueueInv /\ EventsInv /\ WorkerInv
    BY <1>1 DEF QueueInv, EventsInv, WorkerInv, Calling, Free
  <1>8. GuiInv
    BY <1>1, <1>5 DEF GuiInv, EditorOK
  <1>9. LatestInv
    BY <1>1, <1>3, <1>5 DEF LatestInv, Newest, NewestPhase
  <1>10. IdleInv /\ IdleIsWatched
    BY <1>1, <1>5 DEF IdleInv, IdleIsWatched, Unarmed, Unlocked
  <1>11. ActsOnWhatWasChosen /\ SecretIsTimed /\ ClearingInv
    BY <1>1 DEF ActsOnWhatWasChosen, SecretIsTimed, ClearingInv
  <1>12. SecretsHaveOwners
    BY <1>1, <1>6 DEF SecretsHaveOwners
  <1> QED
    BY <1>4, <1>6, <1>7, <1>8, <1>9, <1>10, <1>11, <1>12 DEF DesktopInv

LEMMA Stutters ==
    ASSUME DesktopInv, UNCHANGED vars
    PROVE  DesktopInv'
  BY DEF vars, gui, clip, DesktopInv, TypeOK, Distinct, QueueInv, EventsInv, WorkerInv, Calling, Successor, GuiInv,
         LatestInv, Newest, NewestPhase, IdleInv, ActsOnWhatWasChosen, SecretIsTimed, SecretsHaveOwners,
         IdleIsWatched, ClearingInv, Pipeline

LEMMA DesktopInvStep ==
    ASSUME DesktopInv, [Next]_vars
    PROVE  DesktopInv'
  <1>1. CASE Work
    BY <1>1, TakeStep, RunRejectedStep, RunSearchStep, RunCopyStep, RunWebsiteStep, RunRecordStep, RunSaveStep,
       RunLockStep, RunRequestCloseStep, RunOpenStep, RunResolveCloseStep, ResumeStep, Zenon DEF Work
  <1>2. CASE Deliver
    BY <1>2, AcceptResultStep, RejectCommandStep, FinishSearchStep, FinishRecordStep, CopyToClipboardStep,
       ClearClipboardStep, ClearStep, Zenon DEF Deliver
  <1> QED
    BY <1>1, <1>2, ClipboardExpiresStep, OtherApplicationCopiesStep, IdlePollStep, UserStepsKeep, ShutdownStep,
       Stutters, Zenon DEF Next

\* The inductive invariant: types, the order of events, and what every queued
\* command, event and editor still says of the facade.
THEOREM DesktopInvariant == Spec => []DesktopInv
  <1>1. Init => DesktopInv
    BY DesktopInvInit
  <1>2. DesktopInv /\ [Next]_vars => DesktopInv'
    BY DesktopInvStep
  <1> QED
    BY <1>1, <1>2, PTL DEF Spec

\* A click, or an editor, acts on the record it was opened on or on none.
THEOREM ChosenIsActedOn == Spec => []ActsOnWhatWasChosen
  <1>1. DesktopInv => ActsOnWhatWasChosen
    BY DEF DesktopInv
  <1> QED
    BY <1>1, DesktopInvariant, PTL

\* What Bonobo put on the clipboard has its timer, and is gone from it before a
\* locked facade is published.
THEOREM SecretsAreTimed == Spec => []SecretIsTimed
  <1>1. DesktopInv => SecretIsTimed
    BY DEF DesktopInv
  <1> QED
    BY <1>1, DesktopInvariant, PTL

\* Every open SecretBuffer belongs to a command on its way, or to the decision.
THEOREM SecretsAreOwned == Spec => []SecretsHaveOwners
  <1>1. DesktopInv => SecretsHaveOwners
    BY DEF DesktopInv
  <1> QED
    BY <1>1, DesktopInvariant, PTL

\* A command that suspends or saves was marked for draining by the GUI.
THEOREM SuspensionsAreDrained == Spec => []SuspensionIsDrained
  <1>1. DesktopInv => SuspensionIsDrained
    BY DEF DesktopInv, WorkerInv, Calling, SuspensionIsDrained
  <1> QED
    BY <1>1, DesktopInvariant, PTL

\* An unlocked screen is watched by the idle controller.
THEOREM UnlockedIsWatched == Spec => []IdleIsWatched
  <1>1. DesktopInv => IdleIsWatched
    BY DEF DesktopInv
  <1> QED
    BY <1>1, DesktopInvariant, PTL

================================================================================
