------------------------- MODULE PayloadStreamsProofs --------------------------
(***************************************************************************)
(* The streams of decrypted payloads, for any number of readers and blocks.*)
(*                                                                         *)
(* StreamsInv is inductive.  A step of a reader changes its own stream     *)
(* and what the payload has registered; a step of a closing thread changes *)
(* one payload it is in charge of.  Each part of the invariant has a lemma *)
(* that says under which changes of the others it remains (Kept...), and   *)
(* each action a lemma that shows the parts it is about.                   *)
(***************************************************************************)
EXTENDS PayloadStreams, FiniteSetTheorems, TLAPS

USE PayloadStreamsAssumption
USE DEF Own, Payloads, Closers, Working, Lives, Chunks, Sights

-----------------------------------------------------------------------------
(* Frames *)

\* The parts of the invariant, one by one.
LEMMA Parts ==
    ASSUME StreamsInv
    PROVE  /\ TypeOK
           /\ \A p \in Payloads : PayloadOK(p) /\ payload[p] \in PayloadStates
           /\ \A r \in Readers : StreamOK(r) /\ stream[r] \in Streams
           /\ BufferOK
           /\ \A c \in Closers : CloserOK(c) /\ closer[c] \in Threads
           /\ VaultOK
  BY DEF StreamsInv, TypeOK

\* A payload that no step touches, and whose streams stay with it.
LEMMA KeptPayload ==
    ASSUME NEW p \in Payloads, PayloadOK(p), payload'[p] = payload[p],
           \A r \in payload[p].streams : stream'[r].of = stream[r].of
    PROVE  PayloadOK(p)'
  BY DEF PayloadOK, IsOpen, IsClosed

\* A stream that no step touches, while its payload at most loses its life.
LEMMA KeptStream ==
    ASSUME NEW r \in Readers, StreamOK(r), stream'[r] = stream[r],
           vault.key = "wiped" => vault'.key = "wiped",
           LET p == stream[r].of
           IN  p # None => /\ payload'[p].kind = payload[p].kind
                           /\ payload[p].life # "none" => payload'[p].life # "none"
                           /\ IsOpen(p)' => IsOpen(p)
                           /\ payload[p].kind = "span" =>
                                (r \in payload'[p].streams <=> r \in payload[p].streams)
    PROVE  StreamOK(r)'
  <1>1. CASE stream[r].of = None
    BY <1>1 DEF StreamOK, KindOf, IsOpen
  <1>2. CASE stream[r].of # None
    <2>1. KindOf(r)' = KindOf(r) /\ KindOf(r) = payload[stream[r].of].kind
      BY <1>2 DEF KindOf
    <2> QED
      BY <1>2, <2>1 DEF StreamOK, IsOpen, Overtaken
  <1> QED
    BY <1>1, <1>2

\* The buffer, while the inline payloads stay what they are.
LEMMA KeptBuffer ==
    ASSUME BufferOK, buffer' = buffer, vault.life = "none" => vault'.life = "none",
           \A p \in Payloads :
              /\ payload[p].kind = "inline" \/ payload'[p].kind = "inline" =>
                    payload'[p].kind = payload[p].kind /\ payload'[p].life = payload[p].life
    PROVE  BufferOK'
  <1>1. Leased' = Leased
    BY DEF Leased
  <1> QED
    BY <1>1 DEF BufferOK, IsOpen

\* A closing thread that does not step, while its payload only loses streams.
LEMMA KeptCloser ==
    ASSUME NEW c \in Closers, CloserOK(c), closer'[c] = closer[c],
           closer[c].pc \in Working =>
              LET p == closer[c].on
              IN  /\ payload'[p].kind = payload[p].kind
                  /\ payload'[p].life = payload[p].life
                  /\ payload'[p].life = "closing" => payload'[p].streams \subseteq payload[p].streams
                  /\ closer[c].pc = "sever" =>
                        \A r \in closer[c].todo : stream'[r].of = stream[r].of
    PROVE  CloserOK(c)'
  BY DEF CloserOK, Charge

\* The vault and the thread that closes it, while no payload comes back to life.
LEMMA KeptVault ==
    ASSUME VaultOK, UNCHANGED <<vault, file>>,
           LET o == closer["owner"]
               n == closer'["owner"]
           IN  \/ n = o
               \/ /\ {o.pc, n.pc} \subseteq Working
                  /\ n.on = o.on /\ n.left = o.left /\ n.again = o.again,
           \A p \in Payloads :
              /\ payload[p].life = "closed" => payload'[p].life = "closed"
              /\ payload[p].life # "none" => payload'[p].life # "none"
              /\ vault.life = "none" /\ payload[p].life = "none" => payload'[p].life = "none"
    PROVE  VaultOK'
  BY DEF VaultOK, IsClosed

\* A step of one stream, which stays with its payload.
LEMMA OwnStream ==
    ASSUME StreamsInv, NEW r \in Readers, NEW s \in Streams,
           stream' = [stream EXCEPT ![r] = s], s.of = stream[r].of,
           UNCHANGED <<vault, file, payload, latch, buffer, closer>>,
           holder' \in [Readers -> Readers \cup {None}], faults' \in Nat,
           StreamOK(r)'
    PROVE  StreamsInv'
  <1>1. TypeOK'
    BY DEF StreamsInv, TypeOK
  <1>2. stream'[r].of = stream[r].of /\ \A q \in Readers \ {r} : stream'[q] = stream[q]
    BY DEF StreamsInv, TypeOK
  <1>3. \A q \in Readers : stream'[q].of = stream[q].of
    BY <1>2
  <1>4. ASSUME NEW p \in Payloads
        PROVE  PayloadOK(p)'
    <2>1. payload[p].streams \subseteq Readers
      BY Parts DEF PayloadStates
    <2> QED
      BY <1>3, <2>1, Parts, KeptPayload
  <1>5. ASSUME NEW q \in Readers
        PROVE  StreamOK(q)'
    BY <1>2, Parts, KeptStream DEF IsOpen
  <1>6. BufferOK'
    BY Parts, KeptBuffer
  <1>7. ASSUME NEW c \in Closers
        PROVE  CloserOK(c)'
    <2>1. closer[c].todo \subseteq Readers
      BY Parts DEF Threads
    <2> QED
      BY <1>3, <2>1, Parts, KeptCloser
  <1>8. VaultOK'
    BY Parts, KeptVault
  <1> QED
    BY <1>1, <1>4, <1>5, <1>6, <1>7, <1>8 DEF StreamsInv

\* The fields of a stream, and the payload it reads.
LEMMA StreamFacts ==
    ASSUME StreamsInv, NEW r \in Readers
    PROVE  /\ stream \in [Readers -> Streams]
           /\ stream[r] \in Streams
           /\ stream[r].of \in Payloads \cup {None}
           /\ stream[r].at \in Nat
           /\ stream[r].chunk \in Chunks
           /\ stream[r].seen \subseteq Sights
           /\ StreamOK(r)
           /\ stream[r].of # None =>
                /\ stream[r].of \in Payloads
                /\ payload[stream[r].of].kind \in {"span", "inline"}
                /\ KindOf(r) = payload[stream[r].of].kind
                /\ PayloadOK(stream[r].of)
  <1>1. stream \in [Readers -> Streams] /\ stream[r] \in Streams /\ StreamOK(r)
    BY Parts DEF TypeOK
  <1>2. /\ stream[r].of \in Payloads \cup {None}
        /\ stream[r].at \in Nat
        /\ stream[r].chunk \in Chunks
        /\ stream[r].seen \subseteq Sights
    BY <1>1 DEF Streams
  <1>3. ASSUME stream[r].of # None
        PROVE  /\ stream[r].of \in Payloads
               /\ payload[stream[r].of].kind \in {"span", "inline"}
               /\ KindOf(r) = payload[stream[r].of].kind
               /\ PayloadOK(stream[r].of)
    BY <1>1, <1>2, <1>3, Parts DEF StreamOK, PayloadOK, PayloadStates, KindOf
  <1> QED
    BY <1>1, <1>2, <1>3

\* An unwound generator has wiped its chunk, if it had one, and closed its context.
LEMMA UnwoundStream ==
    ASSUME NEW s \in Streams, NEW exported \in BOOLEAN
    PROVE  LET u == Unwound(s, exported)
           IN  /\ u \in Streams
               /\ u.of = s.of /\ u.pc = s.pc /\ u.at = s.at
               /\ u.seen = s.seen /\ u.verdict = s.verdict
               /\ u.native = "none"
               /\ u.chunk \in Wiped
               /\ u.chunk = "zeroed" => exported \/ s.chunk = "zeroed"
  <1>1. /\ Unkeyed(s) \in Streams
        /\ Unkeyed(s).of = s.of /\ Unkeyed(s).pc = s.pc /\ Unkeyed(s).at = s.at
        /\ Unkeyed(s).seen = s.seen /\ Unkeyed(s).verdict = s.verdict
        /\ Unkeyed(s).native = "none" /\ Unkeyed(s).chunk = s.chunk
    BY DEF Streams, Unkeyed, Destroyed
  <1> DEFINE t == Unkeyed(s)
             chunk == IF exported THEN "zeroed"
                      ELSE IF t.chunk \in {"none", "zeroed"} THEN t.chunk ELSE "gone"
  <1>2. Unwound(s, exported) = [t EXCEPT !.chunk = chunk]
    BY DEF Unwound
  <1>3. chunk \in Wiped /\ chunk \in Chunks /\ (chunk = "zeroed" => exported \/ s.chunk = "zeroed")
    BY <1>1 DEF Wiped
  <1> HIDE DEF t, chunk, Chunks
  <1>4. t \in Streams
    BY <1>1 DEF t
  <1> QED
    BY <1>1, <1>2, <1>3, <1>4 DEF Streams, t

\* A turned context has the chain value of the next block, and the chunk of this one.
LEMMA TurnedStream ==
    ASSUME NEW s \in Streams
    PROVE  /\ Turned(s) \in Streams
           /\ Turned(s).of = s.of /\ Turned(s).at = s.at /\ Turned(s).at \in Nat
           /\ Turned(s).seen = s.seen /\ Turned(s).verdict = s.verdict
           /\ Turned(s).chain = "true"
           /\ Turned(s).native = s.native
           /\ Turned(s).chunk \in {"true", "garbage"}
           /\ s.chain = "true" /\ s.native = "true" => Turned(s).chunk = "true"
  <1> DEFINE chunk == IF s.chain = "true" /\ s.native = "true" THEN "true" ELSE "garbage"
  <1>1. /\ chunk \in Chunks /\ chunk \in {"true", "garbage"}
        /\ s.chain = "true" /\ s.native = "true" => chunk = "true"
    OBVIOUS
  <1>2. Turned(s) = [s EXCEPT !.chunk = chunk, !.chain = "true"]
    BY DEF Turned
  <1> HIDE DEF chunk, Chunks
  <1> QED
    BY <1>1, <1>2 DEF Streams

-----------------------------------------------------------------------------
(* Steps of a reader *)

\* What a reader's step leaves alone, but for its stream and its lock.
ReaderStep == UNCHANGED <<vault, file, payload, latch, buffer, closer>>

\* A generator that ends keeps nothing, and says why it ended.
LEMMA OverInv ==
    ASSUME StreamsInv, NEW r \in Readers, NEW exported \in BOOLEAN,
           NEW verdict \in {"refused", "whole"},
           stream[r].of # None,
           stream[r].pc \in {"entered", "looked", "resumed", "primed", "checked"},
           Over(r, exported, verdict),
           verdict = "whole" => stream[r].at = Blocks /\ ~exported,
           ReaderStep, holder' \in [Readers -> Readers \cup {None}], faults' \in Nat
    PROVE  StreamsInv'
  <1> DEFINE t == Unwound(stream[r], exported)
             s == [t EXCEPT !.pc = "ending", !.verdict = verdict]
  <1>1. stream' = [stream EXCEPT ![r] = s]
    BY DEF Over
  <1>2. /\ t \in Streams /\ t.of = stream[r].of /\ t.at = stream[r].at /\ t.seen = stream[r].seen
        /\ t.native = "none" /\ t.chunk \in Wiped
        /\ t.chunk = "zeroed" => exported \/ stream[r].chunk = "zeroed"
    BY StreamFacts, UnwoundStream
  <1> HIDE DEF t
  <1>3. /\ s \in Streams /\ s.of = stream[r].of /\ s.pc = "ending" /\ s.verdict = verdict
        /\ s.at = stream[r].at /\ s.seen = stream[r].seen /\ s.native = "none"
        /\ s.chunk \in Wiped
        /\ s.chunk = "zeroed" => exported \/ stream[r].chunk = "zeroed"
    <2>1. s.chunk = t.chunk /\ s.native = t.native /\ s.of = t.of /\ s.pc = "ending"
          /\ s.verdict = verdict /\ s.at = t.at /\ s.seen = t.seen /\ s \in Streams
      <3> HIDE DEF Chunks, Sights
      <3> QED  BY <1>2 DEF Streams
    <2> HIDE DEF s
    <2> QED  BY <1>2, <2>1
  <1> HIDE DEF s
  <1>4. stream'[r] = s
    BY <1>1, StreamFacts
  <1>5. StreamOK(r)'
    <2>1. KindOf(r)' = KindOf(r) /\ KindOf(r) \in {"span", "inline"}
      BY <1>3, <1>4, StreamFacts DEF KindOf, ReaderStep
    <2>2. StreamOK(r)
      BY StreamFacts
    <2>3. KindOf(r) = "span" => /\ stream[r].chunk # "zeroed" /\ "zeros" \notin stream[r].seen
                                /\ "garbage" \in stream[r].seen => Overtaken(r)
      BY <2>2 DEF StreamOK
    <2>4. Overtaken(r)' <=> Overtaken(r)
      BY <1>3, <1>4 DEF Overtaken, ReaderStep
    <2>5. stream'[r].chunk # "garbage"
      BY <1>3, <1>4 DEF Wiped
    <2>6. payload' = payload
      BY DEF ReaderStep
    <2>7. CASE KindOf(r) = "inline"
      BY <1>3, <1>4, <2>1, <2>2, <2>6, <2>7 DEF StreamOK, IsOpen
    <2>8. CASE KindOf(r) = "span"
      BY <1>3, <1>4, <2>1, <2>2, <2>3, <2>4, <2>5, <2>6, <2>8 DEF StreamOK, IsOpen
    <2> QED
      BY <2>1, <2>7, <2>8
  <1> QED
    BY <1>1, <1>3, <1>5, OwnStream DEF ReaderStep

\* A refusal is no claim about what was read.
LEMMA RefusedInv ==
    ASSUME StreamsInv, NEW r \in Readers, stream[r].of # None,
           stream' = [stream EXCEPT ![r].verdict = "refused"],
           ReaderStep, holder' \in [Readers -> Readers \cup {None}], faults' \in Nat
    PROVE  StreamsInv'
  <1> DEFINE s == [stream[r] EXCEPT !.verdict = "refused"]
  <1>1. stream' = [stream EXCEPT ![r] = s]
    BY StreamFacts
  <1>2. /\ s \in Streams /\ s.of = stream[r].of /\ s.pc = stream[r].pc /\ s.verdict = "refused"
        /\ s.chain = stream[r].chain /\ s.seen = stream[r].seen /\ s.native = stream[r].native
        /\ s.chunk = stream[r].chunk
    <2>1. stream[r] \in Streams
      BY StreamFacts
    <2> HIDE DEF Chunks
    <2> QED
      BY <2>1 DEF Streams
  <1> HIDE DEF s
  <1>3. stream'[r] = s
    BY <1>1, StreamFacts
  <1>4. StreamOK(r)'
    <2>1. KindOf(r)' = KindOf(r) /\ StreamOK(r)
      BY <1>2, <1>3, StreamFacts DEF KindOf, ReaderStep
    <2>2. Overtaken(r)' <=> Overtaken(r)
      BY <1>2, <1>3 DEF Overtaken, ReaderStep
    <2> QED
      BY <1>2, <1>3, <2>1, <2>2 DEF StreamOK, IsOpen, ReaderStep
  <1> QED
    BY <1>1, <1>2, <1>4, OwnStream DEF ReaderStep

\* What the consumer of a span is shown is its chunk; what the consumer of an
\* inline payload is shown is true while the payload is open.
LEMMA ConsumeInv ==
    ASSUME StreamsInv, NEW r \in Readers, Consume(r)
    PROVE  StreamsInv'
  <1>1. ReaderStep /\ UNCHANGED <<holder, faults>>
    BY DEF Consume, ReaderStep
  <1>2. holder' \in [Readers -> Readers \cup {None}] /\ faults' \in Nat
    BY <1>1 DEF StreamsInv, TypeOK
  <1>3. stream[r].of # None /\ KindOf(r) \in {"span", "inline"}
    BY StreamFacts DEF Consume, StreamOK
  <1>4. CASE stream[r].pc = "handed"
    <2> DEFINE s == [stream[r] EXCEPT !.pc = "suspended", !.seen = @ \cup {Shown(r)}]
    <2>1. stream' = [stream EXCEPT ![r] = s]
      BY <1>4, StreamFacts DEF Consume
    <2>2. KindOf(r) = "span" => Shown(r) = stream[r].chunk /\ stream[r].chunk \in {"true", "garbage"}
      BY <1>3, <1>4, StreamFacts, PayloadStreamsAssumption DEF Shown, StreamOK
    <2>3. Shown(r) \in {"true", "garbage"}
      BY <1>3, <2>2 DEF Shown
    <2>4. /\ s \in Streams /\ s.of = stream[r].of /\ s.pc = "suspended"
          /\ s.verdict = stream[r].verdict /\ s.chain = stream[r].chain
          /\ s.native = stream[r].native /\ s.chunk = stream[r].chunk
          /\ s.seen = stream[r].seen \cup {Shown(r)}
      <3>1. stream[r] \in Streams /\ stream[r].seen \cup {Shown(r)} \in SUBSET Sights
        BY <2>3, StreamFacts
      <3> HIDE DEF Chunks, Sights
      <3> QED
        BY <3>1 DEF Streams
    <2> HIDE DEF s
    <2>5. stream'[r] = s
      BY <2>1, StreamFacts
    <2>6. KindOf(r) = "inline" /\ Shown(r) = "garbage" => ~IsOpen(stream[r].of)
      BY <1>3, StreamFacts, Parts DEF Shown, BufferOK
    <2>7. StreamOK(r)'
      <3>1. KindOf(r)' = KindOf(r)
        BY <1>1, <2>4, <2>5 DEF KindOf, ReaderStep
      <3>2. StreamOK(r)
        BY StreamFacts
      <3>3. Overtaken(r)' <=> Overtaken(r)
        BY <1>1, <2>4, <2>5 DEF Overtaken, ReaderStep
      <3>4. "zeros" \in s.seen => "zeros" \in stream[r].seen
        BY <2>3, <2>4
      <3>5. "garbage" \in s.seen => "garbage" \in stream[r].seen \/ Shown(r) = "garbage"
        BY <2>4
      <3> QED
        BY <1>1, <1>3, <1>4, <2>2, <2>4, <2>5, <2>6, <3>1, <3>2, <3>3, <3>4, <3>5
           DEF StreamOK, IsOpen, ReaderStep
    <2> QED
      BY <1>1, <1>2, <2>1, <2>4, <2>7, OwnStream DEF ReaderStep
  <1>5. CASE stream[r].pc \in {"torn", "ended"} /\ stream[r].chunk = "zeroed"
    <2> DEFINE s == [stream[r] EXCEPT !.seen = @ \cup {"zeros"}]
    <2>1. stream' = [stream EXCEPT ![r] = s]
      BY <1>5, StreamFacts DEF Consume
    <2>2. /\ s \in Streams /\ s.of = stream[r].of /\ s.pc = stream[r].pc
          /\ s.verdict = stream[r].verdict /\ s.chain = stream[r].chain
          /\ s.native = stream[r].native /\ s.chunk = stream[r].chunk
          /\ s.seen = stream[r].seen \cup {"zeros"} /\ s.at = stream[r].at
      <3>1. stream[r] \in Streams /\ stream[r].seen \cup {"zeros"} \in SUBSET Sights
        BY StreamFacts
      <3> HIDE DEF Chunks, Sights
      <3> QED
        BY <3>1 DEF Streams
    <2> HIDE DEF s
    <2>3. stream'[r] = s
      BY <2>1, StreamFacts
    <2>4. StreamOK(r)'
      <3>1. KindOf(r)' = KindOf(r)
        BY <1>1, <2>2, <2>3 DEF KindOf, ReaderStep
      <3>2. StreamOK(r)
        BY StreamFacts
      <3>3. Overtaken(r)' <=> Overtaken(r)
        BY <1>1, <2>2, <2>3 DEF Overtaken, ReaderStep
      <3>4. "garbage" \in s.seen => "garbage" \in stream[r].seen
        BY <2>2
      <3> QED
        BY <1>1, <1>3, <1>5, <2>2, <2>3, <3>1, <3>2, <3>3, <3>4 DEF StreamOK, IsOpen, ReaderStep
    <2> QED
      BY <1>1, <1>2, <2>1, <2>2, <2>4, OwnStream DEF ReaderStep
  <1>6. CASE stream' = [stream EXCEPT ![r].verdict = "refused"]
    BY <1>1, <1>2, <1>3, <1>6, RefusedInv
  <1> QED
    BY <1>4, <1>5, <1>6 DEF Consume

\* A step that moves a stream on inside its generator: where it goes it has the
\* chain value, or will look at the payload again.
LEMMA MovedInv ==
    ASSUME StreamsInv, NEW r \in Readers, stream[r].of # None,
           stream[r].pc \notin {"torn", "ending", "ended"},
           NEW pc \in {"entered", "resumed", "primed", "checked"},
           NEW chunk \in {stream[r].chunk, "gone"},
           stream' = [stream EXCEPT ![r] = [stream[r] EXCEPT !.pc = pc, !.chunk = chunk]],
           KindOf(r) = "span" =>
              pc = "entered" \/ (stream[r].chain = "true" /\ stream[r].native # "none"),
           ReaderStep, holder' \in [Readers -> Readers \cup {None}], faults' \in Nat
    PROVE  StreamsInv'
  <1> DEFINE s == [stream[r] EXCEPT !.pc = pc, !.chunk = chunk]
  <1>1. /\ s \in Streams /\ s.of = stream[r].of /\ s.pc = pc /\ s.verdict = stream[r].verdict
        /\ s.chain = stream[r].chain /\ s.seen = stream[r].seen /\ s.at = stream[r].at
        /\ s.native = stream[r].native /\ s.chunk = chunk
    <2>1. stream[r] \in Streams /\ chunk \in Chunks
      BY StreamFacts
    <2> HIDE DEF Chunks
    <2> QED
      BY <2>1 DEF Streams
  <1>2. stream' = [stream EXCEPT ![r] = s]
    OBVIOUS
  <1> HIDE DEF s
  <1>3. stream'[r] = s
    BY <1>2, StreamFacts
  <1>4. KindOf(r)' = KindOf(r) /\ StreamOK(r)
    BY <1>1, <1>3, StreamFacts DEF KindOf, ReaderStep
  <1>5. Overtaken(r)' <=> Overtaken(r)
    BY <1>1, <1>3 DEF Overtaken, ReaderStep
  <1>6. StreamOK(r)'
    BY <1>1, <1>3, <1>4, <1>5, StreamFacts DEF StreamOK, IsOpen, ReaderStep
  <1> QED
    BY <1>1, <1>2, <1>6, OwnStream DEF ReaderStep

\* A reader asks for the next chunk of an open payload only.
LEMMA EnterInv ==
    ASSUME StreamsInv, NEW r \in Readers, Enter(r),
           UNCHANGED <<vault, file, payload, latch, buffer, closer, faults>>
    PROVE  StreamsInv'
  <1>1. ReaderStep /\ faults' \in Nat /\ holder' \in [Readers -> Readers \cup {None}]
    BY DEF Enter, ReaderStep, StreamsInv, TypeOK
  <1>2. /\ stream[r].of # None /\ KindOf(r) = "span"
        /\ stream[r].verdict = "none"
        /\ stream[r].pc \in {"fresh", "suspended", "torn", "ended"}
    BY StreamFacts DEF Enter, StreamOK
  <1>3. CASE ~IsOpen(stream[r].of)
    BY <1>1, <1>2, <1>3, RefusedInv DEF Enter
  <1>4. CASE IsOpen(stream[r].of)
    <2>1. stream[r].pc \in {"fresh", "suspended"}
      BY <1>2, <1>4, StreamFacts DEF StreamOK
    <2> DEFINE pc == IF stream[r].pc = "fresh" THEN "entered" ELSE "resumed"
    <2>2. stream' = [stream EXCEPT ![r].pc = pc]
      BY <1>4, <2>1 DEF Enter
    <2>3. /\ pc \in {"entered", "resumed"}
          /\ pc = "resumed" => stream[r].chain = "true" /\ stream[r].native # "none"
      BY <1>2, <2>1, StreamFacts DEF StreamOK
    <2> HIDE DEF pc
    <2>4. stream' = [stream EXCEPT ![r] = [stream[r] EXCEPT !.pc = pc, !.chunk = stream[r].chunk]]
      <3>1. [stream[r] EXCEPT !.pc = pc, !.chunk = stream[r].chunk] = [stream[r] EXCEPT !.pc = pc]
        BY StreamFacts DEF Streams
      <3> QED
        BY <2>2, <3>1, StreamFacts
    <2> QED
      BY <1>1, <1>2, <2>1, <2>3, <2>4, MovedInv
  <1> QED
    BY <1>3, <1>4

\* The chain value of a payload that is closed in between is a wiped one.
LEMMA PrimeInv ==
    ASSUME StreamsInv, NEW r \in Readers, Prime(r), ReaderStep, UNCHANGED <<holder, faults>>
    PROVE  StreamsInv'
  <1>1. faults' \in Nat /\ holder' \in [Readers -> Readers \cup {None}]
    BY DEF StreamsInv, TypeOK
  <1>2. stream[r].pc = "entered" /\ stream[r].of # None /\ stream[r].of \in Payloads
    BY StreamFacts DEF Prime, StreamOK
  <1>3. CASE KeyIsLive
    <2> DEFINE p == stream[r].of
               s == [stream[r] EXCEPT !.pc = "looked", !.chain = payload[p].chain]
    <2>1. stream' = [stream EXCEPT ![r] = s]
      BY <1>3, StreamFacts DEF Prime
    <2>2. payload[p].chain \in {"true", "wiped"}
      BY <1>2, Parts DEF PayloadStates
    <2>3. /\ s \in Streams /\ s.of = stream[r].of /\ s.pc = "looked"
          /\ s.verdict = stream[r].verdict /\ s.chain = payload[p].chain
          /\ s.seen = stream[r].seen /\ s.native = stream[r].native /\ s.chunk = stream[r].chunk
      <3>1. stream[r] \in Streams
        BY StreamFacts
      <3> HIDE DEF p
      <3> QED
        BY <2>2, <3>1 DEF Streams
    <2> HIDE DEF s
    <2>4. stream'[r] = s
      BY <2>1, StreamFacts
    <2>5. StreamOK(r)'
      <3>1. KindOf(r)' = KindOf(r) /\ StreamOK(r) /\ PayloadOK(p)
        BY <1>2, <2>3, <2>4, StreamFacts DEF KindOf, ReaderStep
      <3>2. KindOf(r) = "span" => (s.chain = "true" \/ ~IsOpen(p))
        BY <1>2, <2>3, <3>1, StreamFacts DEF PayloadOK
      <3>3. Overtaken(r)' <=> Overtaken(r)
        BY <2>3, <2>4 DEF Overtaken, ReaderStep
      <3> QED
        BY <1>2, <2>3, <2>4, <3>1, <3>2, <3>3 DEF StreamOK, IsOpen, ReaderStep
    <2> QED
      BY <1>1, <2>1, <2>3, <2>5, OwnStream DEF ReaderStep
  <1>4. CASE ~KeyIsLive
    BY <1>1, <1>2, <1>4, OverInv DEF Prime
  <1> QED
    BY <1>3, <1>4

\* A stream that has still to end is not one of the document's when the keys are
\* gone: those payloads were closed first.
LEMMA OnlyForkIsOvertaken ==
    ASSUME StreamsInv, NEW r \in Readers, KindOf(r) = "span", stream[r].pc # "ended",
           ~KeyIsLive
    PROVE  Overtaken(r)
  <1>1. stream[r].of # None /\ stream[r].of \in Payloads /\ r \in payload[stream[r].of].streams
        /\ payload[stream[r].of].life # "none"
    BY StreamFacts, PayloadStreamsAssumption DEF KindOf, StreamOK
  <1>2. vault.life # "none"
    BY <1>1, Parts DEF VaultOK
  <1>3. vault.key = "wiped"
    BY <1>2, Parts DEF VaultOK, KeyIsLive, StreamsInv, TypeOK, Vaults
  <1>4. stream[r].of \notin Own
    BY <1>1, <1>3, Parts DEF VaultOK, PayloadOK, IsClosed
  <1> QED
    BY <1>1, <1>3, <1>4 DEF Overtaken

\* A native key is the content key, but for a fork's whose vault has wiped it.
LEMMA KeyInv ==
    ASSUME StreamsInv, NEW r \in Readers, Key(r), ReaderStep, UNCHANGED <<holder, faults>>
    PROVE  StreamsInv'
  <1>1. faults' \in Nat /\ holder' \in [Readers -> Readers \cup {None}]
    BY DEF StreamsInv, TypeOK
  <1>2. stream[r].pc = "looked" /\ stream[r].of # None
    BY StreamFacts DEF Key, StreamOK
  <1>3. CASE Over(r, FALSE, "refused")
    BY <1>1, <1>2, <1>3, OverInv
  <1>4. CASE stream' = [stream EXCEPT ![r] = [Handled(@) EXCEPT !.pc = "primed"]]
    <2> DEFINE native == IF KeyIsLive THEN "true" ELSE "wiped"
               s == [stream[r] EXCEPT !.native = native, !.pc = "primed"]
    <2>1. stream[r] \in Streams /\ native \in {"true", "wiped"}
      BY StreamFacts
    <2>2. KindOf(r) = "span" /\ native = "wiped" => Overtaken(r)
      BY <1>2, OnlyForkIsOvertaken
    <2>3. Handled(stream[r]) = [stream[r] EXCEPT !.native = native]
      BY DEF Handled
    <2> HIDE DEF native
    <2>4. [Handled(stream[r]) EXCEPT !.pc = "primed"] = s
      BY <2>1, <2>3 DEF Streams
    <2>5. stream' = [stream EXCEPT ![r] = s]
      BY <1>4, <2>4
    <2>6. /\ s \in Streams /\ s.of = stream[r].of /\ s.pc = "primed"
          /\ s.verdict = stream[r].verdict /\ s.chain = stream[r].chain
          /\ s.seen = stream[r].seen /\ s.native = native /\ s.chunk = stream[r].chunk
      <3> HIDE DEF Chunks, Sights
      <3> QED  BY <2>1 DEF Streams
    <2> HIDE DEF s
    <2>7. stream'[r] = s
      BY <2>5, StreamFacts
    <2>8. StreamOK(r)'
      <3>1. KindOf(r)' = KindOf(r) /\ StreamOK(r)
        BY <2>6, <2>7, StreamFacts DEF KindOf, ReaderStep
      <3>2. Overtaken(r)' <=> Overtaken(r)
        BY <2>6, <2>7 DEF Overtaken, ReaderStep
      <3> QED
        BY <1>2, <2>1, <2>2, <2>6, <2>7, <3>1, <3>2 DEF StreamOK, IsOpen, ReaderStep
    <2> QED
      BY <1>1, <2>5, <2>6, <2>8, OwnStream DEF ReaderStep
  <1> QED
    BY <1>3, <1>4 DEF Key

\* A resumed generator ends when all blocks were read, or when it cannot wipe the
\* last chunk, and not before.
LEMMA ResumeInv ==
    ASSUME StreamsInv, NEW r \in Readers, NEW fails \in BOOLEAN, Resume(r, fails),
           ReaderStep, UNCHANGED holder, faults' \in Nat
    PROVE  StreamsInv'
  <1>1. holder' \in [Readers -> Readers \cup {None}]
    BY DEF StreamsInv, TypeOK
  <1>2. stream[r].pc = "resumed" /\ stream[r].of # None
    BY StreamFacts DEF Resume, StreamOK
  <1>3. CASE fails \/ ~IsOpen(stream[r].of)
    BY <1>1, <1>2, <1>3, OverInv DEF Resume
  <1>4. CASE ~fails /\ IsOpen(stream[r].of) /\ stream[r].at = Blocks
    BY <1>1, <1>2, <1>4, OverInv DEF Resume
  <1>5. CASE ~fails /\ IsOpen(stream[r].of) /\ stream[r].at # Blocks
    <2>1. stream' = [stream EXCEPT ![r] = [stream[r] EXCEPT !.pc = "primed", !.chunk = "gone"]]
      BY <1>5, StreamFacts DEF Resume
    <2>2. KindOf(r) = "span" => stream[r].chain = "true" /\ stream[r].native # "none"
      BY <1>2, StreamFacts DEF StreamOK
    <2> QED
      BY <1>1, <1>2, <2>1, <2>2, MovedInv
  <1> QED
    BY <1>3, <1>4, <1>5

\* What is decrypted has been allowed by a look at the payload after the copy of
\* the chain value.
LEMMA CheckInv ==
    ASSUME StreamsInv, NEW r \in Readers, Check(r), ReaderStep, UNCHANGED <<holder, faults>>
    PROVE  StreamsInv'
  <1>1. faults' \in Nat /\ holder' \in [Readers -> Readers \cup {None}]
    BY DEF StreamsInv, TypeOK
  <1>2. stream[r].pc = "primed" /\ stream[r].of # None
    BY StreamFacts DEF Check, StreamOK
  <1>3. CASE ~IsOpen(stream[r].of)
    BY <1>1, <1>2, <1>3, OverInv DEF Check
  <1>4. CASE IsOpen(stream[r].of)
    <2>1. stream' = [stream EXCEPT ![r] = [stream[r] EXCEPT !.pc = "checked", !.chunk = stream[r].chunk]]
      <3>1. [stream[r] EXCEPT !.pc = "checked", !.chunk = stream[r].chunk]
               = [stream[r] EXCEPT !.pc = "checked"]
        BY StreamFacts DEF Streams
      <3> QED
        BY <1>4, <3>1, StreamFacts DEF Check
    <2>2. KindOf(r) = "span" => stream[r].chain = "true" /\ stream[r].native # "none"
      BY <1>2, <1>4, StreamFacts DEF StreamOK
    <2> QED
      BY <1>1, <1>2, <2>1, <2>2, MovedInv
  <1> QED
    BY <1>3, <1>4

\* A block decrypted with the chain value is a true one.
LEMMA ReadInv ==
    ASSUME StreamsInv, NEW r \in Readers, NEW fails \in BOOLEAN, Read(r, fails),
           ReaderStep, faults' \in Nat
    PROVE  StreamsInv'
  <1>1. stream[r].pc = "checked" /\ stream[r].of # None
    BY StreamFacts DEF Read, StreamOK
  <1>2. holder' \in [Readers -> Readers \cup {None}]
    BY DEF Read, StreamsInv, TypeOK
  <1>3. CASE CanRead(fails)
    <2> DEFINE t == Turned(stream[r])
               s == [t EXCEPT !.pc = "handed", !.at = stream[r].at + 1]
    <2>1. stream' = [stream EXCEPT ![r] = s]
      BY <1>3, StreamFacts DEF Read
    <2>2. /\ t \in Streams /\ t.of = stream[r].of /\ t.verdict = stream[r].verdict
          /\ t.chain = "true" /\ t.seen = stream[r].seen /\ t.native = stream[r].native
          /\ t.chunk \in {"true", "garbage"}
          /\ stream[r].chain = "true" /\ stream[r].native = "true" => t.chunk = "true"
      BY StreamFacts, TurnedStream
    <2> HIDE DEF t
    <2>3. /\ s \in Streams /\ s.of = stream[r].of /\ s.pc = "handed"
          /\ s.verdict = stream[r].verdict /\ s.chain = "true" /\ s.seen = stream[r].seen
          /\ s.native = stream[r].native /\ s.chunk \in {"true", "garbage"}
          /\ stream[r].chain = "true" /\ stream[r].native = "true" => s.chunk = "true"
      <3>1. stream[r].at + 1 \in Nat
        BY StreamFacts
      <3> QED
        BY <2>2, <3>1 DEF Streams
    <2> HIDE DEF s
    <2>4. stream'[r] = s
      BY <2>1, StreamFacts
    <2>5. StreamOK(r)'
      <3>1. KindOf(r)' = KindOf(r) /\ StreamOK(r)
        BY <2>3, <2>4, StreamFacts DEF KindOf, ReaderStep
      <3>2. Overtaken(r)' <=> Overtaken(r)
        BY <2>3, <2>4 DEF Overtaken, ReaderStep
      <3>3. stream[r].native \in {"none", "true", "wiped"}
        BY StreamFacts DEF Streams
      <3>4. KindOf(r) = "span" /\ s.chunk = "garbage" => Overtaken(r)
        BY <1>1, <2>3, <3>1, <3>3 DEF StreamOK
      <3> QED
        BY <1>1, <2>3, <2>4, <3>1, <3>2, <3>4 DEF StreamOK, IsOpen, ReaderStep
    <2> QED
      BY <1>2, <2>1, <2>3, <2>5, OwnStream DEF ReaderStep
  <1>4. CASE ~CanRead(fails)
    BY <1>1, <1>2, <1>4, OverInv DEF Read
  <1> QED
    BY <1>3, <1>4

\* A stream of an inline payload has nothing of its own.
LEMMA InlineNextInv ==
    ASSUME StreamsInv, NEW r \in Readers, InlineNext(r),
           UNCHANGED <<vault, file, payload, latch, buffer, holder, closer, faults>>
    PROVE  StreamsInv'
  <1>1. ReaderStep /\ faults' \in Nat /\ holder' \in [Readers -> Readers \cup {None}]
    BY DEF ReaderStep, StreamsInv, TypeOK
  <1>2. stream[r].of # None /\ KindOf(r) = "inline"
    BY StreamFacts DEF InlineNext, StreamOK
  <1>3. PICK s \in Streams : /\ stream' = [stream EXCEPT ![r] = s]
                             /\ s.of = stream[r].of /\ s.seen = stream[r].seen /\ s.pc # "none"
    <2>1. stream[r].at + 1 \in Nat /\ stream[r] \in Streams
      BY StreamFacts
    <2>2. CASE stream[r].at = Blocks
      <3> DEFINE s == [stream[r] EXCEPT !.pc = "ended", !.verdict = "whole"]
      <3>1. stream' = [stream EXCEPT ![r] = s]
        BY <2>2, StreamFacts DEF InlineNext
      <3>2. s \in Streams /\ s.of = stream[r].of /\ s.seen = stream[r].seen /\ s.pc # "none"
        BY <2>1 DEF Streams
      <3> QED
        BY <3>1, <3>2
    <2>3. CASE /\ stream[r].at # Blocks
               /\ ~IsOpen(stream[r].of) \/ (stream[r].pc = "fresh" /\ ~Borrowable)
      <3> DEFINE s == [stream[r] EXCEPT !.pc = "ended", !.verdict = "refused"]
      <3>1. stream' = [stream EXCEPT ![r] = s]
        BY <2>3, StreamFacts DEF InlineNext
      <3>2. s \in Streams /\ s.of = stream[r].of /\ s.seen = stream[r].seen /\ s.pc # "none"
        BY <2>1 DEF Streams
      <3> QED
        BY <3>1, <3>2
    <2>4. CASE /\ stream[r].at # Blocks
               /\ ~(~IsOpen(stream[r].of) \/ (stream[r].pc = "fresh" /\ ~Borrowable))
      <3> DEFINE s == [stream[r] EXCEPT !.pc = "handed", !.at = stream[r].at + 1]
      <3>1. stream' = [stream EXCEPT ![r] = s]
        BY <2>4, StreamFacts DEF InlineNext
      <3>2. s \in Streams /\ s.of = stream[r].of /\ s.seen = stream[r].seen /\ s.pc # "none"
        BY <2>1 DEF Streams
      <3> QED
        BY <3>1, <3>2
    <2> QED
      BY <2>2, <2>3, <2>4
  <1>4. stream'[r] = s
    BY <1>3, StreamFacts
  <1>5. StreamOK(r)'
    <2>1. KindOf(r)' = "inline" /\ StreamOK(r)
      BY <1>1, <1>2, <1>3, <1>4, StreamFacts DEF KindOf, ReaderStep
    <2> QED
      BY <1>1, <1>2, <1>3, <1>4, <2>1 DEF StreamOK, IsOpen, ReaderStep
  <1> QED
    BY <1>1, <1>3, <1>5, OwnStream DEF ReaderStep

-----------------------------------------------------------------------------
(* Steps that end a stream *)

\* One stream goes on with its payload, which registers it as before or no more.
Shrunk(r) ==
    /\ stream' \in [Readers -> Streams]
    /\ payload' \in [Payloads -> PayloadStates]
    /\ \A q \in Readers : stream'[q].of = stream[q].of /\ (q # r => stream'[q] = stream[q])
    /\ \A p \in Payloads :
          /\ payload'[p].kind = payload[p].kind
          /\ payload'[p].life = payload[p].life
          /\ payload'[p].chain = payload[p].chain
          /\ payload'[p].streams \subseteq payload[p].streams
          /\ payload[p].streams \ {r} \subseteq payload'[p].streams
    /\ UNCHANGED <<vault, file, buffer>>

\* What such a step leaves to show: the stream itself and the thread that takes it.
LEMMA ShrunkInv ==
    ASSUME StreamsInv, NEW r \in Readers, Shrunk(r), StreamOK(r)',
           latch' \in [Payloads -> Closers \cup {None}],
           holder' \in [Readers -> Readers \cup {None}], faults' \in Nat,
           closer' \in [Closers -> Threads],
           \A c \in Closers : CloserOK(c)',
           VaultOK'
    PROVE  StreamsInv'
  <1>1. TypeOK'
    BY DEF Shrunk, StreamsInv, TypeOK
  <1>2. ASSUME NEW p \in Payloads
        PROVE  PayloadOK(p)'
    <2>1. payload[p].streams \subseteq Readers /\ PayloadOK(p)
      BY Parts DEF PayloadStates
    <2>2. /\ payload'[p].kind = payload[p].kind /\ payload'[p].life = payload[p].life
          /\ payload'[p].chain = payload[p].chain
          /\ payload'[p].streams \subseteq payload[p].streams
      BY DEF Shrunk
    <2>3. \A q \in payload'[p].streams : stream'[q].of = p
      BY <2>1, <2>2 DEF Shrunk, PayloadOK
    <2> QED
      BY <2>1, <2>2, <2>3 DEF PayloadOK, IsOpen, IsClosed
  <1>3. ASSUME NEW q \in Readers
        PROVE  StreamOK(q)'
    <2>1. CASE q = r
      BY <2>1
    <2>2. CASE q # r
      <3>1. stream'[q] = stream[q] /\ StreamOK(q)
        BY <2>2, Parts DEF Shrunk
      <3>2. stream[q].of # None => stream[q].of \in Payloads
        BY StreamFacts
      <3> QED
        BY <2>2, <3>1, <3>2, KeptStream DEF Shrunk, IsOpen
    <2> QED
      BY <2>1, <2>2
  <1>4. BufferOK'
    BY Parts, KeptBuffer DEF Shrunk
  <1> QED
    BY <1>1, <1>2, <1>3, <1>4 DEF StreamsInv

\* The threads that close, while a stream ends without them.
LEMMA ShrunkAside ==
    ASSUME StreamsInv, NEW r \in Readers, Shrunk(r), closer' = closer
    PROVE  /\ closer' \in [Closers -> Threads]
           /\ \A c \in Closers : CloserOK(c)'
           /\ VaultOK'
  <1>1. closer' \in [Closers -> Threads]
    BY DEF StreamsInv, TypeOK
  <1>2. ASSUME NEW c \in Closers
        PROVE  CloserOK(c)'
    <2>1. closer[c].todo \subseteq Readers /\ CloserOK(c)
      BY Parts DEF Threads
    <2>2. closer[c].pc \in Working => closer[c].on \in Payloads
      BY <2>1 DEF CloserOK, Charge
    <2> QED
      BY <2>1, <2>2, KeptCloser DEF Shrunk
  <1>3. VaultOK'
    BY Parts, KeptVault DEF Shrunk
  <1> QED
    BY <1>1, <1>2, <1>3

\* _finish forgets a stream whose generator is over.
LEMMA FinishInv ==
    ASSUME StreamsInv, NEW r \in Readers, Finish(r),
           UNCHANGED <<vault, file, latch, buffer, closer, faults>>
    PROVE  StreamsInv'
  <1> DEFINE p == stream[r].of
  <1>1. stream[r].pc = "ending" /\ p # None /\ p \in Payloads
    BY StreamFacts DEF Finish, StreamOK
  <1>2. /\ stream' \in [Readers -> Streams]
        /\ \A q \in Readers : q # r => stream'[q] = stream[q]
        /\ stream'[r] = [stream[r] EXCEPT !.pc = "ended"]
    <2> DEFINE over == [stream[r] EXCEPT !.pc = "ended"]
    <2>1. stream \in [Readers -> Streams] /\ stream[r] \in Streams
      BY StreamFacts
    <2>2. over \in Streams
      BY <2>1 DEF Streams
    <2>3. stream' = [stream EXCEPT ![r] = over]
      BY <2>1 DEF Finish
    <2> HIDE DEF over
    <2>4. /\ stream' \in [Readers -> Streams] /\ stream'[r] = over
          /\ \A q \in Readers : q # r => stream'[q] = stream[q]
      BY <2>1, <2>2, <2>3
    <2> QED
      BY <2>4 DEF over
  <1>3. /\ stream'[r].of = p /\ stream'[r].pc = "ended" /\ stream'[r].at = stream[r].at
        /\ stream'[r].seen = stream[r].seen /\ stream'[r].verdict = stream[r].verdict
        /\ stream'[r].native = stream[r].native /\ stream'[r].chunk = stream[r].chunk
    BY <1>2, StreamFacts DEF Streams
  <1>4. /\ payload' \in [Payloads -> PayloadStates]
        /\ \A q \in Payloads : q # p => payload'[q] = payload[q]
        /\ payload'[p] = [payload[p] EXCEPT !.streams = payload[p].streams \ {r}]
    <2> DEFINE left == payload[p].streams \ {r}
               v == [payload[p] EXCEPT !.streams = left]
    <2>1. payload \in [Payloads -> PayloadStates] /\ payload[p] \in PayloadStates
      BY <1>1, Parts DEF TypeOK
    <2>2. payload' = [payload EXCEPT ![p] = v]
      BY <1>1, <2>1 DEF Finish
    <2>3. left \subseteq Readers
      BY <2>1 DEF PayloadStates
    <2> HIDE DEF left
    <2>4. v \in PayloadStates
      BY <2>1, <2>3 DEF PayloadStates
    <2> HIDE DEF v
    <2>5. /\ payload' \in [Payloads -> PayloadStates] /\ payload'[p] = v
          /\ \A q \in Payloads : q # p => payload'[q] = payload[q]
      BY <1>1, <2>1, <2>2, <2>4
    <2> QED
      BY <2>5 DEF v, left
  <1>5. /\ payload'[p].kind = payload[p].kind /\ payload'[p].life = payload[p].life
        /\ payload'[p].chain = payload[p].chain
        /\ payload'[p].streams = payload[p].streams \ {r}
    BY <1>1, <1>4, Parts DEF PayloadStates
  <1>6. Shrunk(r)
    BY <1>2, <1>3, <1>4, <1>5 DEF Shrunk
  <1>7. StreamOK(r)'
    <2>1. KindOf(r)' = KindOf(r) /\ KindOf(r) \in {"span", "inline"} /\ StreamOK(r)
      BY <1>1, <1>3, <1>5, StreamFacts DEF KindOf
    <2>2. Overtaken(r)' <=> Overtaken(r)
      BY <1>3 DEF Overtaken
    <2> QED
      BY <1>1, <1>3, <1>5, <2>1, <2>2 DEF StreamOK, IsOpen
  <1>8. /\ holder' \in [Readers -> Readers \cup {None}] /\ faults' \in Nat
        /\ latch' \in [Payloads -> Closers \cup {None}]
    BY DEF Finish, StreamsInv, TypeOK
  <1> QED
    BY <1>6, <1>7, <1>8, ShrunkInv, ShrunkAside

Verdicts == {"none", "refused", "whole", "left"}

\* A stream that is closed is over and forgotten, or torn and remembered.
LEMMA CutFacts ==
    ASSUME StreamsInv, NEW r \in Readers, NEW by, NEW fails \in BOOLEAN,
           NEW verdict \in Verdicts, KindOf(r) = "span", stream[r].pc # "ended",
           Cut(r, by, fails, verdict), UNCHANGED <<vault, file, buffer>>,
           verdict = "whole" => stream[r].verdict = "whole",
           verdict = "none" => ~IsOpen(stream[r].of)
    PROVE  Shrunk(r) /\ StreamOK(r)' /\ (~fails => \A p \in Payloads : r \notin payload'[p].streams)
  <1> DEFINE p == stream[r].of
             t == Unwound(stream[r], fails)
             pc == IF fails THEN "torn" ELSE "ended"
             s == [t EXCEPT !.pc = pc, !.verdict = verdict]
             left == IF fails THEN payload[p].streams ELSE payload[p].streams \ {r}
  <1>1. p # None /\ p \in Payloads /\ payload[p].kind = "span"
    BY StreamFacts, PayloadStreamsAssumption DEF KindOf
  <1>2. /\ t \in Streams /\ t.of = p /\ t.at = stream[r].at /\ t.seen = stream[r].seen
        /\ t.native = "none" /\ t.chunk \in Wiped
        /\ t.chunk = "zeroed" => fails \/ stream[r].chunk = "zeroed"
    BY StreamFacts, UnwoundStream
  <1>3. stream' = [stream EXCEPT ![r] = s]
    BY DEF Cut
  <1> HIDE DEF t
  <1>4. pc \in {"torn", "ended"} /\ (pc = "ended" <=> ~fails)
    OBVIOUS
  <1> HIDE DEF pc
  <1>5. /\ s \in Streams /\ s.of = p /\ s.pc = pc /\ s.verdict = verdict
        /\ s.at = stream[r].at /\ s.seen = stream[r].seen /\ s.native = "none"
        /\ s.chunk \in Wiped
        /\ s.chunk = "zeroed" => fails \/ stream[r].chunk = "zeroed"
    <2>1. s.chunk = t.chunk /\ s.native = t.native /\ s.of = t.of /\ s.pc = pc
          /\ s.verdict = verdict /\ s.at = t.at /\ s.seen = t.seen /\ s \in Streams
      <3> HIDE DEF Chunks, Sights
      <3> QED  BY <1>2, <1>4 DEF Streams, Verdicts
    <2> HIDE DEF s
    <2> QED  BY <1>2, <2>1
  <1> HIDE DEF s
  <1>6. /\ stream' \in [Readers -> Streams] /\ stream'[r] = s
        /\ \A q \in Readers : q # r => stream'[q] = stream[q]
    BY <1>3, <1>5, StreamFacts
  <1>7. payload' = [payload EXCEPT ![p] = [payload[p] EXCEPT !.streams = left]]
    BY <1>1, Parts DEF Cut, TypeOK
  <1>8. left \subseteq payload[p].streams /\ payload[p].streams \ {r} \subseteq left
    OBVIOUS
  <1>9. r \in payload[p].streams /\ (r \in left <=> fails)
    BY <1>1, StreamFacts DEF StreamOK
  <1>10. payload \in [Payloads -> PayloadStates] /\ payload[p] \in PayloadStates
    BY <1>1, Parts DEF TypeOK
  <1> HIDE DEF left
  <1>11. /\ payload'[p].kind = payload[p].kind /\ payload'[p].life = payload[p].life
         /\ payload'[p].chain = payload[p].chain /\ payload'[p].streams = left
         /\ payload' \in [Payloads -> PayloadStates]
         /\ \A q \in Payloads : q # p => payload'[q] = payload[q]
    BY <1>1, <1>7, <1>8, <1>10 DEF PayloadStates
  <1>12. Shrunk(r)
    BY <1>5, <1>6, <1>8, <1>11 DEF Shrunk
  <1>13. StreamOK(r)'
    <2>1. KindOf(r)' = "span" /\ StreamOK(r)
      BY <1>1, <1>5, <1>6, <1>11, StreamFacts DEF KindOf
    <2>2. verdict = "whole" => stream[r].at = Blocks /\ ~fails
      BY <2>1 DEF Cut, StreamOK
    <2>3. Overtaken(r)' <=> Overtaken(r)
      BY <1>5, <1>6 DEF Overtaken
    <2>4. s.chunk = "zeroed" \/ "zeros" \in s.seen => verdict # "whole"
      BY <1>5, <2>1, <2>2 DEF StreamOK
    <2>5. s.chunk # "garbage" /\ ("garbage" \in s.seen => Overtaken(r))
      BY <1>5, <2>1 DEF StreamOK, Wiped
    <2> QED
      BY <1>1, <1>4, <1>5, <1>6, <1>9, <1>11, <2>1, <2>2, <2>3, <2>4, <2>5 DEF StreamOK, IsOpen
  <1>14. ASSUME ~fails, NEW q \in Payloads
         PROVE  r \notin payload'[q].streams
    <2>1. CASE q = p
      BY <1>9, <1>11, <1>14, <2>1
    <2>2. CASE q # p
      BY <1>11, <2>2, Parts DEF PayloadOK
    <2> QED
      BY <2>1, <2>2
  <1> QED
    BY <1>12, <1>13, <1>14

\* A consumer that leaves says so.
LEMMA AbandonInv ==
    ASSUME StreamsInv, NEW r \in Readers, NEW fails \in BOOLEAN, Abandon(r, fails),
           UNCHANGED <<vault, file, latch, buffer, holder, closer>>, faults' \in Nat
    PROVE  StreamsInv'
  <1>1. Shrunk(r) /\ StreamOK(r)'
    BY CutFacts DEF Abandon, Verdicts
  <1>2. /\ holder' \in [Readers -> Readers \cup {None}]
        /\ latch' \in [Payloads -> Closers \cup {None}]
    BY DEF StreamsInv, TypeOK
  <1> QED
    BY <1>1, <1>2, ShrunkInv, ShrunkAside

\* A thread severs a stream of the payload it has shut; what resists it is noted.
LEMMA SeverInv ==
    ASSUME StreamsInv, NEW c \in Closers, NEW r \in Readers, NEW fails \in BOOLEAN,
           Sever(c, r, fails), UNCHANGED <<vault, file, latch, buffer, holder>>, faults' \in Nat
    PROVE  StreamsInv'
  <1> DEFINE o == closer[c]
             n == [o EXCEPT !.todo = o.todo \ {r}, !.failed = (o.failed \/ fails)]
  <1>1. /\ o.pc = "sever" /\ r \in o.todo /\ o \in Threads /\ CloserOK(c)
        /\ closer \in [Closers -> Threads] /\ payload \in [Payloads -> PayloadStates]
    BY Parts DEF Sever, TypeOK
  <1>2. /\ o.on \in Charge(c) /\ o.on \in Payloads /\ stream[r].of = o.on
        /\ payload[o.on].kind = "span" /\ payload[o.on].life = "closing"
        /\ ~o.failed => payload[o.on].streams \subseteq o.todo
        /\ \A q \in o.todo : stream[q].of = o.on
    BY <1>1 DEF CloserOK, Charge
  <1>3. o.on # None /\ KindOf(r) = "span"
    BY <1>2, PayloadStreamsAssumption DEF KindOf
  <1>4. closer' = [closer EXCEPT ![c] = n]
    BY <1>1 DEF Sever
  <1>5. /\ n \in Threads /\ n.pc = "sever" /\ n.on = o.on /\ n.todo = o.todo \ {r}
        /\ n.failed = (o.failed \/ fails) /\ n.left = o.left /\ n.again = o.again
    BY <1>1 DEF Threads
  <1> HIDE DEF n
  <1>6. closer' \in [Closers -> Threads] /\ closer'[c] = n
        /\ \A d \in Closers \ {c} : closer'[d] = closer[d]
    BY <1>1, <1>4, <1>5
  <1>7. /\ Shrunk(r) /\ StreamOK(r)'
        /\ ~fails => r \notin payload'[o.on].streams
    <2>1. CASE stream[r].pc = "ended"
      <3>1. UNCHANGED <<stream, payload>>
        BY <2>1 DEF Sever
      <3>2. Shrunk(r)
        BY <3>1, <1>1, StreamFacts DEF Shrunk
      <3>3. StreamOK(r)'
        BY <3>1, StreamFacts DEF StreamOK, KindOf, IsOpen, Overtaken
      <3>4. r \notin payload[o.on].streams
        BY <1>2, <1>3, <2>1, StreamFacts DEF StreamOK
      <3> QED
        BY <3>1, <3>2, <3>3, <3>4
    <2>2. CASE stream[r].pc # "ended"
      <3>1. Cut(r, c, fails, stream[r].verdict) /\ stream[r].verdict \in Verdicts
        BY <2>2, StreamFacts DEF Sever, Streams, Verdicts
      <3>2. ~IsOpen(stream[r].of)
        BY <1>2 DEF IsOpen
      <3> QED
        BY <1>2, <1>3, <2>2, <3>1, <3>2, CutFacts
    <2> QED
      BY <2>1, <2>2
  <1>8. ASSUME NEW d \in Closers
        PROVE  CloserOK(d)'
    <2>1. CASE d = c
      <3>1. \A q \in n.todo : stream'[q].of = o.on
        BY <1>1, <1>2, <1>5, <1>7 DEF Shrunk, Threads
      <3>2. ~n.failed => payload'[o.on].streams \subseteq n.todo
        BY <1>2, <1>5, <1>7 DEF Shrunk
      <3> QED
        BY <1>2, <1>5, <1>6, <1>7, <2>1, <3>1, <3>2 DEF CloserOK, Shrunk, Charge
    <2>2. CASE d # c
      <3>1. closer[d].todo \subseteq Readers /\ CloserOK(d)
        BY Parts DEF Threads
      <3>2. closer[d].pc \in Working => closer[d].on \in Payloads
        BY <3>1 DEF CloserOK, Charge
      <3> QED
        BY <1>6, <1>7, <2>2, <3>1, <3>2, KeptCloser DEF Shrunk
    <2> QED
      BY <2>1, <2>2
  <1>9. VaultOK'
    <2>1. \/ closer'["owner"] = closer["owner"]
          \/ /\ {closer["owner"].pc, closer'["owner"].pc} \subseteq Working
             /\ closer'["owner"].on = closer["owner"].on
             /\ closer'["owner"].left = closer["owner"].left
             /\ closer'["owner"].again = closer["owner"].again
      BY <1>1, <1>5, <1>6
    <2> QED
      BY <1>7, <2>1, Parts, KeptVault DEF Shrunk
  <1>10. /\ holder' \in [Readers -> Readers \cup {None}]
         /\ latch' \in [Payloads -> Closers \cup {None}]
    BY DEF StreamsInv, TypeOK
  <1> QED
    BY <1>6, <1>7, <1>8, <1>9, <1>10, ShrunkInv

-----------------------------------------------------------------------------
(* Steps of a thread that closes *)

\* A thread at work has one payload in its charge, which no other thread closes.
LEMMA CloserFacts ==
    ASSUME StreamsInv, NEW c \in Closers, closer[c].pc \in Working
    PROVE  /\ closer[c] \in Threads /\ CloserOK(c)
           /\ closer[c].on \in Payloads /\ closer[c].on \in Charge(c) /\ closer[c].on # None
           /\ payload[closer[c].on] \in PayloadStates /\ PayloadOK(closer[c].on)
           /\ payload[closer[c].on].life \in {"open", "closing"}
           /\ payload[closer[c].on].kind \in {"span", "inline"}
           /\ \A d \in Closers \ {c} : closer[d].pc \in Working => closer[d].on # closer[c].on
           /\ vault.life # "none"
  <1>1. /\ closer[c] \in Threads /\ CloserOK(c) /\ VaultOK
        /\ \A d \in Closers : CloserOK(d)
        /\ \A p \in Payloads : payload[p] \in PayloadStates /\ PayloadOK(p)
    BY Parts
  <1>2. /\ closer[c].on \in Charge(c) /\ closer[c].on \in Payloads
        /\ payload[closer[c].on].life \in {"open", "closing"}
        /\ payload[closer[c].on].kind \in {"span", "inline"}
    BY <1>1 DEF CloserOK, Charge
  <1>3. \A d \in Closers \ {c} : closer[d].pc \in Working => closer[d].on # closer[c].on
    BY <1>1, <1>2 DEF CloserOK, Charge
  <1>4. vault.life # "none"
    BY <1>1, <1>2 DEF VaultOK
  <1>5. closer[c].on # None
    BY <1>2, PayloadStreamsAssumption
  <1> QED
    BY <1>1, <1>2, <1>3, <1>4, <1>5

\* Such a thread goes on with another state of itself and of its payload, which
\* keeps its kind and its streams and is not opened again.
ClosingStep(c, n, v) ==
    LET p == closer[c].on
    IN  /\ closer' = [closer EXCEPT ![c] = n]
        /\ payload' = [payload EXCEPT ![p] = v]
        /\ v.kind = payload[p].kind /\ v.streams = payload[p].streams
        /\ v.life \in {payload[p].life, "closing", "closed"}
        /\ UNCHANGED <<vault, file, stream, holder>>

\* What such a step leaves to show: its payload, its thread and what they share.
LEMMA ClosingInv ==
    ASSUME StreamsInv, NEW c \in Closers, closer[c].pc \in Working,
           NEW p \in Payloads, p = closer[c].on,
           NEW n \in Threads, NEW v \in PayloadStates, ClosingStep(c, n, v),
           latch' \in [Payloads -> Closers \cup {None}], buffer' \in Buffers, faults' \in Nat,
           PayloadOK(p)', BufferOK', CloserOK(c)', VaultOK'
    PROVE  StreamsInv'
  <1>1. /\ closer \in [Closers -> Threads] /\ payload \in [Payloads -> PayloadStates]
        /\ p \in Payloads /\ p # None
        /\ payload[p].life \in {"open", "closing"}
        /\ payload[p].kind \in {"span", "inline"}
        /\ \A d \in Closers \ {c} : closer[d].pc \in Working => closer[d].on # p
    BY CloserFacts, Parts DEF TypeOK
  <1>2. /\ closer' \in [Closers -> Threads] /\ payload' \in [Payloads -> PayloadStates]
        /\ payload'[p] = v
        /\ \A q \in Payloads : q # p => payload'[q] = payload[q]
        /\ \A d \in Closers : d # c => closer'[d] = closer[d]
        /\ v.kind = payload[p].kind /\ v.streams = payload[p].streams
        /\ v.life \in {payload[p].life, "closing", "closed"}
        /\ UNCHANGED <<vault, file, stream, holder>>
    BY <1>1 DEF ClosingStep
  <1>3. TypeOK'
    BY <1>2 DEF StreamsInv, TypeOK
  <1>4. ASSUME NEW q \in Payloads
        PROVE  PayloadOK(q)'
    <2>1. CASE q = p
      BY <2>1
    <2>2. CASE q # p
      BY <1>2, <2>2, Parts, KeptPayload
    <2> QED
      BY <2>1, <2>2
  <1>5. ASSUME NEW r \in Readers
        PROVE  StreamOK(r)'
    <2>1. stream[r].of # None => stream[r].of \in Payloads
      BY StreamFacts
    <2>2. \A q \in Payloads : /\ payload'[q].kind = payload[q].kind
                              /\ payload'[q].streams = payload[q].streams
                              /\ payload[q].life # "none" => payload'[q].life # "none"
                              /\ payload'[q].life = "open" => payload[q].life = "open"
      BY <1>1, <1>2
    <2> QED
      BY <1>2, <2>1, <2>2, Parts, KeptStream DEF IsOpen
  <1>6. ASSUME NEW d \in Closers
        PROVE  CloserOK(d)'
    <2>1. CASE d = c
      BY <2>1
    <2>2. CASE d # c
      <3>1. CloserOK(d) /\ (closer[d].pc \in Working => closer[d].on \in Payloads)
        BY Parts DEF CloserOK, Charge
      <3> QED
        BY <1>1, <1>2, <2>2, <3>1, KeptCloser
    <2> QED
      BY <2>1, <2>2
  <1> QED
    BY <1>3, <1>4, <1>5, <1>6 DEF StreamsInv

\* The vault, while the thread works on and its payload is not taken back.
LEMMA WorkingVault ==
    ASSUME StreamsInv, NEW c \in Closers, closer[c].pc \in Working,
           NEW n \in Threads, NEW v \in PayloadStates, ClosingStep(c, n, v),
           n.pc \in Working, n.on = closer[c].on, n.left = closer[c].left,
           n.again = closer[c].again
    PROVE  VaultOK'
  <1>1. /\ closer \in [Closers -> Threads] /\ payload \in [Payloads -> PayloadStates]
        /\ closer[c].on \in Payloads /\ VaultOK
        /\ payload[closer[c].on].life \in {"open", "closing"} /\ vault.life # "none"
    BY CloserFacts, Parts DEF TypeOK
  <1>2. \A p \in Payloads : /\ payload[p].life = "closed" => payload'[p].life = "closed"
                            /\ payload[p].life # "none" => payload'[p].life # "none"
    BY <1>1 DEF ClosingStep
  <1>3. \/ closer'["owner"] = closer["owner"]
        \/ /\ {closer["owner"].pc, closer'["owner"].pc} \subseteq Working
           /\ closer'["owner"].on = closer["owner"].on
           /\ closer'["owner"].left = closer["owner"].left
           /\ closer'["owner"].again = closer["owner"].again
    BY <1>1 DEF ClosingStep
  <1>4. UNCHANGED <<vault, file>>
    BY DEF ClosingStep
  <1> QED
    BY <1>1, <1>2, <1>3, <1>4, KeptVault

\* Use is refused and the chain value wiped in one step.
LEMMA ShutInv ==
    ASSUME StreamsInv, NEW c \in Closers, Shut(c),
           UNCHANGED <<vault, file, buffer, stream, holder, faults>>
    PROVE  StreamsInv'
  <1>0. PICK p \in Payloads : p = closer[c].on
    BY CloserFacts DEF Shut
  <1> DEFINE n == [closer[c] EXCEPT !.pc = "list"]
             v == [payload[p] EXCEPT !.life = "closing", !.chain = "wiped"]
  <1>1. /\ closer[c].pc = "shut" /\ closer[c].pc \in Working
        /\ closer \in [Closers -> Threads] /\ payload \in [Payloads -> PayloadStates]
    BY DEF Shut, StreamsInv, TypeOK
  <1>2. /\ closer[c] \in Threads /\ CloserOK(c) /\ p \in Payloads
        /\ payload[p] \in PayloadStates /\ PayloadOK(p) /\ payload[p].kind = "span"
        /\ p \in Charge(c)
    BY <1>0, <1>1, CloserFacts DEF CloserOK
  <1>3. closer' = [closer EXCEPT ![c] = n] /\ payload' = [payload EXCEPT ![p] = v]
    BY <1>0, <1>1, <1>2 DEF Shut
  <1>4. /\ n \in Threads /\ n.pc = "list" /\ n.on = p /\ n.left = closer[c].left
        /\ n.again = closer[c].again
    BY <1>0, <1>2 DEF Threads
  <1>5. /\ v \in PayloadStates /\ v.kind = payload[p].kind /\ v.streams = payload[p].streams
        /\ v.life = "closing" /\ v.chain = "wiped"
    BY <1>2 DEF PayloadStates
  <1> HIDE DEF n, v
  <1>6. ClosingStep(c, n, v)
    BY <1>0, <1>3, <1>5 DEF ClosingStep
  <1>7. payload'[p] = v /\ closer'[c] = n /\ \A q \in Payloads : q # p => payload'[q] = payload[q]
    BY <1>1, <1>2, <1>3
  <1>8. PayloadOK(p)'
    BY <1>2, <1>5, <1>7 DEF PayloadOK, IsOpen, IsClosed
  <1>9. BufferOK'
    BY <1>2, <1>5, <1>7, Parts, KeptBuffer
  <1>10. CloserOK(c)'
    BY <1>2, <1>4, <1>5, <1>7 DEF CloserOK, Charge
  <1>11. VaultOK'
    BY <1>0, <1>1, <1>4, <1>5, <1>6, WorkingVault
  <1>12. /\ latch' \in [Payloads -> Closers \cup {None}] /\ buffer' \in Buffers /\ faults' \in Nat
    BY DEF Shut, StreamsInv, TypeOK
  <1> QED
    BY <1>0, <1>1, <1>4, <1>5, <1>6, <1>8, <1>9, <1>10, <1>11, <1>12, ClosingInv

\* The list has every stream there is.
LEMMA ListInv ==
    ASSUME StreamsInv, NEW c \in Closers, List(c),
           UNCHANGED <<vault, file, payload, buffer, stream, holder, faults>>
    PROVE  StreamsInv'
  <1>0. PICK p \in Payloads : p = closer[c].on
    BY CloserFacts DEF List
  <1> DEFINE n == [closer[c] EXCEPT !.pc = "sever", !.failed = FALSE, !.todo = payload[p].streams]
  <1>1. /\ closer[c].pc = "list" /\ closer[c].pc \in Working
        /\ closer \in [Closers -> Threads] /\ payload \in [Payloads -> PayloadStates]
    BY DEF List, StreamsInv, TypeOK
  <1>2. /\ closer[c] \in Threads /\ CloserOK(c) /\ p \in Payloads /\ p \in Charge(c)
        /\ payload[p] \in PayloadStates /\ PayloadOK(p) /\ payload[p].kind = "span"
        /\ payload[p].life = "closing"
    BY <1>0, <1>1, CloserFacts DEF CloserOK
  <1>3. closer' = [closer EXCEPT ![c] = n] /\ payload' = [payload EXCEPT ![p] = payload[p]]
    BY <1>0, <1>1, <1>2 DEF List
  <1>4. payload[p].streams \subseteq Readers
    BY <1>2 DEF PayloadStates
  <1>5. /\ n \in Threads /\ n.pc = "sever" /\ n.on = p /\ n.left = closer[c].left
        /\ n.again = closer[c].again /\ n.todo = payload[p].streams
    BY <1>0, <1>2, <1>4 DEF Threads
  <1> HIDE DEF n
  <1>6. ClosingStep(c, n, payload[p])
    BY <1>0, <1>3 DEF ClosingStep
  <1>7. closer'[c] = n
    BY <1>1, <1>3
  <1>8. PayloadOK(p)' /\ BufferOK'
    BY <1>2, Parts, KeptPayload, KeptBuffer
  <1>9. CloserOK(c)'
    BY <1>2, <1>5, <1>7 DEF CloserOK, PayloadOK, Charge
  <1>10. VaultOK'
    BY <1>0, <1>1, <1>2, <1>5, <1>6, WorkingVault
  <1>11. /\ latch' \in [Payloads -> Closers \cup {None}] /\ buffer' \in Buffers /\ faults' \in Nat
    BY DEF List, StreamsInv, TypeOK
  <1> QED
    BY <1>0, <1>1, <1>2, <1>5, <1>6, <1>8, <1>9, <1>10, <1>11, ClosingInv

\* A thread that returns has closed its payload or keeps it among those to retry.
LEMMA ReturnedFacts ==
    ASSUME StreamsInv, NEW c \in Closers, closer[c].pc \in Working, NEW failed \in BOOLEAN,
           NEW p \in Payloads, p = closer[c].on, NEW v \in PayloadStates,
           Returned(c, failed), payload' = [payload EXCEPT ![p] = v],
           v.life \in {"open", "closing", "closed"}, ~failed => v.life = "closed",
           UNCHANGED <<vault, file>>
    PROVE  \E n \in Threads : closer' = [closer EXCEPT ![c] = n] /\ CloserOK(c)' /\ VaultOK'
  <1>1. /\ closer \in [Closers -> Threads] /\ closer[c] \in Threads /\ VaultOK /\ CloserOK(c)
        /\ payload \in [Payloads -> PayloadStates]
        /\ p \in Charge(c) /\ payload[p].life \in {"open", "closing"} /\ vault.life # "none"
    BY CloserFacts, Parts DEF TypeOK
  <1>2. payload'[p] = v /\ \A q \in Payloads : q # p => payload'[q] = payload[q]
    BY <1>1
  <1>3. CASE c = "editor"
    <2>1. closer' = [closer EXCEPT ![c] = Resting] /\ Resting \in Threads
      BY <1>3 DEF Returned, Resting, Threads
    <2>2. closer'[c] = Resting /\ closer'["owner"] = closer["owner"]
      BY <1>1, <1>3, <2>1
    <2>3. CloserOK(c)'
      BY <2>2 DEF CloserOK, Resting
    <2>4. VaultOK'
      <3>1. \A q \in Own : payload'[q] = payload[q]
        BY <1>1, <1>2, <1>3 DEF Charge
      <3> QED
        BY <1>1, <2>2, <3>1 DEF VaultOK, IsClosed
    <2> QED
      BY <2>1, <2>3, <2>4
  <1>4. CASE c = "owner"
    <2> DEFINE o == closer[c]
               again == IF failed THEN o.again \cup {p} ELSE o.again
               n == [o EXCEPT !.pc = "next", !.on = None, !.again = again]
    <2>1. closer' = [closer EXCEPT ![c] = n]
      BY <1>4 DEF Returned
    <2>2. o.again \subseteq Own /\ p \in Own
      BY <1>1, <1>4 DEF Threads, Charge
    <2>3. again \subseteq Own /\ o.again \subseteq again /\ (failed => p \in again)
      BY <2>2
    <2> HIDE DEF again
    <2>4. n \in Threads /\ n.pc = "next" /\ n.left = o.left /\ n.again = again
      BY <1>1, <2>3 DEF Threads
    <2> HIDE DEF n
    <2>5. closer'["owner"] = n
      BY <1>1, <1>4, <2>1
    <2>6. CloserOK(c)'
      BY <1>4, <2>4, <2>5 DEF CloserOK
    <2>7. \A q \in Own : /\ payload'[q].life # "none"
                         /\ IsClosed(q) => payload'[q].life = "closed"
                         /\ q \notin o.left \cup again => payload'[q].life = "closed"
      <3>1. /\ \A q \in Own : payload[q].life # "none"
            /\ \A q \in Own \ (o.left \cup o.again) : IsClosed(q) \/ q = p
        BY <1>1, <1>4 DEF VaultOK
      <3>2. ~IsClosed(p)
        BY <1>1 DEF IsClosed
      <3> QED
        BY <1>2, <2>3, <3>1, <3>2 DEF IsClosed
    <2>8. VaultOK'
      BY <1>1, <1>4, <2>4, <2>5, <2>7 DEF VaultOK, IsClosed
    <2> QED
      BY <2>1, <2>4, <2>6, <2>8
  <1> QED
    BY <1>3, <1>4

\* With no stream that resisted, none is left, and the payload is closed.
LEMMA SettleInv ==
    ASSUME StreamsInv, NEW c \in Closers, Settle(c),
           UNCHANGED <<vault, file, buffer, stream, holder, faults>>
    PROVE  StreamsInv'
  <1>0. PICK p \in Payloads : p = closer[c].on
    BY CloserFacts DEF Settle
  <1> DEFINE life == IF payload[p].life = "closing" /\ payload[p].streams = {}
                     THEN "closed" ELSE payload[p].life
             v == [payload[p] EXCEPT !.life = life]
  <1>1. /\ closer[c].pc = "sever" /\ closer[c].pc \in Working /\ closer[c].todo = {}
        /\ closer \in [Closers -> Threads] /\ payload \in [Payloads -> PayloadStates]
    BY DEF Settle, StreamsInv, TypeOK
  <1>2. /\ closer[c] \in Threads /\ CloserOK(c) /\ payload[p] \in PayloadStates /\ PayloadOK(p)
        /\ payload[p].kind = "span" /\ payload[p].life = "closing"
        /\ closer[c].failed \in BOOLEAN
    BY <1>0, <1>1, CloserFacts DEF CloserOK, Threads
  <1>3. payload' = [payload EXCEPT ![p] = v]
    BY <1>0, <1>1, <1>2 DEF Settle, ClosedNow
  <1>4. /\ life \in {"closing", "closed"}
        /\ life = "closed" => payload[p].streams = {}
        /\ ~closer[c].failed => life = "closed"
    BY <1>0, <1>1, <1>2 DEF CloserOK
  <1> HIDE DEF life
  <1>5. /\ v \in PayloadStates /\ v.kind = payload[p].kind /\ v.streams = payload[p].streams
        /\ v.life = life /\ v.chain = payload[p].chain
    BY <1>2, <1>4 DEF PayloadStates
  <1> HIDE DEF v
  <1>6. Returned(c, closer[c].failed) /\ UNCHANGED <<vault, file>>
    BY DEF Settle
  <1>7. PICK n \in Threads : closer' = [closer EXCEPT ![c] = n] /\ CloserOK(c)' /\ VaultOK'
    BY <1>0, <1>1, <1>2, <1>3, <1>4, <1>5, <1>6, ReturnedFacts, ZenonT(60)
  <1>8. ClosingStep(c, n, v)
    BY <1>0, <1>3, <1>4, <1>5, <1>7 DEF ClosingStep
  <1>9. payload'[p] = v /\ \A q \in Payloads : q # p => payload'[q] = payload[q]
    BY <1>1, <1>3
  <1>10. PayloadOK(p)'
    BY <1>2, <1>4, <1>5, <1>9 DEF PayloadOK, IsOpen, IsClosed
  <1>11. BufferOK'
    BY <1>2, <1>5, <1>9, Parts, KeptBuffer
  <1>12. /\ latch' \in [Payloads -> Closers \cup {None}] /\ buffer' \in Buffers /\ faults' \in Nat
    BY DEF Settle, StreamsInv, TypeOK
  <1> QED
    BY <1>0, <1>1, <1>5, <1>7, <1>8, <1>10, <1>11, <1>12, ClosingInv

\* There are finitely many payloads that lease the buffer.
LEMMA LeasedIsFinite ==
    \A S \in SUBSET Payloads : /\ IsFiniteSet(S)
                               /\ Cardinality(S) \in Nat
                               /\ Cardinality(S) = 0 <=> S = {}
  <1>1. Payloads = ({"span"} \cup {"inline"}) \cup {"fork"}
    OBVIOUS
  <1>2. IsFiniteSet({"span"} \cup {"inline"})
    <2>1. IsFiniteSet({"span"})
      BY FS_Singleton
    <2> QED
      BY <2>1, FS_AddElement
  <1>3. IsFiniteSet(({"span"} \cup {"inline"}) \cup {"fork"})
    <2> DEFINE S == {"span"} \cup {"inline"}
    <2>1. IsFiniteSet(S)
      BY <1>2
    <2> HIDE DEF S
    <2>2. IsFiniteSet(S \cup {"fork"})
      BY <2>1, FS_AddElement
    <2> QED
      BY <2>2 DEF S
  <1>4. IsFiniteSet(Payloads)
    BY <1>1, <1>3
  <1>5. ASSUME NEW S \in SUBSET Payloads
        PROVE  IsFiniteSet(S) /\ Cardinality(S) \in Nat /\ (Cardinality(S) = 0 <=> S = {})
    <2> HIDE DEF Payloads
    <2>1. IsFiniteSet(S)
      BY <1>4, <1>5, FS_Subset
    <2> QED
      BY <2>1, FS_CardinalityType, FS_EmptySet
  <1> QED
    BY <1>5

\* The last lease wipes the buffer, or keeps it to be wiped by a later try.
LEMMA CloseInlineInv ==
    ASSUME StreamsInv, NEW c \in Closers, NEW fails \in BOOLEAN, CloseInline(c, fails),
           UNCHANGED <<vault, file, latch, stream, holder>>, faults' \in Nat
    PROVE  StreamsInv'
  <1>0. PICK p \in Payloads : p = closer[c].on
    BY CloserFacts DEF CloseInline
  <1> DEFINE life == IF fails THEN "closing" ELSE "closed"
             v == [payload[p] EXCEPT !.life = life]
  <1>1. /\ closer[c].pc = "release" /\ closer[c].pc \in Working
        /\ closer \in [Closers -> Threads] /\ payload \in [Payloads -> PayloadStates]
        /\ buffer \in Buffers /\ BufferOK
    BY DEF CloseInline, StreamsInv, TypeOK
  <1>2. /\ closer[c] \in Threads /\ CloserOK(c) /\ payload[p] \in PayloadStates /\ PayloadOK(p)
        /\ payload[p].kind = "inline" /\ payload[p].life \in {"open", "closing"}
        /\ vault.life # "none"
    BY <1>0, <1>1, CloserFacts DEF CloserOK
  <1>3. payload' = [payload EXCEPT ![p] = v]
    BY <1>0, <1>1, <1>2 DEF CloseInline
  <1>4. life \in {"closing", "closed"} /\ (life = "closing" <=> fails)
    OBVIOUS
  <1> HIDE DEF life
  <1>5. /\ v \in PayloadStates /\ v.kind = payload[p].kind /\ v.streams = payload[p].streams
        /\ v.life = life /\ v.chain = payload[p].chain
    BY <1>2, <1>4 DEF PayloadStates
  <1> HIDE DEF v
  <1>6. Returned(c, fails) /\ UNCHANGED <<vault, file>>
    BY DEF CloseInline
  <1>7. PICK n \in Threads : closer' = [closer EXCEPT ![c] = n] /\ CloserOK(c)' /\ VaultOK'
    <2>1. v.life \in {"open", "closing", "closed"} /\ (~fails => v.life = "closed")
      BY <1>4, <1>5
    <2>2. v \in PayloadStates
      BY <1>5
    <2> QED
      BY <1>0, <1>1, <1>3, <1>6, <2>1, <2>2, ReturnedFacts
  <1>8. ClosingStep(c, n, v)
    BY <1>0, <1>3, <1>4, <1>5, <1>7 DEF ClosingStep
  <1>9. payload'[p] = v /\ \A q \in Payloads : q # p => payload'[q] = payload[q]
    BY <1>1, <1>3
  <1>10. PayloadOK(p)'
    BY <1>2, <1>4, <1>5, <1>9 DEF PayloadOK, IsOpen, IsClosed
  <1>11. BufferOK' /\ buffer' \in Buffers
    <2>1. /\ Leased \subseteq Payloads /\ p \in Leased
          /\ \A q \in Payloads : IsOpen(q) /\ payload[q].kind = "inline" => q \in Leased
          /\ \A q \in Payloads \ {p} : IsOpen(q)' = IsOpen(q) /\ payload'[q].kind = payload[q].kind
          /\ \A q \in Payloads \ {p} : q \in Leased' <=> q \in Leased
          /\ p \in Leased' <=> fails
          /\ ~IsOpen(p)'
      BY <1>2, <1>4, <1>5, <1>9 DEF Leased, IsOpen
    <2>2. Leased' = IF fails THEN Leased ELSE Leased \ {p}
      <3>1. Leased' \subseteq Payloads
        BY DEF Leased
      <3>2. CASE fails
        <4>1. \A q \in Payloads : q \in Leased' <=> q \in Leased
          BY <2>1, <3>2
        <4> QED
          BY <2>1, <3>1, <3>2, <4>1
      <3>3. CASE ~fails
        <4>1. \A q \in Payloads : q \in Leased' <=> q \in Leased \ {p}
          BY <2>1, <3>3
        <4> QED
          BY <2>1, <3>1, <3>3, <4>1
      <3> QED
        BY <3>2, <3>3
    <2>3. /\ IsFiniteSet(Leased) /\ buffer.leases = Cardinality(Leased) /\ buffer.leases \in Nat
          /\ Cardinality(Leased) # 0
          /\ Cardinality(Leased \ {p}) = Cardinality(Leased) - 1
      <3>1. Leased \in SUBSET Payloads /\ Leased # {}
        BY <2>1
      <3> HIDE DEF Payloads
      <3>2. IsFiniteSet(Leased) /\ Cardinality(Leased) # 0
        BY <3>1, LeasedIsFinite
      <3>3. Cardinality(Leased \ {p}) = Cardinality(Leased) - 1
        BY <2>1, <3>2, FS_RemoveElement
      <3> QED
        BY <1>1, <3>2, <3>3 DEF BufferOK, Buffers
    <2>4. buffer.bytes # "wiped"
      BY <1>1, <1>2, <2>3 DEF BufferOK
    <2>5. CASE buffer.leases > 1
      <3>1. ~fails /\ buffer' = [buffer EXCEPT !.leases = buffer.leases - 1]
        BY <2>3, <2>5 DEF CloseInline, Released
      <3>2. buffer.leases - 1 \in Nat /\ buffer.leases - 1 # 0
        BY <2>3, <2>5
      <3>3. /\ buffer' \in Buffers /\ buffer'.leases = buffer.leases - 1
            /\ buffer'.closing = buffer.closing /\ buffer'.bytes = buffer.bytes
        BY <1>1, <3>1, <3>2 DEF Buffers
      <3>4. \A q \in Payloads : IsOpen(q)' /\ payload'[q].kind = "inline"
                                   => buffer'.bytes = "true" /\ ~buffer'.closing
        BY <1>1, <2>1, <3>3 DEF BufferOK
      <3>5. buffer'.leases = Cardinality(Leased')
        BY <2>2, <2>3, <3>1, <3>3
      <3> QED
        BY <2>4, <3>2, <3>3, <3>4, <3>5 DEF BufferOK
    <2>6. CASE buffer.leases = 1
      <3>1. Leased \ {p} = {}
        BY <2>1, <2>3, <2>6, LeasedIsFinite
      <3>2. \A q \in Payloads : ~(IsOpen(q)' /\ payload'[q].kind = "inline")
        BY <2>1, <3>1
      <3>3. CASE fails
        <4>1. buffer' = [buffer EXCEPT !.closing = TRUE, !.bytes = "torn"]
          BY <2>6, <3>3 DEF CloseInline, Released
        <4>2. /\ buffer' \in Buffers /\ buffer'.leases = buffer.leases /\ buffer'.bytes = "torn"
          BY <1>1, <4>1 DEF Buffers
        <4> QED
          BY <2>2, <2>3, <2>6, <3>2, <3>3, <4>2 DEF BufferOK
      <3>4. CASE ~fails
        <4>1. buffer' = [leases |-> 0, closing |-> FALSE, bytes |-> "wiped"]
          BY <2>6, <3>4 DEF CloseInline, Released
        <4>2. buffer' \in Buffers
          BY <4>1 DEF Buffers
        <4>3. Cardinality(Leased') = 0
          BY <2>2, <2>3, <2>6, <3>4
        <4> QED
          BY <3>2, <4>1, <4>2, <4>3 DEF BufferOK
      <3> QED
        BY <3>3, <3>4
    <2> QED
      BY <2>3, <2>5, <2>6
  <1>12. latch' \in [Payloads -> Closers \cup {None}]
    BY DEF StreamsInv, TypeOK
  <1> QED
    BY <1>0, <1>1, <1>5, <1>7, <1>8, <1>10, <1>11, <1>12, ClosingInv

-----------------------------------------------------------------------------
(* Steps between the payloads *)

\* A thread that goes on touches no payload and no stream.
LEMMA ThreadInv ==
    ASSUME StreamsInv, NEW c \in Closers, NEW n \in Threads, closer' = [closer EXCEPT ![c] = n],
           UNCHANGED <<payload, latch, buffer, stream, holder>>,
           vault' \in Vaults, file' \in Files, faults' \in Nat,
           vault.life = "none" => vault'.life = "none",
           vault.key = "wiped" => vault'.key = "wiped",
           CloserOK(c)', VaultOK'
    PROVE  StreamsInv'
  <1>1. TypeOK' /\ \A d \in Closers \ {c} : closer'[d] = closer[d]
    BY DEF StreamsInv, TypeOK
  <1>2. \A p \in Payloads : PayloadOK(p)'
    BY Parts, KeptPayload
  <1>3. \A r \in Readers : StreamOK(r)'
    BY Parts, KeptStream DEF IsOpen
  <1>4. BufferOK'
    BY Parts, KeptBuffer
  <1>5. \A d \in Closers : CloserOK(d)'
    BY <1>1, Parts, KeptCloser
  <1> QED
    BY <1>1, <1>2, <1>3, <1>4, <1>5 DEF StreamsInv

\* A fork that is not closed needs one of the two closes.
LEMMA CloseForkInv ==
    ASSUME StreamsInv, CloseFork
    PROVE  StreamsInv'
  <1> DEFINE n == [Resting EXCEPT !.on = "fork", !.pc = Turn("fork")]
  <1>1. closer' = [closer EXCEPT !["editor"] = n] /\ closer \in [Closers -> Threads]
    BY DEF CloseFork, StreamsInv, TypeOK
  <1>2. /\ payload["fork"].life \in {"open", "closing"}
        /\ payload["fork"].kind \in {"span", "inline"}
        /\ Turn("fork") = IF payload["fork"].kind = "span" THEN "shut" ELSE "release"
    BY Parts DEF CloseFork, PayloadOK, PayloadStates, Turn
  <1>3. /\ n \in Threads /\ n.on = "fork"
        /\ n.pc = IF payload["fork"].kind = "span" THEN "shut" ELSE "release"
    BY <1>2 DEF Resting, Threads
  <1> HIDE DEF n
  <1>4. UNCHANGED <<vault, file, payload, latch, buffer, stream, holder, faults>>
    BY DEF CloseFork
  <1>5. closer'["editor"] = n /\ closer'["owner"] = closer["owner"]
    BY <1>1
  <1>6. CloserOK("editor")'
    BY <1>2, <1>3, <1>4, <1>5 DEF CloserOK, Charge
  <1>7. VaultOK'
    BY <1>4, <1>5, Parts, KeptVault
  <1>8. vault' \in Vaults /\ file' \in Files /\ faults' \in Nat
    BY <1>4 DEF StreamsInv, TypeOK
  <1> QED
    BY <1>1, <1>3, <1>4, <1>6, <1>7, <1>8, ThreadInv

\* The owner, before and after one of its steps.
LEMMA OwnerFacts ==
    ASSUME StreamsInv
    PROVE  /\ closer \in [Closers -> Threads] /\ closer["owner"] \in Threads
           /\ vault \in Vaults /\ file \in Files /\ faults \in Nat
           /\ VaultOK /\ CloserOK("owner")
           /\ \A p \in Payloads : PayloadOK(p) /\ payload[p] \in PayloadStates
  BY Parts DEF TypeOK

\* The vault's close begins with what its document has not closed yet.
LEMMA CloseVaultInv ==
    ASSUME StreamsInv, CloseVault
    PROVE  StreamsInv'
  <1> DEFINE n == IF vault.pending = {} THEN [Resting EXCEPT !.pc = "keys"]
                  ELSE [Resting EXCEPT !.pc = "next", !.left = vault.pending, !.pass = 1]
  <1>1. /\ closer' = [closer EXCEPT !["owner"] = n]
        /\ vault' = [vault EXCEPT !.life = "closing"]
        /\ UNCHANGED <<file, payload, latch, buffer, stream, holder, faults>>
        /\ closer["owner"].pc = "idle" /\ vault.life \in {"open", "closing"}
    BY DEF CloseVault
  <1>2. vault.pending \subseteq Own
    BY OwnerFacts DEF Vaults
  <1>3. /\ n \in Threads /\ n.pc \in {"keys", "next"} /\ n.again = {}
        /\ n.pc = "keys" => vault.pending = {}
        /\ n.pc = "next" => n.left = vault.pending
    BY <1>2 DEF Resting, Threads
  <1> HIDE DEF n
  <1>4. closer'["owner"] = n
    BY <1>1, OwnerFacts
  <1>5. /\ vault' \in Vaults /\ vault'.life = "closing" /\ vault'.key = vault.key
        /\ vault'.pending = vault.pending
    BY <1>1, OwnerFacts DEF Vaults
  <1>6. CloserOK("owner")'
    BY <1>3, <1>4 DEF CloserOK
  <1>7. VaultOK'
    BY <1>1, <1>3, <1>4, <1>5, OwnerFacts DEF VaultOK, IsClosed
  <1> QED
    BY <1>1, <1>3, <1>5, <1>6, <1>7, OwnerFacts, ThreadInv

\* The document goes from payload to payload, and through them again.
LEMMA NextPayloadInv ==
    ASSUME StreamsInv, NextPayload
    PROVE  StreamsInv'
  <1> DEFINE o == closer["owner"]
             then == AfterDocument(o.again, o.pass)
  <1>1. /\ o.pc = "next" /\ vault.life = "closing" /\ o \in Threads
        /\ UNCHANGED <<file, payload, latch, buffer, stream, holder, faults>>
    BY OwnerFacts DEF NextPayload, VaultOK
  <1>2. o.left \subseteq Own /\ o.again \subseteq Own /\ o.pass \in Nat
    BY <1>1 DEF Threads
  <1>3. ASSUME NEW p \in o.left, UNCHANGED vault,
               closer' = [closer EXCEPT !["owner"] =
                             [o EXCEPT !.left = o.left \ {p}, !.on = p, !.pc = Turn(p)]]
        PROVE  StreamsInv'
    <2> DEFINE n == [o EXCEPT !.left = o.left \ {p}, !.on = p, !.pc = Turn(p)]
    <2>1. /\ p \in Own /\ p \in Payloads /\ payload[p].life # "none"
          /\ payload[p].life \in Lives /\ payload[p].kind \in {"span", "inline"}
      BY <1>1, <1>2, <1>3, OwnerFacts DEF VaultOK, PayloadOK, PayloadStates
    <2>2. /\ Turn(p) \in {"next", "shut", "release"}
          /\ Turn(p) = "next" <=> IsClosed(p)
          /\ Turn(p) = "shut" => payload[p].kind = "span"
          /\ Turn(p) = "release" => payload[p].kind = "inline"
      BY <2>1 DEF Turn, IsClosed
    <2>3. /\ n \in Threads /\ n.pc = Turn(p) /\ n.on = p /\ n.left = o.left \ {p}
          /\ n.again = o.again
      <3>1. o.left \ {p} \subseteq Own /\ p \in Payloads /\ Turn(p) \in {"next", "shut", "release"}
        BY <1>2, <2>1, <2>2
      <3> QED
        BY <1>1, <3>1 DEF Threads
    <2> HIDE DEF n
    <2>4. closer' = [closer EXCEPT !["owner"] = n] /\ closer'["owner"] = n
      BY <1>3, OwnerFacts DEF n
    <2>5. CloserOK("owner")'
      BY <1>1, <2>1, <2>2, <2>3, <2>4 DEF CloserOK, Charge, IsClosed
    <2>6. \A q \in Own \ (n.left \cup n.again) : IsClosed(q) \/ q = p
      BY <1>1, <2>3, OwnerFacts DEF VaultOK
    <2>7. VaultOK'
      BY <1>1, <1>3, <2>2, <2>3, <2>4, <2>6, OwnerFacts DEF VaultOK, IsClosed
    <2> QED
      BY <1>1, <1>3, <2>3, <2>4, <2>5, <2>7, OwnerFacts, ThreadInv
  <1>4. ASSUME o.left = {}, vault' = [vault EXCEPT !.pending = o.again],
               closer' = [closer EXCEPT !["owner"] =
                    IF then = "next"
                    THEN [o EXCEPT !.left = o.again, !.again = {}, !.pass = o.pass + 1]
                    ELSE [Resting EXCEPT !.pc = then]]
        PROVE  StreamsInv'
    <2> DEFINE n == IF then = "next"
                    THEN [o EXCEPT !.left = o.again, !.again = {}, !.pass = o.pass + 1]
                    ELSE [Resting EXCEPT !.pc = then]
    <2>1. then \in {"keys", "next", "idle"} /\ (then = "keys" => o.again = {})
      BY DEF AfterDocument
    <2> HIDE DEF then
    <2>2. o.pass + 1 \in Nat
      BY <1>2
    <2>3. /\ n \in Threads /\ n.pc = then
          /\ then = "next" => n.left = o.again /\ n.again = {}
      <3>1. CASE then = "next"
        BY <1>1, <1>2, <2>2, <3>1 DEF Threads
      <3>2. CASE then # "next"
        BY <2>1, <3>2 DEF Threads, Resting
      <3> QED
        BY <3>1, <3>2
    <2> HIDE DEF n
    <2>4. closer' = [closer EXCEPT !["owner"] = n] /\ closer'["owner"] = n
      BY <1>4, OwnerFacts DEF n
    <2>5. /\ vault' \in Vaults /\ vault'.life = vault.life /\ vault'.key = vault.key
          /\ vault'.pending = o.again
      BY <1>2, <1>4, OwnerFacts DEF Vaults
    <2>6. \A q \in Own \ o.again : IsClosed(q)
      BY <1>1, <1>4, OwnerFacts DEF VaultOK
    <2>7. CloserOK("owner")'
      BY <2>1, <2>3, <2>4 DEF CloserOK
    <2>8. VaultOK'
      BY <1>1, <2>1, <2>3, <2>4, <2>5, <2>6, OwnerFacts DEF VaultOK, IsClosed
    <2> QED
      BY <1>1, <2>3, <2>4, <2>5, <2>7, <2>8, OwnerFacts, ThreadInv
  <1> QED
    BY <1>3, <1>4 DEF NextPayload

\* The keys go when every payload of the document is closed.
LEMMA WipeKeysInv ==
    ASSUME StreamsInv, WipeKeys
    PROVE  StreamsInv'
  <1> DEFINE o == closer["owner"]
             n == [o EXCEPT !.pc = "snapshot", !.pass = 1]
  <1>1. /\ o.pc = "keys" /\ vault' = [vault EXCEPT !.key = "wiped"]
        /\ UNCHANGED <<file, payload, latch, buffer, stream, holder, faults>>
        /\ closer' = [closer EXCEPT !["owner"] = n]
    BY OwnerFacts DEF WipeKeys
  <1>2. n \in Threads /\ n.pc = "snapshot"
    BY OwnerFacts DEF Threads
  <1> HIDE DEF n
  <1>3. /\ closer'["owner"] = n /\ vault' \in Vaults /\ vault'.life = vault.life
        /\ vault'.pending = vault.pending /\ vault'.key = "wiped"
    BY <1>1, OwnerFacts DEF Vaults
  <1>4. CloserOK("owner")'
    BY <1>2, <1>3 DEF CloserOK
  <1>5. VaultOK'
    BY <1>1, <1>2, <1>3, OwnerFacts DEF VaultOK, IsClosed
  <1> QED
    BY <1>1, <1>2, <1>3, <1>4, <1>5, OwnerFacts, ThreadInv

\* The vault is closed when its snapshot is gone, which goes last.
LEMMA CloseSnapshotInv ==
    ASSUME StreamsInv, NEW stage \in Stages, CloseSnapshot(stage)
    PROVE  StreamsInv'
  <1> DEFINE o == closer["owner"]
  <1>1. /\ o.pc = "snapshot" /\ file' = Shed(file, stage) /\ vault.life = "closing"
        /\ UNCHANGED <<payload, latch, buffer, stream, holder>>
        /\ vault.key = "wiped" /\ \A p \in Own : IsClosed(p)
    BY OwnerFacts DEF CloseSnapshot, VaultOK
  <1>2. faults' \in Nat
    BY OwnerFacts DEF CloseSnapshot, Charged
  <1>3. file' \in Files /\ (stage = "none" => file' = NoFile)
    <2>1. Shed(file, "unlink") \in Files /\ Shed(file, "file") \in Files
      BY OwnerFacts DEF Shed, Files
    <2>2. Shed(file, "anchor") \in Files
      BY OwnerFacts DEF Shed, Files
    <2>3. Shed(file, "none") = NoFile /\ NoFile \in Files
      BY DEF Shed, NoFile, Files
    <2> QED
      BY <1>1, <2>1, <2>2, <2>3 DEF Stages
  <1>4. CASE stage # "none" /\ o.pass < CloseAttempts
    <2> DEFINE n == [o EXCEPT !.pass = o.pass + 1]
    <2>1. closer' = [closer EXCEPT !["owner"] = n] /\ UNCHANGED vault
      BY <1>4, OwnerFacts DEF CloseSnapshot
    <2>2. o.pass + 1 \in Nat
      BY OwnerFacts DEF Threads
    <2>3. n \in Threads /\ n.pc = "snapshot"
      BY <1>1, <2>2, OwnerFacts DEF Threads
    <2> HIDE DEF n
    <2>4. closer'["owner"] = n
      BY <2>1, OwnerFacts
    <2>5. CloserOK("owner")'
      BY <2>3, <2>4 DEF CloserOK
    <2>6. VaultOK'
      BY <1>1, <2>1, <2>3, <2>4, OwnerFacts DEF VaultOK, IsClosed
    <2> QED
      BY <1>1, <1>2, <1>3, <2>1, <2>3, <2>5, <2>6, OwnerFacts, ThreadInv
  <1>5. CASE ~(stage # "none" /\ o.pass < CloseAttempts)
    <2> DEFINE life == IF stage = "none" THEN "closed" ELSE vault.life
    <2>1. closer' = [closer EXCEPT !["owner"] = Resting] /\ vault' = [vault EXCEPT !.life = life]
      BY <1>5 DEF CloseSnapshot
    <2>2. life \in {"closing", "closed"} /\ (life = "closed" <=> stage = "none")
      BY <1>1
    <2> HIDE DEF life
    <2>3. Resting \in Threads /\ Resting.pc = "idle"
      BY DEF Resting, Threads
    <2>4. /\ closer'["owner"] = Resting /\ vault' \in Vaults /\ vault'.life = life
          /\ vault'.pending = vault.pending /\ vault'.key = vault.key
      BY <2>1, <2>2, OwnerFacts DEF Vaults
    <2>5. CloserOK("owner")'
      BY <2>3, <2>4 DEF CloserOK
    <2>6. VaultOK'
      BY <1>1, <1>3, <2>2, <2>3, <2>4, OwnerFacts DEF VaultOK, IsClosed
    <2> QED
      BY <1>1, <1>2, <1>3, <2>1, <2>2, <2>3, <2>4, <2>5, <2>6, OwnerFacts, ThreadInv
  <1> QED
    BY <1>4, <1>5

-----------------------------------------------------------------------------
(* Steps that make a payload or a stream *)

\* Nothing reads or closes a payload that is not there yet.
LEMMA AbsentFacts ==
    ASSUME StreamsInv, NEW p \in Payloads, payload[p].life = "none"
    PROVE  /\ payload[p].kind = None /\ payload[p].streams = {}
           /\ \A r \in Readers : stream[r].of # p
           /\ \A c \in Closers : closer[c].pc \in Working => closer[c].on # p
  <1>1. PayloadOK(p) /\ payload[p].kind = None
    BY Parts DEF PayloadOK
  <1>2. payload[p].streams = {}
    BY <1>1, PayloadStreamsAssumption DEF PayloadOK
  <1>3. \A r \in Readers : stream[r].of # p
    BY Parts, PayloadStreamsAssumption DEF StreamOK
  <1>4. \A c \in Closers : closer[c].pc \in Working => closer[c].on # p
    BY Parts DEF CloserOK
  <1> QED
    BY <1>1, <1>2, <1>3, <1>4

\* A fork has the chain value of the payload it is retained from, or its lease.
LEMMA RetainInv ==
    ASSUME StreamsInv, NEW p \in Own, Retain(p)
    PROVE  StreamsInv'
  <1> DEFINE v == [Fresh(payload[p].kind) EXCEPT !.chain = payload[p].chain]
  <1>1. /\ payload["fork"].life = "none" /\ IsOpen(p) /\ p \in Payloads /\ p # "fork"
        /\ payload' = [payload EXCEPT !["fork"] = v]
        /\ UNCHANGED <<vault, file, latch, stream, holder, closer, faults>>
        /\ payload \in [Payloads -> PayloadStates] /\ buffer \in Buffers
    BY DEF Retain, StreamsInv, TypeOK
  <1>2. /\ PayloadOK(p) /\ payload[p] \in PayloadStates /\ payload[p].kind \in {"span", "inline"}
        /\ payload[p].life = "open" /\ vault.life # "none"
    BY <1>1, Parts DEF PayloadOK, PayloadStates, VaultOK, IsOpen
  <1>3. /\ v \in PayloadStates /\ v.kind = payload[p].kind /\ v.life = "open" /\ v.streams = {}
        /\ v.chain = payload[p].chain
    BY <1>2 DEF PayloadStates, Fresh, NoPayload
  <1> HIDE DEF v
  <1>4. payload'["fork"] = v /\ \A q \in Own : payload'[q] = payload[q]
    BY <1>1
  <1>5. ASSUME NEW q \in Payloads
        PROVE  PayloadOK(q)'
    <2>1. CASE q = "fork"
      BY <1>2, <1>3, <1>4, <2>1, PayloadStreamsAssumption DEF PayloadOK, IsOpen, IsClosed
    <2>2. CASE q # "fork"
      BY <1>1, <1>4, <2>2, Parts, KeptPayload
    <2> QED
      BY <2>1, <2>2
  <1>6. ASSUME NEW r \in Readers
        PROVE  StreamOK(r)'
    <2>1. stream[r].of # None => stream[r].of \in Own
      BY <1>1, StreamFacts, AbsentFacts
    <2> QED
      BY <1>1, <1>4, <2>1, Parts, KeptStream DEF IsOpen
  <1>7. ASSUME NEW c \in Closers
        PROVE  CloserOK(c)'
    <2>1. closer[c].pc \in Working => closer[c].on \in Own
      BY <1>1, Parts, AbsentFacts DEF CloserOK, Charge
    <2> QED
      BY <1>1, <1>4, <2>1, Parts, KeptCloser
  <1>8. BufferOK' /\ buffer' \in Buffers
    <2>1. CASE payload[p].kind = "span"
      <3>1. buffer' = buffer
        BY <2>1 DEF Retain
      <3>2. payload["fork"].kind # "inline" /\ v.kind # "inline"
        BY <1>1, <1>3, <2>1, AbsentFacts, PayloadStreamsAssumption
      <3> QED
        BY <1>1, <1>4, <3>1, <3>2, Parts, KeptBuffer
    <2>2. CASE payload[p].kind = "inline"
      <3>1. /\ buffer.leases > 0 /\ ~buffer.closing /\ buffer.leases \in Nat
            /\ buffer' = [buffer EXCEPT !.leases = buffer.leases + 1]
        BY <1>1, <2>2, Parts DEF Retain, LeaseTaken, Borrowable, Buffers
      <3>2. buffer.leases + 1 \in Nat /\ buffer.leases # 0 /\ buffer.leases + 1 # 0
        BY <3>1
      <3>3. /\ buffer' \in Buffers /\ buffer'.leases = buffer.leases + 1
            /\ buffer'.closing = buffer.closing /\ buffer'.bytes = buffer.bytes
        BY <1>1, <3>1, <3>2 DEF Buffers
      <3>4. /\ Leased' = Leased \cup {"fork"} /\ "fork" \notin Leased /\ Leased \in SUBSET Payloads
        BY <1>1, <1>3, <1>4, <2>2 DEF Leased
      <3>5. Cardinality(Leased') = Cardinality(Leased) + 1
        <4>1. IsFiniteSet(Leased)
          BY <3>4, LeasedIsFinite
        <4> QED
          BY <3>4, <4>1, FS_AddElement
      <3>6. buffer.bytes = "true" /\ buffer.leases = Cardinality(Leased)
        BY <1>1, <2>2, Parts DEF BufferOK
      <3> QED
        BY <3>1, <3>2, <3>3, <3>5, <3>6 DEF BufferOK
    <2> QED
      BY <1>2, <2>1, <2>2
  <1>9. VaultOK'
    BY <1>1, <1>2, <1>4, Parts, KeptVault
  <1>10. TypeOK'
    BY <1>1, <1>3, <1>8 DEF StreamsInv, TypeOK
  <1> QED
    BY <1>5, <1>6, <1>7, <1>8, <1>9, <1>10 DEF StreamsInv

\* A vault that is opened has nothing of an earlier one, and one that is not
\* opened has taken back its snapshot.
LEMMA OpenInv ==
    ASSUME StreamsInv, NEW stage \in {"none", "validate", "create", "copy"}, Open(stage)
    PROVE  StreamsInv'
  <1>1. /\ vault.life = "none" /\ file' = Captured(stage)
        /\ UNCHANGED <<latch, stream, holder, closer, faults>>
        /\ payload \in [Payloads -> PayloadStates] /\ file' \in Files
    BY DEF Open, StreamsInv, TypeOK, Captured, Artifact, NoFile, Files
  <1>2. /\ \A p \in Payloads : payload[p].life = "none"
        /\ \A r \in Readers : stream[r].of = None
        /\ \A c \in Closers : closer[c].pc \notin Working
        /\ closer["owner"].pc = "idle"
    <2>1. \A p \in Payloads : payload[p].life = "none"
      BY <1>1, Parts DEF VaultOK
    <2>2. \A r \in Readers : stream[r].of = None
      BY <2>1, StreamFacts DEF StreamOK
    <2>3. \A c \in Closers : closer[c].pc \notin Working
      BY <2>1, Parts DEF CloserOK, Charge
    <2>4. closer["owner"].pc = "idle"
      BY <1>1, OwnerFacts DEF VaultOK
    <2> QED
      BY <2>1, <2>2, <2>3, <2>4
  <1>3. \A c \in Closers : CloserOK(c)'
    BY <1>1, <1>2, Parts DEF CloserOK
  <1>4. CASE file' = NoFile
    <2>1. UNCHANGED <<vault, payload, buffer>>
      BY <1>1, <1>4 DEF Open
    <2>2. TypeOK'
      BY <1>1, <2>1 DEF StreamsInv, TypeOK
    <2>3. /\ \A p \in Payloads : PayloadOK(p)'
          /\ \A r \in Readers : StreamOK(r)'
          /\ BufferOK'
      BY <1>1, <2>1, Parts, KeptPayload, KeptStream, KeptBuffer DEF IsOpen
    <2>4. VaultOK'
      BY <1>1, <1>4, <2>1, OwnerFacts DEF VaultOK, IsClosed
    <2> QED
      BY <1>3, <2>2, <2>3, <2>4 DEF StreamsInv
  <1>5. CASE file' # NoFile
    <2>1. /\ vault' = Adopted
          /\ payload' = [payload EXCEPT !["span"] = Fresh("span"), !["inline"] = Fresh("inline")]
          /\ buffer' = [leases |-> 1, closing |-> FALSE, bytes |-> "true"]
      BY <1>1, <1>5 DEF Open
    <2>2. /\ payload'["span"] = Fresh("span") /\ payload'["inline"] = Fresh("inline")
          /\ payload'["fork"] = payload["fork"]
      BY <1>1, <2>1
    <2>3. /\ Fresh("span") \in PayloadStates /\ Fresh("inline") \in PayloadStates
          /\ Fresh("span").kind = "span" /\ Fresh("inline").kind = "inline"
          /\ Fresh("span").life = "open" /\ Fresh("inline").life = "open"
          /\ Fresh("span").streams = {} /\ Fresh("inline").streams = {}
          /\ Fresh("span").chain = "true"
      BY DEF Fresh, NoPayload, PayloadStates
    <2>4. /\ payload["fork"].kind = None /\ payload["fork"].streams = {}
          /\ payload["fork"].life = "none"
      BY <1>2, AbsentFacts
    <2>5. TypeOK'
      <3>1. Adopted \in Vaults /\ buffer' \in Buffers
        BY <2>1 DEF Adopted, Vaults, Buffers
      <3>2. payload' \in [Payloads -> PayloadStates]
        BY <1>1, <2>1, <2>3
      <3> QED
        BY <1>1, <2>1, <3>1, <3>2 DEF StreamsInv, TypeOK
    <2>6. \A p \in Payloads : PayloadOK(p)'
      BY <2>2, <2>3, <2>4, PayloadStreamsAssumption DEF PayloadOK, IsOpen, IsClosed
    <2>7. \A r \in Readers : StreamOK(r)'
      <3>1. vault.key # "wiped"
        BY <1>1, Parts DEF VaultOK
      <3> QED
        BY <1>1, <1>2, <3>1, Parts, KeptStream
    <2>8. BufferOK'
      <3>1. Leased' = {"inline"}
        BY <2>2, <2>3, <2>4, PayloadStreamsAssumption DEF Leased
      <3>2. Cardinality(Leased') = 1
        BY <3>1, FS_Singleton
      <3> QED
        BY <2>1, <3>2 DEF BufferOK
    <2>9. VaultOK'
      BY <1>1, <1>2, <2>1, <2>2, <2>3 DEF VaultOK, Adopted, IsClosed
    <2> QED
      BY <1>3, <2>5, <2>6, <2>7, <2>8, <2>9 DEF StreamsInv
  <1> QED
    BY <1>4, <1>5

\* A stream of a deferred payload is registered when it is made.
LEMMA OpenStreamInv ==
    ASSUME StreamsInv, NEW r \in Readers, NEW p \in Payloads, OpenStream(r, p)
    PROVE  StreamsInv'
  <1> DEFINE s == [NoStream EXCEPT !.of = p, !.pc = "fresh"]
             more == IF payload[p].kind = "span" THEN payload[p].streams \cup {r}
                     ELSE payload[p].streams
             v == [payload[p] EXCEPT !.streams = more]
  <1>1. /\ stream[r].pc = "none" /\ payload[p].life # "none"
        /\ payload[p].kind = "span" => payload[p].life = "open"
        /\ stream' = [stream EXCEPT ![r] = s]
        /\ UNCHANGED <<vault, file, latch, buffer, holder, closer, faults>>
        /\ payload \in [Payloads -> PayloadStates] /\ payload[p] \in PayloadStates
        /\ PayloadOK(p) /\ stream \in [Readers -> Streams]
    BY Parts DEF OpenStream, TypeOK, IsOpen
  <1>2. stream[r].of = None /\ p # None
    BY <1>1, StreamFacts, PayloadStreamsAssumption DEF StreamOK
  <1>3. payload' = [payload EXCEPT ![p] = v]
    BY <1>1 DEF OpenStream
  <1>4. /\ more \subseteq Readers /\ more \subseteq payload[p].streams \cup {r}
        /\ payload[p].streams \subseteq more
        /\ payload[p].kind = "span" => r \in more
        /\ payload[p].kind # "span" => more = payload[p].streams
    BY <1>1 DEF PayloadStates
  <1> HIDE DEF more
  <1>5. /\ v \in PayloadStates /\ v.kind = payload[p].kind /\ v.life = payload[p].life
        /\ v.chain = payload[p].chain /\ v.streams = more
    BY <1>1, <1>4 DEF PayloadStates
  <1> HIDE DEF v
  <1>6. /\ s \in Streams /\ s.of = p /\ s.pc = "fresh" /\ s.seen = {} /\ s.verdict = "none"
        /\ s.native = "none" /\ s.chunk = "none"
    <2> HIDE DEF Chunks, Sights
    <2>1. "none" \in Chunks /\ {} \in SUBSET Sights
      BY DEF Chunks
    <2> QED
      BY <2>1 DEF NoStream, Streams
  <1> HIDE DEF s
  <1>7. /\ stream'[r] = s /\ \A q \in Readers : q # r => stream'[q] = stream[q]
        /\ payload'[p] = v /\ \A q \in Payloads : q # p => payload'[q] = payload[q]
    BY <1>1, <1>3
  <1>8. ASSUME NEW q \in Payloads
        PROVE  PayloadOK(q)'
    <2>1. PayloadOK(q) /\ payload[q].streams \subseteq Readers /\ r \notin payload[q].streams
      <3>1. PayloadOK(q) /\ payload[q] \in PayloadStates
        BY Parts
      <3>2. q # None
        BY PayloadStreamsAssumption
      <3> QED
        BY <1>2, <3>1, <3>2 DEF PayloadOK, PayloadStates
    <2>2. CASE q = p
      <3>1. \A x \in more : stream'[x].of = p
        BY <1>4, <1>6, <1>7, <2>1, <2>2 DEF PayloadOK
      <3> QED
        BY <1>1, <1>4, <1>5, <1>7, <2>1, <2>2, <3>1 DEF PayloadOK, IsOpen, IsClosed
    <2>3. CASE q # p
      BY <1>7, <2>1, <2>3, KeptPayload
    <2> QED
      BY <2>2, <2>3
  <1>9. ASSUME NEW q \in Readers
        PROVE  StreamOK(q)'
    <2>1. CASE q = r
      <3>1. KindOf(q)' = payload[p].kind
        BY <1>2, <1>5, <1>6, <1>7, <2>1 DEF KindOf
      <3> QED
        BY <1>1, <1>2, <1>4, <1>5, <1>6, <1>7, <2>1, <3>1 DEF StreamOK, IsOpen
    <2>2. CASE q # r
      <3>1. stream'[q] = stream[q] /\ (stream[q].of # None => stream[q].of \in Payloads)
        BY <1>7, <2>2, StreamFacts
      <3>2. \A x \in Payloads : /\ payload'[x].kind = payload[x].kind
                                /\ payload'[x].life = payload[x].life
                                /\ q \in payload'[x].streams <=> q \in payload[x].streams
        BY <1>4, <1>5, <1>7, <2>2
      <3>3. StreamOK(q) /\ vault' = vault
        BY <1>1, Parts
      <3> QED
        BY <3>1, <3>2, <3>3, KeptStream DEF IsOpen
    <2> QED
      BY <2>1, <2>2
  <1>10. \A x \in Payloads : payload'[x].kind = payload[x].kind /\ payload'[x].life = payload[x].life
    BY <1>5, <1>7
  <1>11. BufferOK'
    BY <1>1, <1>10, Parts, KeptBuffer
  <1>12. ASSUME NEW c \in Closers
         PROVE  CloserOK(c)'
    <2>1. CASE closer[c].pc \notin Working
      BY <1>1, <2>1, Parts, KeptCloser
    <2>2. CASE closer[c].pc \in Working
      <3> DEFINE x == closer[c].on
      <3>1. x \in Payloads /\ x # None /\ closer[c].todo \subseteq Readers /\ CloserOK(c)
        BY <2>2, CloserFacts DEF Threads
      <3>2. payload'[x].life = "closing" => payload'[x].streams \subseteq payload[x].streams
        BY <1>1, <1>4, <1>5, <1>7, <3>1
      <3>3. closer[c].pc = "sever" => \A q \in closer[c].todo : stream'[q].of = stream[q].of
        BY <1>2, <1>7, <3>1 DEF CloserOK
      <3> QED
        BY <1>1, <1>10, <2>2, <3>1, <3>2, <3>3, KeptCloser
    <2> QED
      BY <2>1, <2>2
  <1>13. VaultOK'
    BY <1>1, <1>10, Parts, KeptVault
  <1>14. TypeOK'
    BY <1>1, <1>3, <1>5, <1>6 DEF StreamsInv, TypeOK
  <1> QED
    BY <1>8, <1>9, <1>11, <1>12, <1>13, <1>14 DEF StreamsInv

-----------------------------------------------------------------------------
(* The theorems *)

LEMMA InitInv ==
    ASSUME Init
    PROVE  StreamsInv
  <1>1. TypeOK
    BY DEF Init, TypeOK, Vaults, Files, NoFile, PayloadStates, NoPayload, Buffers, Streams,
           NoStream, Threads, Resting
  <1>2. \A p \in Payloads : PayloadOK(p)
    BY PayloadStreamsAssumption DEF Init, PayloadOK, NoPayload, IsOpen, IsClosed
  <1>3. \A r \in Readers : StreamOK(r)
    BY DEF Init, StreamOK, NoStream, KindOf
  <1>4. BufferOK
    <2>1. Leased = {}
      BY DEF Init, Leased, NoPayload
    <2> QED
      BY <2>1, FS_EmptySet DEF Init, BufferOK, NoPayload, IsOpen
  <1>5. \A c \in Closers : CloserOK(c)
    BY DEF Init, CloserOK, Resting
  <1>6. VaultOK
    BY DEF Init, VaultOK, NoPayload, NoFile, Resting
  <1> QED
    BY <1>1, <1>2, <1>3, <1>4, <1>5, <1>6 DEF StreamsInv

LEMMA ChargedType ==
    ASSUME StreamsInv, NEW fault, Charged(fault)
    PROVE  faults' \in Nat
  BY OwnerFacts DEF Charged

LEMMA AdvanceInv ==
    ASSUME StreamsInv, NEW r \in Readers, Advance(r)
    PROVE  StreamsInv'
  <1>1. CASE /\ Prime(r) \/ Key(r) \/ Check(r)
             /\ UNCHANGED <<vault, file, payload, latch, buffer, holder, closer, faults>>
    BY <1>1, PrimeInv, KeyInv, CheckInv DEF ReaderStep
  <1>2. ASSUME NEW fails \in BOOLEAN, Charged(fails), Read(r, fails),
               UNCHANGED <<vault, file, payload, latch, buffer, closer>>
        PROVE  StreamsInv'
    BY <1>2, ChargedType, ReadInv DEF ReaderStep
  <1>3. ASSUME NEW fails \in BOOLEAN, Charged(fails), Resume(r, fails), UNCHANGED holder,
               UNCHANGED <<vault, file, payload, latch, buffer, closer>>
        PROVE  StreamsInv'
    BY <1>3, ChargedType, ResumeInv DEF ReaderStep
  <1>4. CASE Finish(r) /\ UNCHANGED <<vault, file, latch, buffer, closer, faults>>
    BY <1>4, FinishInv
  <1> QED
    BY <1>1, <1>2, <1>3, <1>4 DEF Advance

LEMMA ProgressInv ==
    ASSUME StreamsInv, NEW c \in Closers, Progress(c)
    PROVE  StreamsInv'
  <1>1. CASE Shut(c) /\ UNCHANGED <<vault, file, buffer, stream, holder, faults>>
    BY <1>1, ShutInv
  <1>2. CASE List(c) /\ UNCHANGED <<vault, file, payload, buffer, stream, holder, faults>>
    BY <1>2, ListInv
  <1>3. ASSUME NEW r \in Readers, NEW fails \in BOOLEAN, Charged(fails), Sever(c, r, fails),
               UNCHANGED <<vault, file, latch, buffer, holder>>
        PROVE  StreamsInv'
    BY <1>3, ChargedType, SeverInv
  <1>4. CASE Settle(c) /\ UNCHANGED <<vault, file, buffer, stream, holder, faults>>
    BY <1>4, SettleInv
  <1>5. ASSUME NEW fails \in BOOLEAN, Charged(fails), CloseInline(c, fails),
               UNCHANGED <<vault, file, latch, stream, holder>>
        PROVE  StreamsInv'
    BY <1>5, ChargedType, CloseInlineInv
  <1> QED
    BY <1>1, <1>2, <1>3, <1>4, <1>5 DEF Progress

\* A step that changes nothing.
LEMMA StutterInv ==
    ASSUME StreamsInv, UNCHANGED vars
    PROVE  StreamsInv'
  <1>1. TypeOK'
    BY DEF StreamsInv, TypeOK, vars
  <1>2. /\ \A p \in Payloads : PayloadOK(p)'
        /\ \A r \in Readers : StreamOK(r)'
        /\ \A c \in Closers : CloserOK(c)'
    BY Parts, KeptPayload, KeptStream, KeptCloser DEF vars, IsOpen
  <1>3. BufferOK' /\ VaultOK'
    BY Parts, KeptBuffer, KeptVault DEF vars
  <1> QED
    BY <1>1, <1>2, <1>3 DEF StreamsInv

LEMMA NextInv ==
    ASSUME StreamsInv, [Next]_vars
    PROVE  StreamsInv'
  <1>1. ASSUME NEW stage \in {"none", "validate", "create", "copy"}, Open(stage)
        PROVE  StreamsInv'
    BY <1>1, OpenInv
  <1>2. ASSUME NEW p \in Own, Retain(p)
        PROVE  StreamsInv'
    BY <1>2, RetainInv
  <1>3. ASSUME NEW r \in Readers, NEW p \in Payloads, OpenStream(r, p)
        PROVE  StreamsInv'
    BY <1>3, OpenStreamInv
  <1>4. ASSUME NEW r \in Readers, Ask(r)
        PROVE  StreamsInv'
    BY <1>4, EnterInv, InlineNextInv DEF Ask
  <1>5. ASSUME NEW r \in Readers, Consume(r)
        PROVE  StreamsInv'
    BY <1>5, ConsumeInv
  <1>6. ASSUME NEW r \in Readers, Leave(r)
        PROVE  StreamsInv'
    BY <1>6, ChargedType, AbandonInv DEF Leave
  <1>7. ASSUME NEW r \in Readers, Advance(r)
        PROVE  StreamsInv'
    BY <1>7, AdvanceInv
  <1>8. CASE CloseVault
    BY <1>8, CloseVaultInv
  <1>9. CASE CloseFork
    BY <1>9, CloseForkInv
  <1>10. ASSUME NEW c \in Closers, Progress(c)
         PROVE  StreamsInv'
    BY <1>10, ProgressInv
  <1>11. CASE Winding
    BY <1>11, NextPayloadInv, WipeKeysInv, CloseSnapshotInv DEF Winding
  <1>12. CASE Rest
    BY <1>12, StutterInv DEF Rest
  <1>13. CASE UNCHANGED vars
    BY <1>13, StutterInv
  <1> QED
    BY <1>1, <1>2, <1>3, <1>4, <1>5, <1>6, <1>7, <1>8, <1>9, <1>10, <1>11, <1>12, <1>13 DEF Next

\* payloads.py, secrets.py, snapshots.py and the reader's close: what a payload, a
\* stream, the buffer and the closing threads know of each other, in every state.
THEOREM StreamsInvariant == Spec => []StreamsInv
  BY InitInv, NextInv, PTL DEF Spec

\* payloads.py 538-604, 717-726, 768-774, crypto.py 561-573: no consumer of one of the
\* document's deferred payloads is ever shown a block that was decrypted with what a
\* close had wiped, one of a fork only after the keys were wiped under it, and no
\* stream that lacks a block or has zeroed one under its consumer ends as if it were
\* whole, for any number of readers and blocks.
THEOREM StreamsStayTrue == Spec => []StreamsAreTrue
  <1>1. ASSUME StreamsInv
        PROVE  StreamsAreTrue
    BY <1>1, Parts DEF StreamsAreTrue, StreamOK, Overtaken
  <1> QED
    BY <1>1, StreamsInvariant, PTL

\* payloads.py 193-223, 321-325, 599-611: neither closing a fork nor closing its
\* origin takes anything from the other, and the buffer's leases are never off.
THEOREM OpenStaysIntact == Spec => []OpenIsIntact
  <1>1. ASSUME StreamsInv
        PROVE  OpenIsIntact
    <2>1. ASSUME NEW p \in Payloads, IsOpen(p)
          PROVE  IF payload[p].kind = "span" THEN payload[p].chain = "true"
                 ELSE buffer.bytes = "true" /\ ~buffer.closing
      <3>1. /\ PayloadOK(p) /\ BufferOK /\ payload[p].life # "none"
            /\ payload[p].kind \in {None, "span", "inline"}
        BY <1>1, <2>1, Parts DEF PayloadStates, IsOpen
      <3> QED
        BY <2>1, <3>1 DEF PayloadOK, BufferOK
    <2> QED
      BY <1>1, <2>1, Parts DEF OpenIsIntact, BufferOK
  <1> QED
    BY <1>1, StreamsInvariant, PTL

\* payloads.py 625-644, reader.py 424-440, snapshots.py 532-556: what reports itself
\* closed has released all it had, however many closes had failed before.
THEOREM ClosedStaysReleased == Spec => []ClosedIsReleased
  <1>1. ASSUME StreamsInv
        PROVE  ClosedIsReleased
    <2>1. ASSUME NEW p \in Payloads, payload[p].life = "closed"
          PROVE  /\ payload[p].streams = {}
                 /\ payload[p].kind = "span" =>
                      /\ payload[p].chain = "wiped"
                      /\ \A r \in Readers : stream[r].of = p =>
                            /\ stream[r].pc = "ended" /\ stream[r].native = "none"
                            /\ stream[r].chunk \in Wiped
      <3>1. PayloadOK(p) /\ payload[p].chain \in {"true", "wiped"} /\ payload[p].streams = {}
        BY <1>1, <2>1, Parts DEF PayloadStates, PayloadOK, IsClosed
      <3>2. payload[p].kind = "span" => payload[p].chain = "wiped"
        BY <2>1, <3>1 DEF PayloadOK, IsOpen
      <3>3. ASSUME NEW r \in Readers, payload[p].kind = "span", stream[r].of = p
            PROVE  /\ stream[r].pc = "ended" /\ stream[r].native = "none"
                   /\ stream[r].chunk \in Wiped
        <4>1. StreamOK(r) /\ KindOf(r) = "span"
          BY <1>1, <3>3, StreamFacts, PayloadStreamsAssumption
        <4> QED
          BY <3>1, <3>3, <4>1 DEF StreamOK
      <3> QED
        BY <3>1, <3>2, <3>3
    <2>2. VaultOK
      BY <1>1, Parts
    <2> QED
      BY <2>1, <2>2 DEF ClosedIsReleased, VaultOK, IsClosed
  <1> QED
    BY <1>1, StreamsInvariant, PTL

=============================================================================
