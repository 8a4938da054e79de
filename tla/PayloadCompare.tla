----------------------------- MODULE PayloadCompare ----------------------------
(***************************************************************************)
(* The comparison of two payload streams (passwordsafe/model.py), on which *)
(* the reader, the writer and the service rest when they say that a        *)
(* reopened vault equals the one that was written.  The two streams need   *)
(* not break at the same places, and neither is trusted: a stream may      *)
(* yield empty or oversized chunks, or another length than its payload     *)
(* declares.                                                               *)
(*                                                                         *)
(* VaultFormat compares payloads by value.  That the comparison amounts to *)
(* that is checked here against a definition without cursors.              *)
(***************************************************************************)
EXTENDS Naturals, Sequences, SequencesExt

\* A payload is what it declares and what its iterator yields.
Payload(length, chunks) == [length |-> length, chunks |-> chunks]

\* One cursor: chunks to come, the unread rest of the last one, bytes observed.
Cursor(payload) ==
    [chunks |-> payload.chunks, rest |-> <<>>, observed |-> 0, done |-> FALSE, equal |-> TRUE]

\* A stream that misbehaves is not read to its end.
Refilled(cursor, payload, size) ==
    LET chunk    == Head(cursor.chunks)
        observed == cursor.observed + Len(chunk)
    IN  CASE cursor.done \/ cursor.rest # <<>> -> cursor
          [] ~cursor.done /\ cursor.rest = <<>> /\ cursor.chunks = <<>> ->
               [cursor EXCEPT !.done = TRUE]
          [] OTHER ->
               IF Len(chunk) \notin 1 .. size
               THEN [cursor EXCEPT !.done = TRUE, !.equal = FALSE]
               ELSE [cursor EXCEPT
                       !.chunks = Tail(@),
                       !.observed = observed,
                       !.equal = @ /\ observed <= payload.length,
                       !.done = observed > payload.length + size,
                       !.rest = IF observed > payload.length + size THEN <<>> ELSE chunk]

\* What both have is compared; a rest opposite a finished stream is a difference.
Advanced(own, other) ==
    LET common == IF Len(own.rest) <= Len(other.rest) THEN Len(own.rest) ELSE Len(other.rest)
    IN  CASE own.rest # <<>> /\ other.rest # <<>> ->
               [own EXCEPT !.rest = SubSeq(@, common + 1, Len(@)),
                           !.equal = @ /\ SubSeq(own.rest, 1, common) = SubSeq(other.rest, 1, common)]
          [] own.rest # <<>> /\ other.rest = <<>> /\ other.done ->
               [own EXCEPT !.rest = <<>>, !.equal = FALSE]
          [] OTHER -> own

RECURSIVE Exhausted(_, _, _, _, _)
Exhausted(a, b, first, second, size) ==
    IF a.done /\ b.done THEN <<a, b>>
    ELSE LET x == Refilled(a, first, size)
             y == Refilled(b, second, size)
         IN  Exhausted(Advanced(x, y), Advanced(y, x), first, second, size)

\* _payloads_equal.
PayloadsEqual(first, second, size) ==
    LET end == Exhausted(Cursor(first), Cursor(second), first, second, size)
    IN  /\ end[1].equal /\ end[2].equal
        /\ end[1].observed = first.length
        /\ end[2].observed = second.length
        /\ end[1].rest = <<>> /\ end[2].rest = <<>>

\* What it is for: two honest streams of the same bytes.
Honest(payload, size) ==
    /\ \A i \in DOMAIN payload.chunks : Len(payload.chunks[i]) \in 1 .. size
    /\ Len(FlattenSeq(payload.chunks)) = payload.length

SamePayload(first, second, size) ==
    /\ Honest(first, size)
    /\ Honest(second, size)
    /\ FlattenSeq(first.chunks) = FlattenSeq(second.chunks)

\* Every pair of payloads of a few bytes, however they are chunked and whatever
\* they declare; one chunk of zeros is too large.
ComparesExactly(bytes, size, most, longest) ==
    LET chunks   == UNION {[1 .. n -> bytes] : n \in 0 .. size} \cup {[i \in 1 .. size + 1 |-> 0]}
        payloads == {Payload(length, s) : length \in 0 .. longest,
                                          s \in UNION {[1 .. n -> chunks] : n \in 0 .. most}}
    IN  \A first, second \in payloads :
          PayloadsEqual(first, second, size) <=> SamePayload(first, second, size)

=============================================================================
