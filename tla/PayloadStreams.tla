----------------------------- MODULE PayloadStreams ----------------------------
(***************************************************************************)
(* The streams of decrypted payloads (passwordsafe/payloads.py) over what  *)
(* they borrow: the content key (secrets.py, crypto.py) and the private    *)
(* snapshot (snapshots.py) of the opened vault (reader.py) that owns the   *)
(* payloads.  Readers pull chunks in threads of their own while one thread *)
(* closes the vault and another closes a retained fork of a payload.       *)
(*                                                                         *)
(* A deferred payload ("span") decrypts as it is read: a stream of it is a *)
(* generator under an iterator lock, registered with the payload under the *)
(* payload's lock, and the closing flags are read under neither.  An       *)
(* inline payload hands out views of a buffer that all leases share.       *)
(* A step is what runs between two such points; one chunk is one cipher    *)
(* block.  VaultSession has the same owners as atomic leases.              *)
(*                                                                         *)
(* An operator named Mut... is a faulty variant of the definition after    *)
(* it; nothing uses it but the sensitivity runs of the project manifest.   *)
(***************************************************************************)
EXTENDS Naturals, FiniteSets

CONSTANTS
    Readers,       \* consumers, each with one stream
    Blocks,        \* blocks, and chunks, of a payload
    CloseAttempts, \* the reader's _CLOSE_ATTEMPTS
    Named,         \* whether a live snapshot has a directory entry: only on Windows
    MaxFaults,     \* bound: operations of the system that fail
    None           \* Python's None

ASSUME PayloadStreamsAssumption ==
    /\ {Blocks, CloseAttempts} \subseteq Nat \ {0}
    /\ MaxFaults \in Nat
    /\ Named \in BOOLEAN
    /\ None \notin Readers \cup {"owner", "editor", "span", "inline", "fork", "true", "wiped"}

VARIABLES
    vault,    \* the opened vault: life, payloads its document has to close, content key
    file,     \* the snapshot's descriptor, directory anchor and directory entry
    payload,  \* what each payload object keeps
    latch,    \* who holds a payload's lock
    buffer,   \* the storage that inline payloads share
    stream,   \* each reader's iterator and what its consumer has seen
    holder,   \* who holds an iterator's lock
    closer,   \* where the threads that close are
    faults    \* counter: failures so far

vars == <<vault, file, payload, latch, buffer, stream, holder, closer, faults>>

Own == {"span", "inline"}
Payloads == Own \cup {"fork"}
Closers == {"owner", "editor"}

NoFile == [fd |-> FALSE, anchor |-> FALSE, entry |-> FALSE]
NoPayload == [kind |-> None, life |-> "none", chain |-> "wiped", streams |-> {}]
Fresh(kind) == [NoPayload EXCEPT !.kind = kind, !.life = "open", !.chain = "true"]
NoStream == [of |-> None, pc |-> "none", at |-> 0, chain |-> None, native |-> "none",
             chunk |-> "none", seen |-> {}, verdict |-> "none"]
Resting == [pc |-> "idle", on |-> None, todo |-> {}, failed |-> FALSE, left |-> {},
            again |-> {}, pass |-> 0]

IsOpen(p) == payload[p].life = "open"
KindOf(r) == IF stream[r].of = None THEN None ELSE payload[stream[r].of].kind
Leased == {p \in Payloads : payload[p].kind = "inline" /\ payload[p].life \in {"open", "closing"}}

\* The system may fail an operation while the bound lasts.
May(fault) == fault => faults < MaxFaults
Charged(fault) == faults' = IF fault THEN faults + 1 ELSE faults

Init ==
    /\ vault = [life |-> "none", pending |-> {}, key |-> "none"]
    /\ file = NoFile
    /\ payload = [p \in Payloads |-> NoPayload]
    /\ latch = [p \in Payloads |-> None]
    /\ buffer = [leases |-> 0, closing |-> FALSE, bytes |-> "none"]
    /\ stream = [r \in Readers |-> NoStream]
    /\ holder = [r \in Readers |-> None]
    /\ closer = [c \in Closers |-> Resting]
    /\ faults = 0

-----------------------------------------------------------------------------
(* The private snapshot *)

\* A directory that can be anchored, a file created in it, the source copied to it:
\* the parts of capture, each of which can fail.
Anchored(stage) == stage # "validate"
Created(stage) == stage # "create"
Copied(stage) == stage # "copy"

\* Elsewhere the file never has an entry, or loses it before it is handed out.
Artifact == [fd |-> TRUE, anchor |-> TRUE, entry |-> Named]

\* A failed capture takes back whatever it had got to.
Captured(stage) ==
    IF Anchored(stage) /\ Created(stage) /\ Copied(stage) THEN Artifact ELSE NoFile

\* EncryptedSnapshot.close: entry, descriptor, anchor; a failure keeps the rest.
Shed(f, stage) ==
    CASE stage = "unlink" -> f
      [] stage = "file" -> [f EXCEPT !.entry = FALSE]
      [] stage = "anchor" -> [f EXCEPT !.entry = FALSE, !.fd = FALSE]
      [] OTHER -> NoFile

\* Each part can fail while there is something left of it.
CanFail(f, stage) ==
    \/ stage = "none"
    \/ stage = "unlink" /\ f.entry
    \/ stage = "file" /\ f.fd
    \/ stage = "anchor" /\ f.anchor

\* A document has to close each distinct payload of its fields once.
Adopted == [life |-> "open", pending |-> Own, key |-> "live"]

\* Opening a vault: capture its file, read it and hand out one payload that is
\* deferred and one that fits the inline limit.
Open(stage) ==
    /\ vault.life = "none"
    /\ file' = Captured(stage)
    /\ IF Captured(stage) = NoFile
       THEN UNCHANGED <<vault, payload, buffer>>
       ELSE /\ vault' = Adopted
            /\ payload' = [payload EXCEPT !["span"] = Fresh("span"), !["inline"] = Fresh("inline")]
            /\ buffer' = [leases |-> 1, closing |-> FALSE, bytes |-> "true"]
    /\ UNCHANGED <<latch, stream, holder, closer, faults>>

-----------------------------------------------------------------------------
(* Retaining and releasing *)

\* Both constructors of a keyed object look at the content key.
KeyIsLive == vault.key = "live"

\* _InlineStorage.borrow and retain ask for a live lease.
Borrowable == buffer.leases > 0 /\ ~buffer.closing
LeaseTaken == Borrowable /\ buffer' = [buffer EXCEPT !.leases = @ + 1]

\* retain of a deferred payload copies its metadata, the key's owner and the chain
\* value it has; of an inline one, takes one more lease of the buffer.
Retain(p) ==
    /\ payload["fork"].life = "none"
    /\ latch[p] = None
    /\ IsOpen(p)
    /\ IF payload[p].kind = "span" THEN KeyIsLive /\ UNCHANGED buffer ELSE LeaseTaken
    /\ payload' = [payload EXCEPT !["fork"] = [Fresh(payload[p].kind) EXCEPT
                                                 !.chain = payload[p].chain]]
    /\ UNCHANGED <<vault, file, latch, stream, holder, closer, faults>>

\* Each release wipes the buffer.
MutReleased(b, fails) ==
    IF b.leases = 0 THEN b
    ELSE [leases |-> b.leases - 1, closing |-> FALSE, bytes |-> "wiped"]

\* _InlineStorage.release: the last lease wipes; when that fails it can be retried.
Released(b, fails) ==
    IF b.leases = 0 THEN b
    ELSE IF b.leases > 1 THEN [b EXCEPT !.leases = @ - 1]
    ELSE IF fails THEN [b EXCEPT !.closing = TRUE, !.bytes = "torn"]
    ELSE [leases |-> 0, closing |-> FALSE, bytes |-> "wiped"]

-----------------------------------------------------------------------------
(* Consumers *)

\* iter_chunks: a stream of a span is registered at once; a stream of an inline
\* payload is a generator that has run nothing yet.
OpenStream(r, p) ==
    /\ stream[r].pc = "none"
    /\ payload[p].life # "none"
    /\ payload[p].kind = "span" => latch[p] = None /\ IsOpen(p)
    /\ stream' = [stream EXCEPT ![r] = [NoStream EXCEPT !.of = p, !.pc = "fresh"]]
    /\ payload' = [payload EXCEPT ![p].streams = IF payload[p].kind = "span" THEN @ \cup {r} ELSE @]
    /\ UNCHANGED <<vault, file, latch, buffer, holder, closer, faults>>

\* The native key of one context, keyed with the bytes the content key's buffer
\* holds then, destroyed once with the context.
Handled(s) == [s EXCEPT !.native = IF KeyIsLive THEN "true" ELSE "wiped"]
Destroyed(s) == [s EXCEPT !.native = "none"]

\* CbcDecryptor: turned by a block, closed.
Turned(s) == [s EXCEPT !.chunk = IF s.chain = "true" /\ s.native = "true"
                                 THEN "true" ELSE "garbage",
                       !.chain = "true"]
Unkeyed(s) == [Destroyed(s) EXCEPT !.chain = None]

\* The generator of a span unwinds and closes the keyed context.  The chunk's view
\* is released and its bytes zeroed; when the consumer has exported the view, the
\* release raises and the bytes are zeroed under the export.
Unwound(s, exported) ==
    [Unkeyed(s) EXCEPT !.chunk = IF exported THEN "zeroed"
                                 ELSE IF @ \in {"none", "zeroed"} THEN @ ELSE "gone"]

\* What a chunk reads as: a view of the shared buffer shows what is in it now.
Shown(r) == IF KindOf(r) = "inline"
            THEN IF buffer.bytes = "true" THEN "true" ELSE "garbage"
            ELSE stream[r].chunk

\* The consumer uses the chunk it was given: a released view raises, an exported
\* one goes on to show the buffer, whatever the stream has answered meanwhile.
Consume(r) ==
    /\ \/ /\ stream[r].pc = "handed"
          /\ stream[r].verdict = "none"
          /\ stream' = [stream EXCEPT ![r].pc = "suspended", ![r].seen = @ \cup {Shown(r)}]
       \/ /\ stream[r].pc \in {"torn", "ended"}
          /\ stream[r].chunk = "zeroed"
          /\ stream' = [stream EXCEPT ![r].seen = @ \cup {"zeros"}]
       \/ /\ stream[r].pc = "ended"
          /\ stream[r].chunk = "gone"
          /\ stream[r].verdict = "none"
          /\ stream' = [stream EXCEPT ![r].verdict = "refused"]
    /\ UNCHANGED <<vault, file, payload, latch, buffer, holder, closer, faults>>

\* __next__: under the iterator's lock, the payload has to be open.
Enter(r) ==
    /\ KindOf(r) = "span"
    /\ stream[r].verdict = "none"
    /\ stream[r].pc \in {"fresh", "suspended", "torn", "ended"}
    /\ holder[r] = None
    /\ IF ~IsOpen(stream[r].of)
       THEN stream' = [stream EXCEPT ![r].verdict = "refused"] /\ UNCHANGED holder
       ELSE IF stream[r].pc = "ended"
       THEN stream' = [stream EXCEPT ![r].verdict = "whole"] /\ UNCHANGED holder
       ELSE /\ stream' = [stream EXCEPT ![r].pc = IF @ = "fresh" THEN "entered" ELSE "resumed"]
            /\ holder' = [holder EXCEPT ![r] = r]

\* The generator is over, with an error or at its end, and the lock still held.
Over(r, exported, verdict) ==
    stream' = [stream EXCEPT ![r] =
                  [Unwound(@, exported) EXCEPT !.pc = "ending", !.verdict = verdict]]

\* The first turn of the generator copies the chain value and has the decryptor
\* look at the content key.
Prime(r) ==
    /\ stream[r].pc = "entered"
    /\ IF KeyIsLive
       THEN stream' = [stream EXCEPT ![r].pc = "looked",
                                     ![r].chain = payload[stream[r].of].chain]
       ELSE Over(r, FALSE, "refused")

\* The backend looks at the content key once more, then keys from its buffer: one
\* wiped meanwhile is refused, or keyed as it is when it was wiped after the look.
Key(r) ==
    /\ stream[r].pc = "looked"
    /\ \/ stream' = [stream EXCEPT ![r] = [Handled(@) EXCEPT !.pc = "primed"]]
       \/ ~KeyIsLive /\ Over(r, FALSE, "refused")

\* A resumed generator wipes the last chunk and looks whether it may go on.  With
\* the chunk's view exported the wipe raises, and the generator is over.
Resume(r, fails) ==
    /\ stream[r].pc = "resumed"
    /\ IF fails \/ ~IsOpen(stream[r].of) THEN Over(r, fails, "refused")
       ELSE IF stream[r].at = Blocks THEN Over(r, FALSE, "whole")
       ELSE stream' = [stream EXCEPT ![r].pc = "primed", ![r].chunk = "gone"]

\* The look at the payload before each block is left out.
MutCheck(r) ==
    /\ stream[r].pc = "primed"
    /\ stream' = [stream EXCEPT ![r].pc = "checked"]

Check(r) ==
    /\ stream[r].pc = "primed"
    /\ IF IsOpen(stream[r].of) THEN stream' = [stream EXCEPT ![r].pc = "checked"]
       ELSE Over(r, FALSE, "refused")

\* EncryptedSnapshot.read_at, while the descriptor is there and the system reads.
CanRead(fails) == file.fd /\ ~fails

\* One block is read and decrypted, and the chunk handed out.
Read(r, fails) ==
    /\ stream[r].pc = "checked"
    /\ IF CanRead(fails)
       THEN /\ stream' = [stream EXCEPT ![r] = [Turned(@) EXCEPT !.pc = "handed",
                                                                 !.at = stream[r].at + 1]]
            /\ holder' = [holder EXCEPT ![r] = None]
       ELSE Over(r, FALSE, "refused") /\ UNCHANGED holder

\* _finish: the payload forgets the stream, then __next__ returns.
Finish(r) ==
    LET p == stream[r].of
    IN  /\ stream[r].pc = "ending"
        /\ latch[p] = None
        /\ payload' = [payload EXCEPT ![p].streams = @ \ {r}]
        /\ stream' = [stream EXCEPT ![r].pc = "ended"]
        /\ holder' = [holder EXCEPT ![r] = None]

\* InlinePayload.iter_chunks, one turn: the first borrows the buffer, the last
\* has nothing more to look at.
InlineNext(r) ==
    /\ KindOf(r) = "inline"
    /\ stream[r].verdict = "none"
    /\ stream[r].pc \in {"fresh", "suspended"}
    /\ stream' = [stream EXCEPT ![r] =
          IF @.at = Blocks THEN [@ EXCEPT !.pc = "ended", !.verdict = "whole"]
          ELSE IF ~IsOpen(@.of) \/ (@.pc = "fresh" /\ ~Borrowable)
          THEN [@ EXCEPT !.pc = "ended", !.verdict = "refused"]
          ELSE [@ EXCEPT !.pc = "handed", !.at = stream[r].at + 1]]

-----------------------------------------------------------------------------
(* Closing *)

\* Closing a stream, under its lock and the payload's.  The generator's close
\* raises when the consumer still exports the chunk's view; the generator is over
\* all the same, and a second close finds it so.
Cut(r, by, fails, verdict) ==
    LET p == stream[r].of
    IN  /\ holder[r] = None
        /\ latch[p] \in {None, by}
        /\ fails => stream[r].pc \in {"handed", "suspended"}
        /\ stream' = [stream EXCEPT ![r] = [Unwound(@, fails) EXCEPT
                         !.pc = IF fails THEN "torn" ELSE "ended", !.verdict = verdict]]
        /\ payload' = [payload EXCEPT ![p].streams = IF fails THEN @ ELSE @ \ {r}]

\* A consumer closes the stream it no longer wants.
Abandon(r, fails) ==
    /\ KindOf(r) = "span"
    /\ stream[r].verdict = "none"
    /\ stream[r].pc \in {"fresh", "handed", "suspended"}
    /\ Cut(r, r, fails, "left")

\* close, first part, under the payload's lock: refuse new use, wipe the chain value.
Shut(c) ==
    LET p == closer[c].on
    IN  /\ closer[c].pc = "shut"
        /\ latch[p] = None
        /\ latch' = [latch EXCEPT ![p] = c]
        /\ payload' = [payload EXCEPT ![p].life = "closing", ![p].chain = "wiped"]
        /\ closer' = [closer EXCEPT ![c].pc = "list"]

\* Still under that lock: list the streams there are, then let go of it.
List(c) ==
    /\ closer[c].pc = "list"
    /\ closer' = [closer EXCEPT ![c].pc = "sever", ![c].failed = FALSE,
                                ![c].todo = payload[closer[c].on].streams]
    /\ latch' = [latch EXCEPT ![closer[c].on] = None]

\* Second part, without the lock: every listed stream, whatever the others do.
Sever(c, r, fails) ==
    /\ closer[c].pc = "sever"
    /\ r \in closer[c].todo
    /\ IF stream[r].pc = "ended"
       THEN holder[r] = None /\ ~fails /\ UNCHANGED <<stream, payload>>
       ELSE Cut(r, c, fails, stream[r].verdict)
    /\ closer' = [closer EXCEPT ![c].todo = @ \ {r}, ![c].failed = @ \/ fails]

\* The payload is reported closed whether or not its streams are gone.
MutClosedNow(p) == [payload EXCEPT ![p].life = "closed"]

\* Third part, under the lock again: closed once no stream is registered.
ClosedNow(p) == [payload EXCEPT ![p].life = IF @ = "closing" /\ payload[p].streams = {}
                                            THEN "closed" ELSE @]

\* The thread is done with one payload; a document goes on with its next one.
Returned(c, failed) ==
    closer' = [closer EXCEPT ![c] =
        IF c = "editor" THEN Resting
        ELSE [@ EXCEPT !.pc = "next", !.on = None,
                       !.again = IF failed THEN closer[c].again \cup {closer[c].on}
                                    ELSE closer[c].again]]

Settle(c) ==
    LET p == closer[c].on
    IN  /\ closer[c].pc = "sever"
        /\ closer[c].todo = {}
        /\ latch[p] \in {None, c}
        /\ payload' = ClosedNow(p)
        /\ latch' = [latch EXCEPT ![p] = None]
        /\ Returned(c, closer[c].failed)

\* InlinePayload.close: one step, under the locks of the payload and the buffer.
CloseInline(c, fails) ==
    LET p == closer[c].on
    IN  /\ closer[c].pc = "release"
        /\ fails => buffer.leases = 1
        /\ buffer' = Released(buffer, fails)
        /\ payload' = [payload EXCEPT ![p].life = IF fails THEN "closing" ELSE "closed"]
        /\ Returned(c, fails)

\* Which close a payload needs; a closed one needs none.
Turn(p) == IF payload[p].life = "closed" THEN "next"
           ELSE IF payload[p].kind = "span" THEN "shut" ELSE "release"

\* The editor closes the fork it retained; it may have to do so again.
CloseFork ==
    /\ closer["editor"].pc = "idle"
    /\ payload["fork"].life \in {"open", "closing"}
    /\ closer' = [closer EXCEPT !["editor"] = [Resting EXCEPT !.on = "fork", !.pc = Turn("fork")]]
    /\ UNCHANGED <<vault, file, payload, latch, buffer, stream, holder, faults>>

\* OpenedVault.close starts with its document; closing that stops its use.
CloseVault ==
    /\ closer["owner"].pc = "idle"
    /\ vault.life \in {"open", "closing"}
    /\ vault' = [vault EXCEPT !.life = "closing"]
    /\ closer' = [closer EXCEPT !["owner"] =
          IF vault.pending = {} THEN [Resting EXCEPT !.pc = "keys"]
          ELSE [Resting EXCEPT !.pc = "next", !.left = vault.pending, !.pass = 1]]
    /\ UNCHANGED <<file, payload, latch, buffer, stream, holder, faults>>

\* _drive_close: every pending payload, then again the ones that failed, a bounded
\* number of times; keys and snapshot only when the document has none left.
AfterDocument(again, pass) ==
    IF again = {} THEN "keys" ELSE IF pass < CloseAttempts THEN "next" ELSE "idle"

\* VaultDocument.close, one turn or its end.
NextPayload ==
    LET o == closer["owner"]
        then == AfterDocument(o.again, o.pass)
    IN  /\ o.pc = "next"
        /\ \/ \E p \in o.left :
                /\ closer' = [closer EXCEPT !["owner"] =
                                 [@ EXCEPT !.left = o.left \ {p}, !.on = p, !.pc = Turn(p)]]
                /\ UNCHANGED vault
           \/ /\ o.left = {}
              /\ vault' = [vault EXCEPT !.pending = o.again]
              /\ closer' = [closer EXCEPT !["owner"] =
                    IF then = "next"
                    THEN [@ EXCEPT !.left = o.again, !.again = {}, !.pass = o.pass + 1]
                    ELSE [Resting EXCEPT !.pc = then]]
        /\ UNCHANGED <<file, payload, latch, buffer, stream, holder, faults>>

\* VaultCryptoState.close wipes the keys.
WipeKeys ==
    /\ closer["owner"].pc = "keys"
    /\ vault' = [vault EXCEPT !.key = "wiped"]
    /\ closer' = [closer EXCEPT !["owner"].pc = "snapshot", !["owner"].pass = 1]
    /\ UNCHANGED <<file, payload, latch, buffer, stream, holder, faults>>

\* The snapshot, with as many attempts; the vault is closed when everything is.
CloseSnapshot(stage) ==
    /\ closer["owner"].pc = "snapshot"
    /\ CanFail(file, stage)
    /\ May(stage # "none")
    /\ file' = Shed(file, stage)
    /\ IF stage # "none" /\ closer["owner"].pass < CloseAttempts
       THEN closer' = [closer EXCEPT !["owner"].pass = @ + 1] /\ UNCHANGED vault
       ELSE /\ closer' = [closer EXCEPT !["owner"] = Resting]
            /\ vault' = [vault EXCEPT !.life = IF stage = "none" THEN "closed" ELSE @]
    /\ Charged(stage # "none")
    /\ UNCHANGED <<payload, latch, buffer, stream, holder>>

-----------------------------------------------------------------------------
Stages == {"none", "unlink", "file", "anchor"}

\* Inside __next__ of a stream.
Advance(r) ==
    \/ /\ Prime(r) \/ Key(r) \/ Check(r)
       /\ UNCHANGED <<vault, file, payload, latch, buffer, holder, closer, faults>>
    \/ \E fails \in BOOLEAN :
          /\ May(fails) /\ Charged(fails)
          /\ Read(r, fails) \/ (Resume(r, fails) /\ UNCHANGED holder)
          /\ UNCHANGED <<vault, file, payload, latch, buffer, closer>>
    \/ Finish(r) /\ UNCHANGED <<vault, file, latch, buffer, closer, faults>>

\* The closing of one payload by a thread that has begun it.
Progress(c) ==
    \/ Shut(c) /\ UNCHANGED <<vault, file, buffer, stream, holder, faults>>
    \/ List(c) /\ UNCHANGED <<vault, file, payload, buffer, stream, holder, faults>>
    \/ \E r \in Readers, fails \in BOOLEAN :
          /\ May(fails) /\ Charged(fails) /\ Sever(c, r, fails)
          /\ UNCHANGED <<vault, file, latch, buffer, holder>>
    \/ Settle(c) /\ UNCHANGED <<vault, file, buffer, stream, holder, faults>>
    \/ \E fails \in BOOLEAN :
          /\ May(fails) /\ Charged(fails) /\ CloseInline(c, fails)
          /\ UNCHANGED <<vault, file, latch, stream, holder>>

Winding == NextPayload \/ WipeKeys \/ \E stage \in Stages : CloseSnapshot(stage)

Ask(r) ==
    \/ Enter(r) /\ UNCHANGED <<vault, file, payload, latch, buffer, closer, faults>>
    \/ InlineNext(r) /\ UNCHANGED <<vault, file, payload, latch, buffer, holder, closer, faults>>

Leave(r) ==
    \E fails \in BOOLEAN :
        /\ May(fails) /\ Charged(fails) /\ Abandon(r, fails)
        /\ UNCHANGED <<vault, file, latch, buffer, holder, closer>>

\* No thread is inside a call: the only state in which nothing has to happen.
Rest ==
    /\ \A c \in Closers : closer[c].pc = "idle"
    /\ \A r \in Readers : holder[r] = None
    /\ UNCHANGED vars

Next ==
    \/ \E stage \in {"none", "validate", "create", "copy"} : Open(stage)
    \/ \E p \in Own : Retain(p)
    \/ \E r \in Readers, p \in Payloads : OpenStream(r, p)
    \/ \E r \in Readers : Ask(r)
    \/ \E r \in Readers : Consume(r)
    \/ \E r \in Readers : Leave(r)
    \/ \E r \in Readers : Advance(r)
    \/ CloseVault
    \/ CloseFork
    \/ \E c \in Closers : Progress(c)
    \/ Winding
    \/ Rest

Spec == Init /\ [][Next]_vars

-----------------------------------------------------------------------------
(* Properties *)

\* payloads.py 538-604, 717-726, 768-774, crypto.py 561-573: whatever is closed
\* meanwhile, a deferred stream of the document's own payload never shows its
\* consumer a block decrypted with a wiped chain value or a wiped key; one of a fork,
\* which the document does not close, does only when the keys were wiped under it.  A
\* stream that ends without an error has handed out every block and zeroed none of
\* them under an exported view.  A consumer of an inline payload finds other bytes
\* than the payload's only when that payload, not another lease of its buffer, was
\* closed under it.
StreamsAreTrue ==
    \A r \in Readers :
        LET s == stream[r]
        IN  /\ KindOf(r) = "span" =>
                  /\ "garbage" \in s.seen => s.of = "fork" /\ vault.key = "wiped"
                  /\ s.verdict = "whole" => s.at = Blocks /\ "zeros" \notin s.seen
            /\ KindOf(r) = "inline" /\ "garbage" \in s.seen => ~IsOpen(s.of)

\* payloads.py 193-223, 321-325, 599-611: every open payload has what its next
\* stream needs, whatever became of its fork or its origin, and the buffer has one
\* lease for each inline payload that is not closed: none is wiped early or left.
OpenIsIntact ==
    /\ \A p \in Payloads : IsOpen(p) =>
          IF payload[p].kind = "span" THEN payload[p].chain = "true"
          ELSE buffer.bytes = "true" /\ ~buffer.closing
    /\ buffer.leases = Cardinality(Leased)
    /\ vault.life # "none" => (buffer.leases = 0 <=> buffer.bytes = "wiped")

\* payloads.py 625-644, reader.py 424-440, snapshots.py 532-556: what reports itself
\* closed has let go of everything, also after closes that failed half-way.  A closed
\* payload has no stream with a plaintext chunk or a keyed context; keys are wiped
\* only when the document is closed; a closed vault, or one whose file could not be
\* captured, holds no descriptor, anchor or directory entry.
Wiped == {"none", "gone", "zeroed"}

ClosedIsReleased ==
    /\ \A p \in Payloads : payload[p].life = "closed" =>
          /\ payload[p].streams = {}
          /\ payload[p].kind = "span" =>
                /\ payload[p].chain = "wiped"
                /\ \A r \in Readers : stream[r].of = p =>
                      stream[r].pc = "ended" /\ stream[r].native = "none" /\ stream[r].chunk \in Wiped
    /\ vault.key = "wiped" => \A p \in Own : payload[p].life = "closed"
    /\ vault.life = "closed" => vault.key = "wiped"
    /\ vault.life \in {"none", "closed"} => file = NoFile

-----------------------------------------------------------------------------
(* The inductive invariant behind them. No part of it speaks of a lock: what   *)
(* the payload's life forbids, and when it is looked at, is enough.            *)

Lives == {"none", "open", "closing", "closed"}
Chunks == {"none", "true", "garbage", "gone", "zeroed"}
Sights == {"true", "garbage", "zeros"}
Working == {"shut", "list", "sever", "release"}

Vaults == [life : Lives, pending : SUBSET Own, key : {"none", "live", "wiped"}]

Files == [fd : BOOLEAN, anchor : BOOLEAN, entry : BOOLEAN]

PayloadStates ==
    [kind : {None, "span", "inline"}, life : Lives, chain : {"true", "wiped"},
     streams : SUBSET Readers]

Buffers == [leases : Nat, closing : BOOLEAN, bytes : {"none", "true", "torn", "wiped"}]

Streams ==
    [of : Payloads \cup {None},
     pc : {"none", "fresh", "entered", "looked", "resumed", "primed", "checked", "handed", "suspended",
           "ending", "torn", "ended"},
     at : Nat, chain : {None, "true", "wiped"}, native : {"none", "true", "wiped"},
     chunk : Chunks, seen : SUBSET Sights, verdict : {"none", "refused", "whole", "left"}]

Threads ==
    [pc : {"idle", "next", "keys", "snapshot"} \cup Working, on : Payloads \cup {None},
     todo : SUBSET Readers, failed : BOOLEAN, left : SUBSET Own, again : SUBSET Own, pass : Nat]

TypeOK ==
    /\ vault \in Vaults
    /\ file \in Files
    /\ payload \in [Payloads -> PayloadStates]
    /\ latch \in [Payloads -> Closers \cup {None}]
    /\ buffer \in Buffers
    /\ stream \in [Readers -> Streams]
    /\ holder \in [Readers -> Readers \cup {None}]
    /\ closer \in [Closers -> Threads]
    /\ faults \in Nat

IsClosed(p) == payload[p].life = "closed"

\* A payload keeps its chain value while it is open, and its streams know it.
PayloadOK(p) ==
    LET v == payload[p]
    IN  /\ v.life = "none" <=> v.kind = None
        /\ v.kind = "span" => (v.chain = "true" <=> IsOpen(p))
        /\ v.kind # "span" => v.streams = {}
        /\ \A r \in v.streams : stream[r].of = p
        /\ IsClosed(p) => v.streams = {}

\* A fork is not among the payloads that are closed before the keys are wiped.
Overtaken(r) == stream[r].of = "fork" /\ vault.key = "wiped"

\* A stream of a span is registered until its generator is over; it has the chain
\* value and a native key when it is allowed to decrypt; one that is over keeps
\* nothing, and only one that is over and not whole has zeroed a chunk.
StreamOK(r) ==
    LET s == stream[r]
    IN  /\ s.pc = "none" <=> s.of = None
        /\ s.of # None => payload[s.of].life # "none"
        /\ KindOf(r) = "span" =>
             /\ r \in payload[s.of].streams <=> s.pc # "ended"
             /\ s.native = "wiped" \/ s.chunk = "garbage" \/ "garbage" \in s.seen
                  => Overtaken(r)
             /\ s.chunk = "zeroed" \/ "zeros" \in s.seen
                  => s.pc \in {"torn", "ending", "ended"} /\ s.verdict # "whole"
             /\ s.verdict = "whole" => s.at = Blocks /\ s.pc \in {"ending", "ended"}
             /\ s.pc \in {"checked", "handed", "suspended", "resumed"} => s.chain = "true"
             /\ s.pc \in {"looked", "primed"} => s.chain = "true" \/ ~IsOpen(s.of)
             /\ s.pc \in {"primed", "checked", "handed", "suspended", "resumed"}
                  => s.native # "none"
             /\ s.pc = "handed" => s.chunk \in {"true", "garbage"}
             /\ s.pc \in {"torn", "ending", "ended"} => s.native = "none" /\ s.chunk \in Wiped
             /\ s.pc = "ending" => s.verdict # "none"
             /\ s.pc \in {"torn", "ended"} => s.verdict # "none" \/ ~IsOpen(s.of)
        /\ KindOf(r) = "inline" /\ "garbage" \in s.seen => ~IsOpen(s.of)

\* The buffer is whole while an inline payload is open, and counts its leases.
BufferOK ==
    /\ \A p \in Payloads : IsOpen(p) /\ payload[p].kind = "inline"
                              => buffer.bytes = "true" /\ ~buffer.closing
    /\ buffer.leases = Cardinality(Leased)
    /\ vault.life # "none" => (buffer.leases = 0 <=> buffer.bytes = "wiped")

Charge(c) == IF c = "owner" THEN Own ELSE {"fork"}

\* A thread closes one of its own payloads, and until a stream has resisted it
\* has every stream that is left on its list.
CloserOK(c) ==
    LET o == closer[c]
        p == closer[c].on
    IN  /\ o.pc \in Working =>
             /\ p \in Charge(c)
             /\ payload[p].life \in {"open", "closing"}
             /\ payload[p].kind = IF o.pc = "release" THEN "inline" ELSE "span"
        /\ o.pc \in {"list", "sever"} => payload[p].life = "closing"
        /\ o.pc = "sever" => /\ \A r \in o.todo : stream[r].of = p
                             /\ ~o.failed => payload[p].streams \subseteq o.todo
        /\ c = "editor" => o.pc \in Working \cup {"idle"}

\* The document's payloads are closed but for those it still has to close, and
\* keys and snapshot go when none is left.
VaultOK ==
    LET o == closer["owner"]
    IN  /\ vault.life = "none" => /\ \A p \in Payloads : payload[p].life = "none"
                                  /\ vault.key = "none"
        /\ vault.life # "none" => /\ vault.key # "none"
                                  /\ \A p \in Own : /\ payload[p].life # "none"
                                                    /\ p \in vault.pending \/ IsClosed(p)
        /\ vault.key = "wiped" => \A p \in Own : IsClosed(p)
        /\ vault.life = "closed" => vault.key = "wiped"
        /\ vault.life \in {"none", "closed"} => file = NoFile
        /\ o.pc # "idle" => vault.life = "closing"
        /\ o.pc \in Working \cup {"next"} =>
             \A p \in Own \ (o.left \cup o.again) : IsClosed(p) \/ (o.pc # "next" /\ p = o.on)
        /\ o.pc \in {"keys", "snapshot"} => \A p \in Own : IsClosed(p)
        /\ o.pc = "snapshot" => vault.key = "wiped"

StreamsInv ==
    /\ TypeOK
    /\ \A p \in Payloads : PayloadOK(p)
    /\ \A r \in Readers : StreamOK(r)
    /\ BufferOK
    /\ \A c \in Closers : CloserOK(c)
    /\ VaultOK

=============================================================================
