------------------------------ MODULE VaultCodec ------------------------------
(***************************************************************************)
(* The reader and the writer of vault files (passwordsafe/reader.py,       *)
(* writer.py, crypto.py, snapshots.py), the edits of a session             *)
(* (session.py) and the service operations that put them together          *)
(* (service.py: create, open, save, export).                               *)
(*                                                                         *)
(* A file is read in steps, each of which can refuse it or fail, and every *)
(* owner made on the way is closed when one does.  A file is written to a  *)
(* candidate, which is read back and compared before it is published; all  *)
(* that time other programs may remove, replace or overwrite it.  Edits go *)
(* on beside an export, whose document is a copy, but not beside a save.   *)
(*                                                                         *)
(* An operator named Mut... is a faulty variant of the definition after    *)
(* it; nothing uses it but the sensitivity runs of the project manifest.   *)
(***************************************************************************)
EXTENDS VaultFormat

CONSTANTS
    Sources,   \* the files there may be at the start: [header, records, strength, seal]
    MaxEdits,  \* bound: edits of a session
    MaxMoves,  \* bound: those of them that reorder records
    MaxTasks,  \* bound: service operations
    MaxFaults, \* bound: steps that fail, closes that fail, interferences
    MaxEvents  \* bound: edits and faults together

Seals == {"sound", "forged", "torn"}
Contents == [wire : Seq(Frames), strength : 1 .. 2, salt : Nat, seal : Seals, id : Nat]
Candidates == [content : Contents, ours : BOOLEAN]
Sessions == [doc : Documents, strength : 1 .. 2, salt : Nat, hardened : BOOLEAN]

ASSUME VaultCodecAssumption ==
    /\ {MaxEdits, MaxMoves, MaxTasks, MaxFaults, MaxEvents} \subseteq Nat
    /\ \A source \in Sources : /\ source.header \in Seq(Frames) /\ source.records \in Seq(Seq(Frames))
                               /\ source.strength \in 1 .. 2 /\ source.seal \in Seals
    /\ None \notin Contents \cup Candidates \cup Sessions \cup Documents

VARIABLES
    file,      \* the vault file, or None: what it holds and under which key
    live,      \* the session: its document and key material, or None
    read,      \* the reader's transaction
    write,     \* the service operation and the writer's transaction in it
    candidate, \* what is at the path of the writer's candidate, or None
    output,    \* history: the file published last and the document it stands for
    left,      \* history: candidates nobody removes, closes and removals that failed
    count      \* counters: edits, moves, service operations, faults

vars == <<file, live, read, write, candidate, output, left, count>>
disk == <<file, candidate, output>>

-----------------------------------------------------------------------------
(* Files: key stretching is weak (1) or strong (2); the salt and the        *)
(* identity of the bytes are those of the task that drew them (0 before the *)
(* start).  A sound file authenticates, a forged one does not, a torn one   *)
(* does not even end as a file should.                                      *)

Content(wire, strength, salt, seal, id) ==
    [wire |-> wire, strength |-> strength, salt |-> salt, seal |-> seal, id |-> id]

Flat(source) == source.header \o FlattenSeq(source.records)

NoRead == [step |-> "idle", use |-> "open", lent |-> FALSE, owners |-> {},
           got |-> None, at |-> Unread, doc |-> None]
NoWrite == [step |-> "idle", kind |-> "save", doc |-> None, strength |-> 2, salt |-> 0,
            owners |-> {}, verified |-> None, adopted |-> None, faulty |-> FALSE]

Init ==
    /\ \/ file = None
       \/ \E source \in Sources :
            file = Content(Flat(source), source.strength, 0, source.seal, 0)
    /\ live = None
    /\ read = NoRead
    /\ write = NoWrite
    /\ candidate = None
    /\ output = None
    /\ left = [files |-> {}, stuck |-> {}]
    /\ count = [edits |-> 0, moves |-> 0, tasks |-> 0, faults |-> 0]

Faulty ==
    /\ count.faults < MaxFaults /\ count.edits + count.faults < MaxEvents
    /\ count' = [count EXCEPT !.faults = @ + 1]

Idle == read.step = "idle" /\ write.step = "idle"

\* serialization_iterations: a weak file opened by passphrase is saved strong.
SerialStrength(session) == IF session.hardened THEN 2 ELSE session.strength

-----------------------------------------------------------------------------
(* The reader *)

ReadSteps == {"capture", "envelope", "key", "unwrap", "decrypt", "authenticate", "validate",
              "build", "harden", "adopt", "manifest"}

\* The key comes from a passphrase, or is the one the session retains.
ByPassphrase == read.use \in {"open", "verifyNew", "adoptNew"}

StartRead(use, lent) ==
    read' = [NoRead EXCEPT !.use = use, !.lent = lent,
                           !.step = IF lent THEN "envelope" ELSE "capture",
                           !.got = IF lent THEN file ELSE None]

Refuse == read' = [read EXCEPT !.step = "cleanup"]

\* One step of the transaction: refuse what was read, or go on.
Proceed(next, accepted, gained, spent) ==
    IF accepted THEN read' = [read EXCEPT !.step = next, !.owners = (@ \ spent) \cup gained]
    ELSE Refuse

\* EncryptedSnapshot.capture: what is at the path now, whatever happens to it later.
Capture ==
    LET there == IF read.use = "open" THEN file
                 ELSE IF candidate = None THEN None ELSE candidate.content
    IN  /\ read.step = "capture"
        /\ IF there = None THEN Refuse
           ELSE read' = [read EXCEPT !.step = "envelope", !.owners = {"snapshot"}, !.got = there]

\* _read_envelope.
Envelope ==
    /\ read.step = "envelope"
    /\ Proceed("key", read.got.seal # "torn", {}, {})

\* What a retained key was derived for.
Fits(content) == content.salt = live.salt /\ content.strength = SerialStrength(live)

\* stretch_passphrase and the check of its result.  A user may mistype the passphrase
\* of a file, and the passphrase of an export need not open anything else.
Key ==
    /\ read.step = "key"
    /\ \E matches \in BOOLEAN :
         /\ read.use \in {"verify", "adopt"} => (matches <=> Fits(read.got))
         /\ read.use \in {"verifyNew", "adoptNew"} /\ read.got.id = count.tasks => matches
         /\ Proceed("unwrap", matches, {"derived"}, {})

Unwrap == read.step = "unwrap" /\ Proceed("decrypt", TRUE, {"keys"}, {})

\* _decrypt_fields: a builder it gives up on is closed before it returns.
Decrypt ==
    LET at == Parsed(read.got.wire)
    IN  /\ read.step = "decrypt"
        /\ IF at.failed THEN Refuse
           ELSE read' = [read EXCEPT !.step = "authenticate", !.at = at,
                                     !.owners = @ \cup {"builder"}]

Authenticate ==
    read.step = "authenticate" /\ Proceed("validate", read.got.seal = "sound", {}, {})

\* _validate_version_first and _validate_schema.
Validate ==
    /\ read.step = "validate"
    /\ Proceed("build",
               Conforms(read.at.header, read.at.records) /\ TextFits(read.at.header, read.at.records),
               {}, {})

\* _QuarantinedBuilder.build: the document takes the payloads over.
Build ==
    /\ read.step = "build"
    /\ read' = [read EXCEPT !.step = "harden", !.doc = Document(read.at.header, read.at.records),
                            !.at = Unread, !.owners = (@ \ {"builder"}) \cup {"document"}]

Hardens == ByPassphrase /\ read.got.strength = 1

Harden ==
    read.step = "harden" /\ Proceed("adopt", TRUE, IF Hardens THEN {"hardened"} ELSE {}, {})

\* Mutant: the second derived key is not handed over.
MutAdopt ==
    read.step = "adopt" /\ Proceed("manifest", TRUE, {"crypto"}, {"derived", "keys"})

\* VaultCryptoState takes the keys over.
Adopt ==
    read.step = "adopt" /\ Proceed("manifest", TRUE, {"crypto"}, {"derived", "keys", "hardened"})

Reading ==
    /\ Capture \/ Envelope \/ Key \/ Unwrap \/ Decrypt \/ Authenticate \/ Validate
       \/ Build \/ Harden \/ Adopt
    /\ UNCHANGED <<disk, live, write, left, count>>

\* An exception at any step.
ReadFails ==
    /\ read.step \in ReadSteps
    /\ Faulty
    /\ Refuse
    /\ write' = [write EXCEPT !.faulty = TRUE]
    /\ UNCHANGED <<disk, live, left>>

\* What an OpenedVault owns.
Aggregate == {"document", "crypto", "snapshot"}

\* The last step of a transaction: the aggregate goes to whoever asked for it.
Deliver == read' = [NoRead EXCEPT !.owners = read.owners \ Aggregate]

\* VaultService.open.
Opened ==
    /\ read.step = "manifest" /\ read.use = "open"
    /\ live' = [doc |-> read.doc, strength |-> read.got.strength, salt |-> read.got.salt,
                hardened |-> Hardens]
    /\ Deliver
    /\ UNCHANGED <<disk, write, left, count>>

\* The finally clauses of _publish_authenticated_snapshot and of open.
CloseOrder == <<"builder", "document", "crypto", "keys", "hardened", "derived", "snapshot">>

\* A close is tried three times and may still leave its owner open.
CloseNext ==
    \E i \in DOMAIN CloseOrder :
      LET owner == CloseOrder[i]
      IN  /\ read.step = "cleanup"
          /\ owner \in read.owners
          /\ \A j \in 1 .. i - 1 : CloseOrder[j] \notin read.owners
          /\ read' = [read EXCEPT !.owners = @ \ {owner}]
          /\ \/ UNCHANGED <<left, count>>
             \/ Faulty /\ left' = [left EXCEPT !.stuck = @ \cup {owner}]
          /\ UNCHANGED <<disk, live, write>>

ReadEnds ==
    /\ read.step = "cleanup"
    /\ ToSet(CloseOrder) \cap read.owners = {}
    /\ read' = [NoRead EXCEPT !.owners = read.owners]
    /\ write' = [write EXCEPT !.step = CASE read.use = "open" -> @
                                        [] read.use \in {"verify", "verifyNew"} -> "cleanup"
                                        [] OTHER -> "abort"]
    /\ UNCHANGED <<disk, live, left, count>>

-----------------------------------------------------------------------------
(* The writer and the service *)

WriteSteps == {"check", "manifest", "keys", "create", "fields", "retain", "reopen", "match",
               "close", "handed"}

Start(kind, doc, strength, salt) ==
    /\ Idle
    /\ count.tasks < MaxTasks
    /\ count' = [count EXCEPT !.tasks = @ + 1]
    /\ write' = [NoWrite EXCEPT !.step = "check", !.kind = kind, !.doc = doc,
                                !.strength = strength, !.salt = salt]
    /\ UNCHANGED <<disk, live, read, left>>

\* VaultService.open, from a path or from a snapshot the caller keeps.
Open ==
    /\ Idle
    /\ live = None
    /\ count.tasks < MaxTasks
    /\ \E lent \in BOOLEAN : (lent => file # None) /\ StartRead("open", lent)
    /\ count' = [count EXCEPT !.tasks = @ + 1]
    /\ UNCHANGED <<disk, live, write, left>>

Save == live # None /\ Start("save", live.doc, SerialStrength(live), live.salt)

\* A fresh salt (_SALT_ATTEMPTS draws) is unlike any other.
FreshSalt == count.tasks + 1

Create == live = None /\ file = None /\ Start("create", NewDocument, 2, FreshSalt)

Export ==
    /\ live # None
    /\ \E version \in 1 .. 2 :
         /\ version = live.doc.version \/ Representable(live.doc, version)
         /\ Start("export",
                  IF version = live.doc.version THEN live.doc ELSE Retargeted(live.doc, version),
                  2, FreshSalt)

Fresh == write.kind # "save"

WriteOn(next, gained) == write' = [write EXCEPT !.step = next, !.owners = @ \cup gained]

GiveUp == write' = [write EXCEPT !.step = "cleanup"]

\* _validate_document.
Check ==
    /\ write.step = "check"
    /\ IF Writable(write.doc) THEN WriteOn("manifest", {}) ELSE GiveUp
    /\ UNCHANGED candidate

WriteManifest == write.step = "manifest" /\ WriteOn("keys", {}) /\ UNCHANGED candidate

NewKeys == write.step = "keys" /\ WriteOn("create", {"keys"}) /\ UNCHANGED candidate

Ours == candidate # None /\ candidate.ours

\* _open_candidate: an empty file of its own.
CreateCandidate ==
    /\ write.step = "create"
    /\ candidate' = [content |-> Content(<<>>, write.strength, write.salt, "torn", count.tasks),
                     ours |-> TRUE]
    /\ WriteOn("fields", {"artifact"})

\* _write_candidate: the descriptor is written, whatever the path has become.
WriteFields ==
    /\ write.step = "fields"
    /\ candidate' = IF Ours /\ candidate.content.id = count.tasks
                    THEN [candidate EXCEPT !.content.wire = Wire(write.doc), !.content.seal = "sound"]
                    ELSE candidate
    /\ WriteOn("retain", {})

\* _retain_candidate_descriptor: as long as it is open no other file gets the identity.
RetainDescriptor ==
    write.step = "retain" /\ WriteOn("reopen", {"descriptor"}) /\ UNCHANGED candidate

Writing ==
    /\ Check \/ WriteManifest \/ NewKeys \/ CreateCandidate \/ WriteFields \/ RetainDescriptor
    /\ UNCHANGED <<file, output, live, read, left, count>>

\* _RetainedCandidateReopener and _FreshCandidateReopener.
Reopen ==
    /\ write.step = "reopen" /\ read.step = "idle"
    /\ StartRead(IF Fresh THEN "verifyNew" ELSE "verify", FALSE)
    /\ UNCHANGED <<disk, live, write, left, count>>

\* The salt and the stretching a fresh candidate must come back with.
AsIntended(content) == ~Fresh \/ (content.salt = write.salt /\ content.strength = write.strength)

\* documents_equal_exact on what came back.
Compare ==
    /\ read.step = "manifest" /\ read.use \in {"verify", "verifyNew"}
    /\ Deliver
    /\ write' = [write EXCEPT !.step = IF AsIntended(read.got) /\ EqualExact(write.doc, read.doc)
                                       THEN "match" ELSE "cleanup",
                              !.verified = read.got,
                              !.owners = @ \cup {"reopened"}]
    /\ UNCHANGED <<disk, live, left, count>>

\* _candidate_matches.
Match ==
    /\ write.step = "match"
    /\ IF Ours /\ candidate.content = write.verified THEN WriteOn("close", {}) ELSE GiveUp

\* reopened.close; then the finally clause: the keys and the descriptor go, the file stays.
CloseReopened ==
    /\ write.step = "close"
    /\ write' = [write EXCEPT !.step = "handed", !.owners = {}]

Finishing ==
    /\ Match \/ CloseReopened
    /\ UNCHANGED <<disk, live, read, left, count>>

WriteFails ==
    /\ write.step \in WriteSteps /\ read.step = "idle"
    /\ Faulty
    /\ write' = [write EXCEPT !.step = IF @ = "handed" THEN "abort" ELSE "cleanup", !.faulty = TRUE]
    /\ UNCHANGED <<disk, live, read, left>>

\* _CandidateArtifact.remove: only the file that was created.
Removed == IF Ours THEN None ELSE candidate

\* The operation raises; what is then at the candidate's path stays there.
EndTask(what, there, stuck) ==
    /\ write' = NoWrite
    /\ candidate' = None
    /\ left' = [files |-> IF there # None /\ there.ours THEN left.files \cup {what} ELSE left.files,
                stuck |-> left.stuck \cup stuck]

\* The finally clause of _write_verified after a failure.
CleanUp ==
    /\ write.step = "cleanup"
    /\ \/ EndTask("partial", Removed, {}) /\ UNCHANGED count
       \/ Faulty /\ EndTask("partial", candidate, {"artifact"})
       \/ Faulty /\ \E owner \in write.owners \cap {"reopened", "keys"} :
                      EndTask("partial", Removed, {owner})
    /\ UNCHANGED <<file, output, live, read>>

\* The service has no candidate to remove: it knows its path only as a result of the writer.
Abort ==
    /\ write.step = "abort"
    /\ EndTask("verified", candidate, {})
    /\ UNCHANGED <<file, output, live, read, count>>

\* create and save read the candidate a second time, to own what they publish.
ReopenAgain ==
    /\ write.step = "handed" /\ write.kind # "export" /\ read.step = "idle"
    /\ StartRead(IF Fresh THEN "adoptNew" ELSE "adopt", FALSE)
    /\ UNCHANGED <<disk, live, write, left, count>>

CompareAgain ==
    /\ read.step = "manifest" /\ read.use \in {"adopt", "adoptNew"}
    /\ Deliver
    /\ write' = [write EXCEPT !.step = IF EqualExact(write.doc, read.doc) THEN "publish" ELSE "abort",
                              !.adopted = read.got]
    /\ UNCHANGED <<disk, live, left, count>>

Publishing == read.step = "idle" /\ write.step = (IF write.kind = "export" THEN "handed" ELSE "publish")

\* Mutant: the store takes what it finds at the candidate's path.
MutAsVerified == candidate # None

\* LocalVaultStore publishes the bytes the writer verified, or nothing.
AsVerified == candidate # None /\ candidate.content = write.verified

\* _finish_save and the session of create: a revision that was not published is not adopted.
Published ==
    /\ Publishing
    /\ AsVerified
    /\ output' = [content |-> candidate.content, doc |-> write.doc]
    /\ file' = IF write.kind = "export" THEN file ELSE candidate.content
    /\ live' = IF write.kind # "export" /\ write.adopted = candidate.content
               THEN [doc |-> write.doc, strength |-> write.strength, salt |-> write.salt,
                     hardened |-> FALSE]
               ELSE live
    /\ candidate' = None
    /\ write' = NoWrite
    /\ UNCHANGED <<read, left, count>>

\* The store refuses or fails; it removes the candidate it looked at.
PublishFails ==
    /\ Publishing
    /\ \/ ~AsVerified /\ UNCHANGED count
       \/ Faulty
    /\ candidate' = None
    /\ write' = NoWrite
    /\ UNCHANGED <<file, output, live, read, left>>

\* Another program: the candidate is removed, replaced or overwritten.
Meddle ==
    /\ candidate # None
    /\ Faulty
    /\ \/ candidate' = None
       \/ file # None /\ \E ours \in {FALSE, candidate.ours} :
                             candidate' = [content |-> file, ours |-> ours]
       \/ candidate' = [candidate EXCEPT !.content.seal = "forged", !.content.id = 0]
    /\ write' = [write EXCEPT !.faulty = TRUE]
    /\ UNCHANGED <<file, output, live, read, left>>

-----------------------------------------------------------------------------
(* The edits of a session *)

Frozen == write.step # "idle" /\ write.kind = "save"

\* _commit: the next revision of the document.
Commit(plan, moved) ==
    /\ count.edits < MaxEdits /\ count.edits + count.faults < MaxEvents
    /\ count' = [count EXCEPT !.edits = @ + 1, !.moves = @ + moved]
    /\ live' = [live EXCEPT !.doc = Fork(@, plan)]
    /\ UNCHANGED <<disk, read, write, left>>

Positions(planned, type) ==
    {i \in DOMAIN planned.fields : planned.fields[i].field.type = type}

\* Mutant: a patch leaves out the fields the tables do not know.
MutPatched(planned, type, new) ==
    [planned EXCEPT !.fields =
       Kept([i \in DOMAIN @ |-> IF @[i].field.type = type THEN new ELSE @[i]],
            {i \in DOMAIN @ : @[i].field.class # "unknown"})]

\* _edited_fields: the replacement takes the place of the field.
Patched(planned, type, new) ==
    [planned EXCEPT !.fields = [i \in DOMAIN @ |-> IF @[i].field.type = type THEN new ELSE @[i]]]

\* _insert_before_end.
Inserted(planned, new) ==
    LET end == SelectInSeq(planned.fields, LAMBDA f : f.field.type = "end")
    IN  [planned EXCEPT !.fields = InsertAt(@, end, new)]

Without(planned, type) ==
    [planned EXCEPT !.fields = Kept(@, DOMAIN @ \ Positions(planned, type))]

With(planned, type, payload) ==
    IF Positions(planned, type) = {} THEN Inserted(planned, NewField(type, payload))
    ELSE Patched(planned, type, NewField(type, payload))

\* A field that occurs twice cannot be told from its double.
Unambiguous(planned, type) == Cardinality(Positions(planned, type)) <= 1

\* _is_protected looks at the first mark only.
IsProtected(fields) ==
    LET first == SelectInSeq(fields, LAMBDA f : f.type = "protected")
    IN  first # 0 /\ fields[first].payload = "sound"

Known(type) == RecordSchema[type].since <= live.doc.version

\* apply with one edit; _encode_edit refuses what the tables do not let a client set.
Apply(r) ==
    LET planned == Planned(live.doc, r)
        Becomes(new) == Commit([Plan(live.doc) EXCEPT ![r] = new], 0)
    IN  /\ ~IsProtected(live.doc.records[r].fields)
        /\ \E type \in DOMAIN RecordSchema :
             /\ RecordSchema[type].editable /\ RecordSchema[type].kind = "text"
             /\ Unambiguous(planned, type)
             /\ \/ \E payload \in {"other", "empty"} :
                     /\ Known(type)
                     /\ Mandatory(RecordSchema[type]) => payload # "empty"
                     /\ Becomes(With(planned, type, payload))
                \/ /\ ~Mandatory(RecordSchema[type])
                   /\ Positions(planned, type) # {}
                   /\ Becomes(Without(planned, type))

Protect(r) ==
    LET planned == Planned(live.doc, r)
        Becomes(new) == Commit([Plan(live.doc) EXCEPT ![r] = new], 0)
    IN  /\ Unambiguous(planned, "protected")
        /\ \/ /\ ~IsProtected(live.doc.records[r].fields)
              /\ Known("protected")
              /\ Becomes(With(planned, "protected", "sound"))
           \/ /\ IsProtected(live.doc.records[r].fields)
              /\ Becomes(Without(planned, "protected"))

Delete(r) ==
    /\ ~IsProtected(live.doc.records[r].fields)
    /\ Commit(RemoveAt(Plan(live.doc), r), 0)

Move(r) ==
    \E to \in DOMAIN live.doc.records \ {r} :
      /\ count.moves < MaxMoves
      /\ Commit(InsertAt(RemoveAt(Plan(live.doc), r), to, Planned(live.doc, r)), 1)

\* _new_record_fields: an optional text that is empty is left out.
Add ==
    LET fresh == 1 + Max({0} \cup {live.doc.records[r].handle : r \in DOMAIN live.doc.records})
        new(type) == NewField(type, "sound")
    IN  \E user \in BOOLEAN :
          Commit(Append(Plan(live.doc),
                        [handle |-> fresh,
                         fields |-> <<new("uuid"), new("title")>>
                                    \o (IF user THEN <<new("username")>> ELSE <<>>)
                                    \o <<new("password"), NewField("end", "empty")>>]), 0)

Edit ==
    /\ live # None /\ ~Frozen
    /\ \/ Add
       \/ \E r \in DOMAIN live.doc.records : Apply(r) \/ Protect(r) \/ Delete(r) \/ Move(r)

Next ==
    \/ Open \/ Save \/ Create \/ Export
    \/ Reading \/ ReadFails \/ Opened \/ CloseNext \/ ReadEnds
    \/ Writing \/ Reopen \/ Compare \/ Finishing \/ WriteFails \/ CleanUp \/ Abort
    \/ ReopenAgain \/ CompareAgain \/ Published \/ PublishFails
    \/ Meddle
    \/ Edit

Spec == Init /\ [][Next]_vars

-----------------------------------------------------------------------------
(* Properties *)

ReadOwners == ToSet(CloseOrder)
WriteOwners == {"keys", "artifact", "descriptor", "reopened"}

ReadUses == {"open", "verify", "verifyNew", "adopt", "adoptNew"}

TypeOK ==
    /\ file \in Contents \cup {None}
    /\ live \in Sessions \cup {None}
    /\ read \in [step : ReadSteps \cup {"idle", "cleanup"}, use : ReadUses, lent : BOOLEAN,
                 owners : SUBSET ReadOwners, got : Contents \cup {None}, at : Progress,
                 doc : Documents \cup {None}]
    /\ write \in [step : WriteSteps \cup {"idle", "publish", "cleanup", "abort"},
                  kind : {"save", "create", "export"}, doc : Documents \cup {None},
                  strength : 1 .. 2, salt : Nat, owners : SUBSET WriteOwners,
                  verified : Contents \cup {None}, adopted : Contents \cup {None}, faulty : BOOLEAN]
    /\ candidate \in Candidates \cup {None}
    /\ output \in [content : Contents, doc : Documents] \cup {None}
    /\ left \in [files : SUBSET {"partial", "verified"}, stuck : SUBSET (ReadOwners \cup WriteOwners)]
    /\ count \in [edits : Nat, moves : Nat, tasks : Nat, faults : Nat]

\* What a session says of its fields - their classes and the preservation warnings - is what
\* the reader would say of them, whatever was edited (_fork_document, _remap_warnings), and so
\* a document within the limits can be written.  The order of the warnings is exempt after a
\* reordering: the session keeps the old one (session.py 406-408), and the reader's comparison
\* refuses the revision (reader.py 1281).
EvidenceIsExact ==
    live # None =>
      LET header == Bare(live.doc.header)
          bare == BareRecords(live.doc)
      IN  /\ live.doc.header = Classified(0, header)
          /\ \A r \in DOMAIN bare : live.doc.records[r].fields = Classified(r, bare[r])
          /\ ToSet(live.doc.warnings) = ToSet(Warnings(header, bare))
          /\ Len(live.doc.warnings) = Len(Warnings(header, bare))
          /\ Conforms(header, bare)
          /\ count.moves = 0 /\ WithinLimits(live.doc) => Writable(live.doc)

\* An edit changes the fields of one type in one record, adds a record or removes one: every
\* other field of every record keeps its bytes and its place among them (_edited_fields).
FieldsOf(doc, handle) ==
    LET r == SelectInSeq(doc.records, LAMBDA record : record.handle = handle)
    IN  IF r = 0 THEN <<>> ELSE Bare(doc.records[r].fields)

Handles(doc) == {doc.records[r].handle : r \in DOMAIN doc.records}

Except(fields, type) == Kept(fields, {i \in DOMAIN fields : fields[i].type # type})

OtherFieldsKept ==
    [][live # None /\ live' # None =>
         /\ live'.doc.header = live.doc.header
         /\ \E edited \in Handles(live.doc) \cup {0}, type \in DOMAIN RecordSchema :
              \A handle \in Handles(live.doc) \cap Handles(live'.doc) :
                IF handle = edited
                THEN Except(FieldsOf(live'.doc, handle), type) = Except(FieldsOf(live.doc, handle), type)
                ELSE FieldsOf(live'.doc, handle) = FieldsOf(live.doc, handle)]_vars

\* What the writer agrees to write the reader reads back as the same document: without a fault
\* or an interference no attempt is given up after its first check.
WriterAgreesWithReader ==
    write.step \in {"cleanup", "abort"} /\ ~write.faulty => ~Writable(write.doc)

\* Whatever other programs do to the candidate, what is published authenticates, reads back as
\* the revision that was asked for, and is stretched no weaker than the file it replaces.
PublishedIsTheRevision ==
    [][output' # output =>
         LET at == Parsed(output'.content.wire)
         IN  /\ output'.content.seal = "sound" /\ ~at.failed
             /\ EqualExact(output'.doc, Document(at.header, at.records))
             /\ output'.content.strength >= IF file = None THEN 2 ELSE file.strength
             /\ write.kind = "export" => output'.content.salt # live.salt]_vars

\* A transaction that fails or succeeds leaves nothing open and no file behind but what a
\* failing close or removal left; payloads go before the keys and the snapshot they borrow.
NothingIsLeft ==
    /\ TypeOK
    /\ read.step = "idle" => read.owners = {}
    /\ write.step = "idle" => write.owners = {}
    /\ "partial" \in left.files => "artifact" \in left.stuck
    /\ read.owners \cap {"builder", "document"} # {} =>
         /\ read.lent \/ "snapshot" \in read.owners
         /\ {"keys", "crypto"} \cap read.owners # {}

-----------------------------------------------------------------------------
(* The inductive invariant *)

\* What the reader makes of a file, and when it accepts it.
ReadBack(content) ==
    LET at == Parsed(content.wire)
    IN  Document(at.header, at.records)

Readable(content) ==
    LET at == Parsed(content.wire)
    IN  content.seal = "sound" /\ ~at.failed /\ Conforms(at.header, at.records)

\* What a reader has made sure of when it gets to a step.
AfterKey == {"unwrap", "decrypt", "authenticate", "validate", "build", "harden", "adopt", "manifest"}

ReadInv ==
    /\ IF read.step = "capture" THEN ~read.lent ELSE read.step \in ReadSteps => read.got # None
    /\ read.step \in {"authenticate", "validate", "build"} =>
         read.at = Parsed(read.got.wire) /\ ~read.at.failed
    /\ read.step \in {"validate", "build"} => read.got.seal = "sound"
    /\ read.step = "build" => Conforms(read.at.header, read.at.records)
    /\ read.step \in {"harden", "adopt", "manifest"} =>
         Readable(read.got) /\ read.doc = ReadBack(read.got)

\* What it has open then.
OwnersInv ==
    LET snapshot == IF read.lent THEN {} ELSE {"snapshot"}
        keys == snapshot \cup {"derived", "keys"}
    IN  /\ read.step \in {"idle", "capture"} => read.owners = {}
        /\ read.step \in {"envelope", "key"} => read.owners = snapshot
        /\ read.step = "unwrap" => read.owners = snapshot \cup {"derived"}
        /\ read.step = "decrypt" => read.owners = keys
        /\ read.step \in {"authenticate", "validate", "build"} => read.owners = keys \cup {"builder"}
        /\ read.step = "harden" => read.owners = keys \cup {"document"}
        /\ read.step = "adopt" => read.owners \ {"hardened"} = keys \cup {"document"}
        /\ read.step = "manifest" => read.owners = snapshot \cup {"document", "crypto"}

\* For whom it reads.
PurposeInv ==
    read.step # "idle" =>
      /\ read.use = "open" => /\ write.step = "idle" /\ live = None
                              /\ read.got # None => read.got = file
      /\ read.use \in {"verify", "verifyNew"} => write.step = "reopen"
      /\ read.use \in {"adopt", "adoptNew"} => write.step = "handed" /\ write.kind # "export"
      /\ read.use \in {"verify", "adopt"} => ~Fresh /\ (read.step \in AfterKey => Fits(read.got))
      /\ read.use \in {"verifyNew", "adoptNew"} => Fresh

SessionInv ==
    /\ file # None => file.salt <= count.tasks
    /\ live # None => /\ file # None /\ live.salt <= count.tasks
                      /\ live.strength = 2 \/ live.hardened

\* A document as the reader would hand it out, but for the order of its warnings.
Faithful(doc) ==
    LET header == Bare(doc.header)
        bare == BareRecords(doc)
    IN  /\ doc.header = Classified(0, header)
        /\ \A r \in DOMAIN bare : doc.records[r].fields = Classified(r, bare[r])
        /\ Conforms(header, bare) /\ doc.version = Level[header[1].payload]
        /\ ToSet(doc.warnings) = ToSet(Warnings(header, bare))
        /\ \A i, j \in DOMAIN doc.warnings : doc.warnings[i] = doc.warnings[j] => i = j
        /\ \A r \in DOMAIN doc.records : doc.records[r].handle # 0
        /\ \A r, s \in DOMAIN doc.records : doc.records[r].handle = doc.records[s].handle => r = s

InOrder(doc) == doc.warnings = Warnings(Bare(doc.header), BareRecords(doc))

DocumentInv == live # None => Faithful(live.doc) /\ (count.moves = 0 => InOrder(live.doc))

\* What a service operation writes, and what it has verified when it gets to a step.
TaskInv ==
    write.step # "idle" =>
      /\ write.doc # None /\ write.strength = 2
      /\ write.kind = "save" => live # None /\ write.doc = live.doc /\ write.salt = live.salt
      /\ write.kind = "create" => live = None /\ file = None /\ write.doc = NewDocument
      /\ write.kind = "export" => live # None /\ live.salt < count.tasks /\ write.step # "publish"
      /\ Fresh => write.salt = count.tasks

VerifiedInv ==
    write.step \in {"match", "close", "handed", "publish"} =>
      /\ write.verified # None /\ Readable(write.verified) /\ AsIntended(write.verified)
      /\ ~Fresh => Fits(write.verified)
      /\ EqualExact(write.doc, ReadBack(write.verified))

\* The candidate as the writer leaves it.
Made(wire, seal) ==
    [content |-> Content(wire, write.strength, write.salt, seal, count.tasks), ours |-> TRUE]

UndisturbedInv ==
    ~write.faulty =>
      /\ write.step # "abort"
      /\ write.step = "cleanup" => ~Writable(write.doc)
      /\ write.step \notin {"idle", "check", "cleanup"} => Writable(write.doc)
      /\ write.step = "fields" => candidate = Made(<<>>, "torn")
      /\ write.step \in {"retain", "reopen", "match", "close", "handed", "publish"} =>
           candidate = Made(Wire(write.doc), "sound")
      /\ write.step \in {"match", "close", "handed", "publish"} => write.verified = candidate.content
      /\ read.step \notin {"idle", "capture"} /\ read.use # "open" =>
           read.step # "cleanup" /\ read.got = candidate.content

CodecInv ==
    /\ NothingIsLeft
    /\ ReadInv /\ OwnersInv /\ PurposeInv
    /\ SessionInv /\ DocumentInv /\ TaskInv /\ VerifiedInv /\ UndisturbedInv

=============================================================================
