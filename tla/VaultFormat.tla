------------------------------ MODULE VaultFormat ------------------------------
(***************************************************************************)
(* What a PasswordSafe V3 file says and which documents are legal          *)
(* (passwordsafe/schema.py, the validation half of reader.py, the layout   *)
(* half of writer.py, the forks of session.py).  Everything here is an     *)
(* operator; VaultCodec gives them a state to work on.                     *)
(*                                                                         *)
(* A field is a type and a payload.  One type stands for each class of the *)
(* official tables that some rule tells apart, and a payload is one of     *)
(* "sound" and "other" (both decode, to different values; for the          *)
(* protection mark to nonzero and to zero), "empty", and "broken" (bytes   *)
(* that do not decode).  The payload of a version field names its level,   *)
(* which may be one this program does not support ("future").              *)
(*                                                                         *)
(* An operator named Mut... is a faulty variant of the definition after    *)
(* it; nothing uses it but the sensitivity runs of the project manifest.   *)
(***************************************************************************)
EXTENDS Naturals, SequencesExt

CONSTANTS
    MaxRecords, \* ResourceLimits.max_records
    MaxFields,  \* ResourceLimits.max_fields
    MaxText,    \* ResourceLimits.max_decoded_text_bytes, a sound text being one byte
    Strange,    \* the types a file may hold that the tables do not know
    None        \* Python's None

ASSUME VaultFormatAssumption ==
    /\ {MaxRecords, MaxFields, MaxText} \subseteq Nat \ {0}
    /\ None \notin Nat \cup (Nat \X Nat)

-----------------------------------------------------------------------------
(* The schema *)

FieldSpec(kind, since, single, role, editable) ==
    [kind |-> kind, since |-> since, single |-> single, role |-> role, editable |-> editable]

\* FormatVersion: "old" and "current" stand for the levels 0x0300 .. 0x0311.
Level == [old |-> 1, current |-> 2]

Supported(payload) == payload \in DOMAIN Level

HeaderSchema ==
    [version |-> FieldSpec("uint", 1, TRUE, "required", FALSE),
     name    |-> FieldSpec("text", 1, TRUE, "optional", TRUE),
     groups  |-> FieldSpec("text", 2, FALSE, "optional", TRUE),
     end     |-> FieldSpec("empty", 1, TRUE, "terminator", FALSE)]

RecordSchema ==
    [uuid      |-> FieldSpec("uuid", 1, TRUE, "required", FALSE),
     title     |-> FieldSpec("text", 1, TRUE, "required", TRUE),
     password  |-> FieldSpec("text", 1, TRUE, "required", TRUE),
     username  |-> FieldSpec("text", 1, TRUE, "optional", TRUE),
     email     |-> FieldSpec("text", 2, TRUE, "optional", TRUE),
     protected |-> FieldSpec("uint", 2, TRUE, "optional", TRUE),
     media     |-> FieldSpec("opaque", 2, TRUE, "attachment", FALSE),
     filename  |-> FieldSpec("opaque", 2, TRUE, "optional", FALSE),
     passkey   |-> FieldSpec("opaque", 2, TRUE, "passkey", FALSE),
     origin    |-> FieldSpec("opaque", 2, TRUE, "passkey", FALSE),
     end       |-> FieldSpec("empty", 1, TRUE, "terminator", FALSE)]

\* The attachment and the passkey group: any of the first needs all of the second.
Groups == {[any |-> {"media", "filename"}, all |-> {"media"}],
           [any |-> {"passkey", "origin"}, all |-> {"passkey", "origin"}]}

ASSUME VaultSchemaAssumption ==
    /\ \A type \in DOMAIN HeaderSchema : HeaderSchema[type] # None
    /\ \A type \in DOMAIN RecordSchema : RecordSchema[type] # None

\* _field_spec: a type the tables do not know is not an error.
SpecOf(section, type) ==
    LET schema == IF section = 0 THEN HeaderSchema ELSE RecordSchema
    IN  IF type \in DOMAIN schema THEN schema[type] ELSE None

Mandatory(spec) == spec.role # "optional"

Length(payload) == IF payload = "empty" THEN 0 ELSE 1

\* _length_is_malformed and _decode_materialized.
Malformed(spec, payload) ==
    \/ spec.kind = "empty" /\ payload # "empty"
    \/ spec.kind \in {"uint", "uuid"} /\ payload = "empty"
    \/ spec.role \in {"required", "attachment", "passkey"} /\ payload = "empty"
    \/ spec.kind \notin {"opaque", "empty"} /\ payload = "broken"

Class(section, field) ==
    LET spec == SpecOf(section, field.type)
    IN  IF spec = None THEN "unknown"
        ELSE IF Malformed(spec, field.payload) THEN "malformed" ELSE "understood"

-----------------------------------------------------------------------------
(* The rules for sections: section 0 is the header, r > 0 the r-th record *)

TypesOf(fields) == {fields[i].type : i \in DOMAIN fields}
Count(fields, type) == Cardinality({i \in DOMAIN fields : fields[i].type = type})
Repeats(fields, i) == \E j \in 1 .. i - 1 : fields[j].type = fields[i].type

Warning(code, section, field) == [code |-> code, section |-> section, field |-> field]

\* The warnings of one field, in the order _validate_field_sequence appends them.
FieldWarnings(section, fields, i) ==
    LET spec == SpecOf(section, fields[i].type)
        when(code, condition) == IF condition THEN <<Warning(code, section, i)>> ELSE <<>>
    IN  IF spec = None THEN <<Warning("unknown", section, i)>>
        ELSE when("duplicate", spec.single /\ Repeats(fields, i))
             \o when("malformed", Malformed(spec, fields[i].payload))

SectionWarnings(section, fields) ==
    FlattenSeq([i \in DOMAIN fields |-> FieldWarnings(section, fields, i)])

\* What _validate_schema_fields collects: header first, then the records in order.
Warnings(header, records) ==
    SectionWarnings(0, header)
    \o FlattenSeq([r \in DOMAIN records |-> SectionWarnings(r, records[r])])

\* The fields _validate_field_sequence refuses.
Refused(section, fields, i, version) ==
    LET spec == SpecOf(section, fields[i].type)
    IN  /\ spec # None
        /\ \/ spec.since > version
           \/ spec.single /\ Mandatory(spec) /\ Repeats(fields, i)
           \/ Mandatory(spec) /\ Malformed(spec, fields[i].payload)

SectionConforms(section, fields, version) ==
    /\ fields # <<>>
    /\ Last(fields).type = "end"
    /\ \A i \in DOMAIN fields : ~Refused(section, fields, i, version)

VersionConforms(header) ==
    /\ header # <<>>
    /\ header[1].type = "version"
    /\ Count(header, "version") = 1
    /\ Supported(header[1].payload)

RecordConforms(r, fields, version) ==
    /\ SectionConforms(r, fields, version)
    /\ \A type \in {"uuid", "title", "password"} : Count(fields, type) = 1
    /\ \A group \in Groups :
         TypesOf(fields) \cap group.any # {} => group.all \subseteq TypesOf(fields)

TextOf(section, fields) ==
    FoldLeft(LAMBDA total, field :
               LET spec == SpecOf(section, field.type)
               IN  IF spec # None /\ spec.kind = "text" THEN total + Length(field.payload)
                   ELSE total,
             0, fields)

\* The budget for decoded text, spent over the whole document.
TextFits(header, records) ==
    TextOf(0, header)
    + FoldLeft(LAMBDA total, r : total + r, 0, [r \in DOMAIN records |-> TextOf(r, records[r])])
    <= MaxText

Conforms(header, records) ==
    /\ VersionConforms(header)
    /\ SectionConforms(0, header, Level[header[1].payload])
    /\ \A r \in DOMAIN records : RecordConforms(r, records[r], Level[header[1].payload])

-----------------------------------------------------------------------------
(* Documents *)

FieldCount(header, records) == Len(header) + Len(FlattenSeq(records))

Bare(fields) == [i \in DOMAIN fields |-> [type |-> fields[i].type, payload |-> fields[i].payload]]
BareRecords(doc) == [r \in DOMAIN doc.records |-> Bare(doc.records[r].fields)]

Classified(section, fields) ==
    [i \in DOMAIN fields |-> [type |-> fields[i].type, payload |-> fields[i].payload,
                              class |-> Class(section, fields[i])]]

\* _QuarantinedBuilder.build: records get fresh handles.
Document(header, records) ==
    [version  |-> Level[header[1].payload],
     header   |-> Classified(0, header),
     records  |-> [r \in DOMAIN records |-> [handle |-> r, fields |-> Classified(r, records[r])]],
     warnings |-> Warnings(header, records)]

\* validate_document_for_serialization: the limits.
WithinLimits(doc) ==
    /\ Len(doc.records) <= MaxRecords
    /\ FieldCount(doc.header, BareRecords(doc)) <= MaxFields
    /\ TextFits(Bare(doc.header), BareRecords(doc))

\* validate_document_for_serialization: the rest, evidence included.
EvidenceAgrees(doc) ==
    /\ doc.header = Classified(0, Bare(doc.header))
    /\ \A r \in DOMAIN doc.records :
         doc.records[r].fields = Classified(r, Bare(doc.records[r].fields))
    /\ doc.warnings = Warnings(Bare(doc.header), BareRecords(doc))

Writable(doc) ==
    /\ WithinLimits(doc)
    /\ Conforms(Bare(doc.header), BareRecords(doc))
    /\ Level[doc.header[1].payload] = doc.version
    /\ EvidenceAgrees(doc)

\* _field_sequences_equal; PayloadCompare says what comparing two payloads means.
SameFields(a, b) ==
    /\ Len(a) = Len(b)
    /\ \A i \in DOMAIN a : /\ a[i].type = b[i].type
                           /\ a[i].class = b[i].class
                           /\ a[i].payload = b[i].payload

\* documents_equal_exact: handles and revisions are not compared.
EqualExact(a, b) ==
    /\ a.version = b.version /\ a.warnings = b.warnings
    /\ SameFields(a.header, b.header)
    /\ Len(a.records) = Len(b.records)
    /\ \A r \in DOMAIN a.records : SameFields(a.records[r].fields, b.records[r].fields)

-----------------------------------------------------------------------------
(* The file *)

\* _iter_document_fields: one flat sequence of frames.
Wire(doc) == Bare(doc.header) \o FlattenSeq(BareRecords(doc))

Unread == [header |-> <<>>, records |-> <<>>, inHeader |-> TRUE, ended |-> 0, failed |-> FALSE]

\* The builder's field count; every frame read so far is in it.
FramesRead(at) == Len(at.header) + Len(FlattenSeq(at.records))

\* After the end of a record a frame begins the next one.
Continued(at, frame) ==
    IF at.ended = Len(at.records) THEN Append(at.records, <<frame>>)
    ELSE [at.records EXCEPT ![Len(at.records)] = Append(@, frame)]

\* Mutant: the record limit stops at the last legal record.
MutFrame(at, frame) ==
    IF \/ at.failed
       \/ ~at.inHeader /\ at.ended + 1 >= MaxRecords
       \/ FramesRead(at) + 1 > MaxFields
       \/ frame.type = "end" /\ frame.payload # "empty"
    THEN [at EXCEPT !.failed = TRUE]
    ELSE IF at.inHeader
    THEN [at EXCEPT !.header = Append(@, frame), !.inHeader = frame.type # "end"]
    ELSE [at EXCEPT !.records = Continued(at, frame),
                    !.ended = IF frame.type = "end" THEN @ + 1 ELSE @]

\* One turn of the loop of _decrypt_fields.
Frame(at, frame) ==
    IF \/ at.failed
       \/ ~at.inHeader /\ at.ended >= MaxRecords
       \/ FramesRead(at) + 1 > MaxFields
       \/ frame.type = "end" /\ frame.payload # "empty"
    THEN [at EXCEPT !.failed = TRUE]
    ELSE IF at.inHeader
    THEN [at EXCEPT !.header = Append(@, frame), !.inHeader = frame.type # "end"]
    ELSE [at EXCEPT !.records = Continued(at, frame),
                    !.ended = IF frame.type = "end" THEN @ + 1 ELSE @]

\* _decrypt_fields: the builder's sections, or a failure.
Parsed(wire) ==
    LET at == FoldLeft(Frame, Unread, wire)
        complete == ~at.inHeader /\ at.ended = Len(at.records)
    IN  [at EXCEPT !.failed = @ \/ ~complete]

-----------------------------------------------------------------------------
(* Copy-on-write forks *)

\* A record about to be forked: every field remembers where it was, a new one None.
Planned(doc, r) ==
    [handle |-> doc.records[r].handle,
     fields |-> [i \in DOMAIN doc.records[r].fields |->
                   [field |-> doc.records[r].fields[i], from |-> <<r, i>>]]]

Plan(doc) == [r \in DOMAIN doc.records |-> Planned(doc, r)]

\* The elements of a sequence at some of its places, in their order.
Kept(s, places) == FlattenSeq([i \in DOMAIN s |-> IF i \in places THEN <<s[i]>> ELSE <<>>])

NewField(type, payload) ==
    [field |-> [type |-> type, payload |-> payload, class |-> "understood"], from |-> None]

\* Where a planned sequence of records leaves the field that was at an old place.
Location(plan, old) ==
    {new \in UNION {{<<r, i>> : i \in DOMAIN plan[r].fields} : r \in DOMAIN plan} :
       plan[new[1]].fields[new[2]].from = old}

\* Mutant: the warning of a replaced field stays at the field's place.
MutRemapped(warnings, plan) ==
    LET place(w) == Location(plan, <<w.section, w.field>>)
        moved(w) == IF w.section = 0 \/ place(w) = {} THEN w
                    ELSE LET new == CHOOSE p \in place(w) : TRUE
                         IN  Warning(w.code, new[1], new[2])
    IN  [k \in DOMAIN warnings |-> moved(warnings[k])]

\* _remap_warnings: header warnings stay, those of surviving fields follow them.
Remapped(warnings, plan) ==
    LET place(w) == Location(plan, <<w.section, w.field>>)
        moved(w) == IF w.section = 0 THEN <<w>>
                    ELSE IF place(w) = {} THEN <<>>
                    ELSE LET new == CHOOSE p \in place(w) : TRUE
                         IN  <<Warning(w.code, new[1], new[2])>>
    IN  FlattenSeq([k \in DOMAIN warnings |-> moved(warnings[k])])

\* _fork_document: ordinals are the new positions.
Fork(doc, plan) ==
    [doc EXCEPT
       !.records = [r \in DOMAIN plan |->
                      [handle |-> plan[r].handle,
                       fields |-> [i \in DOMAIN plan[r].fields |-> plan[r].fields[i].field]]],
       !.warnings = Remapped(doc.warnings, plan)]

-----------------------------------------------------------------------------
(* Whole documents *)

\* _new_document: an empty vault at the current level.
NewDocument ==
    Document(<<[type |-> "version", payload |-> "current"], [type |-> "end", payload |-> "empty"]>>, <<>>)

\* ensure_fields_representable: an older level may hold no field it does not know.
Representable(doc, version) ==
    LET fits(section, fields) ==
          \A type \in TypesOf(fields) :
            SpecOf(section, type) # None /\ SpecOf(section, type).since <= version
    IN  /\ fits(0, doc.header)
        /\ \A r \in DOMAIN doc.records : fits(r, doc.records[r].fields)

\* _retarget_document: every version field is rewritten, the rest is shared.
Retargeted(doc, version) ==
    LET name == CHOOSE payload \in DOMAIN Level : Level[payload] = version
        at(field) == IF field.type = "version" THEN [field EXCEPT !.payload = name] ELSE field
    IN  [doc EXCEPT !.version = version, !.header = [i \in DOMAIN @ |-> at(@[i])]]

-----------------------------------------------------------------------------
(* Shapes: what kind of value each of these is *)

Types == DOMAIN HeaderSchema \cup DOMAIN RecordSchema \cup Strange
Payloads == {"sound", "other", "empty", "broken", "old", "current", "future"}

Frames == [type : Types, payload : Payloads]
Fields == [type : Types, payload : Payloads, class : {"unknown", "malformed", "understood"}]
Records == [handle : Nat, fields : Seq(Fields)]
PlannedFields == [field : Fields, from : {None} \cup (Nat \X Nat)]
PlannedRecords == [handle : Nat, fields : Seq(PlannedFields)]
Alerts == [code : {"unknown", "duplicate", "malformed"}, section : Nat, field : Nat]

Documents ==
    [version : 1 .. 2, header : Seq(Fields), records : Seq(Records), warnings : Seq(Alerts)]

Progress ==
    [header : Seq(Frames), records : Seq(Seq(Frames)), inHeader : BOOLEAN, ended : Nat,
     failed : BOOLEAN]
=============================================================================
