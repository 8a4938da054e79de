------------------------------ MODULE MCVaultCodec -----------------------------
EXTENDS VaultCodec, PayloadCompare

\* The fields of a section, by type; one of them may carry a payload of its own.
Field(type, payload) == [type |-> type, payload |-> payload]
Sound(types) == [i \in DOMAIN types |-> Field(types[i], "sound")]
End == <<Field("end", "empty")>>

Current == <<Field("version", "current")>> \o End
Old == <<Field("version", "old")>> \o End
Odd == <<Field("version", "current"), Field("strange", "sound"), Field("name", "broken")>> \o End
Future == <<Field("version", "future")>> \o End

Plain == Sound(<<"uuid", "title", "password">>) \o End
Marked == Sound(<<"uuid", "strange", "title", "password", "protected">>) \o End
Doubled == Sound(<<"uuid", "title", "username", "username", "password">>) \o End
Broken == Sound(<<"uuid", "title">>) \o <<Field("username", "broken")>> \o Sound(<<"password">>) \o End
Passkey == Sound(<<"uuid", "title", "password", "passkey", "origin">>) \o End
HalfPasskey == Sound(<<"uuid", "title", "password", "origin">>) \o End
Untitled == Sound(<<"uuid", "password">>) \o End
Unended == Sound(<<"uuid", "title", "password">>)

File(header, records, strength, seal) ==
    [header |-> header, records |-> records, strength |-> strength, seal |-> seal]

MCSources ==
    {File(Old, <<Plain>>, 1, "sound"), File(Odd, <<Broken, Plain>>, 2, "sound"),
     File(Current, <<Marked, Doubled>>, 1, "sound"), File(Current, <<Passkey>>, 2, "sound"),
     File(Future, <<>>, 2, "sound"), File(Old, <<Passkey>>, 2, "sound"),
     File(Current, <<HalfPasskey>>, 1, "sound"), File(Current, <<Untitled>>, 2, "sound"),
     File(Current, <<Unended>>, 2, "sound"), File(Current, <<Plain, Plain, Plain, Plain>>, 2, "sound"),
     File(Current, <<Plain>>, 2, "forged"), File(Current, <<>>, 2, "torn")}

\* documents_equal_exact may take two streams for equal exactly when they are.
ASSUME CompareAssumption == ComparesExactly({0, 1}, 2, 2, 4)
=============================================================================
