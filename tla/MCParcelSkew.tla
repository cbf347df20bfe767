---- MODULE MCParcelSkew ----
\* Four releases: 0.1.1.0 appends fields to both parcelables of 0.1.0.0 and an
\* arm to the union; 0.2.0.0 reorders them; 9.0.0.0 stands for the server of
\* another interface.
EXTENDS ParcelSkew

F(shape, of) == [shape |-> shape, of |-> of]
W == F("word", "none")

MCReleases == {1000, 1010, 2000, 900000}
MCDescriptor == [r \in MCReleases |-> IF r = 900000 THEN "other" ELSE "hal"]
MCParcelables == {"Status", "Part"}
MCUnions == {"Value"}
MCVariants == {"number", "parts"}
MCHolds == [number |-> W, parts |-> F("list", "Part")]

Of(old, minor, major) ==
    [r \in MCReleases |-> CASE r = 1010 -> minor [] r = 2000 -> major
                            [] OTHER -> old]

MCLayout ==
    [Status |-> Of(<<F("part", "Part"), F("maybe", "Value")>>,
                   <<F("part", "Part"), F("maybe", "Value"), W>>,
                   <<F("part", "Value"), F("maybe", "Part")>>),
     Part   |-> Of(<<W>>, <<W, W>>, <<W>>)]
MCArms == [Value |-> Of(<<"number">>, <<"number", "parts">>, <<"parts", "number">>)]
MCRequest == <<F("maybe", "Status"), W>>
MCReply == <<F("list", "Part"), F("part", "Status")>>

\* 0.1.1.0 as the audit lets it out: a field of an imported parcelable is
\* inserted before the others, and the importing one stays as it was.
ImportedLayout ==
    [Status |-> [r \in MCReleases |-> <<F("part", "Part"), W>>],
     Part   |-> Of(<<W>>, <<F("maybe", "Value"), W>>, <<W>>)]
OneArm == [Value |-> [r \in MCReleases |-> <<"number">>]]
====
