--------------------------- MODULE ReleaseVersion ---------------------------
(***************************************************************************)
(* The version arithmetic of scripts/release.sh: the class of a change, the *)
(* release that follows another by a class, the order of releases, and the *)
(* int32 that a snapshot bakes into getInterfaceVersion().  Pure operators. *)
(*                                                                         *)
(* A release is written X.Y.Z.W in the script: era, major ("generation"),   *)
(* minor and doc ("patch").                                                 *)
(***************************************************************************)
EXTENDS HalCompat

\* A change class, ordered by severity; 0 is the script's "none".
None       == 0
Patch      == 1
Minor_     == 2
Generation == 3
Classes    == None .. Generation

Release(e, g, m, d) == [era |-> e, major |-> g, minor |-> m, doc |-> d]

Releases == [era : Nat, major : Nat, minor : Nat, doc : Nat]

\* Where a component with no released and no pre-staged version starts.
Seed == Release(0, 1, 0, 0)

\* sort -V on two releases.
Before(u, v) ==
    \/ u.era < v.era
    \/ u.era = v.era /\ u.major < v.major
    \/ u.era = v.era /\ u.major = v.major /\ u.minor < v.minor
    \/ u.era = v.era /\ u.major = v.major /\ u.minor = v.minor /\ u.doc < v.doc

AtLeast(u, v) == u = v \/ Before(v, u)

\* compute_next_versions knows era 0 only; the note it leaves for any other
\* format stops the component ("manual action required").
Supported(v) == v.era = 0

\* mutant: the minor bump resets the doc field and forgets the minor one
NextReleaseMinorLost(v, class) ==
    IF ~Supported(v) THEN v
    ELSE CASE class = Generation -> Release(0, v.major + 1, 0, 0)
           [] class = Minor_     -> Release(0, v.major, v.minor, 0)
           [] class = Patch      -> Release(0, v.major, v.minor, v.doc + 1)
           [] OTHER              -> v

NextRelease(v, class) ==
    IF ~Supported(v) THEN v
    ELSE CASE class = Generation -> Release(0, v.major + 1, 0, 0)
           [] class = Minor_     -> Release(0, v.major, v.minor + 1, 0)
           [] class = Patch      -> Release(0, v.major, v.minor, v.doc + 1)
           [] OTHER              -> v

\* mutant: the minor field is compared before the major one
VersionBumpMinorFirst(old, new) ==
    IF old.minor # new.minor THEN Minor_
    ELSE IF old.major # new.major THEN Generation
    ELSE IF old.doc # new.doc THEN Patch ELSE None

\* The class a version written by hand amounts to; the era is not compared.
VersionBump(old, new) ==
    IF old.major # new.major THEN Generation
    ELSE IF old.minor # new.minor THEN Minor_
    ELSE IF old.doc # new.doc THEN Patch ELSE None

\* mutant: the doc field's limit off by one
EncodableDocTen(v) == v.era <= 9 /\ v.major <= 99 /\ v.minor <= 99 /\ v.doc <= 10

\* The positional field widths 1-2-2-1.
Encodable(v) == v.era <= 9 /\ v.major <= 99 /\ v.minor <= 99 /\ v.doc <= 9

\* VERSION of generated code that was not freeze-stamped.
Unfrozen == 1

\* mutant: an error value baked in
SnapshotVersionError(v) ==
    IF Encodable(v) THEN Version(v.era, v.major, v.minor, v.doc) ELSE NoVersion

\* What create_snapshot bakes in: the encoded release, or nothing at all, and
\* then the generator's default stays.
SnapshotVersionInt(v) ==
    IF Encodable(v) THEN Version(v.era, v.major, v.minor, v.doc) ELSE Unfrozen
=============================================================================
