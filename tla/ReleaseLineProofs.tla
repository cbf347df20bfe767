-------------------------- MODULE ReleaseLineProofs --------------------------
(***************************************************************************)
(* The properties of ReleaseLine for every first release, every set of      *)
(* pins and every limit.  The arithmetic is in two lemmas about the         *)
(* encoding of era 0; the rest is the inductive invariant IInv.             *)
(***************************************************************************)
EXTENDS ReleaseLine, TLAPS

\* The number a release of era 0 is encoded as.
FieldsInt(g, m, d) == g * 1000 + m * 10 + d

\* The C++ digit arithmetic on such a number.
LEMMA Digits ==
    ASSUME NEW g \in Nat, NEW m \in Nat, NEW d \in Nat,
           g <= 99, m <= 99, d <= 9
    PROVE  /\ FieldsInt(g, m, d) \in Nat
           /\ Era(FieldsInt(g, m, d)) = 0
           /\ Major(FieldsInt(g, m, d)) = g
<1>1. (g * 1000 + m * 10 + d) \div 100000 = 0
  OBVIOUS
<1>2. (g * 1000 + m * 10 + d) \div 1000 = g
  OBVIOUS
<1>3. g \div 100 = 0
  OBVIOUS
<1>4. g * 1000 + m * 10 + d \in Nat
  OBVIOUS
<1>5. Era(g * 1000 + m * 10 + d) = 0
  BY <1>1, <1>4 DEF Era, CDiv
<1>6. Major(g * 1000 + m * 10 + d) = g
  BY <1>2, <1>3, <1>4 DEF Major, CDiv, CRem
<1> QED
  BY <1>4, <1>5, <1>6 DEF FieldsInt

\* The decoder of halcompat.h reads back what the script encodes.
LEMMA Decoding ==
    ASSUME NEW v \in Releases, v.era = 0, Encodable(v)
    PROVE  /\ SnapshotVersionInt(v) = FieldsInt(v.major, v.minor, v.doc)
           /\ SnapshotVersionInt(v) \in Nat
           /\ Era(SnapshotVersionInt(v)) = 0
           /\ Major(SnapshotVersionInt(v)) = v.major
<1>1. /\ v.major \in Nat /\ v.minor \in Nat /\ v.doc \in Nat
      /\ v.major <= 99 /\ v.minor <= 99 /\ v.doc <= 9
  BY DEF Encodable, Releases
<1>2. SnapshotVersionInt(v) = 0 * 100000 + v.major * 1000 + v.minor * 10 + v.doc
  BY DEF SnapshotVersionInt, Version
<1>3. SnapshotVersionInt(v) = FieldsInt(v.major, v.minor, v.doc)
  BY <1>1, <1>2 DEF FieldsInt
<1>4. /\ FieldsInt(v.major, v.minor, v.doc) \in Nat
      /\ Era(FieldsInt(v.major, v.minor, v.doc)) = 0
      /\ Major(FieldsInt(v.major, v.minor, v.doc)) = v.major
  BY <1>1, Digits
<1> QED
  BY <1>3, <1>4

\* A development build's VERSION belongs to no major at all.
LEMMA DecodingUnfrozen == Era(Unfrozen) = 0 /\ Major(Unfrozen) = 0
<1>1. Unfrozen = FieldsInt(0, 0, 1)
  BY DEF Unfrozen, FieldsInt
<1> QED
  BY <1>1, Digits

\* The encoding orders the releases of era 0 as sort -V does.
LEMMA EncodingOrder ==
    ASSUME NEW u \in Releases, NEW v \in Releases, u.era = 0, v.era = 0,
           Encodable(u), Encodable(v)
    PROVE  Before(u, v) => SnapshotVersionInt(u) < SnapshotVersionInt(v)
<1>1. /\ u.major \in Nat /\ u.minor \in Nat /\ u.doc \in Nat
      /\ u.minor <= 99 /\ u.doc <= 9
      /\ v.major \in Nat /\ v.minor \in Nat /\ v.doc \in Nat
      /\ v.minor <= 99 /\ v.doc <= 9
  BY DEF Encodable, Releases
<1>2. /\ SnapshotVersionInt(u) = u.major * 1000 + u.minor * 10 + u.doc
      /\ SnapshotVersionInt(v) = v.major * 1000 + v.minor * 10 + v.doc
  BY Decoding DEF FieldsInt
<1> QED
  BY <1>1, <1>2 DEF Before

\* Where the line and its client stand to each other.
LineInv ==
    /\ latest.era = 0 /\ client.era = 0
    /\ latest.major > 0 /\ client.major > 0
    /\ AtLeast(latest, client)
    /\ broken <=> latest.major # client.major
    /\ baked \in {SnapshotVersionInt(latest), Unfrozen}
    /\ clientVersion \in {SnapshotVersionInt(client), Unfrozen}

IInv == TypeOK /\ LineInv

LEMMA SnapshotVersionType ==
    ASSUME NEW v \in Releases
    PROVE  SnapshotVersionInt(v) \in Nat /\ Unfrozen \in Nat
  BY DEF SnapshotVersionInt, Version, Unfrozen, Releases

LEMMA NextReleaseLater ==
    ASSUME NEW v \in Releases, v.era = 0, NEW class \in Classes
    PROVE  /\ NextRelease(v, class) \in Releases
           /\ NextRelease(v, class).era = 0
           /\ class # None => Before(v, NextRelease(v, class))
           /\ class = None => NextRelease(v, class) = v
           /\ class = Generation <=> NextRelease(v, class).major # v.major
  BY DEF NextRelease, Supported, Releases, Release, Before, Classes, None,
         Patch, Minor_, Generation

\* Any publication of a later release keeps the invariant, when the class
\* recorded for it says whether the major moved.
LEMMA PublishKeeps ==
    ASSUME IInv, NEW v \in Releases, v.era = 0, Before(latest, v),
           NEW class \in Classes, class = Generation <=> v.major # latest.major,
           Publish(v, class)
    PROVE  IInv'
<1>1. /\ latest' = v /\ client' = client /\ clientVersion' = clientVersion
      /\ baked' \in {SnapshotVersionInt(v), Unfrozen}
      /\ broken' = (broken \/ class = Generation)
  BY DEF Publish
<1>2. TypeOK'
  BY <1>1, SnapshotVersionType DEF IInv, TypeOK
<1>3. v.major >= latest.major /\ latest.major >= client.major
  BY DEF IInv, TypeOK, LineInv, Before, AtLeast, Releases
<1>4. AtLeast(v, client)
  BY DEF IInv, TypeOK, LineInv, Before, AtLeast, Releases
<1>5. broken' <=> v.major # client.major
  <2>1. CASE class = Generation
    <3>1. v.major # client.major
      BY <2>1, <1>3 DEF IInv, TypeOK, Releases
    <3>2. broken' = TRUE
      BY <2>1, <1>1
    <3> QED
      BY <3>1, <3>2
  <2>2. CASE class # Generation
    BY <2>2, <1>1 DEF IInv, TypeOK, LineInv
  <2> QED
    BY <2>1, <2>2
<1>6. v.major > 0
  BY <1>3 DEF IInv, TypeOK, LineInv, Releases
<1>7. LineInv'
  BY <1>1, <1>4, <1>5, <1>6 DEF IInv, LineInv
<1> QED
  BY <1>2, <1>7 DEF IInv

LEMMA InitIInv == Init => IInv
  BY LineAssumption, SnapshotVersionType DEF Init, IInv, TypeOK, LineInv, AtLeast

LEMMA NextIInv == IInv /\ [Next]_vars => IInv'
<1> SUFFICES ASSUME IInv, [Next]_vars PROVE IInv'
  OBVIOUS
<1> USE DEF IInv
<1>1. ASSUME NEW class \in Classes, Cut(class) PROVE IInv'
  <2>1. /\ latest \in Releases /\ latest.era = 0 /\ class # None
        /\ Publish(NextRelease(latest, class), class)
    BY <1>1 DEF Cut, TypeOK, LineInv
  <2>2. /\ NextRelease(latest, class) \in Releases
        /\ NextRelease(latest, class).era = 0
        /\ Before(latest, NextRelease(latest, class))
        /\ class = Generation <=> NextRelease(latest, class).major # latest.major
    BY <2>1, NextReleaseLater
  <2> QED
    BY <2>1, <2>2, PublishKeeps
<1>2. ASSUME NEW v \in Pinnable, NEW class \in Classes, CutPinned(v, class)
      PROVE  IInv'
  <2>1. /\ latest \in Releases /\ latest.era = 0 /\ v # latest
        /\ AtLeast(v, NextRelease(latest, class))
        /\ Publish(v, VersionBump(latest, v))
    BY <1>2 DEF CutPinned, TypeOK, LineInv
  <2>2. v \in Releases /\ v.era = 0
    BY LineAssumption
  <2>3. /\ NextRelease(latest, class) \in Releases
        /\ NextRelease(latest, class) = latest \/ Before(latest, NextRelease(latest, class))
    BY <2>1, NextReleaseLater
  <2>4. Before(latest, v)
    BY <2>1, <2>2, <2>3 DEF AtLeast, Before, Releases
  <2>5. /\ VersionBump(latest, v) \in Classes
        /\ VersionBump(latest, v) = Generation <=> v.major # latest.major
    BY DEF VersionBump, Classes, None, Patch, Minor_, Generation
  <2> QED
    BY <2>1, <2>2, <2>4, <2>5, PublishKeeps
<1>3. CASE BuildClient
  BY <1>3 DEF BuildClient, TypeOK, LineInv, AtLeast
<1>4. CASE UNCHANGED vars
  BY <1>4 DEF vars, TypeOK, LineInv
<1> QED
  BY <1>1, <1>2, <1>3, <1>4 DEF Next

\* Every reachable state of the line satisfies the invariant.
THEOREM Invariance == Spec => []IInv
  BY InitIInv, NextIInv, PTL DEF Spec

\* The variables of the line keep their types.
THEOREM TypeCorrect == Spec => []TypeOK
<1>1. IInv => TypeOK
  BY DEF IInv
<1> QED
  BY Invariance, <1>1, PTL

\* Only an encodable release makes a frozen snapshot, and its number says
\* which release it is.
LEMMA FrozenNumber ==
    ASSUME NEW v \in Releases, v.era = 0, v.major > 0,
           NEW n \in {SnapshotVersionInt(v), Unfrozen}, Frozen(n)
    PROVE  /\ Encodable(v) /\ n = SnapshotVersionInt(v)
           /\ n \in Nat /\ Era(n) = 0 /\ Major(n) = v.major
<1>1. n = SnapshotVersionInt(v) /\ Encodable(v)
  BY DEF Frozen, SnapshotVersionInt
<1> QED
  BY <1>1, Decoding

\* Of two frozen snapshots the later one has the higher number.
LEMMA IInvOrdered == IInv => VersionsAdvance
<1> SUFFICES ASSUME IInv, Frozen(clientVersion), Frozen(baked)
             PROVE  Before(client, latest) <=> clientVersion < baked
  BY DEF VersionsAdvance
<1> USE DEF IInv, LineInv, TypeOK
<1>1. /\ Encodable(latest) /\ baked = SnapshotVersionInt(latest)
      /\ Encodable(client) /\ clientVersion = SnapshotVersionInt(client)
  BY FrozenNumber
<1>2. CASE latest = client
  BY <1>1, <1>2, SnapshotVersionType DEF Before, Releases
<1>3. CASE Before(client, latest)
  BY <1>1, <1>3, EncodingOrder
<1> QED
  BY <1>2, <1>3 DEF AtLeast

\* The number getInterfaceVersion() reports orders the frozen snapshots of a
\* line as the releases are ordered, whatever was cut unfrozen in between.
THEOREM VersionNumbersRise == Spec => []VersionsAdvance
  BY Invariance, IInvOrdered, PTL

LEMMA IInvAccepted == IInv => AcceptedIffUnbroken
<1> SUFFICES ASSUME IInv, Frozen(clientVersion), Frozen(baked)
             PROVE  IsCompatible(clientVersion, baked) <=> ~broken
  BY DEF AcceptedIffUnbroken
<1> USE DEF IInv, LineInv, TypeOK
<1>1. /\ baked \in Nat /\ Era(baked) = 0 /\ Major(baked) = latest.major
      /\ clientVersion \in Nat /\ Era(clientVersion) = 0
      /\ Major(clientVersion) = client.major
      /\ baked = SnapshotVersionInt(latest)
      /\ clientVersion = SnapshotVersionInt(client)
  BY FrozenNumber
<1>2. baked >= clientVersion
  <2>1. CASE latest = client
    BY <2>1, <1>1
  <2>2. CASE Before(client, latest)
    BY <2>2, <1>1, IInvOrdered DEF VersionsAdvance
  <2> QED
    BY <2>1, <2>2 DEF AtLeast
<1> QED
  BY <1>1, <1>2 DEF IsCompatible

\* A client accepts a server of its component exactly when no breaking release
\* lies between the two builds, where both are frozen: the script's version
\* rule, its encoder and the C++ decoder agree, whatever classes were cut,
\* whatever was pinned and whichever releases in between were left unfrozen.
THEOREM AcceptanceExact == Spec => []AcceptedIffUnbroken
  BY Invariance, IInvAccepted, PTL

LEMMA IInvUnfrozen == IInv => UnfrozenIsRefused
<1> SUFFICES ASSUME IInv, Frozen(clientVersion) # Frozen(baked),
                    IsCompatible(clientVersion, baked)
             PROVE  FALSE
  BY DEF UnfrozenIsRefused
<1> USE DEF IInv, LineInv, TypeOK
<1>1. CASE Frozen(clientVersion) /\ ~Frozen(baked)
  <2>1. Major(baked) = 0 /\ Era(baked) = 0
    BY <1>1, DecodingUnfrozen DEF Frozen
  <2>2. Era(clientVersion) = 0 /\ Major(clientVersion) > 0
    BY <1>1, FrozenNumber
  <2> QED
    BY <2>1, <2>2 DEF IsCompatible
<1>2. CASE ~Frozen(clientVersion) /\ Frozen(baked)
  <2>1. Major(clientVersion) = 0 /\ Era(clientVersion) = 0
    BY <1>2, DecodingUnfrozen DEF Frozen
  <2>2. Era(baked) = 0 /\ Major(baked) > 0
    BY <1>2, FrozenNumber
  <2> QED
    BY <2>1, <2>2 DEF IsCompatible
<1> QED
  BY <1>1, <1>2 DEF Frozen

\* A snapshot that was left unfrozen, for whichever reason, is never taken for
\* a release and never takes one for its own.
THEOREM UnfrozenRefused == Spec => []UnfrozenIsRefused
  BY Invariance, IInvUnfrozen, PTL
=============================================================================
