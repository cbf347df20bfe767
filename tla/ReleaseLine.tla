----------------------------- MODULE ReleaseLine -----------------------------
(***************************************************************************)
(* The line of releases of one HAL component and one client of it.  Each    *)
(* cut picks a change class (or the operator pins a version), computes the  *)
(* next release and bakes it into the frozen snapshot; a client is compiled *)
(* against some snapshot and later meets a server built from a newer one,   *)
(* which it judges with halcompat.  The module relates the three pieces of  *)
(* code: the script's version rule, its encoder, and the C++ decoder.       *)
(* current/ carries no stamp when a cut starts; one that a failed run left  *)
(* there is the subject of ReleaseStage.                                    *)
(***************************************************************************)
EXTENDS ReleaseVersion

CONSTANTS
    First,           \* the component's first release
    Pinnable,        \* versions an operator may pin with stage --version
    Limit            \* bound: the largest fields of one behaviour

ASSUME LineAssumption ==
    /\ First \in Releases /\ First.era = 0 /\ First.major > 0
    /\ Encodable(First)
    /\ Pinnable \subseteq {v \in Releases : v.era = 0}
    /\ Limit \in Releases

WithinLimit(v) ==
    v.major <= Limit.major /\ v.minor <= Limit.minor /\ v.doc <= Limit.doc

VARIABLES
    latest,          \* the newest release of the component
    baked,           \* VERSION inside its snapshot
    client,          \* the release the client was built against
    clientVersion,   \* VERSION inside that snapshot
    broken           \* a breaking release was cut since the client was built

vars == <<latest, baked, client, clientVersion, broken>>

Init ==
    /\ latest = First
    /\ baked \in {SnapshotVersionInt(First), Unfrozen}
    /\ client = First
    /\ clientVersion = baked
    /\ broken = FALSE

\* create_snapshot for release v, a change of the given class.  Where the
\* contract hash or the stamping fails, or there is no interface.yaml, the
\* snapshot is cut all the same, with the generator's default VERSION.
Publish(v, class) ==
    /\ WithinLimit(v)
    /\ latest' = v
    /\ baked' \in {SnapshotVersionInt(v), Unfrozen}
    /\ broken' = (broken \/ class = Generation)
    /\ UNCHANGED <<client, clientVersion>>

Cut(class) ==
    /\ Supported(latest)
    /\ class # None
    /\ Publish(NextRelease(latest, class), class)

\* stage --version: the audit accepts a pin at or above the compiler's next
\* version; the class shown is the one the version amounts to.
CutPinned(v, class) ==
    /\ Supported(latest)
    /\ AtLeast(v, NextRelease(latest, class))
    /\ v # latest
    /\ Publish(v, VersionBump(latest, v))

BuildClient ==
    /\ client' = latest
    /\ clientVersion' = baked
    /\ broken' = FALSE
    /\ UNCHANGED <<latest, baked>>

Next ==
    \/ \E class \in Classes : Cut(class)
    \/ \E v \in Pinnable, class \in Classes : CutPinned(v, class)
    \/ BuildClient

Spec == Init /\ [][Next]_vars
-----------------------------------------------------------------------------
TypeOK ==
    /\ latest \in Releases /\ client \in Releases
    /\ baked \in Nat /\ clientVersion \in Nat
    /\ broken \in BOOLEAN

\* The snapshot that reports n was stamped with its release.
Frozen(n) == n # Unfrozen

\* The client's verdict is right: while both snapshots carry their encoded
\* release, halcompat accepts the server exactly when no breaking release was
\* cut after the one the client was built against, whatever was cut unstamped
\* in between.
AcceptedIffUnbroken ==
    Frozen(clientVersion) /\ Frozen(baked) =>
        (IsCompatible(clientVersion, baked) <=> ~broken)

\* A snapshot that reports the VERSION of a development build, because its
\* release did not fit the encoding or its stamping failed, never passes for a
\* release, nor may a client built against one take a release for its own.
\* (Two such snapshots do report the same VERSION, and the predicate takes
\* them for each other; only the check of the "notfrozen" hash before it
\* refuses that server.)
UnfrozenIsRefused ==
    Frozen(clientVersion) # Frozen(baked) => ~IsCompatible(clientVersion, baked)

\* Of any two frozen snapshots of the line the later one reports the higher
\* number, so that "server >= client" orders builds the way the release line
\* does, also across releases that were cut unfrozen.
VersionsAdvance ==
    Frozen(clientVersion) /\ Frozen(baked) =>
        (Before(client, latest) <=> clientVersion < baked)

\* "the doc field caps at 9: a 10th doc-only respin of the same minor forces a
\* minor bump" (release.sh, above _snapshot_version_int): no respin leaves the
\* encoding.  compute_next_versions has no such rule.
RespinsCapAtNine == latest.doc <= 9
=============================================================================
