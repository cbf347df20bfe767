---------------------------- MODULE ReleaseStage ----------------------------
(***************************************************************************)
(* What the runs of scripts/release.sh between two releases do to the       *)
(* working tree: `stage` cuts a snapshot of every component the decision    *)
(* (ReleaseCohort) picked, moves its metadata.yaml, publishes the versions  *)
(* in versions_released.yaml and rewrites the dependency pins of the cohort; *)
(* `drop` and `clean` take that back; `--apply` commits what it finds.      *)
(*                                                                         *)
(* The working tree is the only memory the runs share.  A step may fail and *)
(* a run may be killed anywhere; the next run starts from what is left.     *)
(* create_snapshot runs with errexit off: of the commands it does not check *)
(* the failures are steps like any other, and the script goes on.           *)
(* Each component has its last release, "old", and the one version the      *)
(* decision gives it in this cycle, "new".                                  *)
(***************************************************************************)
EXTENDS Naturals, Sequences, FiniteSets

CONSTANTS
    Components,      \* components with a current/interface.yaml
    Order,           \* the same in `sort` order
    Imports,         \* component -> imports of its current/interface.yaml
    Releasing,       \* the components the decision bumps in this cycle
    First,           \* those of them that have no release yet
    MaxRuns,         \* bound: stage runs of one behaviour
    MaxUpsets        \* bound: kills, and failures nobody looks at

ASSUME StageAssumption ==
    /\ Imports \in [Components -> SUBSET Components]
    /\ \A c \in Components : c \notin Imports[c]
    /\ First \subseteq Releasing /\ Releasing \subseteq Components
    /\ MaxRuns \in Nat /\ MaxUpsets \in Nat

VARIABLES
    phase,
    bumped,          \* BUMPED_COMPONENTS of the run
    todo,            \* those whose snapshot is still to be cut
    step,            \* where create_snapshot is
    backup,          \* the copy of interface.yaml it holds, or none
    failed,          \* snapshot_fail > 0
    yaml,            \* component -> state of current/interface.yaml
    snapshot,        \* component -> state of its new snapshot directory
    metadata,        \* component -> version: of metadata.yaml
    manifest,        \* component -> entry of versions_released.yaml
    pins,            \* <<c, v, d, w>>: snapshot c/v refers to version w of d
    spoiled,         \* components that an upset met while they were stamped
    runs, upsets

run  == <<bumped, todo, step, backup, failed>>
tree == <<yaml, snapshot, metadata, manifest, pins>>
past == <<spoiled, upsets>>
vars == <<phase, run, tree, runs, past>>

Versions == {"old", "new"}
Quiet    == {"idle", "staged", "dropped", "clean"}
Running  == {"cut", "publish", "normalize", "verify"}

\* interface.yaml without and with a version, and one whose text was lost.
Contents == {"clean", "stamped", "damaged"}

\* The working tree of the last release.
HeadVersion(c) == IF c \in First THEN "none" ELSE "old"
HeadPins == {p \in Components \X {"old"} \X Components \X {"old"} :
                p[1] \notin First /\ p[3] \in Imports[p[1]] \ First}

PinsOf(c, v) == {p \in pins : p[1] = c /\ p[2] = v}

Staged == {c \in Components : snapshot[c] # "absent"}

\* What current/interface.yaml lists under imports.
Listed(c) == IF yaml[c] = "damaged" THEN {} ELSE Imports[c]

\* mutant: only the modules named on the command line are cut
BumpedNamedOnly(named) ==
    {c \in Components :
        \A Q \in SUBSET Components :
            /\ Releasing \cap named \subseteq Q
            /\ \A d \in Q : \A e \in Listed(d) : manifest[e] = "none" => e \in Q
            => c \in Q}

\* plan_load: what lies in the tree belongs to the plan, named or not; the
\* closure adds imports that have no released version.
Bumped(named) ==
    {c \in Components :
        \A Q \in SUBSET Components :
            /\ Releasing \cap (named \cup Staged) \subseteq Q
            /\ \A d \in Q : \A e \in Listed(d) : manifest[e] = "none" => e \in Q
            => c \in Q}

Current == Order[CHOOSE i \in DOMAIN Order :
                    /\ Order[i] \in todo
                    /\ \A j \in 1 .. i - 1 : Order[j] \notin todo]

\* cohort_version_of: the plan in flight first, then the manifest.
CohortVersion(d) == IF d \in bumped THEN "new" ELSE manifest[d]

Exists(c, v) == IF v = "new" THEN snapshot[c] # "absent" ELSE c \notin First

\* build_modules.sh manifest builds every snapshot of the manifest, and first
\* the snapshots those refer to.
ManifestBuilds ==
    \E Q \in SUBSET (Components \X Versions) :
        /\ \A c \in Components : manifest[c] # "none" => <<c, manifest[c]>> \in Q
        /\ \A p \in pins : /\ <<p[1], p[2]>> \in Q /\ p[4] \in Versions
                           => <<p[3], p[4]>> \in Q
        /\ \A s \in Q : Exists(s[1], s[2])
-----------------------------------------------------------------------------
Init ==
    /\ phase = "idle"
    /\ bumped = {} /\ todo = {} /\ step = "stamp" /\ backup = "none"
    /\ failed = FALSE
    /\ yaml = [c \in Components |-> "clean"]
    /\ snapshot = [c \in Components |-> "absent"]
    /\ metadata = [c \in Components |-> "old"]
    /\ manifest = [c \in Components |-> HeadVersion(c)]
    /\ pins = HeadPins
    /\ spoiled = {}
    /\ runs = 0 /\ upsets = 0

\* Leave the run, whose variables die with the process.
Exit(to) ==
    /\ phase' = to
    /\ bumped' = {} /\ todo' = {} /\ step' = "stamp" /\ backup' = "none"
    /\ failed' = FALSE

\* `stage <module>...`, and `stage all` when named is everything.
Stage(named) ==
    /\ phase \in Quiet /\ runs < MaxRuns
    /\ Bumped(named) # {}
    /\ phase' = "cut" /\ runs' = runs + 1
    /\ bumped' = Bumped(named) /\ todo' = bumped'
    /\ UNCHANGED <<step, backup, failed, tree, past>>

\* create_snapshot is at step s of the component at hand.
At(s) == /\ phase = "cut" /\ step = s
         /\ \E c \in todo : c = Current

\* mutant: a component that failed leaves the plan, but not the loop's list.
GiveUpUnplans ==
    /\ failed' = TRUE
    /\ bumped' = bumped \ {Current} /\ step' = "stamp"
    /\ UNCHANGED <<phase, todo>>

\* create_snapshot returned 1: the loop goes on with the next component.
GiveUp ==
    /\ failed' = TRUE
    /\ todo' = todo \ {Current} /\ step' = "stamp"
    /\ UNCHANGED <<phase, bumped>>

Continue(s) ==
    /\ step' = s
    /\ UNCHANGED <<phase, bumped, todo, failed>>

\* A kill, or a command that fails where create_snapshot does not look.
Upset(cut) ==
    /\ upsets < MaxUpsets /\ upsets' = upsets + 1
    /\ spoiled' = spoiled \cup cut

Becomes(content) == yaml' = [yaml EXCEPT ![Current] = content]

\* _restore_current: nothing without a backup; a mv that fails may have lost
\* the file it was to replace.
RestoreCurrent ==
    /\ \/ backup = "none" /\ UNCHANGED <<yaml, past>>
       \/ backup # "none" /\ Becomes(backup) /\ UNCHANGED past
       \/ backup # "none" /\ Becomes("damaged") /\ Upset({Current})
       \/ backup # "none" /\ UNCHANGED yaml /\ Upset({Current})
    /\ backup' = "none"

\* _set_interface_version: finds no place in a file whose text is lost; when it
\* fails it may have lost the text itself.
SetVersion ==
    \/ Becomes(IF yaml[Current] = "damaged" THEN "damaged" ELSE "stamped")
    \/ Becomes("damaged")
    \/ UNCHANGED yaml

\* Back up interface.yaml and write the version into it, unless the version or
\* the contract hash cannot be had: the snapshot then stays unfrozen.  Without
\* the temporary file there is no backup; cp may leave an empty one.
Stamp ==
    /\ At("stamp")
    /\ \/ backup' = yaml[Current] /\ SetVersion /\ UNCHANGED past
       \/ backup' \in {"none", "damaged"} /\ SetVersion /\ Upset({Current})
       \/ UNCHANGED <<backup, yaml, past>>
    /\ Continue("build")
    /\ UNCHANGED <<snapshot, metadata, manifest, pins, runs>>

\* mutant: the return for a failed build leaves the stamp
BuildLeavesStamp ==
    /\ At("build")
    /\ \/ Continue("replace") /\ UNCHANGED backup
       \/ GiveUp /\ backup' = "none"
    /\ UNCHANGED <<tree, runs, past>>

\* ./build_modules.sh <component>
Build ==
    /\ At("build")
    /\ \/ Continue("replace") /\ UNCHANGED <<backup, yaml, past>>
       \/ GiveUp /\ RestoreCurrent
    /\ UNCHANGED <<snapshot, metadata, manifest, pins, runs>>

\* An earlier snapshot of this version is removed only now.
Replace ==
    /\ At("replace")
    /\ \/ /\ Continue("copy")
          /\ snapshot' = [snapshot EXCEPT ![Current] = "absent"]
          /\ pins' = pins \ PinsOf(Current, "new")
          /\ UNCHANGED <<backup, yaml, past>>
       \/ /\ snapshot[Current] # "absent"
          /\ snapshot' = [snapshot EXCEPT ![Current] = "partial"]
          /\ GiveUp /\ RestoreCurrent
          /\ UNCHANGED pins
    /\ UNCHANGED <<metadata, manifest, runs>>

\* cp -r current <version>, then current/ is restored either way.
Copy ==
    /\ At("copy")
    /\ \/ /\ Continue("finish")
          /\ snapshot' = [snapshot EXCEPT ![Current] = "partial"]
          /\ pins' = pins \cup {<<Current, "new", d, "current">> : d \in Imports[Current]}
       \/ /\ GiveUp
          /\ \E left \in {"absent", "partial"} :
                snapshot' = [snapshot EXCEPT ![Current] = left]
          /\ UNCHANGED pins
    /\ RestoreCurrent
    /\ UNCHANGED <<metadata, manifest, runs>>

\* mutant: a failure after the copy is only warned about
FinishOnlyWarns ==
    /\ At("finish")
    /\ Continue("metadata")
    /\ \/ /\ snapshot' = [snapshot EXCEPT ![Current] = "whole"]
          /\ pins' = pins \cup
                       {<<Current, "new", d, CohortVersion(d)>> : d \in Imports[Current]}
       \/ UNCHANGED <<snapshot, pins>>
    /\ UNCHANGED <<backup, yaml, metadata, manifest, runs, past>>

\* Library names pinned to the cohort, docs frozen, headers copied, git add;
\* the imports of interface.yaml still name current.  A library that has no
\* version to pin is fatal.
Finish ==
    /\ At("finish")
    /\ \/ /\ \A d \in Imports[Current] : CohortVersion(d) # "none"
          /\ Continue("metadata")
          /\ snapshot' = [snapshot EXCEPT ![Current] = "whole"]
          /\ pins' = pins \cup
                       {<<Current, "new", d, CohortVersion(d)>> : d \in Imports[Current]}
       \/ GiveUp /\ UNCHANGED <<snapshot, pins>>
    /\ UNCHANGED <<backup, yaml, metadata, manifest, runs, past>>

\* update_metadata
Metadata ==
    /\ At("metadata")
    /\ metadata' = [metadata EXCEPT ![Current] = "new"]
    /\ todo' = todo \ {Current} /\ step' = "stamp"
    /\ UNCHANGED <<phase, bumped, backup, failed, yaml, snapshot, manifest,
                   pins, runs, past>>

EndCut ==
    /\ phase = "cut" /\ todo = {}
    /\ IF failed THEN Exit("idle")
       ELSE phase' = "publish" /\ UNCHANGED run
    /\ UNCHANGED <<tree, runs, past>>

\* update_versions_released
Publish ==
    /\ phase = "publish"
    /\ \/ /\ manifest' = [c \in Components |->
                            IF c \in bumped THEN "new" ELSE manifest[c]]
          /\ phase' = "normalize" /\ UNCHANGED run
       \/ Exit("idle") /\ UNCHANGED manifest
    /\ UNCHANGED <<yaml, snapshot, metadata, pins, runs, past>>

\* normalize_cohort_snapshot_deps: the cohort snapshot of every component of
\* the manifest, re-cut or not, refers to the versions of the manifest.  When it
\* fails it has rewritten some of them.
Normalize ==
    /\ phase = "normalize"
    /\ \E done \in SUBSET Components :
          /\ pins' = {IF /\ p[1] \in done /\ p[2] = manifest[p[1]]
                         /\ manifest[p[3]] # "none"
                      THEN <<p[1], p[2], p[3], manifest[p[3]]>> ELSE p : p \in pins}
          /\ \/ done = Components /\ phase' = "verify" /\ UNCHANGED run
             \/ Exit("idle")
    /\ UNCHANGED <<yaml, snapshot, metadata, manifest, runs, past>>

\* Docs checks and builds, release notes, and the build of the manifest: any
\* of them ends the run.
Verify ==
    /\ phase = "verify"
    /\ \/ ManifestBuilds /\ Exit("staged")
       \/ Exit("idle")
    /\ UNCHANGED <<tree, runs, past>>

Kill ==
    /\ phase \in Running
    /\ Upset(IF backup = "none" THEN {} ELSE {Current})
    /\ Exit("idle")
    /\ UNCHANGED <<tree, runs>>

\* `drop <module>`: the whole versions_released.yaml is restored from HEAD.
Drop(c) ==
    /\ phase \in Quiet
    /\ phase' = IF phase \in {"staged", "dropped"} THEN "dropped" ELSE "idle"
    /\ snapshot' = [snapshot EXCEPT ![c] = "absent"]
    /\ pins' = pins \ PinsOf(c, "new")
    /\ metadata' = [metadata EXCEPT ![c] = "old"]
    /\ manifest' = [d \in Components |-> HeadVersion(d)]
    /\ UNCHANGED <<run, yaml, runs, past>>

\* `clean`: release artefacts restored, snapshots of this cycle removed.
Clean ==
    /\ phase \in Quiet
    /\ phase' = "clean"
    /\ snapshot' = [c \in Components |-> "absent"]
    /\ metadata' = [c \in Components |-> "old"]
    /\ manifest' = [c \in Components |-> HeadVersion(c)]
    /\ pins' = HeadPins
    /\ UNCHANGED <<run, yaml, runs, past>>

\* `--apply --commit` on the tree as it is: something staged, the manifest
\* builds, and the branch takes every modified file and untracked snapshot.
Apply ==
    /\ phase \in Quiet
    /\ Staged # {}
    /\ ManifestBuilds
    /\ phase' = "branched"
    /\ UNCHANGED <<run, tree, runs, past>>

\* The release branch is committed: the cycle is over.
Stop == phase = "branched" /\ UNCHANGED vars

Next ==
    \/ \E named \in SUBSET Components : Stage(named)
    \/ Stamp \/ Build \/ Replace \/ Copy \/ Finish \/ Metadata
    \/ EndCut \/ Publish \/ Normalize \/ Verify
    \/ Kill
    \/ \E c \in Components : Drop(c)
    \/ Clean
    \/ Apply
    \/ Stop

Spec == Init /\ [][Next]_vars
-----------------------------------------------------------------------------
TypeOK ==
    /\ phase \in Quiet \cup Running \cup {"branched"}
    /\ bumped \subseteq Components /\ todo \subseteq bumped
    /\ step \in {"stamp", "build", "replace", "copy", "finish", "metadata"}
    /\ backup \in Contents \cup {"none"}
    /\ failed \in BOOLEAN
    /\ yaml \in [Components -> Contents] /\ spoiled \subseteq Components
    /\ snapshot \in [Components -> {"absent", "partial", "whole"}]
    /\ metadata \in [Components -> Versions]
    /\ manifest \in [Components -> Versions \cup {"none"}]
    /\ pins \subseteq Components \X Versions \X Components
                        \X {"old", "new", "current"}
    /\ runs \in 0 .. MaxRuns /\ upsets \in 0 .. MaxUpsets

\* Whatever an earlier run, killed or failed anywhere, or a drop left in the
\* tree, a stage run that ends well leaves a consistent cohort: the manifest
\* names a snapshot exactly when it lies there, that snapshot is whole and in
\* its metadata.yaml, and every reference of a cohort snapshot is the version
\* the manifest builds, never current.
StagedIsConsistent ==
    phase = "staged" =>
        /\ \A c \in Components :
              /\ snapshot[c] # "absent" <=> manifest[c] = "new"
              /\ snapshot[c] # "absent" =>
                    snapshot[c] = "whole" /\ metadata[c] = "new"
        /\ \A p \in pins : p[2] = manifest[p[1]] => p[4] = manifest[p[3]]

\* Every failure create_snapshot looks at (the hash, the build, the removal of
\* the old snapshot, the copy and what comes after) gives current/ its
\* interface.yaml back, whatever ran before.  Stamped or damaged it stays only
\* for a component that a kill met in its cut, or whose cut met a failing
\* mktemp, cp or mv, which the script does not look at; no later run mends it.
CurrentRestored ==
    phase # "cut" =>
        \A c \in Components : yaml[c] # "clean" => c \in spoiled

\* metadata.yaml moves to a version only when its snapshot is whole.
MetadataFollowsSnapshot ==
    [][\A c \in Components :
          metadata[c] = "old" /\ metadata'[c] = "new"
            => snapshot'[c] = "whole"]_vars

\* "preserving the invariant: every metadata.yaml `version:` corresponds to a
\* snapshot dir that actually exists" (release.sh, above update_metadata).
MetadataHasSnapshot ==
    phase \notin Running =>
        \A c \in Components : metadata[c] = "new" => snapshot[c] # "absent"

\* "Worktree is back to the pre-release-attempt state" (release.sh, plan_clean).
CleanResets == phase = "clean" => \A c \in Components : yaml[c] = "clean"

\* "Restore metadata.yaml + versions_released.yaml + mkdocs.yml for this
\* component (only - leaves other modules' staged state intact)" (release.sh,
\* plan_remove): after a drop from a consistent tree the others are consistent.
DropKeepsOthers ==
    phase = "dropped" =>
        \A c \in Components : snapshot[c] = "whole" => manifest[c] = "new"

\* "Proves the freshly-cut snapshots are reachable, intact ... the manifest
\* update and the snapshots agree.  Either failure aborts the release before the
\* branch/tag is created" (release.sh, verification builds).
BranchAgrees ==
    phase = "branched" =>
        \A c \in Components : snapshot[c] = "whole" <=> manifest[c] = "new"
=============================================================================
