--------------------------- MODULE ReleaseCohort ---------------------------
(***************************************************************************)
(* How scripts/release.sh decides which components a mutating run releases  *)
(* and at which version.  One run walks through its phases in order:        *)
(*                                                                         *)
(*   analyse   read the commits since the last tag and their labels        *)
(*   plan      inject staged components, drop the others when targeted     *)
(*   surface   forget the bumps of components whose AIDL is unchanged      *)
(*   subsume   raise importers to their dependencies' class, to a fixpoint *)
(*   close     pull unreleased dependencies in, to a fixpoint              *)
(*   audit     ask the compiler about each planned component, check pins   *)
(*   decide    the per-component loop: the version to cut, if any          *)
(*                                                                         *)
(* and ends done or died.  The passes over the import table visit it in     *)
(* bash's hash order, which is any order here; the other loops sort.        *)
(***************************************************************************)
EXTENDS ReleaseVersion, FiniteSets, Sequences

CONSTANTS
    Components,      \* directories with a metadata.yaml
    Order,           \* the same in `sort` order
    Imports,         \* component -> imports of its current/interface.yaml
    Buildable,       \* components with a current/interface.yaml
    Released,        \* component -> highest release in the last tag, or NotReleased
    PreStaged,       \* component -> snapshot committed in HEAD, or NotReleased
    Pins,            \* the pins an operator may have set: functions to Pin
    Verdicts,        \* verdicts of aidl_compat.py the run explores
    MaxCommits,      \* bound: commits since the last tag
    MaxPasses        \* the script's safety net on both fixpoints: 20

NotReleased == Release(-1, 0, 0, 0)
NoPin       == [kind |-> "none"]
PinVersion(v)   == [kind |-> "version", version |-> v]
PinClass(class) == [kind |-> "class", class |-> class]

VersionOrNone == Releases \cup {NotReleased}

ASSUME CohortAssumption ==
    /\ Imports \in [Components -> SUBSET Components]
    /\ Buildable \subseteq Components
    /\ \A c \in Components \ Buildable : Imports[c] = {}
    /\ Released \in [Components -> VersionOrNone]
    /\ PreStaged \in [Components -> VersionOrNone]
    /\ \A p \in Pins, c \in Components :
          \/ p[c] = NoPin
          \/ p[c].kind = "version" /\ p[c].version \in Releases
          \/ p[c].kind = "class" /\ p[c].class \in Classes
    /\ MaxCommits \in Nat /\ MaxPasses \in Nat
    /\ Verdicts \subseteq {"major", "minor", "bugfix", "none", "unknown"}

ASSUME ComponentsFinite == IsFiniteSet(Components)

\* versions_released.yaml on disk: update_versions_released writes it in the
\* release that is then tagged, so it knows the components of the tag.
InManifest(c) == Released[c] # NotReleased

VARIABLES
    phase,
    mode,            \* "stage" (named modules) or "stage all" (ACCEPT_ALL)
    pin,             \* PIN_VERSIONS / PIN_CLASS
    changedAidl,     \* components whose *.aidl differ from their last release
    commits,         \* commits analysed
    touched,         \* COMP_TOUCHED
    class,           \* COMP_BREAKING > COMP_NON_DOC > COMP_DOC, the highest set
    plan,            \* PLAN_COMPONENTS
    seed,            \* class as the propagation started from it
    pulled,          \* COMP_DEP_CLOSURE
    unreleasable,    \* COMP_DEP_UNRELEASABLE
    todo,            \* components the loop at hand has still to visit
    changed,         \* _changed
    passes,          \* _iter of the subsume and of the closure loop
    recommended,     \* COMP_RECOMMENDED
    flagged,         \* _audit_flagged > 0
    bumped           \* BUMPED_COMPONENTS: the version to cut

inputs   == <<mode, pin, changedAidl>>
loop     == <<todo, changed, passes>>
auditing == <<recommended, flagged>>
vars == <<phase, inputs, commits, touched, class, plan, seed, pulled,
          unreleasable, loop, auditing, bumped>>

\* aidl_hash_status.  A side without any .aidl file ("missing") is treated by
\* every caller like CHANGED.
AidlStatus(c) ==
    IF Released[c] = NotReleased THEN "new"
    ELSE IF c \in changedAidl THEN "CHANGED" ELSE "unchanged"

\* compat_check has not run, or it could not check.
Unasked == -2
Unknown == -1

\* compat_check: the bump a verdict stands for.
Recommendation(c, verdict) ==
    CASE verdict = "major"  -> Generation
      [] verdict = "minor"  -> Minor_
      [] verdict = "bugfix" -> Patch
      [] verdict = "none"   -> IF AidlStatus(c) = "unchanged" THEN None ELSE Patch
      [] OTHER              -> Unknown

\* _audit_structural_bump: the parser's class, used where the compiler is not.
StructuralBump(c, surface) ==
    CASE surface = "breaking" -> Generation
      [] surface = "major"    -> Minor_
      [] OTHER -> IF AidlStatus(c) = "CHANGED" THEN Patch ELSE None

Highest(S) == CHOOSE b \in S : \A x \in S : x <= b

FirstOf(S) == Order[CHOOSE i \in DOMAIN Order :
                      /\ Order[i] \in S
                      /\ \A j \in 1 .. i - 1 : Order[j] \notin S]

(***************************************************************************)
(* What the decision of one component is made of.                           *)
(***************************************************************************)
Initial(c) == Released[c] = NotReleased

Current(c) ==
    IF ~Initial(c) THEN Released[c]
    ELSE IF PreStaged[c] # NotReleased THEN PreStaged[c] ELSE Seed

\* mutant: the hash gate is only applied before the propagation
LabelBumpUngated(c) == IF Initial(c) THEN None ELSE class[c]

\* What is left of the labels: nothing for a first release, and nothing when
\* the interface is byte-identical to the released one.
LabelBump(c) ==
    IF Initial(c) \/ AidlStatus(c) = "unchanged" THEN None ELSE class[c]

\* mutant: the hash gate also silences the compiler
BumpHashFirst(c, rec) ==
    IF Initial(c) \/ rec = Unknown \/ AidlStatus(c) = "unchanged"
    THEN LabelBump(c) ELSE rec

\* The compiler decides; the labels stand in when it could not check.
Bump(c, rec) == IF Initial(c) \/ rec = Unknown THEN LabelBump(c) ELSE rec

Computed(c, rec) ==
    IF pin[c].kind = "class" THEN pin[c].class ELSE Bump(c, rec)

Chosen(c, rec) ==
    IF pin[c].kind = "version" THEN pin[c].version
    ELSE NextRelease(Current(c), Computed(c, rec))

\* "manual action required": compute_next_versions left an error note.
Stuck(c, rec) == ~Supported(Current(c)) /\ Computed(c, rec) # None

\* mutant: a first release is not special-cased
NeedsSnapshotIfMoved(c, rec) == ~Stuck(c, rec) /\ Chosen(c, rec) # Current(c)

NeedsSnapshot(c, rec) ==
    Initial(c) \/ (~Stuck(c, rec) /\ Chosen(c, rec) # Current(c))
-----------------------------------------------------------------------------
Init ==
    /\ phase = "analyse"
    /\ mode \in {"stage", "stage all"}
    /\ pin \in Pins
    /\ changedAidl \in SUBSET {c \in Components : ~Initial(c)}
    /\ commits = 0
    /\ touched = {} /\ plan = {} /\ pulled = {} /\ unreleasable = {}
    /\ class = [c \in Components |-> None] /\ seed = class
    /\ todo = {} /\ changed = FALSE
    /\ passes = [subsume |-> 0, close |-> 0]
    /\ recommended = [c \in Components |-> Unasked]
    /\ flagged = FALSE
    /\ bumped = [c \in Components |-> NotReleased]

ChangeLabels == {"Major Change", "Minor Change", "documentation"}

\* mutant: the labels of a commit add up
CommitClassSum(c, labels, bug, docsOnly) ==
    (IF "Major Change" \in labels THEN Generation ELSE None)
    + (IF "Minor Change" \in labels THEN Minor_ ELSE None)
    + (IF "documentation" \in labels \/ bug \/ c \in docsOnly THEN Patch ELSE None)

\* The first line that applies decides, per commit and component.
CommitClass(c, labels, bug, docsOnly) ==
    IF "Major Change" \in labels THEN Generation
    ELSE IF "Minor Change" \in labels THEN Minor_
    ELSE IF "documentation" \in labels \/ bug \/ c \in docsOnly THEN Patch
    ELSE Minor_

AnalyseCommit(comps, labels, bug, docsOnly) ==
    /\ phase = "analyse" /\ commits < MaxCommits
    /\ commits' = commits + 1
    /\ touched' = touched \cup comps
    /\ class' = [c \in Components |->
                   IF c \in comps
                   THEN Highest({class[c], CommitClass(c, labels, bug, docsOnly)})
                   ELSE class[c]]
    /\ UNCHANGED <<phase, inputs, plan, seed, pulled, unreleasable, loop,
                   auditing, bumped>>

\* Nothing touched ends the run, even one that names a module to stage.
EndAnalysis ==
    /\ phase = "analyse"
    /\ phase' = IF touched = {} THEN "done" ELSE "plan"
    /\ UNCHANGED <<inputs, commits, touched, class, plan, seed, pulled,
                   unreleasable, loop, auditing, bumped>>

\* plan_load and the modules named on the command line; a staged module no
\* commit touched comes in at minor, a targeted run drops everything else.
PlanGate(staged) ==
    /\ phase = "plan"
    /\ mode = "stage" => staged # {}
    /\ plan' = staged
    /\ touched' = IF mode = "stage" THEN staged ELSE touched \cup staged
    /\ class' = [c \in Components |->
                   IF c \notin touched' THEN None
                   ELSE IF c \in touched THEN class[c] ELSE Minor_]
    /\ phase' = "surface"
    /\ UNCHANGED <<inputs, commits, seed, pulled, unreleasable, loop,
                   auditing, bumped>>

SurfaceGate ==
    /\ phase = "surface"
    /\ class' = [c \in Components |->
                   IF AidlStatus(c) = "unchanged" THEN None ELSE class[c]]
    /\ seed' = class'
    /\ phase' = "subsume"
    /\ todo' = Buildable /\ changed' = FALSE
    /\ passes' = [passes EXCEPT !.subsume = 1]
    /\ UNCHANGED <<inputs, commits, touched, plan, pulled, unreleasable,
                   auditing, bumped>>

\* mutant: the import edge is followed the wrong way
InheritFromImporters(c) ==
    LET high == Highest({class[c]} \cup {class[d] : d \in {e \in Components : c \in Imports[e]}}) IN
    /\ phase = "subsume" /\ c \in todo
    /\ todo' = todo \ {c}
    /\ IF c \in touched
       THEN /\ class' = [class EXCEPT ![c] = high]
            /\ changed' = (changed \/ high > class[c])
       ELSE UNCHANGED <<class, changed>>
    /\ UNCHANGED <<phase, inputs, commits, touched, plan, seed, pulled,
                   unreleasable, passes, auditing, bumped>>

\* mutant: the COMP_TOUCHED guard is lost
InheritUntouched(c) ==
    LET high == Highest({class[c]} \cup {class[d] : d \in Imports[c]}) IN
    /\ phase = "subsume" /\ c \in todo
    /\ todo' = todo \ {c}
    /\ class' = [class EXCEPT ![c] = high]
    /\ changed' = (changed \/ high > class[c])
    /\ touched' = IF high > class[c] THEN touched \cup {c} ELSE touched
    /\ UNCHANGED <<phase, inputs, commits, plan, seed, pulled, unreleasable,
                   passes, auditing, bumped>>

\* One importer of the subsume loop, with the loop over its dependencies.
Inherit(c) ==
    LET high == Highest({class[c]} \cup {class[d] : d \in Imports[c]}) IN
    /\ phase = "subsume" /\ c \in todo
    /\ todo' = todo \ {c}
    /\ IF c \in touched
       THEN /\ class' = [class EXCEPT ![c] = high]
            /\ changed' = (changed \/ high > class[c])
       ELSE UNCHANGED <<class, changed>>
    /\ UNCHANGED <<phase, inputs, commits, touched, plan, seed, pulled,
                   unreleasable, passes, auditing, bumped>>

\* mutant: one pass over the table is taken to be enough
EndSubsumePassOnce ==
    /\ phase = "subsume" /\ todo = {}
    /\ todo' = Buildable /\ changed' = FALSE
    /\ passes' = [passes EXCEPT !.close = 1]
    /\ phase' = "close"
    /\ UNCHANGED <<inputs, commits, touched, class, plan, seed, pulled,
                   unreleasable, auditing, bumped>>

EndSubsumePass ==
    /\ phase = "subsume" /\ todo = {}
    /\ todo' = Buildable /\ changed' = FALSE
    /\ IF changed /\ passes.subsume <= MaxPasses
       THEN /\ passes' = [passes EXCEPT !.subsume = @ + 1]
            /\ UNCHANGED phase
       ELSE /\ passes' = [passes EXCEPT !.close = 1]
            /\ phase' = "close"
    /\ UNCHANGED <<inputs, commits, touched, class, plan, seed, pulled,
                   unreleasable, auditing, bumped>>

\* mutant: recording an unreleasable dependency counts as progress
PullInRepeats(c) ==
    LET missing == {d \in Imports[c] : d \notin touched /\ ~InManifest(d)}
        cut     == missing \cap Buildable
    IN
    /\ phase = "close" /\ c \in todo
    /\ todo' = todo \ {c}
    /\ IF c \in touched
       THEN /\ unreleasable' = unreleasable \cup (missing \ Buildable)
            /\ touched' = touched \cup cut
            /\ pulled' = pulled \cup cut
            /\ class' = [d \in Components |->
                           IF d \in cut THEN Patch ELSE class[d]]
            /\ changed' = (changed \/ missing # {})
       ELSE UNCHANGED <<unreleasable, touched, pulled, class, changed>>
    /\ UNCHANGED <<phase, inputs, commits, plan, seed, passes, auditing,
                   bumped>>

\* One importer of the closure loop: an import that has no released version
\* joins at the lowest class, or is recorded when it cannot be built.
PullIn(c) ==
    LET missing == {d \in Imports[c] : d \notin touched /\ ~InManifest(d)}
        cut     == missing \cap Buildable
    IN
    /\ phase = "close" /\ c \in todo
    /\ todo' = todo \ {c}
    /\ IF c \in touched
       THEN /\ unreleasable' = unreleasable \cup (missing \ Buildable)
            /\ touched' = touched \cup cut
            /\ pulled' = pulled \cup cut
            /\ class' = [d \in Components |->
                           IF d \in cut THEN Patch ELSE class[d]]
            /\ changed' = (changed \/ cut # {})
       ELSE UNCHANGED <<unreleasable, touched, pulled, class, changed>>
    /\ UNCHANGED <<phase, inputs, commits, plan, seed, passes, auditing,
                   bumped>>

\* What the audit gate looks at: the plan and, for `stage all`, everything the
\* loop may write.
AuditTargets ==
    Buildable \cap
    (plan \cup IF mode = "stage all"
               THEN touched \cup {c \in Components : pin[c].kind = "version"}
               ELSE {})

\* mutant: one pass of the closure is taken to be enough
EndClosePassOnce ==
    /\ phase = "close" /\ todo = {}
    /\ phase' = IF unreleasable # {} THEN "died" ELSE "audit"
    /\ todo' = AuditTargets
    /\ UNCHANGED <<inputs, commits, touched, class, plan, seed, pulled,
                   unreleasable, changed, passes, auditing, bumped>>

EndClosePass ==
    /\ phase = "close" /\ todo = {}
    /\ IF changed /\ passes.close <= MaxPasses
       THEN /\ passes' = [passes EXCEPT !.close = @ + 1]
            /\ todo' = Buildable /\ changed' = FALSE
            /\ UNCHANGED phase
       ELSE /\ phase' = IF unreleasable # {} THEN "died" ELSE "audit"
            /\ todo' = AuditTargets
            /\ UNCHANGED <<changed, passes>>
    /\ UNCHANGED <<inputs, commits, touched, class, plan, seed, pulled,
                   unreleasable, auditing, bumped>>

\* run_structural_audit on the next target: a pin below the version the class of
\* the change calls for is flagged.
Audit(c, verdict, surface) ==
    LET rec  == Recommendation(c, verdict)
        code == IF rec = Unknown THEN StructuralBump(c, surface) ELSE rec
        next == NextRelease(Released[c], code)
        want == CASE pin[c].kind = "version" -> pin[c].version
                  [] pin[c].kind = "class" -> NextRelease(Released[c], pin[c].class)
                  [] OTHER -> next
    IN
    /\ phase = "audit" /\ c \in todo /\ c = FirstOf(todo)
    /\ todo' = todo \ {c}
    /\ IF Initial(c)
       THEN UNCHANGED auditing
       ELSE /\ recommended' = [recommended EXCEPT ![c] = rec]
            /\ flagged' = \/ flagged
                          \/ IF Supported(Released[c]) THEN ~AtLeast(want, next)
                             ELSE code = Generation
    /\ UNCHANGED <<phase, inputs, commits, touched, class, plan, seed, pulled,
                   unreleasable, changed, passes, bumped>>

EndAudit ==
    /\ phase = "audit" /\ todo = {}
    /\ phase' = IF flagged THEN "died" ELSE "decide"
    /\ todo' = touched
    /\ UNCHANGED <<inputs, commits, touched, class, plan, seed, pulled,
                   unreleasable, changed, passes, auditing, bumped>>

\* The per-component loop, in `sort` order.
Decide(c, verdict) ==
    LET rec == IF Initial(c) THEN Unknown
               ELSE IF recommended[c] = Unasked THEN Recommendation(c, verdict)
               ELSE recommended[c]
    IN
    /\ phase = "decide" /\ c \in todo /\ c = FirstOf(todo)
    /\ todo' = todo \ {c}
    /\ IF c \notin Buildable
       THEN UNCHANGED <<class, recommended, bumped>>
       ELSE /\ class' = IF AidlStatus(c) = "unchanged"
                        THEN [class EXCEPT ![c] = None] ELSE class
            /\ recommended' = IF Initial(c) THEN recommended
                              ELSE [recommended EXCEPT ![c] = rec]
            /\ bumped' = IF NeedsSnapshot(c, rec)
                         THEN [bumped EXCEPT ![c] = Chosen(c, rec)] ELSE bumped
    /\ UNCHANGED <<phase, inputs, commits, touched, plan, seed, pulled,
                   unreleasable, changed, passes, flagged>>

EndDecide ==
    /\ phase = "decide" /\ todo = {}
    /\ phase' = "done"
    /\ UNCHANGED <<inputs, commits, touched, class, plan, seed, pulled,
                   unreleasable, loop, auditing, bumped>>

\* The decision is over; the write pipeline, or the exit, follows.
Stop == phase \in {"done", "died"} /\ UNCHANGED vars

Next ==
    \/ \E comps \in (SUBSET Components) \ {{}}, labels \in SUBSET ChangeLabels,
          bug \in BOOLEAN :
          \E docsOnly \in SUBSET comps : AnalyseCommit(comps, labels, bug, docsOnly)
    \/ EndAnalysis
    \/ \E staged \in SUBSET Components : PlanGate(staged)
    \/ SurfaceGate
    \/ \E c \in Components : Inherit(c)
    \/ EndSubsumePass
    \/ \E c \in Components : PullIn(c)
    \/ EndClosePass
    \/ \E c \in Components, verdict \in Verdicts,
          surface \in {"breaking", "major", "none"} : Audit(c, verdict, surface)
    \/ EndAudit
    \/ \E c \in Components, verdict \in Verdicts : Decide(c, verdict)
    \/ EndDecide
    \/ Stop

Spec == Init /\ [][Next]_vars
-----------------------------------------------------------------------------
Phases == {"analyse", "plan", "surface", "subsume", "close", "audit", "decide",
           "done", "died"}

TypeOK ==
    /\ phase \in Phases
    /\ mode \in {"stage", "stage all"} /\ pin \in Pins
    /\ commits \in 0 .. MaxCommits
    /\ touched \subseteq Components /\ plan \subseteq Components
    /\ pulled \subseteq Components /\ unreleasable \subseteq Components
    /\ class \in [Components -> Classes] /\ seed \in [Components -> Classes]
    /\ todo \subseteq Components /\ changed \in BOOLEAN
    /\ passes \in [subsume : Nat, close : Nat]
    /\ recommended \in [Components -> Classes \cup {Unasked, Unknown}]
    /\ flagged \in BOOLEAN
    /\ bumped \in [Components -> VersionOrNone]

\* When the subsume loop is over, no component of the release is classed below
\* something it imports.  Components pulled in later are first releases, whose
\* class no longer matters.
PropagationComplete ==
    phase \in {"close", "audit"} =>
        \A c \in touched \ pulled : \A d \in Imports[c] \ pulled :
            class[c] >= class[d]

\* The loop invents nothing: a set of components closed under the imports it
\* follows never gets a class above the highest one it started with.  With
\* PropagationComplete this makes the result the least fixpoint, so the hash
\* order in which bash visits the table cannot matter.
NothingInvented ==
    phase \in {"subsume", "close", "audit"} =>
        \A S \in SUBSET Components, b \in Classes :
            /\ \A c \in S \cap touched : Imports[c] \subseteq S
            /\ \A c \in S : seed[c] <= b
            => \A c \in S \ pulled : class[c] <= b

Importers == {c \in Components : Imports[c] # {}}
Imported  == UNION {Imports[c] : c \in Components}

\* The loops end because they are done: the cut-off at MaxPasses, behind which
\* the propagation would be silently incomplete, is not what stops them as long
\* as fewer components import, and are imported, than it allows passes.
CutOffUnused ==
    /\ passes.subsume <= Cardinality(Importers) + 1
    /\ passes.close <= Cardinality(Imported) + 1

\* After the closure every import of every component of the release is in the
\* release itself or has a released version already.
ClosureComplete ==
    phase \in {"audit", "decide", "done"} =>
        \A c \in touched \cap Buildable : \A d \in Imports[c] :
            d \in touched \/ InManifest(d)

\* A component is cut only when every import that can be built has a version
\* to pin the snapshot to: one being cut in the same run, or a released one.
ImportsHaveVersions ==
    phase = "done" =>
        \A c \in Components : bumped[c] # NotReleased =>
            \A d \in Imports[c] \cap Buildable :
                bumped[d] # NotReleased \/ InManifest(d)

\* A targeted run releases what the operator named, and first releases those
\* need; a bump that arrives over an import brings nothing else in.
OnlyPlannedReleased ==
    mode = "stage" =>
        \A c \in Components : bumped[c] # NotReleased => c \in plan \cup pulled

\* Whatever labels, pins and propagation say, a compiler verdict is released
\* and at no lower version than it calls for.  That is what the script does, and
\* what its comments say ("accepted at or above the compiler's class, never
\* below it"); the versioning SOP says otherwise, see DeclaredMinorStands.
CompilerIsFloor ==
    phase = "done" =>
        \A c \in touched \cap Buildable :
            /\ ~Initial(c) /\ Supported(Released[c])
            /\ recommended[c] \in Classes \ {None}
            => /\ bumped[c] # NotReleased
               /\ AtLeast(bumped[c], NextRelease(Released[c], recommended[c]))

\* "when the removed or changed surface is not yet in use by any client, the
\* change may be declared Minor - set in the Interface effect field and the PR
\* label" (versioning-sop.md, "The Interface effect field is the source of
\* truth; the audit is the default"): a change that labels and propagation agree
\* to call Minor is cut as one.
DeclaredMinorStands ==
    phase = "done" =>
        \A c \in Components :
            /\ ~Initial(c) /\ Supported(Released[c]) /\ pin[c] = NoPin
            /\ seed[c] = Minor_ /\ class[c] = Minor_
            /\ bumped[c] # NotReleased
            => bumped[c] = NextRelease(Released[c], Minor_)

\* Every version cut is a new one above the released one, wherever the audit
\* can compare the two (it knows no next version outside era 0).
VersionsRise ==
    \A c \in Components :
        /\ ~Initial(c) /\ Supported(Released[c])
        /\ bumped[c] # NotReleased
        => Before(Released[c], bumped[c])

\* A component whose interface is byte-identical to its release is not cut on
\* the strength of labels, of the plan or of an import: only when the compiler
\* finds its contract changed through a type it uses, or the operator pins it.
UnchangedStays ==
    \A c \in Components :
        /\ AidlStatus(c) = "unchanged" /\ bumped[c] # NotReleased
        /\ pin[c] = NoPin
        => recommended[c] \in Classes \ {None}

\* "When component X bumps, every component that imports X must also bump at
\* AT LEAST the same level" (release.sh, "Transitive bump propagation"), even
\* restricted to importers the release covers anyway.
ImportersFollow ==
    phase = "done" /\ mode = "stage all" =>
        \A c \in touched : \A d \in Imports[c] :
            /\ ~Initial(c) /\ ~Initial(d)
            /\ bumped[d] # NotReleased
            => /\ bumped[c] # NotReleased
               /\ VersionBump(Released[c], bumped[c])
                    >= VersionBump(Released[d], bumped[d])

\* "Unreleased AND not buildable: it cannot be cut, so the importer cannot be
\* released either" (release.sh, the dependency closure).
ImporterOfUnbuildableStays ==
    phase = "done" =>
        \A c \in Components : bumped[c] # NotReleased =>
            \A d \in Imports[c] \ Buildable : InManifest(d)
=============================================================================
