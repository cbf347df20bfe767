------------------------ MODULE ReleaseCohortProofs ------------------------
(***************************************************************************)
(* What the release decision guarantees for any set of components, any      *)
(* import graph, any labels, pins and compiler verdicts.  The two fixpoint  *)
(* loops carry the argument: while no step of the current pass has changed  *)
(* anything, every entry already visited is settled (SubsumeInv, CloseInv). *)
(* What the versions promise rests on the audit: it has seen everything the *)
(* loop decides but first releases (AuditInv).                              *)
(* That the loops are never cut off is a count of what a pass has to achieve *)
(* to ask for another one (CountInv).                                       *)
(***************************************************************************)
EXTENDS ReleaseCohort, FiniteSetTheorems, TLAPS

LEMMA HighestOf ==
    ASSUME NEW S \in SUBSET Classes, S # {}
    PROVE  Highest(S) \in S /\ \A x \in S : x <= Highest(S)
<1>1. \E b \in S : \A x \in S : x <= b
  <2>1. CASE 3 \in S
    BY <2>1 DEF Classes, None, Generation
  <2>2. CASE 3 \notin S /\ 2 \in S
    BY <2>2 DEF Classes, None, Generation
  <2>3. CASE 3 \notin S /\ 2 \notin S /\ 1 \in S
    BY <2>3 DEF Classes, None, Generation
  <2>4. CASE 3 \notin S /\ 2 \notin S /\ 1 \notin S
    <3>1. \A x \in S : x = 0
      BY <2>4 DEF Classes, None, Generation
    <3> QED
      BY <3>1
  <2> QED
    BY <2>1, <2>2, <2>3, <2>4
<1> QED
  BY <1>1 DEF Highest

LEMMA HighestPair ==
    ASSUME NEW a \in Classes, NEW b \in Classes
    PROVE  /\ Highest({a, b}) \in {a, b} /\ Highest({a, b}) \in Classes
           /\ a <= Highest({a, b}) /\ b <= Highest({a, b})
<1>1. {a, b} \in SUBSET Classes /\ {a, b} # {}
  OBVIOUS
<1> QED
  BY <1>1, HighestOf

LEMMA HighestImage ==
    ASSUME NEW a \in Classes, NEW D \in SUBSET Components,
           NEW f \in [Components -> Classes]
    PROVE  LET h == Highest({a} \cup {f[d] : d \in D}) IN
           /\ h \in Classes
           /\ h = a \/ \E d \in D : h = f[d]
           /\ a <= h /\ \A d \in D : f[d] <= h
<1> DEFINE S == {a} \cup {f[d] : d \in D}
<1>1. S \in SUBSET Classes /\ S # {}
  OBVIOUS
<1>2. Highest(S) \in S /\ \A x \in S : x <= Highest(S)
  BY <1>1, HighestOf
<1> QED
  BY <1>1, <1>2

LEMMA PassesType ==
    ASSUME NEW p \in [subsume : Nat, close : Nat]
    PROVE  /\ [p EXCEPT !.subsume = @ + 1] \in [subsume : Nat, close : Nat]
           /\ [p EXCEPT !.close = @ + 1] \in [subsume : Nat, close : Nat]
           /\ [p EXCEPT !.subsume = 1] \in [subsume : Nat, close : Nat]
           /\ [p EXCEPT !.close = 1] \in [subsume : Nat, close : Nat]
  OBVIOUS

LEMMA ConstantTypes ==
    /\ Imports \in [Components -> SUBSET Components]
    /\ Buildable \subseteq Components
    /\ Released \in [Components -> VersionOrNone]
    /\ MaxCommits \in Nat
  BY CohortAssumption

LEMMA NextReleaseType ==
    ASSUME NEW v \in VersionOrNone, NEW k \in Classes
    PROVE  /\ NextRelease(v, k) \in VersionOrNone
           /\ v \in Releases => NextRelease(v, k) \in Releases
  BY DEF NextRelease, Supported, VersionOrNone, NotReleased, Releases, Release,
         Classes, None, Patch, Minor_, Generation

LEMMA ClassValues ==
    /\ None \in Classes /\ Patch \in Classes /\ Minor_ \in Classes
    /\ Generation \in Classes
  BY DEF Classes, None, Patch, Minor_, Generation

LEMMA RecommendationType ==
    ASSUME NEW c \in Components, NEW verdict \in Verdicts
    PROVE  Recommendation(c, verdict) \in Classes \cup {Unknown}
  BY CohortAssumption, ClassValues DEF Recommendation

LEMMA StructuralType ==
    ASSUME NEW c \in Components, NEW surface \in {"breaking", "major", "none"}
    PROVE  StructuralBump(c, surface) \in Classes
  BY ClassValues DEF StructuralBump

LEMMA PinType ==
    ASSUME TypeOK, NEW c \in Components
    PROVE  \/ pin[c].kind = "none"
           \/ pin[c].kind = "version" /\ pin[c].version \in Releases
           \/ pin[c].kind = "class" /\ pin[c].class \in Classes
<1>1. pin \in Pins
  BY DEF TypeOK
<1>2. NoPin.kind = "none"
  BY DEF NoPin
<1> QED
  BY <1>1, <1>2, CohortAssumption

\* The version the loop chooses is a proper release.
LEMMA ChosenType ==
    ASSUME TypeOK, NEW c \in Components, NEW rec \in Classes \cup {Unknown}
    PROVE  Chosen(c, rec) \in Releases
<1>1. Current(c) \in Releases
  BY CohortAssumption DEF Current, Initial, Seed, Release, Releases, VersionOrNone
<1>2. Bump(c, rec) \in Classes
  BY ClassValues DEF Bump, LabelBump, TypeOK
<1>3. CASE pin[c].kind = "none"
  BY <1>1, <1>2, <1>3, NextReleaseType DEF Chosen, Computed, VersionOrNone
<1>4. CASE pin[c].kind = "version" /\ pin[c].version \in Releases
  BY <1>4 DEF Chosen
<1>5. CASE pin[c].kind = "class" /\ pin[c].class \in Classes
  BY <1>1, <1>5, NextReleaseType DEF Chosen, Computed, VersionOrNone
<1> QED
  BY <1>3, <1>4, <1>5, PinType
-----------------------------------------------------------------------------
LEMMA InitType ==
    ASSUME Init
    PROVE  TypeOK
<1>1. class \in [Components -> Classes] /\ seed \in [Components -> Classes]
  BY ClassValues DEF Init
<1>2. bumped \in [Components -> VersionOrNone]
  BY DEF Init, VersionOrNone
<1>3. recommended \in [Components -> Classes \cup {Unasked, Unknown}]
  BY DEF Init
<1>4. passes \in [subsume : Nat, close : Nat]
  BY DEF Init
<1>5. commits \in 0 .. MaxCommits
  <2>1. MaxCommits \in Nat
    BY ConstantTypes
  <2>2. commits = 0
    BY DEF Init
  <2> QED
    BY <2>1, <2>2
<1> QED
  BY <1>1, <1>2, <1>3, <1>4, <1>5 DEF Init, TypeOK, Phases

LEMMA NextType ==
    ASSUME TypeOK, [Next]_vars
    PROVE  TypeOK'
<1> USE DEF TypeOK, Phases
<1>1. ASSUME NEW comps \in (SUBSET Components) \ {{}},
             NEW labels \in SUBSET ChangeLabels, NEW bug \in BOOLEAN,
             NEW docsOnly \in SUBSET comps,
             AnalyseCommit(comps, labels, bug, docsOnly)
      PROVE  TypeOK'
  <2>1. ASSUME NEW c \in Components
        PROVE  Highest({class[c], CommitClass(c, labels, bug, docsOnly)}) \in Classes
    <3>1. CommitClass(c, labels, bug, docsOnly) \in Classes
      BY ClassValues DEF CommitClass
    <3> QED
      BY <3>1, HighestPair DEF TypeOK
  <2>2. class' \in [Components -> Classes]
    BY <1>1, <2>1 DEF AnalyseCommit
  <2>3. commits' \in 0 .. MaxCommits
    <3>1. commits \in 0 .. MaxCommits /\ commits < MaxCommits
          /\ commits' = commits + 1
      BY <1>1 DEF AnalyseCommit
    <3>2. MaxCommits \in Nat
      BY ConstantTypes
    <3> HIDE DEF TypeOK
    <3> QED
      BY <3>1, <3>2
  <2> QED
    BY <1>1, <2>2, <2>3 DEF AnalyseCommit, inputs, loop, auditing
<1>2. CASE EndAnalysis
  BY <1>2 DEF EndAnalysis, inputs, loop, auditing
<1>3. ASSUME NEW staged \in SUBSET Components, PlanGate(staged) PROVE TypeOK'
  <2>1. class' \in [Components -> Classes]
    BY <1>3, ClassValues DEF PlanGate
  <2> QED
    BY <1>3, <2>1 DEF PlanGate, inputs, loop, auditing
<1>4. CASE SurfaceGate
  <2>1. class' \in [Components -> Classes] /\ seed' \in [Components -> Classes]
    BY <1>4, ClassValues DEF SurfaceGate
  <2>2. passes' \in [subsume : Nat, close : Nat]
    BY <1>4 DEF SurfaceGate
  <2> QED
    BY <1>4, <2>1, <2>2, CohortAssumption DEF SurfaceGate, inputs, auditing
<1>5. ASSUME NEW c \in Components, Inherit(c) PROVE TypeOK'
  <2>0. class \in [Components -> Classes]
    OBVIOUS
  <2>1. Highest({class[c]} \cup {class[d] : d \in Imports[c]}) \in Classes
    <3>1. Imports[c] \in SUBSET Components /\ class[c] \in Classes
      BY ConstantTypes
    <3> HIDE DEF TypeOK
    <3> QED
      BY <3>1, <2>0, HighestImage
  <2>2. class' \in [Components -> Classes]
    BY <1>5, <2>1 DEF Inherit
  <2>3. changed' \in BOOLEAN
    BY <1>5 DEF Inherit
  <2> QED
    BY <1>5, <2>2, <2>3 DEF Inherit, inputs, auditing
<1>6. CASE EndSubsumePass
  <2>1. passes' \in [subsume : Nat, close : Nat]
    BY <1>6, PassesType DEF EndSubsumePass
  <2> QED
    BY <1>6, <2>1, CohortAssumption DEF EndSubsumePass, inputs, auditing
<1>7. ASSUME NEW c \in Components, PullIn(c) PROVE TypeOK'
  <2>1. class' \in [Components -> Classes]
    BY <1>7, ClassValues DEF PullIn
  <2>2. changed' \in BOOLEAN
    BY <1>7 DEF PullIn
  <2> QED
    BY <1>7, <2>1, <2>2, CohortAssumption DEF PullIn, inputs, auditing
<1>8. CASE EndClosePass
  <2>1. passes' \in [subsume : Nat, close : Nat]
    BY <1>8, PassesType DEF EndClosePass
  <2>2. todo' \subseteq Components
    BY <1>8, CohortAssumption DEF EndClosePass, AuditTargets
  <2> QED
    BY <1>8, <2>1, <2>2, CohortAssumption DEF EndClosePass, inputs, auditing
<1>9. ASSUME NEW c \in Components, NEW verdict \in Verdicts,
             NEW surface \in {"breaking", "major", "none"},
             Audit(c, verdict, surface)
      PROVE  TypeOK'
  <2> DEFINE rec  == Recommendation(c, verdict)
             code == IF rec = Unknown THEN StructuralBump(c, surface) ELSE rec
             next == NextRelease(Released[c], code)
             want == CASE pin[c].kind = "version" -> pin[c].version
                       [] pin[c].kind = "class" -> NextRelease(Released[c], pin[c].class)
                       [] OTHER -> next
  <2>1. rec \in Classes \cup {Unknown} /\ code \in Classes
    BY RecommendationType, StructuralType
  <2>2. /\ recommended' \in [Components -> Classes \cup {Unasked, Unknown}]
        /\ flagged' \in BOOLEAN
    <3>1. CASE Initial(c)
      BY <3>1, <1>9 DEF Audit, auditing
    <3>2. CASE ~Initial(c)
      <4>1. /\ recommended' = [recommended EXCEPT ![c] = rec]
            /\ flagged' = \/ flagged
                          \/ IF Supported(Released[c]) THEN ~AtLeast(want, next)
                             ELSE code = Generation
        BY <3>2, <1>9 DEF Audit
      <4> HIDE DEF rec, want, next, code
      <4> QED
        BY <4>1, <2>1
    <3> QED
      BY <3>1, <3>2
  <2> QED
    BY <1>9, <2>2 DEF Audit, inputs
<1>10. CASE EndAudit
  BY <1>10 DEF EndAudit, inputs, auditing
<1>11. ASSUME NEW c \in Components, NEW verdict \in Verdicts, Decide(c, verdict)
       PROVE  TypeOK'
  <2> DEFINE rec == IF Initial(c) THEN Unknown
                    ELSE IF recommended[c] = Unasked THEN Recommendation(c, verdict)
                    ELSE recommended[c]
  <2>1. rec \in Classes \cup {Unknown}
    BY RecommendationType
  <2>2. Chosen(c, rec) \in VersionOrNone
    BY <2>1, ChosenType DEF VersionOrNone
  <2>3. class' \in [Components -> Classes]
    BY <1>11, ClassValues DEF Decide
  <2>4. /\ recommended' \in {recommended, [recommended EXCEPT ![c] = rec]}
        /\ bumped' \in {bumped, [bumped EXCEPT ![c] = Chosen(c, rec)]}
    BY <1>11 DEF Decide
  <2>5. /\ recommended' \in [Components -> Classes \cup {Unasked, Unknown}]
        /\ bumped' \in [Components -> VersionOrNone]
    <3> HIDE DEF rec
    <3> QED
      BY <2>1, <2>2, <2>4
  <2> QED
    BY <1>11, <2>3, <2>5 DEF Decide, inputs
<1>12. CASE EndDecide
  BY <1>12 DEF EndDecide, inputs, loop, auditing
<1>13. CASE UNCHANGED vars
  BY <1>13 DEF vars, inputs, loop, auditing
<1>14. CASE Stop
  BY <1>13, <1>14 DEF Stop
<1> HIDE DEF TypeOK, Phases
<1> QED
  BY <1>1, <1>2, <1>3, <1>4, <1>5, <1>6, <1>7, <1>8, <1>9, <1>10, <1>11,
     <1>12, <1>13, <1>14 DEF Next

\* The variables of the run keep their types, for any graph and any inputs.
THEOREM TypeCorrect == Spec => []TypeOK
  BY InitType, NextType, PTL DEF Spec
-----------------------------------------------------------------------------
\* The subsume loop: an entry visited in a pass that has changed nothing so far
\* is settled, so a pass that changes nothing settles them all.
SubsumeInv ==
    /\ phase \in {"analyse", "plan", "surface", "subsume"} => pulled = {}
    /\ phase = "subsume" /\ ~changed =>
          \A c \in touched \ todo : \A d \in Imports[c] : class[c] >= class[d]
    /\ passes.subsume <= MaxPasses => PropagationComplete
    /\ NothingInvented

\* What Inherit computes is at least the class of every import.
LEMMA InheritBounds ==
    ASSUME TypeOK, NEW c \in Components
    PROVE  LET h == Highest({class[c]} \cup {class[d] : d \in Imports[c]}) IN
           /\ h \in Classes
           /\ h = class[c] \/ \E d \in Imports[c] : h = class[d]
           /\ class[c] <= h /\ \A d \in Imports[c] : class[d] <= h
<1>1. class \in [Components -> Classes] /\ class[c] \in Classes
  BY DEF TypeOK
<1>2. Imports[c] \in SUBSET Components
  BY ConstantTypes
<1> QED
  BY <1>1, <1>2, HighestImage

LEMMA ClassesAreIntegers == Classes \subseteq Int
  BY DEF Classes, None, Generation

LEMMA InheritKeepsSubsume ==
    ASSUME TypeOK, SubsumeInv, NEW c \in Components, Inherit(c)
    PROVE  SubsumeInv'
<1> DEFINE h == Highest({class[c]} \cup {class[d] : d \in Imports[c]})
<1>1. /\ phase = "subsume" /\ phase' = "subsume"
      /\ touched' = touched /\ todo' = todo \ {c} /\ pulled = {} /\ pulled' = {}
      /\ seed' = seed
      /\ \/ /\ c \in touched /\ class' = [class EXCEPT ![c] = h]
            /\ (changed => changed') /\ (h > class[c] => changed')
         \/ c \notin touched /\ class' = class /\ changed' = changed
  BY Zenon DEF Inherit, SubsumeInv
<1>2. /\ h \in Classes
      /\ h = class[c] \/ \E d \in Imports[c] : h = class[d]
      /\ class[c] <= h /\ \A d \in Imports[c] : class[d] <= h
  BY InheritBounds
<1>3. class \in [Components -> Classes] /\ touched \subseteq Components
      /\ Imports[c] \subseteq Components
  BY ConstantTypes DEF TypeOK
<1> HIDE DEF h
<1>4. ~changed' => \A x \in touched' \ todo' : \A d \in Imports[x] : class'[x] >= class'[d]
  <2> SUFFICES ASSUME ~changed' PROVE \A x \in touched \ todo' : \A d \in Imports[x] : class'[x] >= class'[d]
    BY <1>1
  <2>1. ~changed /\ class' = class /\ (c \in touched => h = class[c])
    <3>1. CASE c \in touched
      <4>1. ~changed /\ ~(h > class[c])
        BY <1>1, <3>1, Zenon
      <4>2. h = class[c]
        <5>1. h \in Int /\ class[c] \in Int /\ class[c] <= h
          BY <1>2, <1>3, ClassesAreIntegers
        <5> QED
          BY <4>1, <5>1
      <4>3. class' = [class EXCEPT ![c] = class[c]]
        BY <1>1, <3>1, <4>2
      <4>4. class' = class
        BY <1>3, <4>3
      <4> QED
        BY <4>1, <4>2, <4>4
    <3> QED
      BY <1>1, <3>1
  <2>2. \A x \in touched \ todo : \A d \in Imports[x] : class[x] >= class[d]
    BY <1>1, <2>1 DEF SubsumeInv
  <2>3. c \in touched => \A d \in Imports[c] : class[c] >= class[d]
    BY <1>2, <1>3, <2>1, ClassesAreIntegers
  <2> QED
    BY <1>1, <2>1, <2>2, <2>3
<1>5. NothingInvented'
  <2> SUFFICES ASSUME NEW S \in SUBSET Components, NEW b \in Classes,
                      \A x \in S \cap touched : Imports[x] \subseteq S,
                      \A x \in S : seed[x] <= b
               PROVE  \A x \in S : class'[x] <= b
    BY <1>1 DEF NothingInvented
  <2>1. \A x \in S : class[x] <= b
    BY <1>1 DEF SubsumeInv, NothingInvented
  <2>2. c \in S /\ c \in touched => h <= b
    BY <1>2, <2>1
  <2> QED
    BY <1>1, <1>3, <2>1, <2>2
<1> QED
  BY <1>1, <1>4, <1>5 DEF SubsumeInv, PropagationComplete
LEMMA PullInKeepsSubsume ==
    ASSUME SubsumeInv, TypeOK, NEW c \in Components, PullIn(c)
    PROVE  SubsumeInv'
<1>1. PICK cut \in SUBSET Components :
        /\ touched' = touched \cup cut /\ pulled' = pulled \cup cut
        /\ \A x \in Components \ cut : class'[x] = class[x]
  <2>1. CASE c \in touched
    <3> DEFINE cut == {d \in Imports[c] : d \notin touched /\ ~InManifest(d)} \cap Buildable
    <3>1. cut \in SUBSET Components
      BY ConstantTypes
    <3>2. /\ touched' = touched \cup cut /\ pulled' = pulled \cup cut
          /\ class' = [d \in Components |-> IF d \in cut THEN Patch ELSE class[d]]
      BY <2>1 DEF PullIn
    <3> HIDE DEF cut
    <3> QED
      BY <3>1, <3>2
  <2>2. CASE c \notin touched
    <3> WITNESS {} \in SUBSET Components
    <3> QED
      BY <2>2 DEF PullIn
  <2> QED
    BY <2>1, <2>2
<1>2. phase = "close" /\ phase' = "close" /\ seed' = seed /\ passes' = passes
  BY DEF PullIn
<1>3. PropagationComplete => PropagationComplete'
  <2>1. touched' \ pulled' \subseteq touched \ pulled
    BY <1>1
  <2>2. \A x \in Components \ pulled' : class'[x] = class[x] /\ x \notin pulled
    BY <1>1
  <2>3. touched \subseteq Components /\ \A x \in Components : Imports[x] \subseteq Components
    BY ConstantTypes DEF TypeOK
  <2> QED
    BY <1>1, <1>2, <2>1, <2>2, <2>3 DEF PropagationComplete
<1>4. NothingInvented'
  <2>1. touched \subseteq touched' /\ \A x \in Components \ pulled' : class'[x] = class[x] /\ x \notin pulled
    BY <1>1
  <2> SUFFICES ASSUME NEW S \in SUBSET Components, NEW b \in Classes,
                      \A x \in S \cap touched' : Imports[x] \subseteq S,
                      \A x \in S : seed[x] <= b
               PROVE  \A x \in S \ pulled' : class'[x] <= b
    BY <1>2 DEF NothingInvented
  <2>2. \A x \in S \ pulled : class[x] <= b
    BY <1>2, <2>1 DEF SubsumeInv, NothingInvented
  <2> QED
    BY <2>1, <2>2
<1> QED
  BY <1>2, <1>3, <1>4 DEF SubsumeInv

LEMMA NextSubsume ==
    ASSUME TypeOK, SubsumeInv, [Next]_vars
    PROVE  SubsumeInv'
<1>1. ASSUME UNCHANGED <<phase, touched, class, seed, pulled, todo, changed, passes>>
      PROVE  SubsumeInv'
  BY <1>1 DEF SubsumeInv, PropagationComplete, NothingInvented
<1>2. ASSUME phase' \in {"decide", "done", "died"}, pulled' = pulled PROVE SubsumeInv'
  BY <1>2 DEF SubsumeInv, PropagationComplete, NothingInvented
<1>3. ASSUME phase' \in {"analyse", "plan", "surface"}, pulled' = pulled,
             phase \in {"analyse", "plan", "surface"}
      PROVE  SubsumeInv'
  BY <1>3 DEF SubsumeInv, PropagationComplete, NothingInvented
<1>4. ASSUME phase' = "audit", phase \in {"close", "audit"},
             UNCHANGED <<touched, class, seed, pulled>>, passes'.subsume = passes.subsume
      PROVE  SubsumeInv'
  BY <1>4 DEF SubsumeInv, PropagationComplete, NothingInvented
<1>5. ASSUME NEW comps \in (SUBSET Components) \ {{}}, NEW labels \in SUBSET ChangeLabels,
             NEW bug \in BOOLEAN, NEW docsOnly \in SUBSET comps,
             AnalyseCommit(comps, labels, bug, docsOnly)
      PROVE  SubsumeInv'
  BY <1>5, <1>3 DEF AnalyseCommit
<1>6. CASE EndAnalysis
  BY <1>6, <1>2, <1>3 DEF EndAnalysis
<1>7. ASSUME NEW staged \in SUBSET Components, PlanGate(staged) PROVE SubsumeInv'
  BY <1>7, <1>3 DEF PlanGate
<1>8. CASE SurfaceGate
  <2>1. /\ phase = "surface" /\ phase' = "subsume" /\ todo' = Buildable
        /\ seed' = class' /\ touched' = touched /\ pulled' = {}
    BY <1>8 DEF SurfaceGate, SubsumeInv
  <2>2. \A c \in touched \ Buildable : Imports[c] = {}
    BY CohortAssumption DEF TypeOK
  <2> QED
    BY <2>1, <2>2 DEF SubsumeInv, PropagationComplete, NothingInvented
<1>9. ASSUME NEW c \in Components, Inherit(c) PROVE SubsumeInv'
  BY <1>9, InheritKeepsSubsume
<1>10. CASE EndSubsumePass
  <2>1. /\ phase = "subsume" /\ todo = {} /\ pulled = {}
        /\ UNCHANGED <<touched, class, seed, pulled>>
    BY <1>10 DEF EndSubsumePass, SubsumeInv
  <2>2. CASE changed /\ passes.subsume <= MaxPasses
    <3>1. phase' = "subsume" /\ todo' = Buildable
      BY <1>10, <2>1, <2>2 DEF EndSubsumePass
    <3>2. ~changed' => \A c \in touched \ Buildable : Imports[c] = {}
      BY CohortAssumption DEF TypeOK
    <3> QED
      BY <2>1, <3>1, <3>2 DEF SubsumeInv, PropagationComplete, NothingInvented
  <2>3. CASE ~(changed /\ passes.subsume <= MaxPasses)
    <3>1. phase' = "close" /\ passes'.subsume = passes.subsume
      BY <1>10, <2>3 DEF EndSubsumePass, TypeOK
    <3> QED
      BY <2>1, <2>3, <3>1 DEF SubsumeInv, PropagationComplete, NothingInvented
  <2> QED
    BY <2>2, <2>3
<1>11. ASSUME NEW c \in Components, PullIn(c) PROVE SubsumeInv'
  BY <1>11, PullInKeepsSubsume
<1>12. CASE EndClosePass
  <2>1. /\ phase = "close" /\ UNCHANGED <<touched, class, seed, pulled>>
        /\ phase' \in {"close", "audit", "died"}
    BY <1>12 DEF EndClosePass
  <2>2. passes'.subsume = passes.subsume
    BY <1>12 DEF EndClosePass, TypeOK
  <2>3. CASE phase' = "close"
    BY <2>1, <2>2, <2>3 DEF SubsumeInv, PropagationComplete, NothingInvented
  <2> QED
    BY <2>1, <2>2, <2>3, <1>2, <1>4
<1>13. ASSUME NEW c \in Components, NEW verdict \in Verdicts,
              NEW surface \in {"breaking", "major", "none"}, Audit(c, verdict, surface)
       PROVE  SubsumeInv'
  BY <1>13, <1>4 DEF Audit
<1>14. CASE EndAudit
  BY <1>14, <1>2 DEF EndAudit
<1>15. ASSUME NEW c \in Components, NEW verdict \in Verdicts, Decide(c, verdict)
       PROVE  SubsumeInv'
  BY <1>15, <1>2 DEF Decide
<1>16. CASE EndDecide
  BY <1>16, <1>2 DEF EndDecide
<1>17. CASE UNCHANGED vars
  BY <1>17, <1>1 DEF vars, loop
<1>18. CASE Stop
  BY <1>17, <1>18 DEF Stop
<1> QED
  BY <1>5, <1>6, <1>7, <1>8, <1>9, <1>10, <1>11, <1>12, <1>13, <1>14, <1>15,
     <1>16, <1>17, <1>18 DEF Next

LEMMA InitSubsume == Init => SubsumeInv
  BY DEF Init, SubsumeInv, PropagationComplete, NothingInvented

LEMMA SubsumeInvariance == Spec => []SubsumeInv
  BY TypeCorrect, InitSubsume, NextSubsume, PTL DEF Spec

\* The classes only spread along the imports: no component leaves the
\* propagation above the highest class it could reach (release.sh, subsume loop).
THEOREM PropagationSound == Spec => []NothingInvented
<1>1. SubsumeInv => NothingInvented
  BY DEF SubsumeInv
<1> QED
  BY <1>1, SubsumeInvariance, PTL

\* Unless the cut-off stopped it, the loop reached the fixpoint, in whatever
\* order it visited the table.
THEOREM PropagationReachesFixpoint ==
    Spec => [](passes.subsume <= MaxPasses => PropagationComplete)
<1>1. SubsumeInv => (passes.subsume <= MaxPasses => PropagationComplete)
  BY DEF SubsumeInv
<1> QED
  BY <1>1, SubsumeInvariance, PTL
-----------------------------------------------------------------------------
\* The closure loop, likewise: in a pass that pulled nothing in so far, every
\* entry visited has its imports in the release or released, or the loop has
\* recorded one that makes the run die.
CloseInv ==
    /\ phase = "close" /\ ~changed =>
          \A c \in (touched \cap Buildable) \ todo : \A d \in Imports[c] :
              d \in touched \/ InManifest(d) \/ unreleasable # {}
    /\ passes.close <= MaxPasses => ClosureComplete

LEMMA PullInKeepsClose ==
    ASSUME TypeOK, CloseInv, NEW c \in Components, PullIn(c)
    PROVE  CloseInv'
<1>1. phase = "close" /\ phase' = "close" /\ todo' = todo \ {c}
  BY DEF PullIn
<1> SUFFICES ASSUME ~changed', NEW x \in (touched' \cap Buildable) \ todo',
                    NEW d \in Imports[x]
             PROVE  d \in touched' \/ InManifest(d) \/ unreleasable' # {}
  BY <1>1 DEF CloseInv, ClosureComplete
<1>2. CASE c \in touched
  <2> DEFINE missing == {e \in Imports[c] : e \notin touched /\ ~InManifest(e)}
             cut     == missing \cap Buildable
  <2>1. /\ unreleasable' = unreleasable \cup (missing \ Buildable)
        /\ touched' = touched \cup cut
        /\ (changed => changed') /\ (cut # {} => changed')
    BY <1>2, Zenon DEF PullIn
  <2>2. ~changed /\ cut = {}
    BY <2>1, Zenon
  <2>3. touched' = touched
    BY <2>1, <2>2
  <2>4. CASE x = c
    BY <2>1, <2>2, <2>3, <2>4
  <2>5. CASE x # c
    BY <1>1, <2>1, <2>2, <2>3, <2>5 DEF CloseInv
  <2> QED
    BY <2>4, <2>5
<1>3. CASE c \notin touched
  BY <1>1, <1>3 DEF PullIn, CloseInv
<1> QED
  BY <1>2, <1>3

LEMMA NextClose ==
    ASSUME TypeOK, CloseInv, [Next]_vars
    PROVE  CloseInv'
<1>1. ASSUME phase' \in Phases \ {"close", "audit", "decide", "done"} PROVE CloseInv'
  BY <1>1 DEF CloseInv, ClosureComplete
<1>2. ASSUME phase \in {"audit", "decide", "done"}, UNCHANGED <<touched, passes>>,
             phase' \in {"audit", "decide", "done"}
      PROVE  CloseInv'
  BY <1>2 DEF CloseInv, ClosureComplete
<1>3. ASSUME NEW comps \in (SUBSET Components) \ {{}}, NEW labels \in SUBSET ChangeLabels,
             NEW bug \in BOOLEAN, NEW docsOnly \in SUBSET comps,
             AnalyseCommit(comps, labels, bug, docsOnly)
      PROVE  CloseInv'
  BY <1>3, <1>1 DEF AnalyseCommit, Phases
<1>4. CASE EndAnalysis
  BY <1>4 DEF EndAnalysis, CloseInv, ClosureComplete
<1>5. ASSUME NEW staged \in SUBSET Components, PlanGate(staged) PROVE CloseInv'
  BY <1>5, <1>1 DEF PlanGate, Phases
<1>6. CASE SurfaceGate
  BY <1>6, <1>1 DEF SurfaceGate, Phases
<1>7. ASSUME NEW c \in Components, Inherit(c) PROVE CloseInv'
  BY <1>7, <1>1 DEF Inherit, Phases
<1>8. CASE EndSubsumePass
  <2>1. phase' = "subsume" \/ (phase' = "close" /\ todo' = Buildable)
    BY <1>8 DEF EndSubsumePass
  <2> QED
    BY <2>1, <1>1 DEF Phases, CloseInv, ClosureComplete
<1>9. ASSUME NEW c \in Components, PullIn(c) PROVE CloseInv'
  BY <1>9, PullInKeepsClose
<1>10. CASE EndClosePass
  <2>1. phase = "close" /\ todo = {} /\ UNCHANGED <<touched, unreleasable>>
    BY <1>10 DEF EndClosePass
  <2>2. CASE changed /\ passes.close <= MaxPasses
    BY <1>10, <2>1, <2>2 DEF EndClosePass, CloseInv, ClosureComplete
  <2>3. CASE ~(changed /\ passes.close <= MaxPasses)
    <3>1. passes' = passes /\ phase' = IF unreleasable # {} THEN "died" ELSE "audit"
      BY <1>10, <2>3 DEF EndClosePass
    <3> QED
      BY <2>1, <2>3, <3>1 DEF CloseInv, ClosureComplete
  <2> QED
    BY <2>2, <2>3
<1>11. ASSUME NEW c \in Components, NEW verdict \in Verdicts,
              NEW surface \in {"breaking", "major", "none"}, Audit(c, verdict, surface)
       PROVE  CloseInv'
  BY <1>11, <1>2 DEF Audit
<1>12. CASE EndAudit
  <2>1. phase' \in {"died", "decide"} /\ phase = "audit" /\ UNCHANGED <<touched, passes>>
    BY <1>12 DEF EndAudit
  <2> QED
    BY <2>1, <1>1, <1>2 DEF Phases
<1>13. ASSUME NEW c \in Components, NEW verdict \in Verdicts, Decide(c, verdict)
       PROVE  CloseInv'
  BY <1>13, <1>2 DEF Decide
<1>14. CASE EndDecide
  BY <1>14, <1>2 DEF EndDecide, loop
<1>15. CASE UNCHANGED vars
  BY <1>15 DEF vars, loop, CloseInv, ClosureComplete
<1>16. CASE Stop
  BY <1>15, <1>16 DEF Stop
<1> QED
  BY <1>3, <1>4, <1>5, <1>6, <1>7, <1>8, <1>9, <1>10, <1>11, <1>12, <1>13,
     <1>14, <1>15, <1>16 DEF Next

LEMMA CloseInvariance == Spec => []CloseInv
<1>1. Init => CloseInv
  BY DEF Init, CloseInv, ClosureComplete
<1> QED
  BY <1>1, TypeCorrect, NextClose, PTL DEF Spec

\* Unless the cut-off stopped it, the closure leaves no import of the release
\* without a version (release.sh, the dependency closure).
THEOREM ClosureReachesFixpoint ==
    Spec => [](passes.close <= MaxPasses => ClosureComplete)
<1>1. CloseInv => (passes.close <= MaxPasses => ClosureComplete)
  BY DEF CloseInv
<1> QED
  BY <1>1, CloseInvariance, PTL
-----------------------------------------------------------------------------
\* The loop that decides: what has been bumped so far, and why.
DecideInv ==
    /\ phase \notin {"decide", "done"} => \A c \in Components : bumped[c] = NotReleased
    /\ \A c \in Components : bumped[c] # NotReleased => c \in touched \cap Buildable
    /\ phase = "decide" =>
          /\ todo \subseteq touched
          /\ \A c \in (touched \cap Buildable) \ todo :
                Initial(c) => bumped[c] # NotReleased
    /\ phase = "done" =>
          \A c \in touched \cap Buildable : Initial(c) => bumped[c] # NotReleased
    /\ mode = "stage" /\ phase \notin {"analyse", "plan"} => touched \subseteq plan \cup pulled
    /\ UnchangedStays

LEMMA DecideKeepsDecide ==
    ASSUME TypeOK, DecideInv, NEW c \in Components, NEW verdict \in Verdicts,
           Decide(c, verdict)
    PROVE  DecideInv'
<1>1. /\ phase = "decide" /\ phase' = "decide" /\ c \in todo /\ todo' = todo \ {c}
      /\ UNCHANGED <<mode, pin, changedAidl, touched, plan, pulled>>
  <2>1. UNCHANGED <<phase, inputs, touched, plan, pulled>>
    BY DEF Decide
  <2>2. phase = "decide" /\ c \in todo /\ todo' = todo \ {c}
    BY DEF Decide
  <2> QED
    BY <2>1, <2>2 DEF inputs
<1> DEFINE rec == IF Initial(c) THEN Unknown
                  ELSE IF recommended[c] = Unasked THEN Recommendation(c, verdict)
                  ELSE recommended[c]
<1>2. c \in touched
  BY <1>1 DEF DecideInv
<1>3. \A x \in Components : AidlStatus(x)' = AidlStatus(x)
  BY <1>1 DEF AidlStatus
<1>4. CASE c \notin Buildable
  <2>1. UNCHANGED <<recommended, bumped>>
    BY <1>4 DEF Decide
  <2>2. UnchangedStays'
    BY <1>1, <1>3, <2>1 DEF DecideInv, UnchangedStays
  <2>3. todo' \subseteq touched'
        /\ \A x \in (touched' \cap Buildable) \ todo' : Initial(x) => bumped'[x] # NotReleased
    BY <1>1, <1>4, <2>1 DEF DecideInv
  <2> QED
    BY <1>1, <2>1, <2>2, <2>3 DEF DecideInv
<1>5. CASE c \in Buildable
  <2>1. /\ recommended' = (IF Initial(c) THEN recommended ELSE [recommended EXCEPT ![c] = rec])
        /\ bumped' = IF NeedsSnapshot(c, rec)
                     THEN [bumped EXCEPT ![c] = Chosen(c, rec)] ELSE bumped
    BY <1>5 DEF Decide
  <2>2. rec \in Classes \cup {Unknown}
    BY RecommendationType DEF TypeOK
  <2>3. Chosen(c, rec) # NotReleased
    <3>1. NotReleased \notin Releases
      BY DEF NotReleased, Release, Releases
    <3> QED
      BY <2>2, <3>1, ChosenType
  <2>4. NeedsSnapshot(c, rec) /\ AidlStatus(c) = "unchanged" /\ pin[c] = NoPin
        => ~Initial(c) /\ rec \in Classes \ {None}
    <3> SUFFICES ASSUME NeedsSnapshot(c, rec), AidlStatus(c) = "unchanged", pin[c] = NoPin
                 PROVE  ~Initial(c) /\ rec \in Classes \ {None}
      OBVIOUS
    <3>1. ~Initial(c)
      BY DEF AidlStatus, Initial
    <3>2. Bump(c, rec) = IF rec = Unknown THEN None ELSE rec
      BY <3>1 DEF Bump, LabelBump
    <3>3. Chosen(c, rec) = NextRelease(Current(c), Bump(c, rec))
      BY DEF Chosen, Computed, NoPin
    <3>4. NextRelease(Current(c), None) = Current(c)
      BY DEF NextRelease, None, Patch, Minor_, Generation
    <3>5. Bump(c, rec) # None
      BY <3>1, <3>3, <3>4 DEF NeedsSnapshot
    <3> QED
      BY <2>2, <3>1, <3>2, <3>5
  <2>5. bumped \in [Components -> VersionOrNone]
        /\ recommended \in [Components -> Classes \cup {Unasked, Unknown}]
    BY DEF TypeOK
  <2>6. \A x \in Components \ {c} : bumped'[x] = bumped[x] /\ recommended'[x] = recommended[x]
    BY <2>1, <2>5
  <2>7. /\ bumped'[c] = IF NeedsSnapshot(c, rec) THEN Chosen(c, rec) ELSE bumped[c]
        /\ ~Initial(c) => recommended'[c] = rec
        /\ Initial(c) => NeedsSnapshot(c, rec)
    BY <2>1, <2>5 DEF NeedsSnapshot
  <2>8. recommended[c] \in Classes => recommended'[c] = recommended[c]
    <3>1. Unasked \notin Classes
      BY DEF Unasked, Classes, None, Generation
    <3> QED
      BY <2>1, <2>5, <2>7, <3>1
  <2> HIDE DEF rec
  <2>9. UnchangedStays'
    <3> SUFFICES ASSUME NEW x \in Components, AidlStatus(x) = "unchanged",
                        bumped'[x] # NotReleased, pin[x] = NoPin
                 PROVE  recommended'[x] \in Classes \ {None}
      BY <1>1, <1>3 DEF UnchangedStays
    <3>1. CASE x # c
      BY <2>6, <3>1 DEF DecideInv, UnchangedStays
    <3>2. CASE x = c /\ NeedsSnapshot(c, rec)
      BY <2>4, <2>7, <3>2
    <3>3. CASE x = c /\ ~NeedsSnapshot(c, rec)
      BY <2>7, <2>8, <3>3 DEF DecideInv, UnchangedStays
    <3> QED
      BY <3>1, <3>2, <3>3
  <2>10. \A x \in Components : bumped'[x] # NotReleased => x \in touched' \cap Buildable
    BY <1>1, <1>2, <1>5, <2>6 DEF DecideInv
  <2>11. \A x \in (touched' \cap Buildable) \ todo' : Initial(x) => bumped'[x] # NotReleased
    <3> SUFFICES ASSUME NEW x \in (touched \cap Buildable) \ todo', Initial(x)
                 PROVE  bumped'[x] # NotReleased
      BY <1>1
    <3>1. CASE x = c
      BY <2>3, <2>7, <3>1
    <3>2. CASE x # c
      BY <1>1, <2>6, <3>2, ConstantTypes DEF DecideInv
    <3> QED
      BY <3>1, <3>2
  <2> QED
    BY <1>1, <2>9, <2>10, <2>11 DEF DecideInv
<1> QED
  BY <1>4, <1>5

\* Every step that decides nothing.
LEMMA QuietDecide ==
    ASSUME DecideInv, bumped' = bumped, phase \notin {"decide", "done"},
           phase' \notin {"decide", "done"},
           mode' = "stage" /\ phase' \notin {"analyse", "plan"} =>
               touched' \subseteq plan' \cup pulled'
    PROVE  DecideInv'
<1>1. \A c \in Components : bumped[c] = NotReleased
  BY DEF DecideInv
<1> QED
  BY <1>1 DEF DecideInv, UnchangedStays

LEMMA NextDecide ==
    ASSUME TypeOK, DecideInv, [Next]_vars
    PROVE  DecideInv'
<1> USE QuietDecide
<1>1. ASSUME NEW comps \in (SUBSET Components) \ {{}}, NEW labels \in SUBSET ChangeLabels,
             NEW bug \in BOOLEAN, NEW docsOnly \in SUBSET comps,
             AnalyseCommit(comps, labels, bug, docsOnly)
      PROVE  DecideInv'
  BY <1>1 DEF AnalyseCommit
<1>2. CASE EndAnalysis
  <2>1. /\ phase = "analyse" /\ bumped' = bumped /\ touched' = touched
        /\ phase' = IF touched = {} THEN "done" ELSE "plan"
    BY <1>2 DEF EndAnalysis
  <2>2. CASE touched = {}
    <3>1. \A c \in Components : bumped[c] = NotReleased
      BY <2>1 DEF DecideInv
    <3> QED
      BY <2>1, <2>2, <3>1 DEF DecideInv, UnchangedStays
  <2>3. CASE touched # {}
    BY <2>1, <2>3
  <2> QED
    BY <2>2, <2>3
<1>3. ASSUME NEW staged \in SUBSET Components, PlanGate(staged) PROVE DecideInv'
  BY <1>3 DEF PlanGate, inputs
<1>4. CASE SurfaceGate
  BY <1>4 DEF SurfaceGate, inputs, DecideInv
<1>5. ASSUME NEW c \in Components, Inherit(c) PROVE DecideInv'
  BY <1>5 DEF Inherit, inputs, DecideInv
<1>6. CASE EndSubsumePass
  BY <1>6 DEF EndSubsumePass, inputs, DecideInv
<1>7. ASSUME NEW c \in Components, PullIn(c) PROVE DecideInv'
  <2>1. /\ phase = "close" /\ phase' = "close" /\ bumped' = bumped
        /\ mode' = mode /\ plan' = plan
    BY <1>7 DEF PullIn, inputs
  <2>2. touched \subseteq plan \cup pulled => touched' \subseteq plan \cup pulled'
    BY <1>7 DEF PullIn
  <2> QED
    BY <2>1, <2>2 DEF DecideInv
<1>8. CASE EndClosePass
  <2>1. phase = "close" /\ phase' \in {"close", "audit", "died"} /\ bumped' = bumped
        /\ UNCHANGED <<mode, touched, plan, pulled>>
    BY <1>8 DEF EndClosePass, inputs
  <2> QED
    BY <2>1 DEF DecideInv
<1>9. ASSUME NEW c \in Components, NEW verdict \in Verdicts,
             NEW surface \in {"breaking", "major", "none"}, Audit(c, verdict, surface)
      PROVE  DecideInv'
  BY <1>9 DEF Audit, inputs, DecideInv
<1>10. CASE EndAudit
  <2>1. /\ phase = "audit" /\ phase' = (IF flagged THEN "died" ELSE "decide")
        /\ todo' = touched /\ UNCHANGED <<mode, touched, plan, pulled, bumped>>
    BY <1>10 DEF EndAudit, inputs
  <2>2. \A c \in Components : bumped[c] = NotReleased
    BY <2>1 DEF DecideInv
  <2> QED
    BY <2>1, <2>2 DEF DecideInv, UnchangedStays
<1>11. ASSUME NEW c \in Components, NEW verdict \in Verdicts, Decide(c, verdict)
       PROVE  DecideInv'
  BY <1>11, DecideKeepsDecide
<1>12. CASE EndDecide
  <2>1. /\ phase = "decide" /\ phase' = "done" /\ todo = {}
        /\ UNCHANGED <<mode, pin, changedAidl, touched, plan, pulled, bumped, recommended>>
    BY <1>12 DEF EndDecide, inputs, auditing
  <2>2. UnchangedStays'
    BY <2>1 DEF DecideInv, UnchangedStays, AidlStatus
  <2> QED
    BY <2>1, <2>2 DEF DecideInv
<1>13. CASE UNCHANGED vars
  <2>1. UNCHANGED <<phase, mode, pin, changedAidl, touched, plan, pulled, todo, bumped, recommended>>
    BY <1>13 DEF vars, inputs, loop, auditing
  <2> QED
    BY <2>1 DEF DecideInv, UnchangedStays, AidlStatus
<1>14. CASE Stop
  BY <1>13, <1>14 DEF Stop
<1> QED
  BY <1>1, <1>2, <1>3, <1>4, <1>5, <1>6, <1>7, <1>8, <1>9, <1>10, <1>11,
     <1>12, <1>13, <1>14 DEF Next

LEMMA DecideInvariance == Spec => []DecideInv
<1>1. Init => DecideInv
  BY DEF Init, DecideInv, UnchangedStays
<1> QED
  BY <1>1, TypeCorrect, NextDecide, PTL DEF Spec

\* A targeted run cuts nothing but the modules named and the first releases
\* they need (release.sh, the plan gate and the dependency closure).
THEOREM TargetedRunStaysInPlan == Spec => []OnlyPlannedReleased
<1>1. DecideInv => OnlyPlannedReleased
  BY DEF DecideInv, OnlyPlannedReleased
<1> QED
  BY <1>1, DecideInvariance, PTL

\* The hash gate holds against labels, plan and propagation.
THEOREM IdenticalSurfaceStays == Spec => []UnchangedStays
<1>1. DecideInv => UnchangedStays
  BY DEF DecideInv
<1> QED
  BY <1>1, DecideInvariance, PTL

\* Unless the cut-off stopped the closure, everything cut can be pinned to
\* versions of its imports.
THEOREM SnapshotsCanBePinned ==
    Spec => [](passes.close <= MaxPasses => ImportsHaveVersions)
<1>1. CloseInv /\ DecideInv => (passes.close <= MaxPasses => ImportsHaveVersions)
  <2> SUFFICES ASSUME CloseInv, DecideInv, passes.close <= MaxPasses, phase = "done",
                      NEW c \in Components, bumped[c] # NotReleased,
                      NEW d \in Imports[c] \cap Buildable
               PROVE  bumped[d] # NotReleased \/ InManifest(d)
    BY DEF ImportsHaveVersions
  <2>1. c \in touched \cap Buildable
    BY DEF DecideInv
  <2>2. d \in touched \/ InManifest(d)
    BY <2>1 DEF CloseInv, ClosureComplete
  <2>3. d \in touched /\ Initial(d) => bumped[d] # NotReleased
    BY DEF DecideInv
  <2> QED
    BY <2>2, <2>3 DEF InManifest, Initial
<1> QED
  BY <1>1, CloseInvariance, DecideInvariance, PTL
-----------------------------------------------------------------------------
LEMMA SuccessorLater ==
    ASSUME NEW v \in Releases, Supported(v), NEW k \in Classes
    PROVE  /\ NextRelease(v, k) \in Releases
           /\ k # None => Before(v, NextRelease(v, k))
           /\ k = None => NextRelease(v, k) = v
  BY DEF NextRelease, Supported, Releases, Release, Before, Classes, None,
         Patch, Minor_, Generation

LEMMA OrderFacts ==
    ASSUME NEW u \in Releases, NEW v \in Releases, NEW w \in Releases
    PROVE  /\ AtLeast(v, v)
           /\ AtLeast(u, v) /\ AtLeast(v, w) => AtLeast(u, w)
           /\ AtLeast(u, v) /\ Before(w, v) => Before(w, u)
           /\ AtLeast(u, v) /\ u # v => Before(v, u)
           /\ Before(v, u) => u # v
  BY DEF AtLeast, Before, Releases

\* What the audit has established of a component it did not flag: the compiler
\* was asked, and a pin reaches what the change calls for.
Audited(c) ==
    /\ recommended[c] # Unasked
    /\ Supported(Released[c]) =>
          /\ pin[c].kind = "version" => AtLeast(pin[c].version, Released[c])
          /\ recommended[c] \in Classes =>
                AtLeast(Chosen(c, recommended[c]),
                        NextRelease(Released[c], recommended[c]))

\* What the loop has done with a component it visited.
Floored(c) ==
    /\ ~Initial(c) /\ Supported(Released[c])
    /\ recommended[c] \in Classes \ {None}
    => /\ bumped[c] # NotReleased
       /\ AtLeast(bumped[c], NextRelease(Released[c], recommended[c]))

\* The audit sees everything the loop will decide, first releases aside: those
\* are the components the closure pulls into a targeted run.
AuditInv ==
    /\ \A c \in pulled : Initial(c)
    /\ phase = "audit" /\ ~flagged =>
          \A c \in AuditTargets \ todo : Initial(c) \/ Audited(c)
    /\ phase = "decide" =>
          \A c \in touched \cap Buildable :
              /\ Initial(c) \/ Audited(c)
              /\ c \notin todo => Floored(c)
    /\ phase = "done" => \A c \in touched \cap Buildable : Floored(c)
    /\ VersionsRise

\* A released component has the released version to start from.
LEMMA ReleasedStart ==
    ASSUME NEW c \in Components, ~Initial(c)
    PROVE  Released[c] \in Releases /\ Current(c) = Released[c]
  BY ConstantTypes DEF Initial, Current, VersionOrNone

LEMMA ChosenForPin ==
    ASSUME TypeOK, NEW c \in Components, ~Initial(c), NEW rec \in Classes \cup {Unknown}
    PROVE  /\ pin[c].kind = "version" => Chosen(c, rec) = pin[c].version
           /\ pin[c].kind = "class" =>
                Chosen(c, rec) = NextRelease(Released[c], pin[c].class)
           /\ pin[c].kind = "none" =>
                \E k \in Classes : /\ rec \in Classes => k = rec
                                   /\ Chosen(c, rec) = NextRelease(Released[c], k)
<1>1. Current(c) = Released[c]
  BY ReleasedStart
<1>2. Bump(c, rec) \in Classes /\ (rec \in Classes => Bump(c, rec) = rec)
  <2>1. LabelBump(c) \in Classes
    <3>1. class[c] \in Classes
      BY DEF TypeOK
    <3> QED
      BY <3>1, ClassValues DEF LabelBump
  <2>2. Unknown \notin Classes
    BY DEF Unknown, Classes, None, Generation
  <2> QED
    BY <2>1, <2>2 DEF Bump
<1>3. CASE pin[c].kind = "version"
  BY <1>3 DEF Chosen
<1>4. CASE pin[c].kind = "class"
  BY <1>1, <1>4 DEF Chosen, Computed
<1>5. CASE pin[c].kind = "none"
  <2>1. Chosen(c, rec) = NextRelease(Released[c], Bump(c, rec))
    BY <1>1, <1>5 DEF Chosen, Computed
  <2>2. \E k \in Classes : /\ rec \in Classes => k = rec
                           /\ Chosen(c, rec) = NextRelease(Released[c], k)
    BY <1>2, <2>1
  <2> QED
    BY <1>5, <2>2
<1> QED
  BY <1>3, <1>4, <1>5, PinType

LEMMA AuditEstablishes ==
    ASSUME TypeOK, NEW c \in Components, NEW verdict \in Verdicts,
           NEW surface \in {"breaking", "major", "none"}, ~Initial(c),
           Audit(c, verdict, surface), ~flagged'
    PROVE  Audited(c)' /\ ~flagged
<1> DEFINE rec  == Recommendation(c, verdict)
           code == IF rec = Unknown THEN StructuralBump(c, surface) ELSE rec
           next == NextRelease(Released[c], code)
           want == CASE pin[c].kind = "version" -> pin[c].version
                     [] pin[c].kind = "class" -> NextRelease(Released[c], pin[c].class)
                     [] OTHER -> next
<1>1. rec \in Classes \cup {Unknown} /\ code \in Classes
  BY RecommendationType, StructuralType
<1>2. /\ recommended' = [recommended EXCEPT ![c] = rec]
      /\ ~flagged /\ (Supported(Released[c]) => AtLeast(want, next))
  <2>1. flagged' = \/ flagged
                   \/ IF Supported(Released[c]) THEN ~AtLeast(want, next)
                      ELSE code = Generation
    BY Zenon DEF Audit
  <2>2. recommended' = [recommended EXCEPT ![c] = rec]
    BY Zenon DEF Audit
  <2> HIDE DEF want, next, code, rec
  <2> QED
    BY <2>1, <2>2
<1>3. UNCHANGED <<mode, pin, changedAidl, class>>
  BY DEF Audit, inputs
<1>4. recommended'[c] = rec
  <2>1. recommended' = [recommended EXCEPT ![c] = rec]
    BY <1>2
  <2> HIDE DEF rec
  <2> QED
    BY <2>1 DEF TypeOK
<1>5. rec # Unasked
  BY <1>1 DEF Unasked, Unknown, Classes, None, Generation
<1>6. ASSUME Supported(Released[c])
      PROVE  /\ pin[c].kind = "version" => AtLeast(pin[c].version, Released[c])
             /\ rec \in Classes =>
                   AtLeast(Chosen(c, rec), NextRelease(Released[c], rec))
  <2>1. Released[c] \in Releases /\ AtLeast(next, Released[c]) /\ next \in Releases
    <3>1. Released[c] \in Releases
      BY ReleasedStart
    <3> HIDE DEF code
    <3>2. next \in Releases /\ (next = Released[c] \/ Before(Released[c], next))
      BY <1>1, <1>6, <3>1, SuccessorLater
    <3> QED
      BY <3>1, <3>2 DEF AtLeast
  <2>2. AtLeast(want, next)
    BY <1>2, <1>6
  <2>3. rec \in Classes => code = rec
    BY DEF Unknown, Classes, None, Generation
  <2> HIDE DEF rec, code
  <2>4. CASE pin[c].kind = "version"
    <3>1. want = pin[c].version /\ pin[c].version \in Releases
      BY <2>4, PinType, Zenon
    <3>2. Chosen(c, rec) = pin[c].version
      BY <1>1, <2>4, ChosenForPin
    <3> HIDE DEF next, want
    <3>3. AtLeast(pin[c].version, Released[c])
      BY <2>1, <2>2, <3>1, OrderFacts
    <3> QED
      BY <2>2, <2>3, <3>1, <3>2, <3>3 DEF next
  <2>5. CASE pin[c].kind = "class"
    <3>1. want = NextRelease(Released[c], pin[c].class)
      BY <2>5, Zenon
    <3>2. Chosen(c, rec) = NextRelease(Released[c], pin[c].class)
      BY <1>1, <2>5, ChosenForPin
    <3> QED
      BY <2>2, <2>3, <2>5, <3>1, <3>2
  <2>6. CASE pin[c].kind = "none"
    <3>1. rec \in Classes => Chosen(c, rec) = next
      BY <1>1, <2>3, <2>6, ChosenForPin
    <3>2. AtLeast(next, next)
      BY <2>1, OrderFacts
    <3> QED
      BY <2>3, <2>6, <3>1, <3>2
  <2> QED
    BY <2>4, <2>5, <2>6, PinType
<1> HIDE DEF rec
<1>7. Audited(c)' <=> /\ recommended'[c] # Unasked
                      /\ Supported(Released[c]) =>
                           /\ pin'[c].kind = "version" => AtLeast(pin'[c].version, Released[c])
                           /\ recommended'[c] \in Classes =>
                                AtLeast(Chosen(c, recommended[c])',
                                        NextRelease(Released[c], recommended'[c]))
  BY DEF Audited
<1>8. Chosen(c, recommended[c])' = Chosen(c, rec)
  BY <1>3, <1>4 DEF Chosen, Computed, Bump, LabelBump, AidlStatus, Current
<1> QED
  BY <1>2, <1>3, <1>4, <1>5, <1>6, <1>7, <1>8

\* Without a version pin nothing below the released version can be chosen.
LEMMA ChosenAbove ==
    ASSUME TypeOK, NEW c \in Components, ~Initial(c), Supported(Released[c]),
           NEW rec \in Classes \cup {Unknown},
           pin[c].kind = "version" => AtLeast(pin[c].version, Released[c])
    PROVE  AtLeast(Chosen(c, rec), Released[c])
<1>1. Released[c] \in Releases
  BY ReleasedStart
<1>2. \A k \in Classes : AtLeast(NextRelease(Released[c], k), Released[c])
  BY <1>1, SuccessorLater DEF AtLeast
<1> QED
  BY <1>2, ChosenForPin, PinType

LEMMA DecideKeepsAudit ==
    ASSUME TypeOK, DecideInv, AuditInv, NEW c \in Components, NEW verdict \in Verdicts,
           Decide(c, verdict)
    PROVE  AuditInv'
<1>1. /\ phase = "decide" /\ phase' = "decide" /\ c \in todo /\ todo' = todo \ {c}
      /\ UNCHANGED <<mode, pin, changedAidl, touched, plan, pulled>>
  <2>1. UNCHANGED <<phase, inputs, touched, plan, pulled>>
    BY DEF Decide
  <2>2. phase = "decide" /\ c \in todo /\ todo' = todo \ {c}
    BY DEF Decide
  <2> QED
    BY <2>1, <2>2 DEF inputs
<1>2. c \in touched
  BY <1>1 DEF DecideInv
<1> DEFINE rec == IF Initial(c) THEN Unknown ELSE recommended[c]
<1>3. c \in Buildable =>
        /\ recommended' = recommended
        /\ class' = IF AidlStatus(c) = "unchanged"
                    THEN [class EXCEPT ![c] = None] ELSE class
        /\ bumped' = IF NeedsSnapshot(c, rec)
                     THEN [bumped EXCEPT ![c] = Chosen(c, rec)] ELSE bumped
        /\ rec \in Classes \cup {Unknown}
  <2> SUFFICES ASSUME c \in Buildable
               PROVE  /\ recommended' = recommended
                      /\ class' = IF AidlStatus(c) = "unchanged"
                                  THEN [class EXCEPT ![c] = None] ELSE class
                      /\ bumped' = IF NeedsSnapshot(c, rec)
                                   THEN [bumped EXCEPT ![c] = Chosen(c, rec)] ELSE bumped
                      /\ rec \in Classes \cup {Unknown}
    OBVIOUS
  <2>1. recommended \in [Components -> Classes \cup {Unasked, Unknown}]
    BY DEF TypeOK
  <2>2. ~Initial(c) => recommended[c] # Unasked
    BY <1>1, <1>2 DEF AuditInv, Audited
  <2>3. rec = (IF Initial(c) THEN Unknown
               ELSE IF recommended[c] = Unasked THEN Recommendation(c, verdict)
               ELSE recommended[c])
    BY <2>2
  <2>4. /\ class' = IF AidlStatus(c) = "unchanged"
                    THEN [class EXCEPT ![c] = None] ELSE class
        /\ recommended' = IF Initial(c) THEN recommended
                          ELSE [recommended EXCEPT ![c] = rec]
        /\ bumped' = IF NeedsSnapshot(c, rec)
                     THEN [bumped EXCEPT ![c] = Chosen(c, rec)] ELSE bumped
    <3> HIDE DEF rec
    <3> QED
      BY <2>3, Zenon DEF Decide
  <2>5. recommended' = recommended
    BY <2>1, <2>4
  <2> QED
    BY <2>1, <2>2, <2>4, <2>5
<1>4. c \notin Buildable => UNCHANGED <<class, recommended, bumped>>
  BY DEF Decide
<1>5. recommended' = recommended
  BY <1>3, <1>4
<1>6. /\ \A x \in Components \ {c} : bumped'[x] = bumped[x]
      /\ c \in Buildable =>
           bumped'[c] = IF NeedsSnapshot(c, rec) THEN Chosen(c, rec) ELSE bumped[c]
  <2>1. bumped \in [Components -> VersionOrNone]
    BY DEF TypeOK
  <2> HIDE DEF rec
  <2> QED
    BY <1>3, <1>4, <2>1
<1>7. \A x \in touched \cap Buildable : ~Initial(x) /\ Audited(x) => Audited(x)'
  <2> SUFFICES ASSUME NEW x \in touched \cap Buildable, ~Initial(x), Audited(x)
               PROVE  Audited(x)'
    OBVIOUS
  <2>1. recommended[x] \in Classes => recommended[x] # Unknown
    BY DEF Unknown, Classes, None, Generation
  <2>2. recommended[x] \in Classes
        => Chosen(x, recommended[x])' = Chosen(x, recommended[x])
    BY <1>1, <1>5, <2>1 DEF Chosen, Computed, Bump, Current
  <2> QED
    BY <1>1, <1>5, <2>2 DEF Audited
<1>8. ASSUME c \in Buildable, ~Initial(c), Supported(Released[c])
      PROVE  /\ Floored(c)'
             /\ bumped'[c] # NotReleased => Before(Released[c], bumped'[c])
  <2>1. Audited(c) /\ rec = recommended[c]
    BY <1>1, <1>2, <1>8 DEF AuditInv
  <2>2. /\ rec \in Classes \cup {Unknown}
        /\ Released[c] \in Releases /\ Current(c) = Released[c]
        /\ Chosen(c, rec) \in Releases
    BY <1>3, <1>8, ReleasedStart, ChosenType
  <2>3. NeedsSnapshot(c, rec) <=> Chosen(c, rec) # Released[c]
    BY <1>8, <2>2 DEF NeedsSnapshot, Stuck
  <2>4. bumped'[c] = IF Chosen(c, rec) # Released[c] THEN Chosen(c, rec) ELSE bumped[c]
    BY <1>6, <1>8, <2>3
  <2>5. Chosen(c, rec) # NotReleased
    BY <2>2 DEF NotReleased, Release, Releases
  <2>6. AtLeast(Chosen(c, rec), Released[c])
    BY <1>8, <2>1, <2>2, ChosenAbove DEF Audited
  <2>7. bumped'[c] # NotReleased => Before(Released[c], bumped'[c])
    <3>1. bumped[c] # NotReleased => Before(Released[c], bumped[c])
      BY <1>8 DEF AuditInv, VersionsRise
    <3>2. Chosen(c, rec) # Released[c] => Before(Released[c], Chosen(c, rec))
      BY <2>2, <2>6, OrderFacts
    <3> QED
      BY <2>4, <3>1, <3>2
  <2>8. ASSUME rec \in Classes \ {None}
        PROVE  /\ bumped'[c] # NotReleased
               /\ AtLeast(bumped'[c], NextRelease(Released[c], rec))
    <3>1. AtLeast(Chosen(c, rec), NextRelease(Released[c], rec))
      BY <1>8, <2>1, <2>8 DEF Audited
    <3>2. /\ NextRelease(Released[c], rec) \in Releases
          /\ Before(Released[c], NextRelease(Released[c], rec))
      BY <1>8, <2>2, <2>8, SuccessorLater
    <3>3. Chosen(c, rec) # Released[c]
      BY <2>2, <3>1, <3>2, OrderFacts
    <3> QED
      BY <2>4, <2>5, <3>1, <3>3
  <2> HIDE DEF rec
  <2>9. Floored(c)'
    BY <1>5, <2>1, <2>8 DEF Floored
  <2> QED
    BY <2>7, <2>9
<1>9. ASSUME NEW x \in touched \cap Buildable
      PROVE  /\ Initial(x) \/ Audited(x)'
             /\ x \notin todo' => Floored(x)'
  <2>1. Initial(x) \/ Audited(x)
    BY <1>1 DEF AuditInv
  <2>2. CASE x = c
    BY <1>7, <1>8, <2>1, <2>2 DEF Floored
  <2>3. CASE x # c
    <3>1. x \in Components /\ bumped'[x] = bumped[x]
      BY <1>6, <2>3, ConstantTypes
    <3>2. x \notin todo => Floored(x)
      BY <1>1 DEF AuditInv
    <3>3. Floored(x) => Floored(x)'
      BY <1>5, <3>1 DEF Floored
    <3> QED
      BY <1>1, <1>7, <2>1, <2>3, <3>2, <3>3
  <2> QED
    BY <2>2, <2>3
<1>10. VersionsRise'
  <2> SUFFICES ASSUME NEW x \in Components, ~Initial(x), Supported(Released[x]),
                      bumped'[x] # NotReleased
               PROVE  Before(Released[x], bumped'[x])
    BY DEF VersionsRise, Initial
  <2>1. CASE x = c /\ c \in Buildable
    BY <1>8, <2>1
  <2>2. CASE x # c \/ c \notin Buildable
    <3>1. bumped'[x] = bumped[x]
      BY <1>4, <1>6, <2>2
    <3> QED
      BY <3>1 DEF AuditInv, VersionsRise
  <2> QED
    BY <2>1, <2>2
<1>11. \A x \in pulled' : Initial(x)
  BY <1>1 DEF AuditInv
<1> QED
  BY <1>1, <1>9, <1>10, <1>11 DEF AuditInv, Initial

\* Every step of the phases in which nothing is decided, but the audit's own.
LEMMA QuietAudit ==
    ASSUME DecideInv, phase \notin {"decide", "done"}, bumped' = bumped,
           phase' \notin {"audit", "decide", "done"},
           \A c \in pulled' : Initial(c)
    PROVE  AuditInv'
<1>1. \A c \in Components : bumped[c] = NotReleased
  BY DEF DecideInv
<1> QED
  BY <1>1 DEF AuditInv, VersionsRise, Initial

LEMMA AuditKeepsAudit ==
    ASSUME TypeOK, DecideInv, AuditInv, NEW c \in Components, NEW verdict \in Verdicts,
           NEW surface \in {"breaking", "major", "none"}, Audit(c, verdict, surface)
    PROVE  AuditInv'
<1>1. /\ phase = "audit" /\ phase' = "audit" /\ todo' = todo \ {c}
      /\ UNCHANGED <<mode, pin, changedAidl, touched, class, plan, pulled, bumped>>
  <2>1. phase = "audit" /\ todo' = todo \ {c}
    BY Zenon DEF Audit
  <2>2. UNCHANGED <<phase, inputs, touched, class, plan, pulled, bumped>>
    BY Zenon DEF Audit
  <2> QED
    BY <2>1, <2>2 DEF inputs
<1>2. Initial(c) => UNCHANGED <<recommended, flagged>>
  <2>1. Initial(c) => UNCHANGED auditing
    BY Zenon DEF Audit
  <2> QED
    BY <2>1 DEF auditing
<1>3. AuditTargets' = AuditTargets
  BY <1>1 DEF AuditTargets
<1>4. ASSUME ~flagged', NEW x \in AuditTargets \ todo', ~Initial(x)
      PROVE  Audited(x)'
  <2>1. CASE x = c
    BY <1>4, <2>1, AuditEstablishes
  <2>2. CASE x # c
    <3>1. ~flagged
      BY <1>2, <1>4, AuditEstablishes
    <3>2. Audited(x)
      BY <1>1, <1>4, <2>2, <3>1 DEF AuditInv
    <3>3. recommended'[x] = recommended[x]
      <4>1. \/ recommended' = recommended
            \/ recommended' = [recommended EXCEPT ![c] = Recommendation(c, verdict)]
        <5>1. ~Initial(c) =>
                recommended' = [recommended EXCEPT ![c] = Recommendation(c, verdict)]
          BY Zenon DEF Audit
        <5> QED
          BY <1>2, <5>1
      <4>2. x \in Components /\ DOMAIN recommended = Components
        BY <1>4, ConstantTypes DEF AuditTargets, TypeOK
      <4> QED
        BY <2>2, <4>1, <4>2
    <3>4. Chosen(x, recommended[x])' = Chosen(x, recommended[x])
      BY <1>1, <3>3 DEF Chosen, Computed, Bump, LabelBump, AidlStatus, Current
    <3> QED
      BY <1>1, <3>2, <3>3, <3>4 DEF Audited
  <2> QED
    BY <2>1, <2>2
<1>5. \A x \in Components : bumped[x] = NotReleased
  BY <1>1 DEF DecideInv
<1>6. VersionsRise' /\ \A x \in pulled' : Initial(x)
  BY <1>1, <1>5 DEF AuditInv, VersionsRise, Initial
<1> QED
  BY <1>1, <1>3, <1>4, <1>6 DEF AuditInv, Initial

LEMMA NextAudit ==
    ASSUME TypeOK, DecideInv, AuditInv, [Next]_vars
    PROVE  AuditInv'
<1>0. (\A c \in pulled : Initial(c)) /\ \A c \in Components : Initial(c)' = Initial(c)
  BY DEF AuditInv, Initial
<1>1. ASSUME NEW comps \in (SUBSET Components) \ {{}}, NEW labels \in SUBSET ChangeLabels,
             NEW bug \in BOOLEAN, NEW docsOnly \in SUBSET comps,
             AnalyseCommit(comps, labels, bug, docsOnly)
      PROVE  AuditInv'
  BY <1>0, <1>1, QuietAudit DEF AnalyseCommit
<1>2. CASE EndAnalysis
  <2>1. /\ phase = "analyse" /\ UNCHANGED <<touched, bumped, pulled>>
        /\ phase' = IF touched = {} THEN "done" ELSE "plan"
    BY <1>2 DEF EndAnalysis
  <2>2. CASE touched = {}
    <3>1. \A c \in Components : bumped[c] = NotReleased
      BY <2>1 DEF DecideInv
    <3> QED
      BY <1>0, <2>1, <2>2, <3>1 DEF AuditInv, VersionsRise, Initial
  <2>3. CASE touched # {}
    BY <1>0, <2>1, <2>3, QuietAudit
  <2> QED
    BY <2>2, <2>3
<1>3. ASSUME NEW staged \in SUBSET Components, PlanGate(staged) PROVE AuditInv'
  BY <1>0, <1>3, QuietAudit DEF PlanGate
<1>4. CASE SurfaceGate
  BY <1>0, <1>4, QuietAudit DEF SurfaceGate
<1>5. ASSUME NEW c \in Components, Inherit(c) PROVE AuditInv'
  BY <1>0, <1>5, QuietAudit DEF Inherit
<1>6. CASE EndSubsumePass
  BY <1>0, <1>6, QuietAudit DEF EndSubsumePass
<1>7. ASSUME NEW c \in Components, PullIn(c) PROVE AuditInv'
  <2>1. phase = "close" /\ phase' = "close" /\ bumped' = bumped
    BY <1>7 DEF PullIn
  <2>2. \A d \in pulled' : d \in pulled \/ ~InManifest(d)
    BY <1>7 DEF PullIn
  <2> QED
    BY <1>0, <2>1, <2>2, QuietAudit DEF InManifest, Initial
<1>8. CASE EndClosePass
  <2>1. /\ phase = "close" /\ phase' \in {"close", "died", "audit"}
        /\ phase' = "audit" => todo' = AuditTargets
        /\ UNCHANGED <<mode, pin, changedAidl, touched, plan, pulled, bumped>>
    BY <1>8 DEF EndClosePass, inputs
  <2>2. CASE phase' \in {"close", "died"}
    BY <1>0, <2>1, <2>2, QuietAudit
  <2>3. CASE phase' = "audit"
    <3>1. AuditTargets' \ todo' = {}
      BY <2>1, <2>3 DEF AuditTargets
    <3>2. \A c \in Components : bumped'[c] = NotReleased
      BY <2>1 DEF DecideInv
    <3> QED
      BY <1>0, <2>1, <2>3, <3>1, <3>2 DEF AuditInv, VersionsRise, Initial
  <2> QED
    BY <2>1, <2>2, <2>3
<1>9. ASSUME NEW c \in Components, NEW verdict \in Verdicts,
             NEW surface \in {"breaking", "major", "none"}, Audit(c, verdict, surface)
      PROVE  AuditInv'
  BY <1>9, AuditKeepsAudit
<1>10. CASE EndAudit
  <2>1. /\ phase = "audit" /\ phase' = (IF flagged THEN "died" ELSE "decide")
        /\ todo = {} /\ todo' = touched
        /\ UNCHANGED <<mode, pin, changedAidl, touched, class, plan, pulled,
                       recommended, bumped>>
    BY <1>10 DEF EndAudit, inputs, auditing
  <2>2. CASE flagged
    BY <1>0, <2>1, <2>2, QuietAudit
  <2>3. CASE ~flagged
    <3>1. \A c \in touched \cap Buildable : Initial(c) \/ c \in AuditTargets
      <4>1. mode = "stage" \/ mode = "stage all"
        BY DEF TypeOK
      <4>2. mode = "stage" => touched \subseteq plan \cup pulled
        BY <2>1 DEF DecideInv
      <4> QED
        BY <1>0, <4>1, <4>2 DEF AuditTargets
    <3>2. \A c \in touched \cap Buildable : Initial(c) \/ Audited(c)
      BY <2>1, <2>3, <3>1 DEF AuditInv
    <3>3. \A c \in touched \cap Buildable : Audited(c) => Audited(c)'
      BY <2>1 DEF Audited, Chosen, Computed, Bump, LabelBump, AidlStatus, Current
    <3>4. \A c \in Components : bumped'[c] = NotReleased
      BY <2>1 DEF DecideInv
    <3> QED
      BY <1>0, <2>1, <2>3, <3>2, <3>3, <3>4 DEF AuditInv, VersionsRise, Initial
  <2> QED
    BY <2>2, <2>3
<1>11. ASSUME NEW c \in Components, NEW verdict \in Verdicts, Decide(c, verdict)
       PROVE  AuditInv'
  BY <1>11, DecideKeepsAudit
<1>12. CASE EndDecide
  <2>1. /\ phase = "decide" /\ phase' = "done" /\ todo = {}
        /\ UNCHANGED <<touched, pulled, recommended, bumped>>
    BY <1>12 DEF EndDecide, auditing
  <2>2. \A c \in touched \cap Buildable : Floored(c)
    BY <2>1 DEF AuditInv
  <2>3. \A c \in Components : Floored(c) => Floored(c)'
    BY <2>1 DEF Floored
  <2>4. \A c \in touched' \cap Buildable : Floored(c)'
    BY <2>1, <2>2, <2>3, ConstantTypes
  <2>5. VersionsRise'
    BY <2>1 DEF AuditInv, VersionsRise
  <2> QED
    BY <1>0, <2>1, <2>4, <2>5 DEF AuditInv
<1>13. CASE UNCHANGED vars
  BY <1>13 DEF vars, inputs, loop, auditing, AuditInv, AuditTargets, Audited, Floored,
               VersionsRise, Chosen, Computed, Bump, LabelBump, AidlStatus, Current
<1>14. CASE Stop
  BY <1>13, <1>14 DEF Stop
<1> QED
  BY <1>1, <1>2, <1>3, <1>4, <1>5, <1>6, <1>7, <1>8, <1>9, <1>10, <1>11,
     <1>12, <1>13, <1>14 DEF Next

LEMMA AuditInvariance == Spec => []AuditInv
<1>1. Init => AuditInv
  BY DEF Init, AuditInv, VersionsRise
<1> QED
  BY <1>1, TypeCorrect, DecideInvariance, NextAudit, PTL DEF Spec

\* What the compiler finds is released, and at no lower version than it calls
\* for: the audit sees everything the loop decides (release.sh,
\* run_structural_audit and the per-component loop).  No label, and so no effect
\* declared on the project board, lowers it.
THEOREM VerdictIsFloor == Spec => []CompilerIsFloor
<1>1. AuditInv => CompilerIsFloor
  BY DEF AuditInv, Floored, CompilerIsFloor
<1> QED
  BY <1>1, AuditInvariance, PTL

\* No pin, label or verdict makes a component's line of versions go back.
THEOREM CutVersionsRise == Spec => []VersionsRise
<1>1. AuditInv => VersionsRise
  BY DEF AuditInv
<1> QED
  BY <1>1, AuditInvariance, PTL
-----------------------------------------------------------------------------
(* How often the two loops can go round.  The classes the subsume loop is to *)
(* end with are known when it starts; a pass that changes anything brings    *)
(* one more importer to its final class, and one of the closure loop pulls   *)
(* one more import in.                                                       *)

\* Some set of components that the propagation cannot leave holds x and no
\* class above b.
Bounded(x, b) ==
    \E S \in SUBSET Components :
        /\ x \in S /\ \A y \in S \cap touched : Imports[y] \subseteq S
        /\ \A y \in S : seed[y] <= b

\* The class the propagation gives x in the end.
Least(x) ==
    CHOOSE b \in Classes : Bounded(x, b) /\ \A k \in Classes : Bounded(x, k) => b <= k

FinalImporters == {x \in Importers : class[x] = Least(x)}

\* x gets its final class when it is visited.
Waiting(x) ==
    /\ x \in touched /\ class[x] < Least(x)
    /\ \E d \in Imports[x] : class[d] = Least(x)

CountInv ==
    /\ phase \in {"analyse", "plan", "surface"} => passes.subsume = 0
    /\ phase \in {"analyse", "plan", "surface", "subsume"} => passes.close = 0
    /\ phase = "subsume" =>
          /\ \A x \in Components : seed[x] <= class[x]
          /\ \/ passes.subsume <= Cardinality(FinalImporters)
             \/ /\ passes.subsume <= Cardinality(FinalImporters) + 1
                /\ \/ \E x \in todo : Waiting(x)
                   \/ ~changed /\ todo = Buildable
                   \/ ~changed /\ \A x \in Components : class[x] = Least(x)
    /\ pulled \subseteq touched \cap Imported
    /\ phase = "close" =>
          passes.close <= Cardinality(pulled) + (IF changed THEN 0 ELSE 1)
    /\ CutOffUnused

LEMMA LeastOf ==
    ASSUME TypeOK, NEW x \in Components
    PROVE  /\ Least(x) \in Classes /\ Bounded(x, Least(x))
           /\ \A k \in Classes : Bounded(x, k) => Least(x) <= k
<1>1. Bounded(x, 3)
  <2>1. \A y \in Components : seed[y] \in Classes /\ Imports[y] \subseteq Components
    BY ConstantTypes DEF TypeOK
  <2>2. \A y \in Components : seed[y] <= 3
    BY <2>1 DEF Classes, None, Generation
  <2> QED
    BY <2>1, <2>2 DEF Bounded
<1>2. \E b \in Classes : Bounded(x, b) /\ \A k \in Classes : Bounded(x, k) => b <= k
  <2>1. Classes = {0, 1, 2, 3}
    BY DEF Classes, None, Generation
  <2>2. CASE Bounded(x, 0)
    BY <2>1, <2>2
  <2>3. CASE ~Bounded(x, 0) /\ Bounded(x, 1)
    BY <2>1, <2>3
  <2>4. CASE ~Bounded(x, 0) /\ ~Bounded(x, 1) /\ Bounded(x, 2)
    BY <2>1, <2>4
  <2>5. CASE ~Bounded(x, 0) /\ ~Bounded(x, 1) /\ ~Bounded(x, 2)
    BY <1>1, <2>1, <2>5
  <2> QED
    BY <2>2, <2>3, <2>4, <2>5
<1> QED
  BY <1>2 DEF Least

\* Final classes rise along the imports the propagation follows.
LEMMA LeastOfImport ==
    ASSUME TypeOK, NEW x \in touched, NEW d \in Imports[x]
    PROVE  Least(d) \in Classes /\ Least(d) <= Least(x)
<1>1. x \in Components /\ d \in Components
  BY ConstantTypes DEF TypeOK
<1>2. Least(x) \in Classes /\ Bounded(x, Least(x))
  BY <1>1, LeastOf
<1>3. Bounded(d, Least(x))
  BY <1>2 DEF Bounded
<1> QED
  BY <1>1, <1>2, <1>3, LeastOf

LEMMA ClassBelowLeast ==
    ASSUME TypeOK, NothingInvented, phase = "subsume", pulled = {}, NEW x \in Components
    PROVE  class[x] \in Classes /\ class[x] <= Least(x)
<1>1. Least(x) \in Classes /\ Bounded(x, Least(x))
  BY LeastOf
<1>2. class[x] \in Classes
  BY DEF TypeOK
<1> QED
  BY <1>1, <1>2 DEF Bounded, NothingInvented

LEMMA FinalFinite ==
    /\ IsFiniteSet(Importers) /\ IsFiniteSet(Imported)
    /\ Cardinality(Importers) \in Nat /\ Cardinality(Imported) \in Nat
    /\ IsFiniteSet(FinalImporters) /\ Cardinality(FinalImporters) \in Nat
    /\ Cardinality(FinalImporters) <= Cardinality(Importers)
<1>1. Importers \in SUBSET Components /\ Imported \in SUBSET Components
  BY ConstantTypes DEF Importers, Imported
<1>2. IsFiniteSet(Importers) /\ IsFiniteSet(Imported)
  BY <1>1, ComponentsFinite, FS_Subset
<1>3. FinalImporters \in SUBSET Importers
  BY DEF FinalImporters
<1> QED
  BY <1>2, <1>3, FS_Subset, FS_CardinalityType

\* While anything is below its final class, some importer waits for its visit.
LEMMA SomeoneWaits ==
    ASSUME TypeOK, NothingInvented, phase = "subsume", pulled = {},
           \A x \in Components : seed[x] <= class[x]
    PROVE  \/ \A x \in Components : class[x] = Least(x)
           \/ \E x \in Buildable : Waiting(x)
<1> SUFFICES ASSUME NEW x0 \in Components, class[x0] # Least(x0),
                    \A x \in Buildable : ~Waiting(x)
             PROVE  FALSE
  OBVIOUS
<1> DEFINE U == {x \in Components : class[x] # Least(x)}
           T == {Least(x) : x \in U}
           b == Highest(T)
<1>1. \A x \in Components : /\ Least(x) \in Classes /\ class[x] \in Classes
                            /\ class[x] <= Least(x) /\ seed[x] \in Classes
  BY LeastOf, ClassBelowLeast DEF TypeOK
<1>2. T \in SUBSET Classes /\ T # {}
  BY <1>1
<1>3. b \in T /\ \A k \in T : k <= b
  <2> HIDE DEF T
  <2> QED
    BY <1>2, HighestOf
<1>4. PICK x1 \in U : Least(x1) = b
  BY <1>3
<1> HIDE DEF b
<1> DEFINE S == {x \in Components : Least(x) < b \/ (x \in U /\ Least(x) = b)}
<1>5. b \in Classes /\ b \in Int /\ class[x1] < b
  <2>1. /\ b \in Classes /\ class[x1] \in Classes
        /\ class[x1] <= b /\ class[x1] # b
    BY <1>1, <1>4
  <2> QED
    BY <2>1 DEF Classes, None, Generation
<1>6. b - 1 \in Classes
  BY <1>1, <1>4, <1>5 DEF Classes, None, Generation
<1>7. \A x \in S : seed[x] <= b - 1
  <2> SUFFICES ASSUME NEW x \in S PROVE seed[x] <= b - 1
    OBVIOUS
  <2>1. /\ class[x] \in Classes /\ Least(x) \in Classes /\ seed[x] \in Classes
        /\ class[x] <= Least(x) /\ seed[x] <= class[x]
        /\ Least(x) < b \/ (class[x] # Least(x) /\ Least(x) = b)
    BY <1>1
  <2> QED
    BY <1>5, <2>1 DEF Classes, None, Generation
<1>8. \A x \in S \cap touched : Imports[x] \subseteq S
  <2> SUFFICES ASSUME NEW x \in S \cap touched, NEW d \in Imports[x] PROVE d \in S
    OBVIOUS
  <2>1. d \in Components /\ x \in Buildable
    BY ConstantTypes, CohortAssumption
  <2>2. Least(d) <= Least(x) /\ Least(d) \in Classes
    BY LeastOfImport
  <2>3. CASE Least(x) < b
    <3>1. Least(x) \in Classes
      BY <1>1
    <3>2. Least(d) < b
      BY <1>5, <2>2, <2>3, <3>1 DEF Classes, None, Generation
    <3> QED
      BY <2>1, <3>2
  <2>4. CASE x \in U /\ Least(x) = b
    <3>1. class[x] < Least(x)
      <4>1. /\ class[x] \in Classes /\ Least(x) \in Classes
            /\ class[x] <= Least(x) /\ class[x] # Least(x)
        BY <1>1, <2>4
      <4> QED
        BY <4>1 DEF Classes, None, Generation
    <3>2. class[d] # b
      BY <2>1, <2>4, <3>1 DEF Waiting
    <3>3. Least(d) < b \/ Least(d) = b
      BY <1>5, <2>2, <2>4 DEF Classes, None, Generation
    <3> QED
      BY <2>1, <3>2, <3>3
  <2> QED
    BY <2>3, <2>4
<1>9. Bounded(x1, b - 1)
  <2>1. S \in SUBSET Components /\ x1 \in S
    BY <1>4
  <2> HIDE DEF S
  <2> QED
    BY <1>7, <1>8, <2>1 DEF Bounded
<1>10. b <= b - 1
  BY <1>4, <1>6, <1>9, LeastOf
<1> QED
  BY <1>5, <1>10

LEMMA InheritKeepsCount ==
    ASSUME TypeOK, TypeOK', SubsumeInv, SubsumeInv', CountInv, NEW c \in Components, Inherit(c)
    PROVE  CountInv'
<1> DEFINE h == Highest({class[c]} \cup {class[d] : d \in Imports[c]})
<1>1. /\ phase = "subsume" /\ phase' = "subsume" /\ pulled = {} /\ pulled' = {}
      /\ UNCHANGED <<touched, seed, passes>> /\ todo' = todo \ {c}
      /\ \/ /\ c \in touched /\ class' = [class EXCEPT ![c] = h]
            /\ (changed' <=> (changed \/ h > class[c]))
         \/ c \notin touched /\ class' = class /\ changed' = changed
  BY Zenon DEF Inherit, SubsumeInv
<1>2. /\ h \in Classes /\ class[c] <= h /\ \A d \in Imports[c] : class[d] <= h
  BY InheritBounds
<1> HIDE DEF h
<1>3. \A x \in Components : /\ Least(x)' = Least(x) /\ Least(x) \in Classes
                            /\ class[x] \in Classes /\ class'[x] \in Classes
                            /\ class[x] <= Least(x) /\ class'[x] <= Least(x)
  <2>1. \A x \in Components : Least(x)' = Least(x)
    BY <1>1 DEF Least, Bounded
  <2>2. \A x \in Components : class[x] \in Classes /\ class[x] <= Least(x)
    BY <1>1, ClassBelowLeast DEF SubsumeInv
  <2>3. \A x \in Components : class'[x] \in Classes
    BY DEF TypeOK
  <2>4. \A x \in Components : class'[x] <= Least(x)
    <3> SUFFICES ASSUME NEW x \in Components PROVE class'[x] <= Least(x)
      OBVIOUS
    <3>1. Bounded(x, Least(x)) /\ Least(x) \in Classes
      BY LeastOf
    <3>2. PICK S \in SUBSET Components :
            /\ x \in S /\ \A y \in S \cap touched : Imports[y] \subseteq S
            /\ \A y \in S : seed[y] <= Least(x)
      BY <3>1 DEF Bounded
    <3>3. \A y \in S \ pulled' : class'[y] <= Least(x)
      BY <1>1, <3>1, <3>2 DEF SubsumeInv, NothingInvented
    <3> QED
      BY <1>1, <3>2, <3>3
  <2> QED
    BY <2>1, <2>2, <2>3, <2>4, LeastOf
<1>4. \A x \in Components : class[x] <= class'[x] /\ (x # c => class'[x] = class[x])
  <2>1. class \in [Components -> Classes]
    BY DEF TypeOK
  <2> QED
    BY <1>1, <1>2, <1>3, <2>1, ClassesAreIntegers
<1>5. \A x \in Components : class[x] = Least(x) => class'[x] = class[x]
  <2> SUFFICES ASSUME NEW x \in Components, class[x] = Least(x) PROVE class'[x] = class[x]
    OBVIOUS
  <2>1. /\ class[x] \in Int /\ class'[x] \in Int
        /\ class[x] <= class'[x] /\ class'[x] <= class[x]
    BY <1>3, <1>4, ClassesAreIntegers
  <2> QED
    BY <2>1
<1>6. FinalImporters \in SUBSET FinalImporters'
  BY <1>3, <1>5 DEF FinalImporters, Importers
<1>7. IsFiniteSet(FinalImporters') /\ Cardinality(FinalImporters') \in Nat
  <2>1. FinalImporters' \in SUBSET Importers /\ IsFiniteSet(Importers)
    BY FinalFinite DEF FinalImporters
  <2> QED
    BY <2>1, FS_Subset, FS_CardinalityType
<1>8. Cardinality(FinalImporters) <= Cardinality(FinalImporters')
  BY <1>6, <1>7, FS_Subset
<1>9. \A x \in Components : seed'[x] <= class'[x]
  <2> SUFFICES ASSUME NEW x \in Components PROVE seed[x] <= class'[x]
    BY <1>1
  <2>1. seed[x] <= class[x] /\ class[x] <= class'[x]
    BY <1>1, <1>4 DEF CountInv
  <2>2. seed[x] \in Classes /\ class[x] \in Classes /\ class'[x] \in Classes
    BY <1>3 DEF TypeOK
  <2> QED
    BY <2>1, <2>2 DEF Classes, None, Generation
<1>10. passes.subsume \in Nat /\ Cardinality(FinalImporters) \in Nat
  BY FinalFinite DEF TypeOK
<1>11. \/ passes.subsume <= Cardinality(FinalImporters')
       \/ /\ passes.subsume <= Cardinality(FinalImporters') + 1
          /\ \/ \E x \in todo' : Waiting(x)'
             \/ ~changed' /\ \A x \in Components : class'[x] = Least(x)
  <2>1. CASE passes.subsume <= Cardinality(FinalImporters)
    BY <1>7, <1>8, <1>10, <2>1
  <2>2. ASSUME passes.subsume <= Cardinality(FinalImporters) + 1,
               NEW x \in todo, Waiting(x)
        PROVE  \/ passes.subsume <= Cardinality(FinalImporters')
               \/ /\ passes.subsume <= Cardinality(FinalImporters') + 1
                  /\ \E y \in todo' : Waiting(y)'
    <3>1. PICK d \in Imports[x] : class[d] = Least(x)
      BY <2>2 DEF Waiting
    <3>2. x \in touched /\ x \in Components /\ d \in Components /\ class[x] < Least(x)
      BY <2>2, ConstantTypes DEF Waiting, TypeOK
    <3>3. CASE x = c
      <4>1. class'[c] = h
        BY <1>1, <3>2, <3>3 DEF TypeOK
      <4>2. class'[c] = Least(c)
        <5>1. /\ class'[c] \in Int /\ Least(c) \in Int
              /\ class'[c] <= Least(c) /\ Least(c) <= class'[c]
          BY <1>2, <1>3, <3>1, <3>3, <4>1, ClassesAreIntegers
        <5> QED
          BY <5>1
      <4>3. c \in FinalImporters' /\ c \notin FinalImporters
        <5>1. c \in Importers
          BY <3>1, <3>3 DEF Importers
        <5>2. class[c] # Least(c)
          <6>1. /\ class[c] \in Classes /\ Least(c) \in Classes
                /\ class[c] < Least(c)
            BY <1>3, <3>2, <3>3
          <6> QED
            BY <6>1 DEF Classes, None, Generation
        <5> QED
          BY <1>3, <4>2, <5>1, <5>2 DEF FinalImporters
      <4>4. FinalImporters \cup {c} \in SUBSET FinalImporters'
        BY <1>6, <4>3
      <4>5. Cardinality(FinalImporters \cup {c}) = Cardinality(FinalImporters) + 1
        BY <4>3, FinalFinite, FS_AddElement
      <4>6. Cardinality(FinalImporters \cup {c}) <= Cardinality(FinalImporters')
        BY <1>7, <4>4, FS_Subset
      <4> QED
        BY <1>7, <1>10, <2>2, <4>5, <4>6
    <3>4. CASE x # c
      <4>1. class[d] = Least(d)
        <5>1. Least(d) <= Least(x) /\ Least(d) \in Classes
          BY <3>2, LeastOfImport
        <5>2. class[d] <= Least(d) /\ class[d] \in Classes
          BY <1>3, <3>2
        <5>3. Least(d) <= class[d]
          BY <3>1, <5>1
        <5> QED
          BY <5>1, <5>2, <5>3 DEF Classes, None, Generation
      <4>2. class'[d] = Least(x) /\ class'[x] = class[x] /\ Least(x)' = Least(x)
        BY <1>3, <1>4, <1>5, <3>1, <3>2, <3>4, <4>1
      <4>3. Waiting(x)'
        BY <1>1, <3>1, <3>2, <4>2 DEF Waiting
      <4> QED
        BY <1>1, <1>7, <1>8, <1>10, <2>2, <3>4, <4>3
    <3> QED
      BY <3>3, <3>4
  <2>3. CASE /\ passes.subsume <= Cardinality(FinalImporters) + 1
             /\ ~changed /\ \A x \in Components : class[x] = Least(x)
    <3>1. \A x \in Components : class'[x] = class[x]
      BY <1>5, <2>3
    <3>2. c \in touched => h = class[c]
      BY <1>1, <3>1 DEF TypeOK
    <3>3. ~changed'
      <4>1. class[c] \in Int
        BY <1>3, ClassesAreIntegers
      <4>2. ~(class[c] > class[c])
        BY <4>1
      <4> QED
        BY <1>1, <2>3, <3>2, <4>2
    <3> QED
      BY <1>7, <1>8, <1>10, <2>3, <3>1, <3>3
  <2>4. ASSUME passes.subsume <= Cardinality(FinalImporters) + 1,
               ~changed, todo = Buildable
        PROVE  \/ \A x \in Components : class[x] = Least(x)
               \/ \E x \in todo : Waiting(x)
    BY <1>1, <2>4, SomeoneWaits DEF SubsumeInv, CountInv
  <2> QED
    BY <1>1, <2>1, <2>2, <2>3, <2>4 DEF CountInv
<1>12. CutOffUnused'
  BY <1>1 DEF CountInv, CutOffUnused
<1> QED
  BY <1>1, <1>3, <1>9, <1>11, <1>12 DEF CountInv

LEMMA EndSubsumePassKeepsCount ==
    ASSUME TypeOK, SubsumeInv, CountInv, EndSubsumePass
    PROVE  CountInv'
<1>1. /\ phase = "subsume" /\ todo = {} /\ todo' = Buildable /\ changed' = FALSE
      /\ UNCHANGED <<touched, class, seed, pulled>> /\ pulled = {}
  BY DEF EndSubsumePass, SubsumeInv
<1>2. /\ \A x \in Components : Least(x)' = Least(x)
      /\ FinalImporters' = FinalImporters
  BY <1>1 DEF Least, Bounded, FinalImporters, Importers
<1>3. /\ Cardinality(FinalImporters) \in Nat /\ Cardinality(Imported) \in Nat
      /\ Cardinality(Importers) \in Nat
      /\ Cardinality(FinalImporters) <= Cardinality(Importers)
  BY FinalFinite
<1>4. passes \in [subsume : Nat, close : Nat]
  BY DEF TypeOK
<1>5. \A x \in Components : seed'[x] <= class'[x]
  BY <1>1 DEF CountInv
<1>6. CASE changed /\ passes.subsume <= MaxPasses
  <2>1. /\ phase' = "subsume" /\ passes'.subsume = passes.subsume + 1
        /\ passes'.close = passes.close
    BY <1>4, <1>6 DEF EndSubsumePass
  <2>2. passes.subsume <= Cardinality(FinalImporters)
    BY <1>1, <1>6 DEF CountInv
  <2>3. passes'.subsume <= Cardinality(FinalImporters) + 1
    BY <1>3, <1>4, <2>1, <2>2
  <2>4. CutOffUnused'
    BY <1>3, <1>4, <2>1, <2>2 DEF CutOffUnused, CountInv
  <2> QED
    BY <1>1, <1>2, <1>5, <2>1, <2>3, <2>4 DEF CountInv
<1>7. CASE ~(changed /\ passes.subsume <= MaxPasses)
  <2>1. /\ phase' = "close" /\ passes'.subsume = passes.subsume /\ passes'.close = 1
    BY <1>4, <1>7 DEF EndSubsumePass
  <2>2. Cardinality(pulled') = 0
    BY <1>1, FS_EmptySet
  <2>3. CutOffUnused'
    BY <1>3, <2>1 DEF CutOffUnused, CountInv
  <2> QED
    BY <1>1, <2>1, <2>2, <2>3 DEF CountInv
<1> QED
  BY <1>6, <1>7

LEMMA SurfaceGateKeepsCount ==
    ASSUME TypeOK, TypeOK', SubsumeInv, CountInv, SurfaceGate
    PROVE  CountInv'
<1>1. /\ phase = "surface" /\ phase' = "subsume" /\ todo' = Buildable
      /\ changed' = FALSE /\ pulled' = {} /\ seed' = class'
      /\ passes' = [passes EXCEPT !.subsume = 1]
  BY DEF SurfaceGate, SubsumeInv
<1>2. passes'.subsume = 1 /\ passes'.close = 0
  BY <1>1 DEF TypeOK, CountInv
<1>3. \A x \in Components : seed'[x] <= class'[x]
  <2> SUFFICES ASSUME NEW x \in Components PROVE class'[x] <= class'[x]
    BY <1>1
  <2>1. class'[x] \in Classes
    BY DEF TypeOK
  <2> QED
    BY <2>1 DEF Classes, None, Generation
<1>4. Cardinality(FinalImporters') \in Nat
  <2>1. FinalImporters' \in SUBSET Importers /\ IsFiniteSet(Importers)
    BY FinalFinite DEF FinalImporters
  <2> QED
    BY <2>1, FS_Subset, FS_CardinalityType
<1>5. Cardinality(Importers) \in Nat /\ Cardinality(Imported) \in Nat
  BY FinalFinite
<1>6. 1 <= Cardinality(FinalImporters') + 1
  BY <1>4
<1>7. CutOffUnused'
  BY <1>2, <1>5 DEF CutOffUnused
<1> QED
  BY <1>1, <1>2, <1>3, <1>6, <1>7 DEF CountInv

\* A step of the closure loop that counts as progress pulls a component in that
\* was not in the release, and is imported.
LEMMA PullInKeepsCount ==
    ASSUME TypeOK, CountInv, NEW c \in Components, PullIn(c)
    PROVE  CountInv'
<1>1. PICK cut \in SUBSET Imported :
        /\ cut \cap touched = {}
        /\ touched' = touched \cup cut /\ pulled' = pulled \cup cut
        /\ changed' <=> (changed \/ cut # {})
  <2>1. CASE c \in touched
    <3> DEFINE cut == {d \in Imports[c] : d \notin touched /\ ~InManifest(d)} \cap Buildable
    <3>1. cut \in SUBSET Imported /\ cut \cap touched = {}
      BY DEF Imported
    <3>2. /\ touched' = touched \cup cut /\ pulled' = pulled \cup cut
          /\ changed' = (changed \/ cut # {})
      BY <2>1 DEF PullIn
    <3> HIDE DEF cut
    <3> QED
      BY <3>1, <3>2
  <2>2. CASE c \notin touched
    <3> WITNESS {} \in SUBSET Imported
    <3> QED
      BY <2>2 DEF PullIn
  <2> QED
    BY <2>1, <2>2
<1>2. phase = "close" /\ phase' = "close" /\ passes' = passes
  BY DEF PullIn
<1>3. pulled \subseteq touched \cap Imported
  BY DEF CountInv
<1>4. IsFiniteSet(Imported) /\ IsFiniteSet(pulled) /\ IsFiniteSet(pulled')
  BY <1>1, <1>3, FinalFinite, FS_Subset
<1>5. Cardinality(pulled) \in Nat /\ Cardinality(pulled') \in Nat
      /\ Cardinality(pulled) <= Cardinality(pulled')
  BY <1>1, <1>4, FS_Subset, FS_CardinalityType
<1>6. ASSUME NEW d \in cut PROVE Cardinality(pulled) + 1 <= Cardinality(pulled')
  <2>1. d \notin pulled /\ pulled \cup {d} \subseteq pulled'
    BY <1>1, <1>3
  <2>2. Cardinality(pulled \cup {d}) = Cardinality(pulled) + 1
    BY <1>4, <2>1, FS_AddElement
  <2> QED
    BY <1>4, <2>1, <2>2, FS_Subset
<1>7. passes.close <= Cardinality(pulled) + (IF changed THEN 0 ELSE 1)
  BY <1>2 DEF CountInv
<1>8. passes.close \in Nat
  BY DEF TypeOK
<1>9. passes.close <= Cardinality(pulled') + (IF changed' THEN 0 ELSE 1)
  <2>1. CASE changed
    BY <1>1, <1>5, <1>7, <1>8, <2>1
  <2>2. CASE ~changed /\ cut = {}
    BY <1>1, <1>5, <1>7, <1>8, <2>2
  <2>3. CASE ~changed /\ cut # {}
    <3>1. Cardinality(pulled) + 1 <= Cardinality(pulled')
      BY <1>6, <2>3
    <3>2. passes.close <= Cardinality(pulled) + 1 /\ changed'
      BY <1>1, <1>7, <2>3
    <3> QED
      BY <1>5, <1>8, <3>1, <3>2
  <2> QED
    BY <2>1, <2>2, <2>3
<1>10. pulled' \subseteq touched' \cap Imported
  BY <1>1, <1>3
<1>11. CutOffUnused'
  BY <1>2 DEF CountInv, CutOffUnused
<1> QED
  BY <1>2, <1>9, <1>10, <1>11 DEF CountInv

LEMMA EndClosePassKeepsCount ==
    ASSUME TypeOK, CountInv, EndClosePass
    PROVE  CountInv'
<1>1. /\ phase = "close" /\ UNCHANGED <<touched, pulled>>
  BY DEF EndClosePass
<1>2. passes \in [subsume : Nat, close : Nat]
  BY DEF TypeOK
<1>3. CASE changed /\ passes.close <= MaxPasses
  <2>1. /\ phase' = "close" /\ changed' = FALSE
        /\ passes'.subsume = passes.subsume /\ passes'.close = passes.close + 1
    BY <1>2, <1>3 DEF EndClosePass
  <2>2. pulled \subseteq Imported /\ passes.close <= Cardinality(pulled) + 0
    BY <1>1, <1>3 DEF CountInv
  <2>3. /\ Cardinality(pulled) \in Nat /\ Cardinality(Imported) \in Nat
        /\ Cardinality(pulled) <= Cardinality(Imported)
    BY <2>2, FinalFinite, FS_Subset, FS_CardinalityType
  <2>4. /\ passes'.close <= Cardinality(pulled) + 1
        /\ passes'.close <= Cardinality(Imported) + 1
    BY <1>2, <2>1, <2>2, <2>3
  <2> QED
    BY <1>1, <2>1, <2>4 DEF CountInv, CutOffUnused
<1>4. CASE ~(changed /\ passes.close <= MaxPasses)
  <2>1. phase' \in {"died", "audit"} /\ passes' = passes
    BY <1>4 DEF EndClosePass
  <2> QED
    BY <1>1, <2>1 DEF CountInv, CutOffUnused
<1> QED
  BY <1>3, <1>4

LEMMA CountInvariance == Spec => []CountInv
<1>1. ASSUME Init PROVE CountInv
  <2>1. passes.subsume = 0 /\ passes.close = 0 /\ phase = "analyse" /\ pulled = {}
    BY <1>1 DEF Init
  <2>2. CutOffUnused
    BY <2>1, FinalFinite DEF CutOffUnused
  <2> QED
    BY <2>1, <2>2 DEF CountInv
<1>2. ASSUME TypeOK, TypeOK', SubsumeInv, SubsumeInv', CountInv, [Next]_vars PROVE CountInv'
  <2> USE <1>2
  <2>1. ASSUME passes' = passes, pulled' = pulled, pulled \subseteq touched',
               phase' \notin {"subsume", "close"},
               phase' \in {"analyse", "plan", "surface"} =>
                   phase \in {"analyse", "plan", "surface"}
        PROVE  CountInv'
    BY <2>1 DEF CountInv, CutOffUnused
  <2>2. ASSUME NEW comps \in (SUBSET Components) \ {{}},
               NEW labels \in SUBSET ChangeLabels, NEW bug \in BOOLEAN,
               NEW docsOnly \in SUBSET comps,
               AnalyseCommit(comps, labels, bug, docsOnly)
        PROVE  CountInv'
    BY <2>1, <2>2 DEF AnalyseCommit, loop, CountInv
  <2>3. CASE EndAnalysis
    BY <2>1, <2>3 DEF EndAnalysis, loop, CountInv
  <2>4. ASSUME NEW staged \in SUBSET Components, PlanGate(staged) PROVE CountInv'
    BY <2>1, <2>4 DEF PlanGate, loop, SubsumeInv
  <2>5. CASE SurfaceGate
    BY <2>5, SurfaceGateKeepsCount
  <2>6. ASSUME NEW c \in Components, Inherit(c) PROVE CountInv'
    BY <2>6, InheritKeepsCount
  <2>7. CASE EndSubsumePass
    BY <2>7, EndSubsumePassKeepsCount
  <2>8. ASSUME NEW c \in Components, PullIn(c) PROVE CountInv'
    BY <2>8, PullInKeepsCount
  <2>9. CASE EndClosePass
    BY <2>9, EndClosePassKeepsCount
  <2>10. ASSUME NEW c \in Components, NEW verdict \in Verdicts,
                NEW surface \in {"breaking", "major", "none"},
                Audit(c, verdict, surface)
         PROVE  CountInv'
    BY <2>1, <2>10 DEF Audit, CountInv
  <2>11. CASE EndAudit
    BY <2>1, <2>11 DEF EndAudit, CountInv
  <2>12. ASSUME NEW c \in Components, NEW verdict \in Verdicts, Decide(c, verdict)
         PROVE  CountInv'
    BY <2>1, <2>12 DEF Decide, CountInv
  <2>13. CASE EndDecide
    BY <2>1, <2>13 DEF EndDecide, loop, CountInv
  <2>14. CASE UNCHANGED vars
    BY <2>14 DEF vars, loop, CountInv, CutOffUnused, FinalImporters, Waiting,
                 Least, Bounded
  <2>15. CASE Stop
    BY <2>14, <2>15 DEF Stop
  <2> QED
    BY <2>2, <2>3, <2>4, <2>5, <2>6, <2>7, <2>8, <2>9, <2>10, <2>11, <2>12,
       <2>13, <2>14, <2>15 DEF Next
<1> QED
  BY <1>1, <1>2, TypeCorrect, SubsumeInvariance, PTL DEF Spec

\* Both loops end because they have nothing left to do: the number of passes is
\* bounded by the components that import and that are imported, whatever the
\* labels and the order in which bash visits the table.
THEOREM LoopsEndByThemselves == Spec => []CutOffUnused
<1>1. CountInv => CutOffUnused
  BY DEF CountInv
<1> QED
  BY <1>1, CountInvariance, PTL

\* The cut-off of the loops (release.sh breaks after pass 20) allows for the
\* repository's imports.
FewerThanCutOff ==
    Cardinality(Importers) < MaxPasses /\ Cardinality(Imported) < MaxPasses

\* With fewer importers and imported components than the cut-off, the whole
\* propagation holds: no importer in the release is classed below an import, no
\* import is left without a version, and every snapshot cut can be pinned.
THEOREM PropagationIsWhole ==
    FewerThanCutOff =>
        (Spec => [](PropagationComplete /\ ClosureComplete /\ ImportsHaveVersions))
<1> SUFFICES ASSUME FewerThanCutOff
             PROVE  Spec => [](PropagationComplete /\ ClosureComplete /\ ImportsHaveVersions)
  OBVIOUS
<1>1. TypeOK /\ CutOffUnused => passes.subsume <= MaxPasses /\ passes.close <= MaxPasses
  <2> SUFFICES ASSUME TypeOK, CutOffUnused
               PROVE  passes.subsume <= MaxPasses /\ passes.close <= MaxPasses
    OBVIOUS
  <2>1. passes.subsume \in Nat /\ passes.close \in Nat /\ MaxPasses \in Nat
    BY CohortAssumption DEF TypeOK
  <2>2. Cardinality(Importers) \in Nat /\ Cardinality(Imported) \in Nat
    BY FinalFinite
  <2> QED
    BY <2>1, <2>2 DEF CutOffUnused, FewerThanCutOff
<1> QED
  BY <1>1, TypeCorrect, LoopsEndByThemselves, PropagationReachesFixpoint,
     ClosureReachesFixpoint, SnapshotsCanBePinned, PTL
=============================================================================
