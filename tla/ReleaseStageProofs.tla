------------------------- MODULE ReleaseStageProofs -------------------------
(***************************************************************************)
(* Proofs about ReleaseStage, for any set of components, any import graph,  *)
(* any set of releasing and of new components, and any number of runs, of   *)
(* kills and of failures that create_snapshot does not look at.             *)
(***************************************************************************)
EXTENDS ReleaseStage, TLAPS

\* What lies in the tree belongs to the cycle, and in a run to its plan.
PlanInv ==
    /\ \A c \in Components : manifest[c] = "none" => c \in First
    /\ Staged \subseteq Releasing
    /\ \A p \in pins :
          /\ p[2] = "new" => p[3] \in Imports[p[1]] /\ snapshot[p[1]] # "absent"
          /\ p[2] = "old" => p[3] \notin First
    /\ phase \in Running => Staged \subseteq bumped /\ bumped \subseteq Releasing

\* What component c imports has a version or gets one in the run.
Versioned(c) == \A d \in Imports[c] : CohortVersion(d) # "none"

Cut(c) == snapshot[c] = "whole" /\ metadata[c] = "new" /\ Versioned(c)

\* How far a run has come.
ProgressInv ==
    /\ phase = "cut" =>
          /\ step = "copy" => snapshot[Current] = "absent"
          /\ step = "metadata" => snapshot[Current] = "whole" /\ Versioned(Current)
          /\ failed \/ \A c \in bumped \ todo : Cut(c)
    /\ phase \in {"publish", "normalize", "verify"} => \A c \in bumped : Cut(c)
    /\ phase \in {"normalize", "verify"} =>
          \A c \in bumped : manifest[c] = "new"
    /\ phase = "verify" =>
          \A p \in pins : p[2] = manifest[p[1]] => p[4] = manifest[p[3]]

\* A component no upset has met has a clean interface.yaml, or create_snapshot
\* works on it and holds the backup of a clean one.
RestoreInv ==
    /\ backup # "none" =>
          /\ phase = "cut" /\ Current \in todo
          /\ step \in {"build", "replace", "copy"}
    /\ phase \in Quiet \cup {"branched"} => step = "stamp"
    /\ backup \in {"stamped", "damaged"} => Current \in spoiled
    /\ \A c \in Components :
          yaml[c] # "clean" =>
              c \in spoiled \/ (backup = "clean" /\ c = Current)

IInv == TypeOK /\ PlanInv /\ ProgressInv /\ RestoreInv /\ StagedIsConsistent
-----------------------------------------------------------------------------
\* The component at hand is the first of the loop's list, and only that.
LEMMA SameCurrent == todo' = todo => Current' = Current
BY DEF Current

LEMMA AtCurrent ==
    ASSUME NEW s, At(s), TypeOK
    PROVE  /\ phase = "cut" /\ step = s
           /\ Current \in todo /\ Current \in bumped /\ Current \in Components
<1>1. Current \in todo /\ phase = "cut" /\ step = s
  BY Zenon DEF At
<1> QED
  BY <1>1 DEF TypeOK

\* The set of components to cut lies between what is in the tree and what the
\* decision releases.
LEMMA BumpedFacts ==
    ASSUME TypeOK, PlanInv, NEW named \in SUBSET Components
    PROVE  /\ Bumped(named) \subseteq Releasing
           /\ Staged \subseteq Bumped(named)
<1> DEFINE Closed(Q) == /\ Releasing \cap (named \cup Staged) \subseteq Q
                        /\ \A d \in Q : \A e \in Listed(d) :
                              manifest[e] = "none" => e \in Q
<1>1. Bumped(named) =
        {c \in Components : \A Q \in SUBSET Components : Closed(Q) => c \in Q}
  BY DEF Bumped
<1>2. Releasing \in SUBSET Components /\ Closed(Releasing)
  <2>1. \A d \in Releasing : Listed(d) \subseteq Components
    BY StageAssumption DEF Listed
  <2> QED
    BY <2>1, StageAssumption DEF PlanInv
<1>3. Staged \subseteq Components /\ Staged \subseteq Releasing
  BY DEF Staged, PlanInv
<1> HIDE DEF Closed
<1>5. Bumped(named) \subseteq Releasing
  BY <1>1, <1>2
<1>6. Staged \subseteq Bumped(named)
  <2>1. \A Q : Closed(Q) => Staged \subseteq Q
    BY <1>3 DEF Closed
  <2> QED
    BY <1>1, <1>3, <2>1
<1> QED
  BY <1>5, <1>6
-----------------------------------------------------------------------------
LEMMA InitIInv == Init => IInv
<1> SUFFICES ASSUME Init PROVE IInv
  OBVIOUS
<1>1. TypeOK
  <2>1. HeadPins \subseteq Components \X Versions \X Components
                             \X {"old", "new", "current"}
    BY DEF HeadPins, Versions
  <2>2. manifest \in [Components -> Versions \cup {"none"}]
    BY DEF Init, HeadVersion, Versions
  <2>3. runs \in 0 .. MaxRuns /\ upsets \in 0 .. MaxUpsets
    BY StageAssumption DEF Init
  <2> QED
    BY <2>1, <2>2, <2>3 DEF Init, TypeOK, Quiet, Versions, Contents
<1>2. PlanInv
  <2>1. \A p \in pins : p[2] = "old" /\ p[3] \notin First
    BY DEF Init, HeadPins
  <2>2. Staged = {}
    BY DEF Init, Staged
  <2> QED
    BY <2>1, <2>2 DEF Init, PlanInv, HeadVersion, Running
<1>3. ProgressInv /\ RestoreInv /\ StagedIsConsistent
  BY DEF Init, ProgressInv, RestoreInv, StagedIsConsistent
<1> QED
  BY <1>1, <1>2, <1>3 DEF IInv

\* What GiveUp and Continue leave in the run's variables.
LEMMA RunTypes ==
    ASSUME TypeOK, NEW s \in {"build", "replace", "copy", "finish", "metadata"}
    PROVE  /\ GiveUp => /\ phase' = phase /\ bumped' = bumped
                        /\ todo' \subseteq bumped' /\ step' = "stamp"
                        /\ failed' = TRUE
           /\ Continue(s) => /\ phase' = phase /\ bumped' = bumped
                             /\ todo' = todo /\ step' = s /\ failed' = failed
BY DEF TypeOK, GiveUp, Continue

\* What an upset, and the writes of interface.yaml, leave.
LEMMA UpsetTypes ==
    ASSUME TypeOK, NEW cut \in SUBSET Components, Upset(cut)
    PROVE  upsets' \in 0 .. MaxUpsets /\ spoiled' \subseteq Components
BY StageAssumption DEF TypeOK, Upset

LEMMA YamlTypes ==
    ASSUME TypeOK, Current \in Components
    PROVE  /\ \A content \in Contents :
                 Becomes(content) => yaml' \in [Components -> Contents]
           /\ SetVersion => yaml' \in [Components -> Contents]
BY DEF TypeOK, Becomes, SetVersion, Contents

LEMMA RestoreTypes ==
    ASSUME TypeOK, Current \in Components, RestoreCurrent
    PROVE  /\ yaml' \in [Components -> Contents] /\ backup' = "none"
           /\ upsets' \in 0 .. MaxUpsets /\ spoiled' \subseteq Components
<1>1. {Current} \in SUBSET Components
  OBVIOUS
<1>2. upsets \in 0 .. MaxUpsets /\ spoiled \subseteq Components
      /\ backup \in Contents \cup {"none"} /\ yaml \in [Components -> Contents]
  BY DEF TypeOK
<1>3. CASE Upset({Current})
  BY <1>1, <1>2, <1>3, UpsetTypes, YamlTypes DEF RestoreCurrent, Contents
<1>4. CASE UNCHANGED past
  <2>1. upsets' = upsets /\ spoiled' = spoiled
    BY <1>4 DEF past
  <2>2. yaml' = yaml \/ \E content \in Contents : Becomes(content)
    BY <1>2 DEF RestoreCurrent, Contents
  <2> QED
    BY <1>2, <2>1, <2>2, YamlTypes DEF RestoreCurrent
<1> QED
  BY <1>3, <1>4 DEF RestoreCurrent, past

LEMMA NextTypeOK == TypeOK /\ PlanInv /\ RestoreInv /\ [Next]_vars => TypeOK'
<1> SUFFICES ASSUME TypeOK, PlanInv, RestoreInv, [Next]_vars PROVE TypeOK'
  OBVIOUS
<1>1. ASSUME NEW named \in SUBSET Components, Stage(named)
      PROVE  TypeOK'
  <2>1. Bumped(named) \subseteq Components
    BY DEF Bumped
  <2>2. runs' \in 0 .. MaxRuns
    BY <1>1, StageAssumption DEF Stage, TypeOK
  <2> QED
    BY <1>1, <2>1, <2>2 DEF Stage, TypeOK, tree, Running, past
<1>2. CASE Stamp
  <2>1. Current \in Components /\ {Current} \in SUBSET Components
    BY <1>2, AtCurrent DEF Stamp
  <2>2. yaml' \in [Components -> Contents]
    BY <1>2, <2>1, YamlTypes DEF Stamp, TypeOK
  <2>3. upsets' \in 0 .. MaxUpsets /\ spoiled' \subseteq Components
    BY <1>2, <2>1, UpsetTypes DEF Stamp, TypeOK, past
  <2>4. backup' \in Contents \cup {"none"}
    BY <1>2, <2>1 DEF Stamp, TypeOK, Contents
  <2>5. Continue("build")
        /\ UNCHANGED <<snapshot, metadata, manifest, pins, runs>>
    BY <1>2 DEF Stamp
  <2> QED
    BY <2>2, <2>3, <2>4, <2>5, RunTypes DEF TypeOK
<1>3. CASE Build
  BY <1>3, AtCurrent, RunTypes, RestoreTypes DEF Build, TypeOK, past
<1>4. CASE Replace
  BY <1>4, AtCurrent, RunTypes, RestoreTypes DEF Replace, TypeOK, past
<1>5. CASE Copy
  <2>1. Current \in Components /\ Imports[Current] \subseteq Components
    BY <1>5, AtCurrent, StageAssumption DEF Copy
  <2>2. {<<Current, "new", d, "current">> : d \in Imports[Current]}
           \subseteq Components \X Versions \X Components
                        \X {"old", "new", "current"}
    BY <2>1 DEF Versions
  <2>3. pins' \subseteq Components \X Versions \X Components
                           \X {"old", "new", "current"}
    BY <1>5, <2>2 DEF Copy, TypeOK
  <2>4. snapshot' \in [Components -> {"absent", "partial", "whole"}]
    BY <1>5 DEF Copy, TypeOK
  <2> QED
    BY <1>5, <2>1, <2>3, <2>4, RunTypes, RestoreTypes DEF Copy, TypeOK, past
<1>6. CASE Finish
  <2>1. /\ phase = "cut" /\ Current \in bumped
        /\ Current \in Components /\ Imports[Current] \subseteq Components
    BY <1>6, AtCurrent, StageAssumption DEF Finish
  <2>2. Versioned(Current) => \A d \in Imports[Current] : CohortVersion(d) \in Versions
    BY <2>1 DEF CohortVersion, Versioned, Versions, TypeOK
  <2>3. Versioned(Current) =>
          {<<Current, "new", d, CohortVersion(d)>> : d \in Imports[Current]}
           \subseteq Components \X Versions \X Components
                        \X {"old", "new", "current"}
    BY <2>1, <2>2 DEF Versions
  <2>4. pins' \subseteq Components \X Versions \X Components
                           \X {"old", "new", "current"}
    BY <1>6, <2>3 DEF Finish, TypeOK, Versioned
  <2>5. snapshot' \in [Components -> {"absent", "partial", "whole"}]
    BY <1>6, <2>1 DEF Finish, TypeOK
  <2>6. Continue("metadata") \/ GiveUp
    BY <1>6 DEF Finish
  <2>7. /\ bumped' = bumped /\ phase' = phase /\ todo' \subseteq bumped
        /\ step' \in {"stamp", "metadata"} /\ failed' \in BOOLEAN
    BY <2>6, RunTypes DEF TypeOK
  <2>8. UNCHANGED <<backup, yaml, metadata, manifest, runs, spoiled, upsets>>
    BY <1>6 DEF Finish, past
  <2> QED
    BY <2>4, <2>5, <2>7, <2>8 DEF TypeOK
<1>7. CASE Metadata
  BY <1>7, AtCurrent DEF Metadata, TypeOK, Versions, past
<1>8. CASE EndCut
  BY <1>8 DEF EndCut, Exit, TypeOK, run, tree, past, Quiet, Running
<1>9. CASE Publish
  <2>1. manifest' \in [Components -> Versions \cup {"none"}]
    BY <1>9 DEF Publish, TypeOK, Versions
  <2>2. CASE phase' = "normalize" /\ UNCHANGED run
    BY <1>9, <2>1, <2>2 DEF Publish, TypeOK, run, Running, past
  <2>3. CASE Exit("idle")
    BY <1>9, <2>1, <2>3 DEF Publish, Exit, TypeOK, Quiet, past
  <2> QED
    BY <1>9, <2>2, <2>3 DEF Publish
<1>10. CASE Normalize
  <2>1. pins' \subseteq Components \X Versions \X Components
                           \X {"old", "new", "current"}
    BY <1>10 DEF Normalize, TypeOK, Versions
  <2> QED
    BY <1>10, <2>1 DEF Normalize, Exit, TypeOK, run, Quiet, Running, past
<1>11. CASE Verify
  BY <1>11 DEF Verify, Exit, TypeOK, tree, past, Quiet, Running
<1>12. CASE Kill
  <2>1. upsets' \in 0 .. MaxUpsets /\ spoiled' \subseteq Components
    <3>1. (IF backup = "none" THEN {} ELSE {Current}) \in SUBSET Components
      BY <1>12 DEF TypeOK, RestoreInv, Kill
    <3> QED
      BY <1>12, <3>1, UpsetTypes DEF Kill
  <2> QED
    BY <1>12, <2>1 DEF Kill, Exit, TypeOK, tree, Quiet
<1>13. ASSUME NEW c \in Components, Drop(c)
       PROVE  TypeOK'
  BY <1>13 DEF Drop, TypeOK, run, past, Quiet, HeadVersion, Versions
<1>14. CASE Clean
  <2>1. HeadPins \subseteq Components \X Versions \X Components
                             \X {"old", "new", "current"}
    BY DEF HeadPins, Versions
  <2> QED
    BY <1>14, <2>1 DEF Clean, TypeOK, run, past, Quiet, HeadVersion, Versions
<1>15. CASE Apply
  BY <1>15 DEF Apply, TypeOK, run, tree, past
<1>16. CASE UNCHANGED vars
  BY <1>16 DEF vars, run, tree, past, TypeOK
<1> QED
  BY <1>1, <1>2, <1>3, <1>4, <1>5, <1>6, <1>7, <1>8, <1>9, <1>10, <1>11, <1>12,
     <1>13, <1>14, <1>15, <1>16 DEF Next, Stop
-----------------------------------------------------------------------------
\* A step of create_snapshot touches the snapshot of one component of the run.
LEMMA CutPlan ==
    ASSUME TypeOK, PlanInv, phase = "cut", phase' = "cut",
           bumped' = bumped, manifest' = manifest, Current \in bumped,
           \A c \in Components \ {Current} : snapshot'[c] = snapshot[c],
           \A p \in pins' : \/ p \in pins
                            \/ /\ p[1] = Current /\ p[2] = "new"
                               /\ p[3] \in Imports[Current],
           \A p \in pins' : p[1] = Current /\ p[2] = "new"
                               => snapshot'[Current] # "absent"
    PROVE  PlanInv'
<1>1. Staged \subseteq bumped /\ bumped \subseteq Releasing
  BY DEF PlanInv, Running
<1>2. Staged' \subseteq bumped
  BY <1>1 DEF Staged
<1>3. ASSUME NEW p \in pins'
      PROVE  /\ p[2] = "new" => p[3] \in Imports[p[1]] /\ snapshot'[p[1]] # "absent"
             /\ p[2] = "old" => p[3] \notin First
  <2>1. CASE p \in pins
    <3>1. p[1] \in Components
      BY <2>1 DEF TypeOK
    <3>2. /\ p[2] = "new" => p[3] \in Imports[p[1]] /\ snapshot[p[1]] # "absent"
          /\ p[2] = "old" => p[3] \notin First
      BY <2>1 DEF PlanInv
    <3> QED
      BY <3>1, <3>2
  <2>2. CASE p[1] = Current /\ p[2] = "new" /\ p[3] \in Imports[Current]
    BY <2>2
  <2> QED
    BY <2>1, <2>2
<1> QED
  BY <1>1, <1>2, <1>3 DEF PlanInv

\* Leaving a run with the tree as it is.
LEMMA TreePlan ==
    ASSUME PlanInv, UNCHANGED tree,
           phase' \in Running => phase \in Running /\ bumped' = bumped
    PROVE  PlanInv'
<1>1. /\ snapshot' = snapshot /\ manifest' = manifest /\ pins' = pins
      /\ Staged' = Staged
  BY DEF tree, Staged
<1> QED
  BY <1>1 DEF PlanInv

LEMMA NextPlanInv ==
    TypeOK /\ PlanInv /\ ProgressInv /\ [Next]_vars => PlanInv'
<1> SUFFICES ASSUME TypeOK, PlanInv, ProgressInv, [Next]_vars PROVE PlanInv'
  OBVIOUS
<1>1. ASSUME NEW named \in SUBSET Components, Stage(named)
      PROVE  PlanInv'
  <2>1. /\ snapshot' = snapshot /\ manifest' = manifest /\ pins' = pins
        /\ Staged' = Staged /\ bumped' = Bumped(named)
    BY <1>1 DEF Stage, tree, Staged
  <2> QED
    BY <2>1, BumpedFacts DEF PlanInv
<1>2. CASE Stamp
  BY <1>2, AtCurrent, RunTypes, CutPlan DEF Stamp, PlanInv
<1>3. CASE Build
  BY <1>3, AtCurrent, RunTypes, CutPlan DEF Build, PlanInv
<1>4. CASE Replace
  <2>1. /\ phase = "cut" /\ Current \in bumped /\ Current \in Components
        /\ phase' = "cut" /\ bumped' = bumped /\ manifest' = manifest
    BY <1>4, AtCurrent, RunTypes DEF Replace
  <2>2. /\ \A c \in Components \ {Current} : snapshot'[c] = snapshot[c]
        /\ pins' \subseteq pins
    BY <1>4, <2>1 DEF Replace, TypeOK
  <2>3. \A p \in pins' : p[1] = Current /\ p[2] = "new"
                            => snapshot'[Current] # "absent"
    BY <1>4, <2>1 DEF Replace, PinsOf, TypeOK
  <2> QED
    BY <2>1, <2>2, <2>3, CutPlan
<1>5. CASE Copy
  <2>1. /\ phase = "cut" /\ Current \in bumped /\ Current \in Components
        /\ phase' = "cut" /\ bumped' = bumped /\ manifest' = manifest
        /\ snapshot[Current] = "absent"
    BY <1>5, AtCurrent, RunTypes DEF Copy, ProgressInv
  <2>2. \A c \in Components \ {Current} : snapshot'[c] = snapshot[c]
    BY <1>5, <2>1 DEF Copy, TypeOK
  <2>3. \A p \in pins : ~(p[1] = Current /\ p[2] = "new")
    BY <2>1 DEF PlanInv
  <2>4. CASE /\ snapshot' = [snapshot EXCEPT ![Current] = "partial"]
             /\ pins' = pins \cup
                     {<<Current, "new", d, "current">> : d \in Imports[Current]}
    <3>1. snapshot'[Current] # "absent"
      BY <2>1, <2>4 DEF TypeOK
    <3>2. \A p \in pins' : \/ p \in pins
                           \/ /\ p[1] = Current /\ p[2] = "new"
                              /\ p[3] \in Imports[Current]
      BY <2>4
    <3> QED
      BY <2>1, <2>2, <3>1, <3>2, CutPlan
  <2>5. CASE pins' = pins
    BY <2>1, <2>2, <2>3, <2>5, CutPlan
  <2> QED
    BY <1>5, <2>4, <2>5 DEF Copy
<1>6. CASE Finish
  <2>1. /\ phase = "cut" /\ Current \in bumped /\ Current \in Components
        /\ phase' = "cut" /\ bumped' = bumped /\ manifest' = manifest
    BY <1>6, AtCurrent, RunTypes DEF Finish
  <2>2. CASE /\ snapshot' = [snapshot EXCEPT ![Current] = "whole"]
             /\ pins' = pins \cup
                  {<<Current, "new", d, CohortVersion(d)>> : d \in Imports[Current]}
    <3>1. /\ snapshot'[Current] # "absent"
          /\ \A c \in Components \ {Current} : snapshot'[c] = snapshot[c]
      BY <2>1, <2>2 DEF TypeOK
    <3>2. \A p \in pins' : \/ p \in pins
                           \/ /\ p[1] = Current /\ p[2] = "new"
                              /\ p[3] \in Imports[Current]
      BY <2>2
    <3> QED
      BY <2>1, <3>1, <3>2, CutPlan
  <2>3. CASE snapshot' = snapshot /\ pins' = pins
    BY <2>1, <2>3, CutPlan DEF PlanInv
  <2> QED
    BY <1>6, <2>2, <2>3 DEF Finish
<1>7. CASE Metadata
  BY <1>7, AtCurrent, CutPlan DEF Metadata, PlanInv
<1>8. CASE EndCut
  BY <1>8, TreePlan DEF EndCut, Exit, Running, run
<1>9. CASE Publish
  <2>1. /\ snapshot' = snapshot /\ pins' = pins /\ Staged' = Staged
        /\ phase = "publish"
    BY <1>9 DEF Publish, Staged
  <2>2. CASE /\ manifest' = [c \in Components |->
                               IF c \in bumped THEN "new" ELSE manifest[c]]
             /\ phase' = "normalize" /\ bumped' = bumped
    <3>1. \A c \in Components : manifest'[c] = "none" => manifest[c] = "none"
      BY <2>2
    <3>2. \A c \in bumped : c \in Components /\ Imports[c] \subseteq Components
      BY StageAssumption DEF TypeOK
    <3> QED
      BY <2>1, <2>2, <3>1, <3>2 DEF PlanInv, Running
  <2>3. CASE phase' = "idle" /\ manifest' = manifest
    BY <2>1, <2>3 DEF PlanInv, Running
  <2> QED
    BY <1>9, <2>2, <2>3 DEF Publish, Exit, run
<1>10. CASE Normalize
  <2>1. /\ snapshot' = snapshot /\ manifest' = manifest /\ Staged' = Staged
        /\ phase' \in Running => phase \in Running /\ bumped' = bumped
    BY <1>10 DEF Normalize, Exit, Running, Staged, run
  <2>2. \A q \in pins' : \E p \in pins : q[1] = p[1] /\ q[2] = p[2] /\ q[3] = p[3]
    BY <1>10 DEF Normalize
  <2>3. \A q \in pins' :
           /\ q[2] = "new" => q[3] \in Imports[q[1]] /\ snapshot[q[1]] # "absent"
           /\ q[2] = "old" => q[3] \notin First
    BY <2>2 DEF PlanInv
  <2> QED
    BY <2>1, <2>3 DEF PlanInv
<1>11. CASE Verify
  BY <1>11, TreePlan DEF Verify, Exit, Running
<1>12. CASE Kill
  BY <1>12, TreePlan DEF Kill, Exit, Running
<1>13. ASSUME NEW c \in Components, Drop(c)
       PROVE  PlanInv'
  <2>1. /\ \A d \in Components \ {c} : snapshot'[d] = snapshot[d]
        /\ snapshot'[c] = "absent" /\ pins' = pins \ PinsOf(c, "new")
        /\ phase' \notin Running
    BY <1>13 DEF Drop, TypeOK, Quiet, Running
  <2>2. Staged' \subseteq Staged
    BY <2>1 DEF Staged
  <2>3. \A d \in Components : manifest'[d] = "none" => d \in First
    BY <1>13 DEF Drop, HeadVersion
  <2>4. \A p \in pins' : p \in pins /\ p[1] \in Components
                           /\ ~(p[1] = c /\ p[2] = "new")
    BY <2>1 DEF PinsOf, TypeOK
  <2> QED
    BY <2>1, <2>2, <2>3, <2>4 DEF PlanInv
<1>14. CASE Clean
  <2>1. Staged' = {} /\ phase' \notin Running
    BY <1>14 DEF Clean, Staged, Running
  <2>2. \A d \in Components : manifest'[d] = "none" => d \in First
    BY <1>14 DEF Clean, HeadVersion
  <2>3. \A p \in pins' : p[2] = "old" /\ p[3] \notin First
    BY <1>14 DEF Clean, HeadPins
  <2> QED
    BY <2>1, <2>2, <2>3 DEF PlanInv
<1>15. CASE Apply
  BY <1>15, TreePlan DEF Apply, Running
<1>16. CASE UNCHANGED vars
  BY <1>16, TreePlan DEF vars, run
<1> QED
  BY <1>1, <1>2, <1>3, <1>4, <1>5, <1>6, <1>7, <1>8, <1>9, <1>10, <1>11, <1>12,
     <1>13, <1>14, <1>15, <1>16 DEF Next, Stop
-----------------------------------------------------------------------------
\* Every way out of create_snapshot restores what the backup holds, or an upset
\* meets the component.
LEMMA RestoreLeavesClean ==
    ASSUME TypeOK, RestoreInv, Current \in Components, RestoreCurrent
    PROVE  /\ backup' = "none"
           /\ \A c \in Components : yaml'[c] # "clean" => c \in spoiled'
<1>1. CASE backup = "none" /\ UNCHANGED <<yaml, past>>
  BY <1>1 DEF RestoreInv, RestoreCurrent, past
<1>2. CASE backup # "none" /\ Becomes(backup) /\ UNCHANGED past
  <2>1. spoiled' = spoiled /\ yaml' = [yaml EXCEPT ![Current] = backup]
    BY <1>2 DEF Becomes, past
  <2>2. yaml'[Current] = backup
    BY <2>1 DEF TypeOK
  <2>3. \A c \in Components \ {Current} : yaml'[c] = yaml[c]
    BY <2>1 DEF TypeOK
  <2>4. backup # "clean" => Current \in spoiled
    BY <1>2 DEF RestoreInv, TypeOK, Contents
  <2> QED
    BY <2>1, <2>2, <2>3, <2>4 DEF RestoreInv, RestoreCurrent
<1>3. CASE Upset({Current}) /\ (Becomes("damaged") \/ UNCHANGED yaml)
  <2>1. spoiled' = spoiled \cup {Current}
    BY <1>3 DEF Upset
  <2>2. \A c \in Components \ {Current} : yaml'[c] = yaml[c]
    BY <1>3 DEF Becomes, TypeOK
  <2> QED
    BY <2>1, <2>2 DEF RestoreInv, RestoreCurrent
<1> QED
  BY <1>1, <1>2, <1>3 DEF RestoreCurrent

LEMMA NextRestoreInv == TypeOK /\ RestoreInv /\ [Next]_vars => RestoreInv'
<1> SUFFICES ASSUME TypeOK, RestoreInv, [Next]_vars PROVE RestoreInv'
  OBVIOUS
<1>1. ASSUME NEW named \in SUBSET Components, Stage(named)
      PROVE  RestoreInv'
  <2>1. /\ step' = step /\ backup' = backup /\ yaml' = yaml
        /\ spoiled' = spoiled /\ phase' = "cut"
    BY <1>1 DEF Stage, tree, past
  <2>2. phase \in Quiet /\ backup = "none"
    BY <1>1 DEF Stage, RestoreInv, Quiet
  <2> QED
    BY <2>1, <2>2 DEF RestoreInv, Quiet
<1>2. CASE Stamp
  <2>1. /\ phase = "cut" /\ step = "stamp" /\ backup = "none"
        /\ Current \in todo /\ Current \in Components
        /\ phase' = "cut" /\ step' = "build" /\ todo' = todo
        /\ Current' = Current
    BY <1>2, AtCurrent, RunTypes, SameCurrent DEF Stamp, RestoreInv
  <2>2. \A c \in Components : yaml[c] # "clean" => c \in spoiled
    BY <2>1 DEF RestoreInv
  <2>3. SetVersion => \A c \in Components \ {Current} : yaml'[c] = yaml[c]
    BY DEF SetVersion, Becomes, TypeOK
  <2>4. CASE backup' = yaml[Current] /\ SetVersion /\ UNCHANGED past
    <3>1. spoiled' = spoiled
      BY <2>4 DEF past
    <3>2. yaml[Current] # "clean" => Current \in spoiled
      BY <2>1, <2>2
    <3>3. yaml[Current] \in Contents
      BY <2>1 DEF TypeOK
    <3> QED
      BY <2>1, <2>2, <2>3, <2>4, <3>1, <3>2, <3>3 DEF RestoreInv, Quiet, Contents
  <2>5. CASE backup' \in {"none", "damaged"} /\ SetVersion /\ Upset({Current})
    <3>1. spoiled' = spoiled \cup {Current}
      BY <2>5 DEF Upset
    <3> QED
      BY <2>1, <2>2, <2>3, <2>5, <3>1 DEF RestoreInv, Quiet
  <2>6. CASE UNCHANGED <<backup, yaml, past>>
    BY <2>1, <2>2, <2>6 DEF RestoreInv, Quiet, past
  <2> QED
    BY <1>2, <2>4, <2>5, <2>6 DEF Stamp
<1>3. CASE Build
  <2>1. phase = "cut" /\ phase' = "cut" /\ Current \in Components
    BY <1>3, AtCurrent, RunTypes DEF Build
  <2>2. CASE Continue("replace") /\ UNCHANGED <<backup, yaml, past>>
    <3>1. todo' = todo /\ step' = "replace" /\ Current' = Current
      BY <2>2, RunTypes, SameCurrent
    <3> QED
      BY <2>1, <2>2, <3>1 DEF RestoreInv, Quiet, past
  <2>3. CASE GiveUp /\ RestoreCurrent
    BY <2>1, <2>3, RestoreLeavesClean DEF RestoreInv, Quiet
  <2> QED
    BY <1>3, <2>2, <2>3 DEF Build
<1>4. CASE Replace
  <2>1. phase = "cut" /\ phase' = "cut" /\ Current \in Components
    BY <1>4, AtCurrent, RunTypes DEF Replace
  <2>2. CASE Continue("copy") /\ UNCHANGED <<backup, yaml, past>>
    <3>1. todo' = todo /\ step' = "copy" /\ Current' = Current
      BY <2>2, RunTypes, SameCurrent
    <3> QED
      BY <2>1, <2>2, <3>1 DEF RestoreInv, Quiet, past
  <2>3. CASE GiveUp /\ RestoreCurrent
    BY <2>1, <2>3, RestoreLeavesClean DEF RestoreInv, Quiet
  <2> QED
    BY <1>4, <2>2, <2>3 DEF Replace
<1>5. CASE Copy
  <2>1. phase = "cut" /\ phase' = "cut" /\ Current \in Components
    BY <1>5, AtCurrent, RunTypes DEF Copy
  <2> QED
    BY <1>5, <2>1, RestoreLeavesClean DEF Copy, RestoreInv, Quiet
<1>6. CASE Finish \/ Metadata
  <2>0. phase = "cut" /\ step \in {"finish", "metadata"}
    BY <1>6, AtCurrent DEF Finish, Metadata
  <2>1. /\ phase = "cut" /\ phase' = "cut" /\ backup = "none"
        /\ backup' = backup /\ yaml' = yaml /\ spoiled' = spoiled
    BY <1>6, <2>0 DEF Finish, Metadata, Continue, GiveUp, RestoreInv, past
  <2> QED
    BY <2>1 DEF RestoreInv, Quiet
<1>7. CASE EndCut
  <2>1. /\ backup = "none" /\ backup' = "none" /\ yaml' = yaml
        /\ spoiled' = spoiled
    BY <1>7 DEF EndCut, RestoreInv, Exit, run, tree, past
  <2>2. \/ phase' = "idle" /\ step' = "stamp"
        \/ phase' = "publish"
    BY <1>7 DEF EndCut, Exit
  <2> QED
    BY <2>1, <2>2 DEF RestoreInv, Quiet
<1>8. CASE Publish \/ Normalize \/ Verify
  <2>1. phase \in {"publish", "normalize", "verify"} /\ backup = "none"
    BY <1>8 DEF Publish, Normalize, Verify, RestoreInv
  <2>2. backup' = "none" /\ yaml' = yaml /\ spoiled' = spoiled
    BY <1>8, <2>1 DEF Publish, Normalize, Verify, Exit, run, tree, past
  <2>3. \/ phase' \in Quiet /\ step' = "stamp"
        \/ phase' \in {"normalize", "verify"}
    BY <1>8 DEF Publish, Normalize, Verify, Exit, Quiet
  <2> QED
    BY <2>1, <2>2, <2>3 DEF RestoreInv, Quiet
<1>9. CASE Kill
  <2>1. /\ backup' = "none" /\ step' = "stamp" /\ yaml' = yaml
        /\ spoiled' = spoiled \cup
                          (IF backup = "none" THEN {} ELSE {Current})
    BY <1>9 DEF Kill, Exit, Upset, tree
  <2> QED
    BY <2>1 DEF RestoreInv
<1>10. CASE Clean \/ Apply \/ \E c \in Components : Drop(c)
  <2>1. phase \in Quiet /\ backup = "none" /\ step = "stamp"
    BY <1>10 DEF Drop, Clean, Apply, RestoreInv, Quiet
  <2>2. /\ backup' = backup /\ step' = step /\ yaml' = yaml
        /\ spoiled' = spoiled
    BY <1>10 DEF Drop, Clean, Apply, run, tree, past
  <2> QED
    BY <2>1, <2>2 DEF RestoreInv, Quiet
<1>11. CASE UNCHANGED vars
  <2>1. Current' = Current
    BY <1>11, SameCurrent DEF vars, run
  <2> QED
    BY <1>11, <2>1 DEF vars, run, tree, past, RestoreInv
<1> QED
  BY <1>1, <1>2, <1>3, <1>4, <1>5, <1>6, <1>7, <1>8, <1>9, <1>10, <1>11
     DEF Next, Stop
-----------------------------------------------------------------------------
\* Outside a run, and while one cuts, only the first part of ProgressInv speaks.
LEMMA QuietProgress ==
    ASSUME phase' \notin Running
    PROVE  ProgressInv'
BY DEF ProgressInv, Running

\* A step of create_snapshot leaves the components it is done with alone.
LEMMA CutProgress ==
    ASSUME TypeOK, ProgressInv, phase = "cut", phase' = "cut", bumped' = bumped,
           Current \in todo,
           manifest' = manifest,
           \A c \in Components \ {Current} :
              snapshot'[c] = snapshot[c] /\ metadata'[c] = metadata[c],
           \/ todo' = todo /\ failed' = failed
           \/ todo' = todo \ {Current} /\ failed' = TRUE
           \/ /\ todo' = todo \ {Current} /\ failed' = failed
              /\ snapshot'[Current] = "whole" /\ metadata'[Current] = "new"
              /\ Versioned(Current),
           step' = "copy" => snapshot'[Current'] = "absent",
           step' = "metadata" =>
               snapshot'[Current'] = "whole" /\ Current' = Current /\ Versioned(Current)
    PROVE  ProgressInv'
<1>0. \A c : Versioned(c)' <=> Versioned(c)
  BY DEF Versioned, CohortVersion
<1>1. ASSUME ~failed', NEW c \in bumped \ todo'
      PROVE  snapshot'[c] = "whole" /\ metadata'[c] = "new" /\ Versioned(c)
  <2>1. CASE c = Current
    BY <1>1, <2>1
  <2>2. CASE c # Current
    <3>1. c \in bumped \ todo /\ c \in Components /\ ~failed
      BY <1>1, <2>2 DEF TypeOK
    <3> QED
      BY <2>2, <3>1 DEF ProgressInv, Cut
  <2> QED
    BY <2>1, <2>2
<1>2. step' = "metadata" => Versioned(Current)'
  BY DEF Versioned, CohortVersion
<1> QED
  BY <1>0, <1>1, <1>2 DEF ProgressInv, Cut

\* The rewriting of the references makes the cohort agree with the manifest:
\* nothing a cohort snapshot refers to lacks an entry of the manifest.
LEMMA NormalizeAgrees ==
    ASSUME TypeOK, PlanInv, ProgressInv, phase = "normalize",
           manifest' = manifest,
           pins' = {IF /\ p[1] \in Components /\ p[2] = manifest[p[1]]
                       /\ manifest[p[3]] # "none"
                    THEN <<p[1], p[2], p[3], manifest[p[3]]>> ELSE p : p \in pins}
    PROVE  \A q \in pins' : q[2] = manifest'[q[1]] => q[4] = manifest'[q[3]]
<1> SUFFICES ASSUME NEW q \in pins', q[2] = manifest[q[1]]
             PROVE  q[4] = manifest[q[3]]
  OBVIOUS
<1>1. PICK p \in pins :
         q = IF /\ p[1] \in Components /\ p[2] = manifest[p[1]]
                /\ manifest[p[3]] # "none"
             THEN <<p[1], p[2], p[3], manifest[p[3]]>> ELSE p
  OBVIOUS
<1>2. p[1] \in Components /\ p[2] \in Versions /\ p[3] \in Components
  BY DEF TypeOK
<1>3. p[2] = manifest[p[1]]
  BY <1>1
<1>4. manifest[p[3]] # "none"
  <2>1. CASE p[2] = "old"
    <3>1. p[3] \notin First
      BY <2>1 DEF PlanInv
    <3> QED
      BY <1>2, <3>1 DEF PlanInv
  <2>2. CASE p[2] = "new"
    <3>1. p[3] \in Imports[p[1]] /\ snapshot[p[1]] # "absent"
      BY <2>2 DEF PlanInv
    <3>2. p[1] \in bumped
      BY <1>2, <3>1 DEF PlanInv, Running, Staged
    <3>3. CohortVersion(p[3]) # "none"
      BY <3>1, <3>2 DEF ProgressInv, Cut, Versioned
    <3>4. p[3] \in bumped => manifest[p[3]] = "new"
      BY DEF ProgressInv
    <3> QED
      BY <3>3, <3>4 DEF CohortVersion
  <2> QED
    BY <1>2, <2>1, <2>2 DEF Versions
<1> QED
  BY <1>1, <1>2, <1>3, <1>4

LEMMA NextProgressInv ==
    TypeOK /\ PlanInv /\ ProgressInv /\ RestoreInv /\ [Next]_vars => ProgressInv'
<1> SUFFICES ASSUME TypeOK, PlanInv, ProgressInv, RestoreInv, [Next]_vars
             PROVE  ProgressInv'
  OBVIOUS
<1>1. ASSUME NEW named \in SUBSET Components, Stage(named)
      PROVE  ProgressInv'
  <2>1. phase' = "cut" /\ step' = "stamp" /\ todo' = bumped'
    BY <1>1 DEF Stage, RestoreInv
  <2> QED
    BY <2>1 DEF ProgressInv
<1>2. CASE Stamp
  BY <1>2, AtCurrent, RunTypes, CutProgress DEF Stamp
<1>3. CASE Build
  BY <1>3, AtCurrent, CutProgress DEF Build, GiveUp, Continue
<1>4. CASE Replace
  <2>1. phase = "cut" /\ Current \in todo /\ Current \in Components
    BY <1>4, AtCurrent DEF Replace
  <2>2. \A c \in Components \ {Current} :
           snapshot'[c] = snapshot[c] /\ metadata'[c] = metadata[c]
    BY <1>4 DEF Replace, TypeOK
  <2>3. CASE Continue("copy") /\ snapshot' = [snapshot EXCEPT ![Current] = "absent"]
    <3>1. Current' = Current
      BY <2>3, SameCurrent DEF Continue
    <3> QED
      BY <1>4, <2>1, <2>2, <2>3, <3>1, CutProgress DEF Continue, TypeOK, Replace
  <2>4. CASE GiveUp
    BY <1>4, <2>1, <2>2, <2>4, CutProgress DEF GiveUp, Replace
  <2> QED
    BY <1>4, <2>3, <2>4 DEF Replace
<1>5. CASE Copy
  <2>1. phase = "cut" /\ Current \in todo /\ Current \in Components
    BY <1>5, AtCurrent DEF Copy
  <2>2. \A c \in Components \ {Current} :
           snapshot'[c] = snapshot[c] /\ metadata'[c] = metadata[c]
    BY <1>5 DEF Copy, TypeOK
  <2>3. CASE Continue("finish")
    BY <1>5, <2>1, <2>2, <2>3, CutProgress DEF Continue, Copy
  <2>4. CASE GiveUp
    BY <1>5, <2>1, <2>2, <2>4, CutProgress DEF GiveUp, Copy
  <2> QED
    BY <1>5, <2>3, <2>4 DEF Copy
<1>6. CASE Finish
  <2>1. phase = "cut" /\ Current \in todo /\ Current \in Components
    BY <1>6, AtCurrent DEF Finish
  <2>2. \A c \in Components \ {Current} :
           snapshot'[c] = snapshot[c] /\ metadata'[c] = metadata[c]
    BY <1>6 DEF Finish, TypeOK
  <2>3. CASE /\ Continue("metadata") /\ Versioned(Current)
             /\ snapshot' = [snapshot EXCEPT ![Current] = "whole"]
    <3>1. Current' = Current /\ Versioned(Current)
      BY <2>3, SameCurrent DEF Continue, Versioned
    <3> QED
      BY <1>6, <2>1, <2>2, <2>3, <3>1, CutProgress DEF Continue, TypeOK, Finish
  <2>4. CASE GiveUp
    BY <1>6, <2>1, <2>2, <2>4, CutProgress DEF GiveUp, Finish
  <2> QED
    BY <1>6, <2>3, <2>4 DEF Finish, Versioned
<1>7. CASE Metadata
  <2>1. /\ phase = "cut" /\ Current \in todo /\ Current \in Components
        /\ snapshot[Current] = "whole" /\ Versioned(Current)
    BY <1>7, AtCurrent DEF Metadata, ProgressInv
  <2>2. \A c \in Components \ {Current} :
           snapshot'[c] = snapshot[c] /\ metadata'[c] = metadata[c]
    BY <1>7 DEF Metadata, TypeOK
  <2>3. snapshot'[Current] = "whole" /\ metadata'[Current] = "new"
    BY <1>7, <2>1 DEF Metadata, TypeOK
  <2> QED
    BY <1>7, <2>1, <2>2, <2>3, CutProgress DEF Metadata
<1>8. CASE EndCut
  <2>1. CASE failed
    BY <1>8, <2>1, QuietProgress DEF EndCut, Exit, Running
  <2>2. CASE ~failed
    <3>1. /\ phase' = "publish" /\ bumped' = bumped /\ manifest' = manifest
          /\ snapshot' = snapshot /\ metadata' = metadata
      BY <1>8, <2>2 DEF EndCut, run, tree
    <3>2. \A c \in bumped : Cut(c)
      BY <1>8, <2>2 DEF EndCut, ProgressInv
    <3> QED
      BY <3>1, <3>2 DEF ProgressInv, Cut, Versioned, CohortVersion
  <2> QED
    BY <2>1, <2>2
<1>9. CASE Publish
  <2>1. CASE Exit("idle")
    BY <2>1, QuietProgress DEF Exit, Running
  <2>2. CASE /\ phase' = "normalize" /\ UNCHANGED run
             /\ manifest' = [c \in Components |->
                               IF c \in bumped THEN "new" ELSE manifest[c]]
    <3>1. bumped' = bumped /\ snapshot' = snapshot /\ metadata' = metadata
      BY <1>9, <2>2 DEF Publish, run
    <3>2. \A c \in bumped : Cut(c) /\ manifest'[c] = "new"
      BY <1>9, <2>2 DEF Publish, ProgressInv, TypeOK
    <3>3. \A c \in bumped : Versioned(c)'
      <4>1. \A c \in bumped : \A d \in Imports[c] : d \in Components
        BY StageAssumption DEF TypeOK
      <4>2. \A d \in Components : CohortVersion(d) # "none" => CohortVersion(d)' # "none"
        BY <2>2, <3>1 DEF CohortVersion
      <4> QED
        BY <3>1, <3>2, <4>1, <4>2 DEF Cut, Versioned
    <3> QED
      BY <2>2, <3>1, <3>2, <3>3 DEF ProgressInv, Cut
  <2> QED
    BY <1>9, <2>1, <2>2 DEF Publish
<1>10. CASE Normalize
  <2>1. CASE Exit("idle")
    BY <2>1, QuietProgress DEF Exit, Running
  <2>2. CASE ~Exit("idle")
    <3>1. /\ phase = "normalize" /\ phase' = "verify" /\ bumped' = bumped
          /\ snapshot' = snapshot /\ metadata' = metadata /\ manifest' = manifest
          /\ pins' = {IF /\ p[1] \in Components /\ p[2] = manifest[p[1]]
                         /\ manifest[p[3]] # "none"
                      THEN <<p[1], p[2], p[3], manifest[p[3]]>> ELSE p : p \in pins}
      BY <1>10, <2>2 DEF Normalize, run
    <3>2. \A c \in bumped : Cut(c) /\ manifest[c] = "new"
      BY <3>1 DEF ProgressInv
    <3>3. \A q \in pins' : q[2] = manifest'[q[1]] => q[4] = manifest'[q[3]]
      BY <3>1, NormalizeAgrees
    <3> QED
      BY <3>1, <3>2, <3>3 DEF ProgressInv, Cut, Versioned, CohortVersion
  <2> QED
    BY <2>1, <2>2
<1>11. CASE Verify
  BY <1>11, QuietProgress DEF Verify, Exit, Running
<1>12. CASE Kill
  BY <1>12, QuietProgress DEF Kill, Exit, Running
<1>13. CASE Clean \/ Apply \/ \E c \in Components : Drop(c)
  BY <1>13, QuietProgress DEF Drop, Clean, Apply, Running
<1>14. CASE UNCHANGED vars
  <2>1. Current' = Current
    BY <1>14, SameCurrent DEF vars, run
  <2> QED
    BY <1>14, <2>1 DEF vars, run, tree, ProgressInv, Cut, Versioned, CohortVersion
<1> QED
  BY <1>1, <1>2, <1>3, <1>4, <1>5, <1>6, <1>7, <1>8, <1>9, <1>10, <1>11, <1>12,
     <1>13, <1>14 DEF Next, Stop
-----------------------------------------------------------------------------
\* The manifest build needs a snapshot for every entry of the manifest.
LEMMA BuildNeedsSnapshots ==
    ASSUME ManifestBuilds, NEW c \in Components, manifest[c] = "new"
    PROVE  snapshot[c] # "absent"
<1>1. PICK Q \in SUBSET (Components \X Versions) :
         /\ \A d \in Components : manifest[d] # "none" => <<d, manifest[d]>> \in Q
         /\ \A s \in Q : Exists(s[1], s[2])
  BY DEF ManifestBuilds
<1>2. Exists(c, "new")
  BY <1>1
<1> QED
  BY <1>2 DEF Exists

LEMMA NextStaged == IInv /\ [Next]_vars => StagedIsConsistent'
<1> SUFFICES ASSUME IInv, [Next]_vars, phase' = "staged"
             PROVE  StagedIsConsistent'
  BY DEF StagedIsConsistent
<1>1. CASE Verify
  <2>1. /\ ManifestBuilds /\ phase = "verify"
        /\ UNCHANGED <<snapshot, metadata, manifest, pins>>
    BY <1>1 DEF Verify, Exit, tree
  <2>2. \A c \in bumped : Cut(c) /\ manifest[c] = "new"
    BY <2>1 DEF IInv, ProgressInv
  <2>3. \A c \in Components : snapshot[c] # "absent" => c \in bumped
    BY <2>1 DEF IInv, PlanInv, Running, Staged
  <2>4. \A c \in Components : manifest[c] = "new" => snapshot[c] # "absent"
    BY <2>1, BuildNeedsSnapshots
  <2>5. \A p \in pins : p[2] = manifest[p[1]] => p[4] = manifest[p[3]]
    BY <2>1 DEF IInv, ProgressInv
  <2> QED
    BY <2>1, <2>2, <2>3, <2>4, <2>5 DEF StagedIsConsistent, Cut
<1>2. CASE UNCHANGED vars
  BY <1>2 DEF vars, tree, IInv, StagedIsConsistent
<1>3. CASE Stamp \/ Build \/ Replace \/ Copy \/ Finish \/ Metadata
  <2>1. phase = "cut" /\ phase' = phase
    BY <1>3 DEF Stamp, Build, Replace, Copy, Finish, Metadata, At, GiveUp, Continue
  <2> QED
    BY <2>1
<1>4. CASE EndCut \/ Publish \/ Normalize \/ Kill
  BY <1>4 DEF EndCut, Publish, Normalize, Kill, Exit, run
<1>5. CASE Clean \/ Apply \/ (\E c \in Components : Drop(c))
             \/ \E named \in SUBSET Components : Stage(named)
  BY <1>5 DEF Clean, Apply, Drop, Stage
<1> QED
  BY <1>1, <1>2, <1>3, <1>4, <1>5 DEF Next, Stop

LEMMA Invariance == Spec => []IInv
<1>1. IInv /\ [Next]_vars => IInv'
  BY NextTypeOK, NextPlanInv, NextProgressInv, NextRestoreInv, NextStaged DEF IInv
<1> QED
  BY InitIInv, <1>1, PTL DEF Spec
-----------------------------------------------------------------------------
\* Whatever components, imports, runs and kills, the variables keep their types.
THEOREM TypeCorrect == Spec => []TypeOK
<1>1. IInv => TypeOK
  BY DEF IInv
<1> QED
  BY <1>1, Invariance, PTL

\* A stage run that ends well leaves manifest, snapshots, metadata and the
\* references between snapshots in agreement, whatever the runs, failures,
\* kills, drops and cleans before it left (the write pipeline of release.sh).
THEOREM StageRunsConverge == Spec => []StagedIsConsistent
<1>1. IInv => StagedIsConsistent
  BY DEF IInv
<1> QED
  BY <1>1, Invariance, PTL

\* create_snapshot gives current/ its interface.yaml back on every failure it
\* looks at, whatever the runs before left; only a component that a kill, or a
\* failing mktemp, cp or mv, met while it was stamped may keep something else.
THEOREM FailuresRestoreCurrent == Spec => []CurrentRestored
<1>1. IInv => CurrentRestored
  BY DEF IInv, RestoreInv, CurrentRestored, TypeOK
<1> QED
  BY <1>1, Invariance, PTL

\* A component's metadata.yaml moves to the new version only when its snapshot
\* is whole (update_metadata after create_snapshot).
THEOREM MetadataAfterSnapshot == Spec => MetadataFollowsSnapshot
<1> DEFINE Moves == \A c \in Components :
                       metadata[c] = "old" /\ metadata'[c] = "new"
                         => snapshot'[c] = "whole"
<1>1. IInv /\ [Next]_vars => Moves
  <2> SUFFICES ASSUME IInv, [Next]_vars,
                      NEW c \in Components,
                      metadata[c] = "old", metadata'[c] = "new"
               PROVE  snapshot'[c] = "whole"
    OBVIOUS
  <2>1. CASE Metadata
    <3>1. snapshot[Current] = "whole" /\ snapshot' = snapshot
      BY <2>1, AtCurrent DEF Metadata, IInv, ProgressInv
    <3>2. c = Current
      BY <2>1 DEF Metadata, IInv, TypeOK
    <3> QED
      BY <3>1, <3>2
  <2>2. CASE Clean \/ \E d \in Components : Drop(d)
    BY <2>2 DEF Clean, Drop, IInv, TypeOK
  <2>3. CASE metadata' = metadata
    BY <2>3
  <2>4. \/ Metadata \/ Clean \/ \E d \in Components : Drop(d)
        \/ metadata' = metadata
    BY Zenon DEF Next, Stage, Stamp, Build, Replace, Copy, Finish, EndCut,
       Publish, Normalize, Verify, Kill, Apply, Stop, vars, tree
  <2> QED
    BY <2>1, <2>2, <2>3, <2>4
<1> QED
  BY <1>1, Invariance, PTL DEF Spec, MetadataFollowsSnapshot
=============================================================================
