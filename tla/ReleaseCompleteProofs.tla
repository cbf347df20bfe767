----------------------- MODULE ReleaseCompleteProofs -----------------------
(***************************************************************************)
(* Proofs about ReleaseComplete, for any number of checkouts, of commits    *)
(* merged meanwhile and of faults.                                          *)
(***************************************************************************)
EXTENDS ReleaseComplete, TLAPS

Tagged == origin.tag # NoTag

\* A local tag is on the local main and holds the cut.
TagInv(c) ==
    repo[c].tag # NoTag => Cut \in repo[c].tag.at /\ repo[c].tag.at \subseteq Local(c, "main")

\* What a run has behind it: git flow made the tag, the push put it on origin.
StepInv(c) ==
    /\ run[c].step \in {"merge", "tag"} => repo[c].tag = NoTag
    /\ At(c, "tag") => Cut \in Local(c, "main")
    /\ run[c].step \in {"back", "cleanup", "compare", "push"} => repo[c].tag # NoTag
    /\ run[c].step \in {"delete", "docs", "page"} => Tagged

\* Local develop holds commits origin lacks only when the tag is merged back.
Carried(c, seen) ==
    Local(c, "develop") \subseteq seen \/ (repo[c].tag # NoTag /\ MergedBack(c))

Unseeing == {"idle", "fetch", "delete", "docs", "page"}

DevelopInv(c) ==
    /\ Carried(c, Remote("develop"))
    /\ run[c].step \notin Unseeing => Carried(c, Seen(c, "develop"))

\* What a run knows of origin is old at worst, and what it will push is what it
\* saw differ.
RunInv(c) ==
    /\ \A r \in Refs : Seen(c, r) \subseteq Remote(r)
    /\ At(c, "push") =>
          /\ run[c].queue = {r \in Refs : Local(c, r) # Seen(c, r)}
          /\ run[c].pushTag \/ Tagged
    /\ run[c].docsOk => site

CheckoutInv(c) == TagInv(c) /\ StepInv(c) /\ DevelopInv(c) /\ RunInv(c)

WorldInv ==
    /\ TagOnMain
    /\ site \/ page \/ done => Tagged
    /\ done => site

IInv == TypeOK /\ WorldInv /\ \A c \in Checkouts : CheckoutInv(c)
-----------------------------------------------------------------------------
(* Types.                                                                  *)

LEMMA NoRunType == NoRun \in Runs
BY DEF NoRun, Runs, Steps, Base, Histories, Refs

LEMMA InitType == Init => TypeOK
<1> SUFFICES ASSUME Init PROVE TypeOK
  OBVIOUS
<1>1. Base \in Histories /\ NoTag \in Tags
  BY DEF Base, Histories, Tags
<1>2. [heads |-> Base, tag |-> NoTag, branch |-> TRUE, on |-> "release"] \in Repos
  BY <1>1 DEF Repos
<1>3. [heads |-> Base, tag |-> NoTag, branch |-> TRUE]
         \in [heads : Histories, tag : Tags, branch : BOOLEAN]
  BY <1>1
<1>4. faults \in 0..MaxFaults
  BY FaultsAssumption DEF Init
<1> QED
  BY <1>2, <1>3, <1>4, NoRunType DEF Init, TypeOK

\* The parts of TypeOK that are records.
RepoOK == repo \in [Checkouts -> Repos]
RunOK == run \in [Checkouts -> Runs]
OriginOK == origin \in [heads : Histories, tag : Tags, branch : BOOLEAN]

LEMMA RunTypes ==
    ASSUME RunOK, NEW c \in Checkouts, NEW s \in Steps
    PROVE  /\ [run EXCEPT ![c].step = s] \in [Checkouts -> Runs]
           /\ [run EXCEPT ![c] = NoRun] \in [Checkouts -> Runs]
           /\ [run EXCEPT ![c].step = s, ![c].docsOk = TRUE] \in [Checkouts -> Runs]
           /\ [run EXCEPT ![c] = [NoRun EXCEPT !.step = s]] \in [Checkouts -> Runs]
BY NoRunType DEF RunOK, Runs

LEMMA RepoUpdate ==
    ASSUME RepoOK, NEW c \in Checkouts, NEW v \in Repos
    PROVE  [repo EXCEPT ![c] = v] \in [Checkouts -> Repos]
BY DEF RepoOK

LEMMA HeadUpdate ==
    ASSUME NEW h \in Histories, NEW r \in Refs, NEW s \in SUBSET Commits
    PROVE  [h EXCEPT ![r] = s] \in Histories
BY DEF Histories

LEMMA FaultType == TypeOK /\ Fault => faults' \in 0..MaxFaults
BY FaultsAssumption DEF TypeOK, Fault

LEMMA NextType == TypeOK /\ [Next]_vars => TypeOK'
<1> SUFFICES ASSUME TypeOK, [Next]_vars PROVE TypeOK'
  OBVIOUS
<1> USE DEF RepoOK, RunOK, OriginOK
<1>1. RepoOK /\ RunOK /\ OriginOK
  BY DEF TypeOK
<1>2. ASSUME NEW c \in Checkouts, Prepare(c) PROVE TypeOK'
  <2>1. CASE Start(c)
    BY <2>1, <1>1, RunTypes DEF Start, Goto, TypeOK, Steps
  <2>2. CASE Fetch(c)
    <3>1. origin.heads \in Histories
      BY <1>1
    <3>2. run' \in [Checkouts -> Runs]
      <4> DEFINE v == [run[c] EXCEPT !.step = "sync", !.seen = origin.heads]
      <4>1. run[c] \in Runs /\ "sync" \in Steps
        BY <1>1 DEF Steps
      <4>2. v \in Runs
        BY <4>1, <3>1 DEF Runs
      <4>3. run' = [run EXCEPT ![c] = v]
        BY <2>2, <1>1 DEF Fetch
      <4> HIDE DEF v
      <4> QED
        BY <4>2, <4>3, <1>1
    <3> QED
      BY <2>2, <3>2 DEF Fetch, TypeOK
  <2>3. CASE SyncBranches(c)
    <3>1. [r \in Refs |-> IF r \in Forwarded(c) THEN Seen(c, r) ELSE Local(c, r)]
             \in Histories
      BY <1>1 DEF Seen, Local, Repos, Runs, Histories
    <3>2. repo' \in [Checkouts -> Repos]
      BY <2>3, <3>1, <1>1 DEF SyncBranches, Repos
    <3>3. run' \in [Checkouts -> Runs]
      <4>1. "finish" \in Steps
        BY DEF Steps
      <4>2. End(c) \/ Goto(c, "finish")
        BY <2>3 DEF SyncBranches
      <4>3. CASE End(c)
        BY <4>3, <1>1, RunTypes, <4>1 DEF End
      <4>4. CASE Goto(c, "finish")
        BY <4>4, <1>1, RunTypes, <4>1 DEF Goto
      <4> QED
        BY <4>2, <4>3, <4>4
    <3> QED
      BY <2>3, <3>2, <3>3 DEF SyncBranches, TypeOK
  <2>4. CASE SkipFinish(c)
    BY <2>4, <1>1, RunTypes DEF SkipFinish, Goto, TypeOK, Steps
  <2>5. CASE RunFinish(c)
    <3>1. "merge" \in Steps
      BY DEF Steps
    <3>2. End(c) \/ Goto(c, "merge")
      BY <2>5 DEF RunFinish
    <3>3. run' \in [Checkouts -> Runs]
      <4>1. CASE End(c)
        BY <4>1, <1>1, RunTypes, <3>1 DEF End
      <4>2. CASE Goto(c, "merge")
        BY <4>2, <1>1, RunTypes, <3>1 DEF Goto
      <4> QED
        BY <3>2, <4>1, <4>2
    <3> QED
      BY <2>5, <3>3 DEF RunFinish, TypeOK
  <2> QED
    BY <1>2, <2>1, <2>2, <2>3, <2>4, <2>5 DEF Prepare
<1>3. ASSUME NEW c \in Checkouts, Flow(c) \/ FlowConflict(c) PROVE TypeOK'
  <2>1. CASE FlowMerge(c)
    <3>1. WithCut(c) \in SUBSET Commits
      BY <1>1 DEF WithCut, Local, Repos, Histories, Refs, Commits
    <3>2. repo' \in [Checkouts -> Repos]
      <4> DEFINE h == [repo[c].heads EXCEPT !["main"] = WithCut(c)]
      <4> DEFINE v == [repo[c] EXCEPT !.on = "main", !.heads = h]
      <4>1. repo[c] \in Repos /\ repo[c].heads \in Histories /\ "main" \in Refs
        BY <1>1 DEF Repos, Refs
      <4>2. h \in Histories
        BY <4>1, <3>1, HeadUpdate
      <4>3. v \in Repos
        <5> HIDE DEF h
        <5> QED
          BY <4>1, <4>2 DEF Repos
      <4>4. repo' = [repo EXCEPT ![c] = v]
        BY <2>1, <4>1, <1>1 DEF FlowMerge, Repos
      <4> HIDE DEF v
      <4> QED
        BY <4>3, <4>4, <1>1, RepoUpdate
    <3> QED
      BY <2>1, <3>2, <1>1, RunTypes DEF FlowMerge, Goto, TypeOK, Steps
  <2>2. CASE FlowTag(c)
    <3>1. [by |-> c, at |-> Local(c, "main")] \in Tags
      BY <1>1 DEF Local, Repos, Histories, Refs, Tags
    <3>2. repo' \in [Checkouts -> Repos]
      <4> DEFINE t == [by |-> c, at |-> Local(c, "main")]
      <4>1. repo' = [repo EXCEPT ![c].tag = t]
        BY <2>2 DEF FlowTag
      <4> HIDE DEF t
      <4> QED
        BY <3>1, <4>1, <1>1 DEF Repos, t
    <3> QED
      BY <2>2, <3>2, <1>1, RunTypes DEF FlowTag, Goto, TypeOK, Steps
  <2>3. CASE FlowBackMerge(c)
    <3>1. WithTag(c) \in SUBSET Commits
      BY <1>1 DEF WithTag, Local, Repos, Histories, Refs, Commits, Tags, NoTag
    <3>2. repo' \in [Checkouts -> Repos]
      <4> DEFINE h == [repo[c].heads EXCEPT !["develop"] = WithTag(c)]
      <4> DEFINE v == [repo[c] EXCEPT !.on = "develop", !.heads = h]
      <4>1. repo[c] \in Repos /\ repo[c].heads \in Histories /\ "develop" \in Refs
        BY <1>1 DEF Repos, Refs
      <4>2. h \in Histories
        BY <4>1, <3>1, HeadUpdate
      <4>3. v \in Repos
        <5> HIDE DEF h
        <5> QED
          BY <4>1, <4>2 DEF Repos
      <4>4. repo' = [repo EXCEPT ![c] = v]
        BY <2>3, <4>1, <1>1 DEF FlowBackMerge, Repos
      <4> HIDE DEF v
      <4> QED
        BY <4>3, <4>4, <1>1, RepoUpdate
    <3> QED
      BY <2>3, <3>2, <1>1, RunTypes DEF FlowBackMerge, Goto, TypeOK, Steps
  <2>4. CASE FlowCleanup(c)
    <3>1. repo' \in [Checkouts -> Repos]
      <4> DEFINE v == [repo[c] EXCEPT !.branch = FALSE]
      <4>1. repo' = [repo EXCEPT ![c] = v]
        BY <2>4, <1>1 DEF FlowCleanup
      <4>2. v \in Repos
        BY <1>1 DEF Repos
      <4> HIDE DEF v
      <4> QED
        BY <4>1, <4>2, <1>1, RepoUpdate
    <3>2. PICK b \in {origin.branch, FALSE} : origin' = [origin EXCEPT !.branch = b]
      BY <2>4 DEF FlowCleanup
    <3>3. OriginOK'
      BY <3>2, <1>1
    <3> QED
      BY <2>4, <3>1, <3>3, <1>1, RunTypes DEF FlowCleanup, Goto, TypeOK, Steps
  <2>5. CASE FlowConflict(c)
    <3>1. repo' \in [Checkouts -> Repos]
      BY <2>5, <1>1 DEF FlowConflict, Repos, Refs
    <3>2. run' \in [Checkouts -> Runs] /\ faults' \in 0..MaxFaults
      BY <2>5, <1>1, RunTypes, FaultType DEF FlowConflict, End, Steps
    <3> QED
      BY <2>5, <3>1, <3>2 DEF FlowConflict, TypeOK
  <2> QED
    BY <1>3, <2>1, <2>2, <2>3, <2>4, <2>5 DEF Flow
<1>4. ASSUME NEW c \in Checkouts, Deliver(c) PROVE TypeOK'
  <2>1. CASE Compare(c)
    <3>1. PICK seen \in {run[c].seen, origin.heads} :
            run' = [run EXCEPT ![c] =
                      [@ EXCEPT !.step = "push", !.seen = seen,
                                !.queue = {r \in Refs : Local(c, r) # seen[r]},
                                !.pushTag = origin.tag = NoTag]]
      BY <2>1 DEF Compare
    <3>2. seen \in Histories
      BY <1>1 DEF Runs
    <3>3. run' \in [Checkouts -> Runs]
      <4> DEFINE q == {r \in Refs : Local(c, r) # seen[r]}
      <4> DEFINE v == [run[c] EXCEPT !.step = "push", !.seen = seen, !.queue = q,
                                     !.pushTag = origin.tag = NoTag]
      <4>1. q \in SUBSET Refs
        OBVIOUS
      <4>2. v \in Runs
        <5> HIDE DEF q
        <5>1. run[c] \in Runs /\ "push" \in Steps /\ (origin.tag = NoTag) \in BOOLEAN
          BY <1>1 DEF Steps
        <5> QED
          BY <5>1, <4>1, <3>2 DEF Runs
      <4>3. run' = [run EXCEPT ![c] = v]
        BY <3>1
      <4> HIDE DEF v
      <4> QED
        BY <4>2, <4>3, <1>1
    <3> QED
      BY <2>1, <3>3 DEF Compare, TypeOK
  <2>2. CASE Push(c)
    <3>1. [r \in Refs |-> IF r \in run[c].queue THEN Local(c, r) ELSE origin.heads[r]]
             \in Histories
      BY <1>1 DEF Local, Repos, Histories
    <3>2. OriginOK'
      BY <2>2, <3>1, <1>1 DEF Push, Repos
    <3> QED
      BY <2>2, <3>2, <1>1, RunTypes DEF Push, TypeOK, Steps
  <2>3. CASE PushRejected(c)
    BY <2>3, <1>1, RunTypes DEF PushRejected, End, TypeOK, Steps
  <2>4. CASE DeleteBranch(c)
    <3>1. OriginOK'
      BY <2>4, <1>1 DEF DeleteBranch
    <3> QED
      BY <2>4, <3>1, <1>1, RunTypes DEF DeleteBranch, Goto, TypeOK, Steps
  <2> QED
    BY <1>4, <2>1, <2>2, <2>3, <2>4 DEF Deliver
<1>5. ASSUME NEW c \in Checkouts, Announce(c) \/ DocsFail(c) \/ Stop(c) PROVE TypeOK'
  <2>1. CASE DeployDocs(c)
    BY <2>1, <1>1, RunTypes DEF DeployDocs, TypeOK, Steps
  <2>2. CASE PublishPage(c)
    <3>1. page' \in BOOLEAN /\ done' \in BOOLEAN
      BY <2>2 DEF PublishPage, TypeOK
    <3> QED
      BY <2>2, <3>1, <1>1, RunTypes DEF PublishPage, End, TypeOK, Steps
  <2>3. CASE DocsFail(c)
    <3>1. run' \in [Checkouts -> Runs] /\ faults' \in 0..MaxFaults
      BY <2>3, <1>1, RunTypes, FaultType DEF DocsFail, Goto, Steps
    <3>2. site' \in BOOLEAN
      BY <2>3 DEF DocsFail, TypeOK
    <3> QED
      BY <2>3, <3>1, <3>2 DEF DocsFail, TypeOK
  <2>4. CASE Stop(c)
    <3>1. run' \in [Checkouts -> Runs] /\ faults' \in 0..MaxFaults
      BY <2>4, <1>1, RunTypes, FaultType DEF Stop, End, Steps
    <3> QED
      BY <2>4, <3>1 DEF Stop, TypeOK
  <2> QED
    BY <1>5, <2>1, <2>2, <2>3, <2>4 DEF Announce
<1>6. ASSUME NEW c \in Checkouts, NEW r \in Refs, Pull(c, r) PROVE TypeOK'
  <2>1. repo' \in [Checkouts -> Repos]
    <3> DEFINE s == Local(c, r) \union Remote(r)
    <3> DEFINE h == [repo[c].heads EXCEPT ![r] = s]
    <3>1. repo[c] \in Repos /\ repo[c].heads \in Histories
      BY <1>1 DEF Repos
    <3>2. s \in SUBSET Commits
      BY <3>1, <1>1 DEF Local, Remote, Histories
    <3>3. h \in Histories
      BY <3>1, <3>2, HeadUpdate
    <3>4. repo' = [repo EXCEPT ![c].heads = h]
      BY <1>6, <1>1, <3>1 DEF Pull, Repos, Local, Histories
    <3> HIDE DEF h
    <3> QED
      BY <3>1, <3>3, <3>4, <1>1 DEF Repos
  <2> QED
    BY <1>6, <2>1 DEF Pull, TypeOK
<1>7. ASSUME NEW c \in Checkouts, HandPush(c) PROVE TypeOK'
  BY <1>7, <1>1 DEF HandPush, TypeOK, Repos
<1>8. ASSUME NEW w \in Work, OthersMerge(w) PROVE TypeOK'
  <2>1. w \in Commits
    BY DEF Commits
  <2>2. OriginOK'
    BY <1>8, <2>1, <1>1 DEF OthersMerge, Histories, Refs
  <2> QED
    BY <1>8, <2>2 DEF OthersMerge, TypeOK
<1>9. CASE UNCHANGED vars
  BY <1>9 DEF vars, TypeOK
<1> QED
  BY <1>2, <1>3, <1>4, <1>5, <1>6, <1>7, <1>8, <1>9 DEF Next, Progress

\* Type correctness.
THEOREM TypeCorrect == Spec => []TypeOK
BY InitType, NextType, PTL DEF Spec
-----------------------------------------------------------------------------
(* Frames: what a step leaves true.                                        *)

\* Nothing on origin is lost, and the site stays.
Grows ==
    /\ \A r \in Refs : Remote(r) \subseteq Remote(r)'
    /\ Tagged => Tagged'
    /\ site => site'

LEMMA GotoFacts ==
    ASSUME TypeOK, NEW c \in Checkouts, NEW s \in Steps, Goto(c, s)
    PROVE  /\ run'[c].step = s
           /\ run'[c].seen = run[c].seen /\ run'[c].docsOk = run[c].docsOk
           /\ \A d \in Checkouts \ {c} : run'[d] = run[d]
BY DEF TypeOK, Goto, Runs

LEMMA EndFacts ==
    ASSUME TypeOK, NEW c \in Checkouts, End(c)
    PROVE  run'[c] = NoRun /\ \A d \in Checkouts \ {c} : run'[d] = run[d]
BY DEF TypeOK, End

LEMMA SameCarried ==
    ASSUME NEW c, NEW seen, NEW more, seen \subseteq more, Carried(c, seen),
           repo'[c].heads = repo[c].heads, repo'[c].tag = repo[c].tag
    PROVE  Local(c, "develop")' \subseteq more
             \/ (repo'[c].tag # NoTag /\ MergedBack(c)')
BY DEF Carried, Local, MergedBack

\* A checkout the step does not touch.
LEMMA Kept ==
    ASSUME Grows, NEW d, CheckoutInv(d), repo'[d] = repo[d], run'[d] = run[d]
    PROVE  CheckoutInv(d)'
<1>1. TagInv(d)'
  BY DEF CheckoutInv, TagInv, Local
<1>2. StepInv(d)'
  BY DEF CheckoutInv, StepInv, Local, At, Grows
<1>3. DevelopInv(d)'
  BY DEF CheckoutInv, DevelopInv, Carried, MergedBack, Local, Seen, Grows, Refs
<1>4. RunInv(d)'
  BY DEF CheckoutInv, RunInv, Local, Seen, At, Grows
<1> QED
  BY <1>1, <1>2, <1>3, <1>4 DEF CheckoutInv

\* A step of c that keeps its history and its tag, and moves the run on.
LEMMA MovedOn ==
    ASSUME Grows, NEW c, CheckoutInv(c),
           repo'[c].heads = repo[c].heads, repo'[c].tag = repo[c].tag,
           run'[c].seen = run[c].seen, run'[c].docsOk => site',
           run'[c].step # "push", run'[c].step \in Unseeing \/ run[c].step \notin Unseeing,
           StepInv(c)'
    PROVE  CheckoutInv(c)'
<1>1. TagInv(c)'
  BY DEF CheckoutInv, TagInv, Local
<1>2. DevelopInv(c)'
  BY DEF CheckoutInv, DevelopInv, Carried, MergedBack, Local, Seen, Grows, Refs
<1>3. RunInv(c)'
  BY DEF CheckoutInv, RunInv, Local, Seen, At, Grows
<1> QED
  BY <1>1, <1>2, <1>3 DEF CheckoutInv

\* A run of c that ends, its history and its tag as they were.
LEMMA Ended ==
    ASSUME Grows, NEW c, CheckoutInv(c), run'[c] = NoRun,
           repo'[c].heads = repo[c].heads, repo'[c].tag = repo[c].tag
    PROVE  CheckoutInv(c)'
<1>1. TagInv(c)'
  BY DEF CheckoutInv, TagInv, Local
<1>2. StepInv(c)'
  BY DEF StepInv, NoRun, At
<1>3. DevelopInv(c)'
  BY DEF CheckoutInv, DevelopInv, Carried, MergedBack, Local, NoRun, Unseeing, Grows, Refs
<1>4. RunInv(c)'
  BY DEF RunInv, NoRun, Seen, At, Base
<1> QED
  BY <1>1, <1>2, <1>3, <1>4 DEF CheckoutInv

LEMMA AllKept ==
    ASSUME Grows, NEW c \in Checkouts, \A d \in Checkouts : CheckoutInv(d),
           \A d \in Checkouts \ {c} : repo'[d] = repo[d] /\ run'[d] = run[d],
           CheckoutInv(c)'
    PROVE  \A d \in Checkouts : CheckoutInv(d)'
<1> TAKE d \in Checkouts
<1> QED
  BY Kept

\* The world when origin, the site and the announcements stay.
LEMMA WorldKept ==
    ASSUME WorldInv, UNCHANGED <<origin, site, page, done>>
    PROVE  WorldInv' /\ Grows
BY DEF WorldInv, TagOnMain, Tagged, Remote, Grows

\* And when only the release branch goes from origin.
LEMMA BranchGone ==
    ASSUME TypeOK, WorldInv, NEW b, origin' = [origin EXCEPT !.branch = b],
           UNCHANGED <<site, page, done>>
    PROVE  WorldInv' /\ Grows
<1>1. origin'.heads = origin.heads /\ origin'.tag = origin.tag
  BY DEF TypeOK
<1> QED
  BY <1>1 DEF WorldInv, TagOnMain, Tagged, Remote, Grows
-----------------------------------------------------------------------------
(* One lemma per group of actions: the invariant of the acting checkout and *)
(* of the world.                                                           *)

Held(c) ==
    /\ CheckoutInv(c)' /\ WorldInv' /\ Grows
    /\ \A d \in Checkouts \ {c} : repo'[d] = repo[d] /\ run'[d] = run[d]

LEMMA PrepareHeld == ASSUME IInv, NEW c \in Checkouts, Prepare(c) PROVE Held(c)
<1>0. TypeOK /\ WorldInv /\ CheckoutInv(c)
  BY DEF IInv
<1>1. WorldInv' /\ Grows
  BY <1>0, WorldKept DEF Prepare, Start, Fetch, SyncBranches, SkipFinish, RunFinish
<1>2. CASE Start(c)
  <2>1. /\ repo' = repo /\ run'[c].step = "fetch" /\ run'[c].seen = run[c].seen
        /\ run'[c].docsOk = run[c].docsOk /\ \A d \in Checkouts \ {c} : run'[d] = run[d]
    BY <1>2, <1>0, GotoFacts DEF Start, Steps
  <2>2. StepInv(c)'
    BY <2>1 DEF StepInv, At
  <2>3. CheckoutInv(c)'
    BY <2>1, <2>2, <1>0, <1>1, MovedOn DEF CheckoutInv, RunInv, Grows, Unseeing
  <2> QED
    BY <2>1, <2>3, <1>1 DEF Held
<1>3. CASE Fetch(c)
  <2>1. /\ repo' = repo /\ origin' = origin /\ site' = site
        /\ run'[c].step = "sync" /\ run'[c].seen = origin.heads
        /\ run'[c].docsOk = run[c].docsOk /\ \A d \in Checkouts \ {c} : run'[d] = run[d]
    BY <1>3, <1>0 DEF Fetch, TypeOK, Runs
  <2>2. TagInv(c)' /\ StepInv(c)'
    BY <2>1, <1>0 DEF CheckoutInv, TagInv, StepInv, At, Local
  <2>3. DevelopInv(c)'
    BY <2>1, <1>0 DEF CheckoutInv, DevelopInv, Carried, MergedBack, Local, Seen, Remote
  <2>4. RunInv(c)'
    BY <2>1, <1>0 DEF CheckoutInv, RunInv, Seen, Remote, At
  <2> QED
    BY <2>1, <2>2, <2>3, <2>4, <1>1 DEF Held, CheckoutInv
<1>4. CASE SyncBranches(c)
  <2> DEFINE h == [r \in Refs |-> IF r \in Forwarded(c) THEN Seen(c, r) ELSE Local(c, r)]
  <2>1. /\ repo'[c].heads = h /\ repo'[c].tag = repo[c].tag
        /\ \A d \in Checkouts \ {c} : repo'[d] = repo[d]
    BY <1>4, <1>0 DEF SyncBranches, TypeOK, Repos
  <2>2. \A r \in Refs : Local(c, r)' = Local(c, r) \/ (Local(c, r)' = Seen(c, r)
                                                     /\ Local(c, r) \subseteq Seen(c, r))
    BY <2>1 DEF Local, Forwarded, Behind
  <2>3. /\ run'[c].step \in {"idle", "finish"}
        /\ run'[c].seen \in {run[c].seen, Base} /\ run'[c].docsOk \in {run[c].docsOk, FALSE}
        /\ run'[c].step = "finish" => run'[c].seen = run[c].seen
        /\ \A d \in Checkouts \ {c} : run'[d] = run[d]
    <3>1. CASE End(c)
      <4>1. run'[c] = NoRun /\ \A d \in Checkouts \ {c} : run'[d] = run[d]
        BY <3>1, <1>0, EndFacts
      <4>2. NoRun.step = "idle" /\ NoRun.seen = Base /\ NoRun.docsOk = FALSE
        BY DEF NoRun
      <4> QED
        BY <4>1, <4>2
    <3>2. CASE Goto(c, "finish")
      BY <3>2, <1>0, GotoFacts DEF Steps
    <3> QED
      BY <1>4, <3>1, <3>2 DEF SyncBranches
  <2>4. origin' = origin /\ site' = site
    BY <1>4 DEF SyncBranches
  <2>5. TagInv(c)' /\ StepInv(c)'
    BY <2>1, <2>2, <2>3, <1>0 DEF CheckoutInv, TagInv, StepInv, At, Refs
  <2>6. DevelopInv(c)'
    <3>1. Seen(c, "develop") \subseteq Remote("develop") /\ "develop" \in Refs
      BY <1>0 DEF CheckoutInv, RunInv, Refs
    <3>2. Carried(c, Remote("develop")) /\ Carried(c, Seen(c, "develop"))
      BY <1>4, <1>0 DEF CheckoutInv, DevelopInv, SyncBranches, At, Unseeing
    <3>3. Carried(c, Remote("develop"))'
      BY <3>1, <3>2, <2>1, <2>2, <2>4 DEF Carried, MergedBack, Remote
    <3>4. run'[c].step \notin Unseeing => Carried(c, Seen(c, "develop"))'
      BY <3>1, <3>2, <2>1, <2>2, <2>3 DEF Carried, MergedBack, Seen, Unseeing
    <3> QED
      BY <3>3, <3>4 DEF DevelopInv
  <2>7. RunInv(c)'
    BY <2>3, <2>4, <1>0 DEF CheckoutInv, RunInv, Seen, Remote, At, Base
  <2> QED
    BY <2>1, <2>3, <2>5, <2>6, <2>7, <1>1 DEF Held, CheckoutInv
<1>5. CASE SkipFinish(c)
  <2>1. /\ repo' = repo /\ run'[c].step = "compare" /\ run'[c].seen = run[c].seen
        /\ run'[c].docsOk = run[c].docsOk /\ \A d \in Checkouts \ {c} : run'[d] = run[d]
    BY <1>5, <1>0, GotoFacts DEF SkipFinish, Steps
  <2>2. StepInv(c)' /\ run[c].step = "finish"
    BY <2>1, <1>5 DEF StepInv, At, SkipFinish
  <2>3. CheckoutInv(c)'
    BY <2>1, <2>2, <1>0, <1>1, MovedOn DEF CheckoutInv, RunInv, Grows, Unseeing
  <2> QED
    BY <2>1, <2>3, <1>1 DEF Held
<1>6. CASE RunFinish(c) /\ End(c)
  <2>1. repo' = repo
    BY <1>6 DEF RunFinish
  <2>2. CheckoutInv(c)' /\ \A d \in Checkouts \ {c} : run'[d] = run[d]
    BY <2>1, <1>6, <1>0, <1>1, EndFacts, Ended
  <2> QED
    BY <2>1, <2>2, <1>1 DEF Held
<1>7. CASE RunFinish(c) /\ Goto(c, "merge")
  <2>1. /\ repo' = repo /\ run'[c].step = "merge" /\ run'[c].seen = run[c].seen
        /\ run'[c].docsOk = run[c].docsOk /\ \A d \in Checkouts \ {c} : run'[d] = run[d]
    BY <1>7, <1>0, GotoFacts DEF RunFinish, Steps
  <2>2. StepInv(c)' /\ run[c].step = "finish"
    BY <2>1, <1>7 DEF StepInv, At, RunFinish
  <2>3. CheckoutInv(c)'
    BY <2>1, <2>2, <1>0, <1>1, MovedOn DEF CheckoutInv, RunInv, Grows, Unseeing
  <2> QED
    BY <2>1, <2>3, <1>1 DEF Held
<1>8. RunFinish(c) => End(c) \/ Goto(c, "merge")
  BY DEF RunFinish
<1> QED
  BY <1>2, <1>3, <1>4, <1>5, <1>6, <1>7, <1>8 DEF Prepare

LEMMA FlowHeld ==
    ASSUME IInv, NEW c \in Checkouts, Flow(c) \/ FlowConflict(c)
    PROVE  Held(c)
<1>0. TypeOK /\ WorldInv /\ CheckoutInv(c) /\ repo \in [Checkouts -> Repos]
  BY DEF IInv, TypeOK
<1>00. "main" \in Refs /\ "develop" \in Refs /\ "main" # "develop"
  BY DEF Refs
<1>1. CASE FlowMerge(c)
  <2>1. /\ run'[c].step = "tag" /\ run'[c].seen = run[c].seen
        /\ run'[c].docsOk = run[c].docsOk /\ \A d \in Checkouts \ {c} : run'[d] = run[d]
    BY <1>1, <1>0, GotoFacts DEF FlowMerge, Steps
  <2>2. /\ Local(c, "main")' = WithCut(c) /\ Local(c, "develop")' = Local(c, "develop")
        /\ repo'[c].tag = repo[c].tag /\ \A d \in Checkouts \ {c} : repo'[d] = repo[d]
    BY <1>1, <1>0, <1>00 DEF FlowMerge, Repos, Histories, Local
  <2>3. Local(c, "main") \subseteq WithCut(c) /\ Cut \in WithCut(c)
    BY DEF WithCut
  <2>4. UNCHANGED <<origin, site, page, done>>
    BY <1>1 DEF FlowMerge
  <2>5. WorldInv' /\ Grows
    BY <2>4, <1>0, WorldKept
  <2>6. TagInv(c)' /\ StepInv(c)'
    BY <1>1, <2>1, <2>2, <2>3, <1>0 DEF CheckoutInv, TagInv, StepInv, At, FlowMerge
  <2>7. DevelopInv(c)'
    BY <1>1, <2>1, <2>2, <2>4, <1>0
       DEF CheckoutInv, DevelopInv, Carried, MergedBack, Seen, Remote, FlowMerge, At, Unseeing
  <2>8. RunInv(c)'
    BY <2>1, <2>4, <1>0 DEF CheckoutInv, RunInv, Seen, Remote, At
  <2> QED
    BY <2>1, <2>2, <2>5, <2>6, <2>7, <2>8 DEF Held, CheckoutInv
<1>2. CASE FlowTag(c)
  <2> DEFINE t == [by |-> c, at |-> Local(c, "main")]
  <2>1. /\ run'[c].step = "back" /\ run'[c].seen = run[c].seen
        /\ run'[c].docsOk = run[c].docsOk /\ \A d \in Checkouts \ {c} : run'[d] = run[d]
    BY <1>2, <1>0, GotoFacts DEF FlowTag, Steps
  <2>2. /\ repo'[c].heads = repo[c].heads /\ repo'[c].tag = t
        /\ \A d \in Checkouts \ {c} : repo'[d] = repo[d]
    BY <1>2, <1>0 DEF FlowTag, Repos
  <2>3. Cut \in Local(c, "main") /\ repo[c].tag = NoTag /\ run[c].step = "tag"
    BY <1>2, <1>0 DEF CheckoutInv, StepInv, FlowTag, At
  <2>4. UNCHANGED <<origin, site, page, done>>
    BY <1>2 DEF FlowTag
  <2>5. WorldInv' /\ Grows
    BY <2>4, <1>0, WorldKept
  <2>6. t # NoTag
    BY <2>3 DEF NoTag
  <2>7. TagInv(c)' /\ StepInv(c)'
    BY <2>1, <2>2, <2>3, <2>6 DEF TagInv, StepInv, At, Local
  <2>8. DevelopInv(c)'
    BY <2>1, <2>2, <2>3, <2>4, <1>0
       DEF CheckoutInv, DevelopInv, Carried, Local, Seen, Remote, Unseeing
  <2>9. RunInv(c)'
    BY <2>1, <2>4, <1>0 DEF CheckoutInv, RunInv, Seen, Remote, At
  <2> QED
    BY <2>1, <2>2, <2>5, <2>7, <2>8, <2>9 DEF Held, CheckoutInv
<1>3. CASE FlowBackMerge(c)
  <2>1. /\ run'[c].step = "cleanup" /\ run'[c].seen = run[c].seen
        /\ run'[c].docsOk = run[c].docsOk /\ \A d \in Checkouts \ {c} : run'[d] = run[d]
    BY <1>3, <1>0, GotoFacts DEF FlowBackMerge, Steps
  <2>2. /\ Local(c, "develop")' = WithTag(c) /\ Local(c, "main")' = Local(c, "main")
        /\ repo'[c].tag = repo[c].tag /\ \A d \in Checkouts \ {c} : repo'[d] = repo[d]
    BY <1>3, <1>0, <1>00 DEF FlowBackMerge, Repos, Histories, Local
  <2>3. repo[c].tag.at \subseteq WithTag(c)
    BY DEF WithTag, MergedBack
  <2>4. UNCHANGED <<origin, site, page, done>>
    BY <1>3 DEF FlowBackMerge
  <2>5. WorldInv' /\ Grows
    BY <2>4, <1>0, WorldKept
  <2>6. repo[c].tag # NoTag
    BY <1>3, <1>0 DEF CheckoutInv, StepInv, FlowBackMerge, At
  <2>7. TagInv(c)' /\ StepInv(c)'
    BY <2>1, <2>2, <2>6, <1>0 DEF CheckoutInv, TagInv, StepInv, At
  <2>8. DevelopInv(c)'
    BY <2>2, <2>3, <2>6 DEF DevelopInv, Carried, MergedBack
  <2>9. RunInv(c)'
    BY <2>1, <2>4, <1>0 DEF CheckoutInv, RunInv, Seen, Remote, At
  <2> QED
    BY <2>1, <2>2, <2>5, <2>7, <2>8, <2>9 DEF Held, CheckoutInv
<1>4. CASE FlowConflict(c)
  <2>1. /\ repo'[c].heads = repo[c].heads /\ repo'[c].tag = repo[c].tag
        /\ \A d \in Checkouts \ {c} : repo'[d] = repo[d]
    BY <1>4, <1>0 DEF FlowConflict, Repos
  <2>2. WorldInv' /\ Grows
    BY <1>4, <1>0, WorldKept DEF FlowConflict
  <2>3. run'[c] = NoRun /\ \A d \in Checkouts \ {c} : run'[d] = run[d]
    BY <1>4, <1>0, EndFacts DEF FlowConflict
  <2>4. CheckoutInv(c)'
    BY <2>1, <2>2, <2>3, <1>0, Ended
  <2> QED
    BY <2>1, <2>2, <2>3, <2>4 DEF Held
<1>5. CASE FlowCleanup(c)
  <2>1. /\ run'[c].step = "compare" /\ run'[c].seen = run[c].seen
        /\ run'[c].docsOk = run[c].docsOk /\ \A d \in Checkouts \ {c} : run'[d] = run[d]
    BY <1>5, <1>0, GotoFacts DEF FlowCleanup, Steps
  <2>2. /\ repo'[c].heads = repo[c].heads /\ repo'[c].tag = repo[c].tag
        /\ \A d \in Checkouts \ {c} : repo'[d] = repo[d]
    BY <1>5, <1>0 DEF FlowCleanup, Repos
  <2>3. PICK b \in {origin.branch, FALSE} : origin' = [origin EXCEPT !.branch = b]
    BY <1>5 DEF FlowCleanup
  <2>4. UNCHANGED <<site, page, done>>
    BY <1>5 DEF FlowCleanup
  <2>5. WorldInv' /\ Grows
    BY <2>3, <2>4, <1>0, BranchGone
  <2>6. StepInv(c)' /\ run[c].step = "cleanup"
    BY <1>5, <2>1, <2>2, <1>0 DEF CheckoutInv, StepInv, At, FlowCleanup
  <2>7. CheckoutInv(c)'
    BY <2>1, <2>2, <2>5, <2>6, <1>0, MovedOn DEF CheckoutInv, RunInv, Grows, Unseeing
  <2> QED
    BY <2>1, <2>2, <2>5, <2>7 DEF Held
<1> QED
  BY <1>1, <1>2, <1>3, <1>4, <1>5 DEF Flow

\* The push: whatever is queued, the tag is on origin after it, on origin's main.
LEMMA PushHeld == ASSUME IInv, NEW c \in Checkouts, Push(c) PROVE Held(c)
<1>0. TypeOK /\ WorldInv /\ CheckoutInv(c) /\ At(c, "push") /\ PushAccepted(c)
  BY DEF IInv, Push
<1>00. "main" \in Refs /\ "develop" \in Refs
  BY DEF Refs
<1>1. /\ repo' = repo /\ UNCHANGED <<site, page, done>>
      /\ run'[c] = [NoRun EXCEPT !.step = "delete"]
      /\ \A d \in Checkouts \ {c} : run'[d] = run[d]
  BY <1>0 DEF Push, TypeOK
<1>2. \A r \in Refs : Remote(r)' = IF r \in run[c].queue THEN Local(c, r) ELSE Remote(r)
  BY <1>0 DEF Push, TypeOK, Remote
<1>3. origin'.tag = IF TagTravels(c) THEN repo[c].tag ELSE origin.tag
  BY <1>0 DEF Push, TypeOK
<1>4. /\ repo[c].tag # NoTag /\ Cut \in repo[c].tag.at
      /\ repo[c].tag.at \subseteq Local(c, "main")
  BY <1>0 DEF CheckoutInv, StepInv, TagInv, At
<1>5. /\ run[c].queue = {r \in Refs : Local(c, r) # Seen(c, r)}
      /\ (run[c].pushTag \/ Tagged) /\ \A r \in Refs : Seen(c, r) \subseteq Remote(r)
      /\ Carried(c, Seen(c, "develop"))
  BY <1>0 DEF CheckoutInv, RunInv, DevelopInv, Unseeing, At
<1>6. Grows
  BY <1>0, <1>1, <1>2, <1>3, <1>4 DEF Grows, Tagged, PushAccepted
<1>7. ~Tagged => TagTravels(c)
  <2> SUFFICES ASSUME ~Tagged, run[c].queue # {}
               PROVE  \E r \in run[c].queue : repo[c].tag.at \subseteq Local(c, r)
    BY <1>5 DEF TagTravels, Tagged
  <2>1. CASE "main" \in run[c].queue
    BY <2>1, <1>4
  <2>2. CASE "main" \notin run[c].queue
    <3>1. "develop" \in run[c].queue
      BY <2>2, <1>5 DEF Refs
    <3>2. ~(Local(c, "develop") \subseteq Seen(c, "develop"))
      BY <3>1, <1>5, <1>00, <1>0 DEF PushAccepted
    <3> QED
      BY <3>1, <3>2, <1>5 DEF Carried, MergedBack
  <2> QED
    BY <2>1, <2>2
<1>8. Tagged'
  BY <1>3, <1>4, <1>6, <1>7 DEF Tagged, Grows
<1>9. TagOnMain'
  <2>1. CASE TagTravels(c)
    <3>1. Local(c, "main") \subseteq Remote("main")'
      BY <1>00, <1>2, <1>5
    <3> QED
      BY <2>1, <3>1, <1>3, <1>4 DEF TagOnMain
  <2>2. CASE ~TagTravels(c)
    <3>1. Tagged /\ origin'.tag = origin.tag
      BY <2>2, <1>3, <1>7
    <3>2. Remote("main") \subseteq Remote("main")'
      BY <1>6, <1>00 DEF Grows
    <3> QED
      BY <3>1, <3>2, <1>0 DEF TagOnMain, WorldInv, Tagged
  <2> QED
    BY <2>1, <2>2
<1>10. WorldInv'
  <2>1. (site \/ page \/ done => Tagged)'
    BY <1>8
  <2>2. (done => site)'
    BY <1>0, <1>1 DEF WorldInv
  <2> QED
    BY <2>1, <2>2, <1>9 DEF WorldInv
<1>11. run'[c].step = "delete" /\ run'[c].seen = Base /\ run'[c].docsOk = FALSE
  BY <1>1 DEF NoRun
<1>12. TagInv(c)' /\ StepInv(c)' /\ RunInv(c)'
  BY <1>0, <1>1, <1>8, <1>11 DEF CheckoutInv, TagInv, StepInv, RunInv, At, Local, Seen, Base
<1>13. DevelopInv(c)'
  <2>1. Carried(c, Remote("develop"))
    BY <1>0 DEF CheckoutInv, DevelopInv
  <2>2. Carried(c, Remote("develop"))'
    BY <2>1, <1>1, <1>2, <1>6, <1>00 DEF Carried, MergedBack, Local, Grows
  <2> QED
    BY <2>2, <1>11 DEF DevelopInv, Unseeing
<1> QED
  BY <1>1, <1>6, <1>10, <1>12, <1>13 DEF Held, CheckoutInv

LEMMA DeliverHeld == ASSUME IInv, NEW c \in Checkouts, Deliver(c) PROVE Held(c)
<1>0. TypeOK /\ WorldInv /\ CheckoutInv(c)
  BY DEF IInv
<1>1. CASE Compare(c)
  <2>1. PICK seen \in {run[c].seen, origin.heads} :
          run' = [run EXCEPT ![c] =
                    [@ EXCEPT !.step = "push", !.seen = seen,
                              !.queue = {r \in Refs : Local(c, r) # seen[r]},
                              !.pushTag = origin.tag = NoTag]]
    BY <1>1 DEF Compare
  <2>2. /\ repo' = repo /\ UNCHANGED <<origin, site, page, done>> /\ At(c, "compare")
    BY <1>1 DEF Compare
  <2>3. /\ run'[c].step = "push" /\ run'[c].seen = seen /\ run'[c].docsOk = run[c].docsOk
        /\ run'[c].queue = {r \in Refs : Local(c, r) # seen[r]}
        /\ run'[c].pushTag = (origin.tag = NoTag)
        /\ \A d \in Checkouts \ {c} : run'[d] = run[d]
    BY <2>1, <1>0 DEF TypeOK, Runs
  <2>4. WorldInv' /\ Grows
    BY <2>2, <1>0, WorldKept
  <2>5. /\ Carried(c, seen["develop"]) /\ Carried(c, Remote("develop"))
        /\ \A r \in Refs : seen[r] \subseteq Remote(r)
    <3>1. /\ Carried(c, Seen(c, "develop")) /\ Carried(c, Remote("develop"))
          /\ \A r \in Refs : Seen(c, r) \subseteq Remote(r)
      BY <2>2, <1>0 DEF CheckoutInv, DevelopInv, RunInv, At, Unseeing
    <3>2. CASE seen = run[c].seen
      BY <3>1, <3>2 DEF Seen
    <3>3. CASE seen = origin.heads
      BY <3>1, <3>3 DEF Remote
    <3> QED
      BY <3>2, <3>3
  <2>6. TagInv(c)' /\ StepInv(c)'
    BY <2>2, <2>3, <1>0 DEF CheckoutInv, TagInv, StepInv, At, Local
  <2>7. DevelopInv(c)'
    BY <2>2, <2>3, <2>5 DEF DevelopInv, Carried, MergedBack, Local, Seen, Remote
  <2>8. RunInv(c)'
    <3>1. (\A r \in Refs : Seen(c, r) \subseteq Remote(r))'
      BY <2>2, <2>3, <2>5 DEF Seen, Remote
    <3>2. (run[c].queue = {r \in Refs : Local(c, r) # Seen(c, r)})'
      BY <2>2, <2>3 DEF Local, Seen
    <3>3. (run[c].pushTag \/ Tagged)'
      BY <2>2, <2>3 DEF Tagged
    <3>4. (run[c].docsOk => site)'
      BY <2>2, <2>3, <1>0 DEF CheckoutInv, RunInv
    <3> QED
      BY <3>1, <3>2, <3>3, <3>4 DEF RunInv
  <2> QED
    BY <2>2, <2>3, <2>4, <2>6, <2>7, <2>8 DEF Held, CheckoutInv
<1>2. CASE PushRejected(c)
  <2>1. repo' = repo /\ WorldInv' /\ Grows
    BY <1>2, <1>0, WorldKept DEF PushRejected
  <2>2. run'[c] = NoRun /\ \A d \in Checkouts \ {c} : run'[d] = run[d]
    BY <1>2, <1>0, EndFacts DEF PushRejected
  <2>3. CheckoutInv(c)'
    BY <2>1, <2>2, <1>0, Ended
  <2> QED
    BY <2>1, <2>2, <2>3 DEF Held
<1>3. CASE DeleteBranch(c)
  <2>1. /\ run'[c].step = "docs" /\ run'[c].seen = run[c].seen
        /\ run'[c].docsOk = run[c].docsOk /\ \A d \in Checkouts \ {c} : run'[d] = run[d]
    BY <1>3, <1>0, GotoFacts DEF DeleteBranch, Steps
  <2>2. repo' = repo /\ UNCHANGED <<site, page, done>> /\ At(c, "delete")
    BY <1>3 DEF DeleteBranch
  <2>3. PICK b \in {origin.branch, FALSE} : origin' = [origin EXCEPT !.branch = b]
    BY <1>3 DEF DeleteBranch
  <2>4. WorldInv' /\ Grows
    BY <2>2, <2>3, <1>0, BranchGone
  <2>5. StepInv(c)'
    BY <2>1, <2>2, <2>4, <1>0 DEF CheckoutInv, StepInv, At, Grows
  <2>6. CheckoutInv(c)'
    BY <2>1, <2>2, <2>4, <2>5, <1>0, MovedOn DEF CheckoutInv, RunInv, Grows, Unseeing
  <2> QED
    BY <2>1, <2>2, <2>4, <2>6 DEF Held
<1> QED
  BY <1>1, <1>2, <1>3, PushHeld DEF Deliver

LEMMA AnnounceHeld ==
    ASSUME IInv, NEW c \in Checkouts, Announce(c) \/ DocsFail(c) \/ Stop(c)
    PROVE  Held(c)
<1>0. TypeOK /\ WorldInv /\ CheckoutInv(c)
  BY DEF IInv
<1>1. ASSUME UNCHANGED <<repo, origin, page, done>>, site' \in {site, TRUE}, At(c, "docs"),
             run'[c].step = "page", run'[c].seen = run[c].seen, run'[c].docsOk => site',
             \A d \in Checkouts \ {c} : run'[d] = run[d]
      PROVE  Held(c)
  <2>1. Tagged /\ Tagged'
    BY <1>1, <1>0 DEF CheckoutInv, StepInv, At, Tagged
  <2>2. WorldInv' /\ Grows
    BY <1>1, <2>1, <1>0 DEF WorldInv, TagOnMain, Remote, Grows, TypeOK
  <2>3. StepInv(c)'
    BY <1>1, <2>1 DEF StepInv, At
  <2>4. CheckoutInv(c)'
    BY <1>1, <2>2, <2>3, <1>0, MovedOn DEF Unseeing
  <2> QED
    BY <1>1, <2>2, <2>4 DEF Held
<1>2. CASE DeployDocs(c)
  <2>1. /\ run'[c].step = "page" /\ run'[c].seen = run[c].seen
        /\ \A d \in Checkouts \ {c} : run'[d] = run[d]
    BY <1>2, <1>0 DEF DeployDocs, TypeOK, Runs
  <2> QED
    BY <1>1, <1>2, <2>1 DEF DeployDocs
<1>3. CASE DocsFail(c)
  <2>1. /\ run'[c].step = "page" /\ run'[c].seen = run[c].seen
        /\ run'[c].docsOk = run[c].docsOk /\ \A d \in Checkouts \ {c} : run'[d] = run[d]
    BY <1>3, <1>0, GotoFacts DEF DocsFail, Steps
  <2>2. run'[c].docsOk => site'
    BY <1>3, <2>1, <1>0 DEF CheckoutInv, RunInv, DocsFail
  <2> QED
    BY <1>1, <1>3, <2>1, <2>2 DEF DocsFail
<1>4. CASE PublishPage(c)
  <2>1. /\ UNCHANGED <<repo, origin, site>> /\ page' \in {page, TRUE}
        /\ done' = (done \/ run[c].docsOk)
    BY <1>4 DEF PublishPage
  <2>2. run'[c] = NoRun /\ \A d \in Checkouts \ {c} : run'[d] = run[d]
    BY <1>4, <1>0, EndFacts DEF PublishPage
  <2>3. Tagged /\ (run[c].docsOk => site)
    BY <1>4, <1>0 DEF CheckoutInv, StepInv, RunInv, At, PublishPage
  <2>4. Grows /\ TagOnMain' /\ Tagged'
    BY <2>1, <2>3, <1>0 DEF WorldInv, TagOnMain, Tagged, Remote, Grows
  <2>5. (done => site)'
    BY <2>1, <2>3, <1>0 DEF WorldInv
  <2>6. WorldInv'
    BY <2>4, <2>5 DEF WorldInv
  <2>7. CheckoutInv(c)'
    BY <2>1, <2>2, <2>4, <1>0, Ended
  <2> QED
    BY <2>1, <2>2, <2>4, <2>6, <2>7 DEF Held
<1>5. CASE Stop(c)
  <2>1. repo' = repo /\ WorldInv' /\ Grows
    BY <1>5, <1>0, WorldKept DEF Stop
  <2>2. run'[c] = NoRun /\ \A d \in Checkouts \ {c} : run'[d] = run[d]
    BY <1>5, <1>0, EndFacts DEF Stop
  <2>3. CheckoutInv(c)'
    BY <2>1, <2>2, <1>0, Ended
  <2> QED
    BY <2>1, <2>2, <2>3 DEF Held
<1> QED
  BY <1>2, <1>3, <1>4, <1>5 DEF Announce

LEMMA AroundHeld ==
    ASSUME IInv, NEW c \in Checkouts, HandPush(c) \/ \E r \in Refs : Pull(c, r)
    PROVE  Held(c)
<1>0. TypeOK /\ WorldInv /\ CheckoutInv(c) /\ "develop" \in Refs /\ "main" \in Refs
  BY DEF IInv, Refs
<1>1. CASE HandPush(c)
  <2>1. repo' = repo /\ run' = run /\ UNCHANGED <<site, page, done>>
    BY <1>1 DEF HandPush
  <2>2. origin'.tag = origin.tag /\ \A r \in Refs : Remote(r)' = Local(c, r)
    BY <1>1, <1>0 DEF HandPush, TypeOK, Remote, Local
  <2>3. Grows
    BY <1>1, <2>1, <2>2 DEF HandPush, Grows, Tagged
  <2>4. WorldInv'
    <3>1. TagOnMain'
      BY <1>0, <2>2, <2>3 DEF WorldInv, TagOnMain, Grows
    <3> QED
      BY <3>1, <2>1, <2>2, <1>0 DEF WorldInv, Tagged
  <2> QED
    BY <2>1, <2>3, <2>4, <1>0, Kept DEF Held
<1>2. ASSUME NEW r \in Refs, Pull(c, r) PROVE Held(c)
  <2>1. /\ run' = run /\ UNCHANGED <<origin, site, page, done>> /\ run[c].step = "idle"
    BY <1>2 DEF Pull, At
  <2>2. /\ repo'[c].tag = repo[c].tag /\ \A d \in Checkouts \ {c} : repo'[d] = repo[d]
        /\ \A q \in Refs :
             Local(c, q)' = IF q = r THEN Local(c, q) \union Remote(q) ELSE Local(c, q)
    <3> DEFINE h == [repo[c].heads EXCEPT ![r] = Local(c, r) \union Remote(r)]
    <3>1. repo[c] \in Repos /\ repo[c].heads \in Histories
      BY <1>0 DEF TypeOK, Repos
    <3>2. repo' = [repo EXCEPT ![c] = [repo[c] EXCEPT !.heads = h]]
      BY <1>2, <1>0, <3>1 DEF Pull, TypeOK, Repos, Local, Histories
    <3>3. /\ repo'[c].tag = repo[c].tag /\ repo'[c].heads = h
          /\ \A d \in Checkouts \ {c} : repo'[d] = repo[d]
      <4> HIDE DEF h
      <4> QED
        BY <3>1, <3>2, <1>0 DEF TypeOK, Repos
    <3>4. \A q \in Refs : h[q] = IF q = r THEN Local(c, q) \union Remote(q) ELSE Local(c, q)
      BY <3>1 DEF Histories, Local
    <3> HIDE DEF h
    <3> QED
      BY <3>3, <3>4 DEF Local
  <2>3. WorldInv' /\ Grows
    BY <2>1, <1>0, WorldKept
  <2>4. TagInv(c)' /\ StepInv(c)'
    BY <2>1, <2>2, <1>0 DEF CheckoutInv, TagInv, StepInv, At
  <2>5. DevelopInv(c)'
    <3>1. Carried(c, Remote("develop"))'
      BY <2>1, <2>2, <1>0 DEF CheckoutInv, DevelopInv, Carried, MergedBack, Remote
    <3> QED
      BY <3>1, <2>1 DEF DevelopInv, Unseeing
  <2>6. RunInv(c)'
    BY <2>1, <1>0 DEF CheckoutInv, RunInv, Seen, Remote, At
  <2> QED
    BY <2>1, <2>2, <2>3, <2>4, <2>5, <2>6 DEF Held, CheckoutInv
<1> QED
  BY <1>1, <1>2

LEMMA OthersHeld ==
    ASSUME IInv, NEW w \in Work, OthersMerge(w)
    PROVE  WorldInv' /\ \A c \in Checkouts : CheckoutInv(c)'
<1>0. TypeOK /\ WorldInv
  BY DEF IInv
<1>1. repo' = repo /\ run' = run /\ UNCHANGED <<site, page, done>>
  BY DEF OthersMerge
<1>2. /\ origin'.tag = origin.tag /\ Remote("main")' = Remote("main")
      /\ Remote("develop") \subseteq Remote("develop")'
  BY <1>0 DEF OthersMerge, TypeOK, Histories, Remote, Refs
<1>3. Grows
  BY <1>1, <1>2 DEF Grows, Tagged, Refs
<1>4. WorldInv'
  BY <1>0, <1>1, <1>2 DEF WorldInv, TagOnMain, Tagged
<1> QED
  BY <1>1, <1>3, <1>4, Kept DEF IInv

LEMMA InitInv == Init => IInv
<1> SUFFICES ASSUME Init PROVE IInv
  OBVIOUS
<1>1. /\ \A c \in Checkouts : /\ repo[c].heads = Base /\ repo[c].tag = NoTag
                             /\ run[c].step = "idle" /\ run[c].seen = Base
                             /\ run[c].docsOk = FALSE
      /\ origin.heads = Base /\ origin.tag = NoTag
  BY DEF Init, NoRun
<1>2. ASSUME NEW c \in Checkouts PROVE CheckoutInv(c)
  BY <1>1 DEF CheckoutInv, TagInv, StepInv, DevelopInv, Carried, RunInv, At, Local, Seen,
              Remote, Base, Refs, Unseeing
<1>3. WorldInv
  BY <1>1 DEF Init, WorldInv, TagOnMain, Tagged
<1> QED
  BY <1>2, <1>3, InitType DEF IInv

LEMMA NextInv == IInv /\ [Next]_vars => IInv'
<1> SUFFICES ASSUME IInv, [Next]_vars PROVE WorldInv' /\ \A c \in Checkouts : CheckoutInv(c)'
  BY NextType DEF IInv
<1>1. ASSUME NEW c \in Checkouts, Held(c)
      PROVE  WorldInv' /\ \A d \in Checkouts : CheckoutInv(d)'
  BY <1>1, AllKept DEF Held, IInv
<1>2. ASSUME NEW c \in Checkouts,
             Progress(c) \/ FlowConflict(c) \/ DocsFail(c) \/ Stop(c)
      PROVE  Held(c)
  BY <1>2, PrepareHeld, FlowHeld, DeliverHeld, AnnounceHeld DEF Progress
<1>3. CASE UNCHANGED vars
  <2>1. repo' = repo /\ run' = run /\ UNCHANGED <<origin, site, page, done>>
    BY <1>3 DEF vars
  <2>2. WorldInv' /\ Grows
    BY <2>1, WorldKept DEF IInv
  <2> QED
    BY <2>1, <2>2, Kept DEF IInv
<1> QED
  BY <1>1, <1>2, <1>3, AroundHeld, OthersHeld DEF Next

LEMMA Invariance == Spec => []IInv
BY InitInv, NextInv, PTL DEF Spec
-----------------------------------------------------------------------------
(* Results.                                                                *)

\* Whichever checkouts push what, in however many attempts: the tag on origin
\* is on origin's main and holds the cut.
THEOREM TagStaysOnMain == Spec => []TagOnMain
<1>1. IInv => TagOnMain
  BY DEF IInv, WorldInv
<1> QED
  BY <1>1, Invariance, PTL

\* A run that reports success leaves the release tagged, on main, documented.
THEOREM CompletePublishes == Spec => []CompleteIsPublished
<1>1. IInv => CompleteIsPublished
  BY DEF IInv, WorldInv, TagOnMain, CompleteIsPublished, Tagged
<1> QED
  BY <1>1, Invariance, PTL

\* One step of the release changes one of tag, site and page, the last two
\* only behind the tag.
LEMMA StepRefines == IInv /\ [Next]_vars => [Published!Next]_(Published!vars)
<1> SUFFICES ASSUME IInv, [Next]_vars PROVE [Published!Next]_(Published!vars)
  OBVIOUS
<1> USE DEF Published!vars, Published!Next
<1>0. TypeOK
  BY DEF IInv
<1>1. ASSUME origin'.tag = origin.tag, UNCHANGED <<site, page>>
      PROVE  [Published!Next]_(Published!vars)
  BY <1>1
<1>2. ASSUME NEW c \in Checkouts, Push(c) PROVE [Published!Next]_(Published!vars)
  <2>1. Tagged'
    <3>1. Held(c)
      BY <1>2, PushHeld
    <3>2. run'[c] = [NoRun EXCEPT !.step = "delete"]
      BY <1>2, <1>0 DEF Push, TypeOK
    <3>3. run'[c].step = "delete"
      BY <3>2 DEF NoRun
    <3> QED
      BY <3>1, <3>3 DEF Held, CheckoutInv, StepInv
  <2>2. UNCHANGED <<site, page>>
    BY <1>2 DEF Push
  <2>3. CASE Tagged
    BY <2>1, <2>2, <2>3 DEF Tagged
  <2>4. CASE ~Tagged
    BY <2>1, <2>2, <2>4 DEF Published!Ship, Tagged
  <2> QED
    BY <2>3, <2>4
<1>3. ASSUME NEW c \in Checkouts, DeployDocs(c) \/ DocsFail(c)
      PROVE  [Published!Next]_(Published!vars)
  <2>1. Tagged
    BY <1>3 DEF IInv, CheckoutInv, StepInv, At, DeployDocs, DocsFail
  <2>2. site' \in {site, TRUE} /\ UNCHANGED <<origin, page>> /\ site \in BOOLEAN
    BY <1>3, <1>0 DEF DeployDocs, DocsFail, TypeOK
  <2> QED
    BY <2>1, <2>2 DEF Published!Document, Tagged
<1>4. ASSUME NEW c \in Checkouts, PublishPage(c) PROVE [Published!Next]_(Published!vars)
  <2>1. Tagged
    BY <1>4 DEF IInv, CheckoutInv, StepInv, At, PublishPage
  <2>2. page' \in {page, TRUE} /\ UNCHANGED <<origin, site>> /\ page \in BOOLEAN
    BY <1>4, <1>0 DEF PublishPage, TypeOK
  <2> QED
    BY <2>1, <2>2 DEF Published!Announce, Tagged
<1>5. ASSUME NEW c \in Checkouts,
             \/ Prepare(c) \/ Flow(c) \/ FlowConflict(c) \/ Compare(c) \/ PushRejected(c)
             \/ DeleteBranch(c) \/ Stop(c) \/ HandPush(c) \/ (\E r \in Refs : Pull(c, r))
      PROVE  origin'.tag = origin.tag /\ UNCHANGED <<site, page>>
  BY <1>5, <1>0
     DEF Prepare, Start, Fetch, SyncBranches, SkipFinish, RunFinish, Flow, FlowMerge, FlowTag,
         FlowBackMerge, FlowCleanup, FlowConflict, Compare, PushRejected, DeleteBranch, Stop,
         HandPush, Pull, TypeOK
<1>6. ASSUME NEW w \in Work, OthersMerge(w)
      PROVE  origin'.tag = origin.tag /\ UNCHANGED <<site, page>>
  BY <1>6, <1>0 DEF OthersMerge, TypeOK
<1>7. CASE UNCHANGED vars
  BY <1>7 DEF vars
<1> QED
  BY <1>1, <1>2, <1>3, <1>4, <1>5, <1>6, <1>7 DEF Next, Progress, Deliver, Announce

\* However the runs interleave and fail, origin sees what Publication promises.
THEOREM Implements == Spec => Refines
<1>1. Init => Published!Init
  BY DEF Init, Published!Init
<1> QED
  BY <1>1, StepRefines, Invariance, PTL DEF Spec, Refines, Published!Spec
=============================================================================
