-------------------------- MODULE ReleaseComplete --------------------------
(***************************************************************************)
(* `release.sh --complete`: git flow release finish, the push of main,     *)
(* develop and the tag, the documentation site and the release page, run   *)
(* from one or more checkouts of the repository.  Every step can fail or   *)
(* be killed, and the command is simply run again.                         *)
(*                                                                         *)
(* A branch is the set of commits it holds beyond a base all branches      *)
(* share, so "is an ancestor of" is set inclusion; a local branch that is  *)
(* absent is one at the base (both are brought to origin's).  A tag is the *)
(* checkout that made it (annotated tags made apart are different objects) *)
(* and the history it points at.  Writing PR labels before the merge       *)
(* (--sync-labels, whose failure is a warning) touches none of this.       *)
(***************************************************************************)
EXTENDS Naturals

CONSTANTS Checkouts,    \* working copies --complete is run from
          Work,         \* commits others merge into origin's develop meanwhile
          MaxFaults     \* bound: failures and kills

ASSUME FaultsAssumption == MaxFaults \in Nat

VARIABLES repo,    \* by checkout: local branches and tag, local release/X.Y.Z, HEAD
          run,     \* by checkout: the --complete run in progress
          origin,  \* branches and tag on origin, release/X.Y.Z there
          site, page,  \* versioned docs and GitHub release
          done,    \* some run ended with "Release complete"
          faults

vars == <<repo, run, origin, site, page, done, faults>>

Cut == <<"release", "cut">>            \* the commits of release/X.Y.Z
MainMerge(c) == <<"main", c>>          \* merge commits made in checkout c
BackMerge(c) == <<"develop", c>>
Commits == {Cut} \union {MainMerge(c) : c \in Checkouts}
                 \union {BackMerge(c) : c \in Checkouts} \union Work

NoTag == [by |-> "none", at |-> {}]    \* no such tag
Tags == [by : Checkouts, at : SUBSET Commits] \union {NoTag}

Refs == {"main", "develop"}
Histories == [Refs -> SUBSET Commits]
Base == [r \in Refs |-> {}]

\* seen: origin/main and origin/develop as last fetched; queue, pushTag: what
\* the run will push; docsOk: it deployed the site.
Steps == {"idle", "fetch", "sync", "finish", "merge", "tag", "back", "cleanup",
          "compare", "push", "delete", "docs", "page"}
NoRun == [step |-> "idle", seen |-> Base, queue |-> {}, pushTag |-> FALSE, docsOk |-> FALSE]

Init ==
    /\ repo = [c \in Checkouts |->
                 [heads |-> Base, tag |-> NoTag, branch |-> TRUE, on |-> "release"]]
    /\ run = [c \in Checkouts |-> NoRun]
    /\ origin = [heads |-> Base, tag |-> NoTag, branch |-> TRUE]
    /\ site = FALSE /\ page = FALSE /\ done = FALSE /\ faults = 0

At(c, step) == run[c].step = step
Goto(c, step) == run' = [run EXCEPT ![c].step = step]
End(c) == run' = [run EXCEPT ![c] = NoRun]
Fault == faults < MaxFaults /\ faults' = faults + 1

Local(c, r) == repo[c].heads[r]
Remote(r) == origin.heads[r]
Seen(c, r) == run[c].seen[r]

-----------------------------------------------------------------------------
(* A run, up to git flow.                                                  *)

\* mutant: a tag on origin is refused, as the header (1352) says
StartRefusesTag(c) ==
    /\ At(c, "idle") /\ Goto(c, "fetch")
    /\ origin.tag = NoTag
    /\ UNCHANGED <<repo, origin, site, page, done, faults>>

\* The release is found by HEAD, by a pin, or by the only local release
\* branch; an operator can always pin it.  The run dies at once when origin
\* has a different tag of that name.
Start(c) ==
    /\ At(c, "idle") /\ Goto(c, "fetch")
    /\ repo[c].tag = NoTag \/ origin.tag \in {NoTag, repo[c].tag}
    /\ UNCHANGED <<repo, origin, site, page, done, faults>>

Fetch(c) ==
    /\ At(c, "fetch")
    /\ run' = [run EXCEPT ![c].step = "sync", ![c].seen = origin.heads]
    /\ UNCHANGED <<repo, origin, site, page, done, faults>>

\* The branch that is checked out is left as it is; any other one is moved up
\* to origin's, stays when it is ahead, or stops the run when it diverged,
\* main first.
Diverged(c, r) ==
    /\ repo[c].on # r
    /\ ~(Local(c, r) \subseteq Seen(c, r)) /\ ~(Seen(c, r) \subseteq Local(c, r))

Behind(c, r) == repo[c].on # r /\ Local(c, r) \subseteq Seen(c, r)

Forwarded(c) ==
    {r \in Refs : Behind(c, r) /\ (r = "develop" => ~Diverged(c, "main"))}

SyncBranches(c) ==
    /\ At(c, "sync")
    /\ repo' = [repo EXCEPT ![c].heads =
                 [r \in Refs |-> IF r \in Forwarded(c) THEN Seen(c, r) ELSE Local(c, r)]]
    /\ IF \E r \in Refs : Diverged(c, r) THEN End(c) ELSE Goto(c, "finish")
    /\ UNCHANGED <<origin, site, page, done, faults>>

SkipFinish(c) ==
    /\ At(c, "finish") /\ repo[c].tag # NoTag /\ Goto(c, "compare")
    /\ UNCHANGED <<repo, origin, site, page, done, faults>>

\* git flow refuses without the branch, or when a branch is behind origin's.
FlowAccepts(c) == repo[c].branch /\ \A r \in Refs : Seen(c, r) \subseteq Local(c, r)

RunFinish(c) ==
    /\ At(c, "finish") /\ repo[c].tag = NoTag
    /\ IF FlowAccepts(c) THEN Goto(c, "merge") ELSE End(c)
    /\ UNCHANGED <<repo, origin, site, page, done, faults>>

-----------------------------------------------------------------------------
(* git flow release finish, step by step.                                  *)

WithCut(c) ==
    IF Cut \in Local(c, "main") THEN Local(c, "main")
    ELSE Local(c, "main") \union {Cut, MainMerge(c)}

FlowMerge(c) ==
    /\ At(c, "merge") /\ Goto(c, "tag")
    /\ repo' = [repo EXCEPT ![c].on = "main", ![c].heads["main"] = WithCut(c)]
    /\ UNCHANGED <<origin, site, page, done, faults>>

\* mutant: finish makes a lightweight tag
FlowTagLight(c) ==
    /\ At(c, "tag") /\ Goto(c, "back")
    /\ repo' = [repo EXCEPT ![c].tag = [by |-> "none", at |-> Local(c, "main")]]
    /\ UNCHANGED <<origin, site, page, done, faults>>

FlowTag(c) ==
    /\ At(c, "tag") /\ Goto(c, "back")
    /\ repo' = [repo EXCEPT ![c].tag = [by |-> c, at |-> Local(c, "main")]]
    /\ UNCHANGED <<origin, site, page, done, faults>>

MergedBack(c) == repo[c].tag.at \subseteq Local(c, "develop")
WithTag(c) ==
    IF MergedBack(c) THEN Local(c, "develop")
    ELSE Local(c, "develop") \union repo[c].tag.at \union {BackMerge(c)}

FlowBackMerge(c) ==
    /\ At(c, "back") /\ Goto(c, "cleanup")
    /\ repo' = [repo EXCEPT ![c].on = "develop", ![c].heads["develop"] = WithTag(c)]
    /\ UNCHANGED <<origin, site, page, done, faults>>

\* The merge into develop conflicts: develop is checked out and not merged.
FlowConflict(c) ==
    /\ At(c, "back") /\ ~MergedBack(c) /\ End(c) /\ Fault
    /\ repo' = [repo EXCEPT ![c].on = "develop"]
    /\ UNCHANGED <<origin, site, page, done>>

\* The branch is deleted here and, when that works, on origin.
FlowCleanup(c) ==
    /\ At(c, "cleanup") /\ Goto(c, "compare")
    /\ repo' = [repo EXCEPT ![c].branch = FALSE]
    /\ \E b \in {origin.branch, FALSE} : origin' = [origin EXCEPT !.branch = b]
    /\ UNCHANGED <<site, page, done, faults>>

-----------------------------------------------------------------------------
(* Push, site, page.                                                       *)

\* A failed fetch is ignored here; whether origin has the tag is asked anew.
Compare(c) ==
    /\ At(c, "compare")
    /\ \E seen \in {run[c].seen, origin.heads} :
         run' = [run EXCEPT ![c] =
                   [@ EXCEPT !.step = "push", !.seen = seen,
                             !.queue = {r \in Refs : Local(c, r) # seen[r]},
                             !.pushTag = origin.tag = NoTag]]
    /\ UNCHANGED <<repo, origin, site, page, done, faults>>

\* mutant: no push of the tag on its own
TagTravelsWithBranch(c) ==
    /\ origin.tag = NoTag
    /\ \E r \in run[c].queue : repo[c].tag.at \subseteq Local(c, r)

\* With branches to push, --follow-tags sends a missing tag they reach; with
\* none, the tag is pushed on its own when origin had none.
TagTravels(c) ==
    /\ origin.tag = NoTag
    /\ \/ run[c].queue = {} /\ run[c].pushTag
       \/ \E r \in run[c].queue : repo[c].tag.at \subseteq Local(c, r)

\* mutant: git push --force
PushAcceptedForced(c) ==
    run[c].queue = {} /\ run[c].pushTag => origin.tag \in {NoTag, repo[c].tag}

\* One atomic push: all refs move forward, or none does and the run dies.
PushAccepted(c) ==
    /\ \A r \in run[c].queue : Remote(r) \subseteq Local(c, r)
    /\ run[c].queue = {} /\ run[c].pushTag => origin.tag \in {NoTag, repo[c].tag}

Push(c) ==
    /\ At(c, "push") /\ PushAccepted(c)
    /\ run' = [run EXCEPT ![c] = [NoRun EXCEPT !.step = "delete"]]
    /\ origin' = [origin EXCEPT
         !.heads = [r \in Refs |-> IF r \in run[c].queue THEN Local(c, r) ELSE @[r]],
         !.tag = IF TagTravels(c) THEN repo[c].tag ELSE @]
    /\ UNCHANGED <<repo, site, page, done, faults>>

PushRejected(c) ==
    /\ At(c, "push") /\ ~PushAccepted(c) /\ End(c)
    /\ UNCHANGED <<repo, origin, site, page, done, faults>>

\* Failing to delete the remote branch is only a warning.
DeleteBranch(c) ==
    /\ At(c, "delete") /\ Goto(c, "docs")
    /\ \E b \in {origin.branch, FALSE} : origin' = [origin EXCEPT !.branch = b]
    /\ UNCHANGED <<repo, site, page, done, faults>>

DeployDocs(c) ==
    /\ At(c, "docs")
    /\ run' = [run EXCEPT ![c].step = "page", ![c].docsOk = TRUE]
    /\ site' = TRUE
    /\ UNCHANGED <<repo, origin, page, done, faults>>

\* The site is not built, or pushed and not confirmed; the run goes on.
DocsFail(c) ==
    /\ At(c, "docs") /\ Goto(c, "page") /\ Fault
    /\ site' \in {site, TRUE}
    /\ UNCHANGED <<repo, origin, page, done>>

\* mutant: the docs failure is only a warning
PublishPageAnyway(c) ==
    /\ At(c, "page") /\ End(c)
    /\ page' \in {page, TRUE}
    /\ done' = TRUE
    /\ UNCHANGED <<repo, origin, site, faults>>

\* A page that is there is left; one that cannot be created is a warning.  The
\* run fails when it did not deploy the site.
PublishPage(c) ==
    /\ At(c, "page") /\ End(c)
    /\ page' \in {page, TRUE}
    /\ done' = (done \/ run[c].docsOk)
    /\ UNCHANGED <<repo, origin, site, faults>>

\* A command of the step fails, or the run is killed.
Stop(c) ==
    /\ ~At(c, "idle") /\ End(c) /\ Fault
    /\ UNCHANGED <<repo, origin, site, page, done>>

-----------------------------------------------------------------------------
(* Around the runs.                                                        *)

OthersMerge(w) ==
    /\ w \notin Remote("develop")
    /\ origin' = [origin EXCEPT !.heads["develop"] = @ \union {w}]
    /\ UNCHANGED <<repo, run, site, page, done, faults>>

\* "Reconcile manually": the operator pulls a branch, or pushes both branches
\* by hand without the tag.
Pull(c, r) ==
    /\ At(c, "idle") /\ ~(Remote(r) \subseteq Local(c, r))
    /\ repo' = [repo EXCEPT ![c].heads[r] = @ \union Remote(r)]
    /\ UNCHANGED <<run, origin, site, page, done, faults>>

HandPush(c) ==
    /\ At(c, "idle") /\ \A r \in Refs : Remote(r) \subseteq Local(c, r)
    /\ origin' = [origin EXCEPT !.heads = repo[c].heads]
    /\ UNCHANGED <<repo, run, site, page, done, faults>>

Prepare(c) == Start(c) \/ Fetch(c) \/ SyncBranches(c) \/ SkipFinish(c) \/ RunFinish(c)
Flow(c) == FlowMerge(c) \/ FlowTag(c) \/ FlowBackMerge(c) \/ FlowCleanup(c)
Deliver(c) == Compare(c) \/ Push(c) \/ PushRejected(c) \/ DeleteBranch(c)
Announce(c) == DeployDocs(c) \/ PublishPage(c)
Progress(c) == Prepare(c) \/ Flow(c) \/ Deliver(c) \/ Announce(c)

Next ==
    \/ \E c \in Checkouts :
         \/ Progress(c) \/ FlowConflict(c) \/ DocsFail(c) \/ Stop(c) \/ HandPush(c)
         \/ \E r \in Refs : Pull(c, r)
    \/ \E w \in Work : OthersMerge(w)

Spec == Init /\ [][Next]_vars

\* The command is run until it is through, and what it asks the operator to
\* reconcile is reconciled.  Nothing is assumed of failures and of others.
Fairness ==
    \A c \in Checkouts :
      /\ WF_vars(Progress(c))
      /\ SF_vars(\E r \in Refs : Pull(c, r))

FairSpec == Spec /\ Fairness
-----------------------------------------------------------------------------
Repos == [heads : Histories, tag : Tags, branch : BOOLEAN, on : Refs \union {"release"}]
Runs == [step : Steps, seen : Histories, queue : SUBSET Refs, pushTag : BOOLEAN,
         docsOk : BOOLEAN]

TypeOK ==
    /\ repo \in [Checkouts -> Repos]
    /\ run \in [Checkouts -> Runs]
    /\ origin \in [heads : Histories, tag : Tags, branch : BOOLEAN]
    /\ site \in BOOLEAN /\ page \in BOOLEAN /\ done \in BOOLEAN /\ faults \in 0..MaxFaults

\* The tag on origin is on origin's main and holds the cut, whichever checkout
\* pushed what, in however many attempts (release.sh 1505-1541).
TagOnMain ==
    origin.tag # NoTag => Cut \in origin.tag.at /\ origin.tag.at \subseteq Remote("main")

\* Once a run reports success the release is tagged, on main and documented,
\* also when most of it was done by earlier runs (release.sh 1619-1634).
CompleteIsPublished == done => origin.tag # NoTag /\ Cut \in Remote("main") /\ site

\* Origin sees one tagging, and the site and the page only after it
\* (release.sh 1354-1361).
Published == INSTANCE Publication WITH
    tagged <- origin.tag # NoTag, documented <- site, announced <- page
Refines == Published!Spec

\* However runs fail, running the command again ends with the release tagged
\* and documented (release.sh 1363-1365).
EventuallyPublished == Published!Completes

\* "a re-run after a partial success picks up from the first incomplete step"
\* (release.sh 1363-1365): then a complete release is merged back.
CompleteIsMergedBack == done => Cut \in Remote("develop")
=============================================================================
