------------------------------ MODULE Refreeze ------------------------------
(***************************************************************************)
(* scripts/refreeze_snapshots.sh: snapshots cut before freeze-time stamping *)
(* are stamped in place.  For each component the script moves the          *)
(* developer's current/ aside, stages the snapshot in its place, stamps    *)
(* and rebuilds it there, copies the bindings and the identity files back  *)
(* into the snapshot, and moves current/ back.  Commands fail, the         *)
(* operator interrupts the script, and it is killed between any two        *)
(* commands; nothing but the file system survives it.                      *)
(* The function runs in an `if`, so errexit is off: where the code does not *)
(* look at a command's failure the script goes on as if nothing happened.  *)
(* The EXIT trap runs with errexit on: a failure there ends the process.   *)
(***************************************************************************)
EXTENDS Naturals

CONSTANTS Components,     \* the components, each with one snapshot to stamp
          MaxInterrupts,  \* bound: signals, kills and power cuts
          MaxFaults       \* bound: commands that fail

ASSUME BoundsAssumption == {MaxInterrupts, MaxFaults} \subseteq Nat

VARIABLES cur,       \* <component>/current/
          bak,       \* <component>/.current.refreeze-bak
          snap,      \* the snapshot's directory
          index,     \* the snapshot in git's index
          pc,        \* where the script is, "idle" between runs
          todo,      \* targets it has not come to
          comp,      \* the target it works on
          inflight,  \* the swap the EXIT trap would undo
          passed,    \* whether the target's own steps succeeded
          report,    \* what the run has logged of each target
          exit,      \* how the last run ended
          missed,    \* the commands around a component's current/ and
                     \* snapshot whose failure nobody looked at
          signals, kills, faults

vars == <<cur, bak, snap, index, pc, todo, comp, inflight, passed, report,
          exit, missed, signals, kills, faults>>

tree   == <<cur, bak, snap, index>>
bounds == <<signals, kills, faults>>

\* A snapshot as it was released and as the script leaves it.
Released == [bindings |-> "plain", headers |-> TRUE, yaml |-> "plain",
             hash |-> "plain"]
Stamped  == [bindings |-> "stamped", headers |-> TRUE, yaml |-> "stamped",
             hash |-> "stamped"]

\* Stamped over bindings that were there and not removed.
Overlaid == [bindings |-> "over", headers |-> TRUE, yaml |-> "stamped",
             hash |-> "stamped"]

\* A command fails.
Fault ==
    /\ faults < MaxFaults /\ faults' = faults + 1
    /\ UNCHANGED <<signals, kills>>

\* A command fails for component c, and the script does not look.
Misses(c, command) ==
    /\ Fault
    /\ missed' = [missed EXCEPT ![c] = @ \cup {command}]

----------------------------------------------------------------------------
(* A run and its targets.                                                  *)

Run ==
    /\ pc = "idle"
    /\ todo' \in SUBSET Components \ {{}}
    /\ pc' = "next"
    /\ report' = [c \in Components |-> "none"]
    /\ exit' = "none"
    /\ UNCHANGED <<tree, comp, inflight, passed, missed, bounds>>

\* The process ends, and with it all it knew.
Exit(status) ==
    /\ pc' = "idle"
    /\ todo' = {}
    /\ inflight' = {} /\ passed' = FALSE
    /\ exit' = status

Finish ==
    /\ pc = "next" /\ todo = {}
    /\ Exit(IF \E c \in Components : report[c] = "failed" THEN "1" ELSE "0")
    /\ UNCHANGED <<tree, comp, report, missed, bounds>>

\* "placeholder component, skipped"
Skip(c) ==
    /\ pc = "next" /\ c \in todo
    /\ cur[c] = "none"
    /\ todo' = todo \ {c}
    /\ report' = [report EXCEPT ![c] = "failed"]
    /\ UNCHANGED <<tree, pc, comp, inflight, passed, exit, missed, bounds>>

\* mutant: a snapshot that an earlier run left incomplete is refused too.
RefuseHalf(c) ==
    /\ pc = "next" /\ c \in todo
    /\ cur[c] # "none" /\ (bak[c] # "none" \/ snap[c] \notin {Released, Stamped})
    /\ Exit("1")
    /\ UNCHANGED <<tree, comp, report, missed, bounds>>

\* "stale ... exists - resolve before re-running"
Refuse(c) ==
    /\ pc = "next" /\ c \in todo
    /\ cur[c] # "none" /\ bak[c] # "none"
    /\ Exit("1")
    /\ UNCHANGED <<tree, comp, report, missed, bounds>>

Take(c) ==
    /\ pc = "next" /\ c \in todo
    /\ todo' = todo \ {c}
    /\ comp' = c
    /\ pc' = "moved"
    /\ UNCHANGED <<snap, index, inflight, passed, report, exit>>

\* mutant: current/ is moved over a backup that is already there.
MoveAwayOver(c) ==
    /\ cur[c] # "none"
    /\ Take(c)
    /\ bak' = [bak EXCEPT ![c] = cur[c]]
    /\ cur' = [cur EXCEPT ![c] = "none"]
    /\ UNCHANGED <<missed, bounds>>

\* mv current/ aside
MoveAway(c) ==
    /\ cur[c] # "none" /\ bak[c] = "none"
    /\ Take(c)
    /\ bak' = [bak EXCEPT ![c] = cur[c]]
    /\ cur' = [cur EXCEPT ![c] = "none"]
    /\ UNCHANGED <<missed, bounds>>

\* The move fails, and the script goes on in the developer's current/.
MoveFails(c) ==
    /\ cur[c] # "none" /\ bak[c] = "none"
    /\ Take(c)
    /\ Misses(c, "move")
    /\ UNCHANGED <<cur, bak>>

----------------------------------------------------------------------------
(* One target.                                                             *)

At(here, there) ==
    /\ pc = here /\ pc' = there
    /\ UNCHANGED <<todo, comp, exit>>

Arm ==
    /\ At("moved", "armed")
    /\ inflight' = {comp}
    /\ UNCHANGED <<tree, passed, report, missed, bounds>>

\* mkdir current/; when it fails, as it does when current/ is there, the
\* script goes on.
MakeSlot ==
    /\ At("armed", "staging")
    /\ \/ /\ cur' = [cur EXCEPT ![comp] = IF @ = "none" THEN "work" ELSE @]
          /\ UNCHANGED bounds
       \/ Fault /\ UNCHANGED cur
    /\ UNCHANGED <<bak, snap, index, inflight, passed, report, missed>>

\* The snapshot's files, but not its bindings, go into current/: over the
\* developer's, should they be there.
Staged == cur' = [cur EXCEPT ![comp] = IF @ \in {"dev", "nesting"} THEN "mixed"
                                       ELSE @]

\* Where mkdir made no directory cp does not make one either.
Stage ==
    /\ At("staging", "stamping")
    /\ cur[comp] # "none" /\ bak[comp] # "none"
    /\ Staged
    /\ UNCHANGED <<bak, snap, index, inflight, passed, report, missed, bounds>>

GiveUp(here) ==
    /\ At(here, "restore")
    /\ passed' = FALSE
    /\ UNCHANGED <<inflight, report, missed>>

\* A copy fails.  That of CMakeLists.txt does when nothing was moved aside, or
\* something other than a developer's current/.
StageFails ==
    /\ GiveUp("staging")
    /\ IF cur[comp] = "none" \/ bak[comp] # "dev" THEN UNCHANGED bounds ELSE Fault
    /\ Staged \/ UNCHANGED cur
    /\ UNCHANGED <<bak, snap, index>>

Stamp ==
    /\ At("stamping", "building")
    /\ UNCHANGED <<tree, inflight, passed, report, missed, bounds>>

Build ==
    /\ At("building", "clearing")
    /\ UNCHANGED <<tree, inflight, passed, report, missed, bounds>>

StampOrBuildFails ==
    /\ GiveUp("stamping") \/ GiveUp("building")
    /\ Fault
    /\ UNCHANGED tree

Write(part, value) ==
    /\ snap' = [snap EXCEPT ![comp][part] = value]
    /\ UNCHANGED <<cur, bak, index, inflight, report, missed>>

\* rm -rf include/ src/ of the snapshot
Clear ==
    /\ At("clearing", "bindings")
    /\ snap' = [snap EXCEPT ![comp].bindings = "none", ![comp].headers = FALSE]
    /\ UNCHANGED <<cur, bak, index, inflight, passed, report, missed, bounds>>

\* ... which leaves some, or all, of them.
ClearFails ==
    /\ At("clearing", "bindings")
    /\ Misses(comp, "clear")
    /\ \E headers \in {FALSE, snap[comp].headers} :
          snap' = [snap EXCEPT ![comp].bindings = "kept", ![comp].headers = headers]
    /\ UNCHANGED <<cur, bak, index, inflight, passed, report>>

CopyBindings ==
    /\ At("bindings", "yaml")
    /\ Write("bindings", IF snap[comp].bindings = "kept" THEN "over" ELSE "stamped")
    /\ UNCHANGED <<passed, bounds>>

CopyYaml ==
    /\ At("yaml", "hash")
    /\ Write("yaml", "stamped") /\ UNCHANGED <<passed, bounds>>

CopyHash ==
    /\ At("hash", "headers")
    /\ Write("hash", "stamped") /\ UNCHANGED <<passed, bounds>>

\* mutant: the hand-written headers are not put back.
CopyHeadersNot ==
    /\ At("headers", "restore")
    /\ passed' = TRUE
    /\ UNCHANGED <<tree, inflight, report, missed, bounds>>

\* The hand-written headers of the module's root go back into include/.
CopyHeaders ==
    /\ At("headers", "restore")
    /\ Write("headers", TRUE)
    /\ passed' = TRUE
    /\ UNCHANGED bounds

\* The copy of the bindings may break off in the middle.
CopyFails ==
    /\ \/ GiveUp("bindings") /\ Write("bindings", "part")
       \/ GiveUp("yaml") /\ UNCHANGED tree
       \/ GiveUp("hash") /\ UNCHANGED tree
       \/ GiveUp("headers") /\ UNCHANGED tree
    /\ Fault

----------------------------------------------------------------------------
(* restore_current, and the end of a target.                               *)

Removed(c) == cur' = [cur EXCEPT ![c] = "none"] /\ UNCHANGED <<bak, snap, index>>

\* rm -rf fails: something is left of what was there.
PartlyRemoved(c) ==
    /\ cur[c] # "none"
    /\ cur' = [cur EXCEPT ![c] = IF @ = "work" THEN @ ELSE "mixed"]
    /\ UNCHANGED <<bak, snap, index>>

\* mv bak current/, which does nothing when there is no such directory, and
\* moves it into current/ when current/ is still there.
MovedBack(c) ==
    /\ cur' = [cur EXCEPT ![c] = IF bak[c] = "none" THEN @
                                 ELSE IF @ = "none" THEN bak[c]
                                 ELSE IF bak[c] \in {"dev", "nesting"} THEN "nesting"
                                 ELSE "mixed"]
    /\ bak' = [bak EXCEPT ![c] = "none"]
    /\ UNCHANGED <<snap, index>>

RestoreRemove ==
    /\ At("restore", "restore move")
    /\ \/ Removed(comp) /\ UNCHANGED <<missed, bounds>>
       \/ PartlyRemoved(comp) /\ Misses(comp, "remove")
    /\ UNCHANGED <<inflight, passed, report>>

RestoreMove ==
    /\ At("restore move", "disarm")
    /\ \/ MovedBack(comp) /\ UNCHANGED bounds
       \/ Fault /\ UNCHANGED tree
    /\ UNCHANGED <<inflight, passed, report, missed>>

\* mutant: the swap stays armed when its target is done.
DisarmLate ==
    /\ At("disarm", IF passed THEN "add" ELSE "next")
    /\ report' = IF passed THEN report ELSE [report EXCEPT ![comp] = "failed"]
    /\ passed' = FALSE
    /\ UNCHANGED <<tree, inflight, missed, bounds>>

Disarm ==
    /\ At("disarm", IF passed THEN "add" ELSE "next")
    /\ inflight' = {} /\ passed' = FALSE
    /\ report' = IF passed THEN report ELSE [report EXCEPT ![comp] = "failed"]
    /\ UNCHANGED <<tree, missed, bounds>>

Logged == report' = [report EXCEPT ![comp] = "ok"]

GitAdd ==
    /\ At("add", "next")
    /\ index' = [index EXCEPT ![comp] = snap[comp]]
    /\ Logged
    /\ UNCHANGED <<cur, bak, snap, inflight, passed, missed, bounds>>

\* git add fails, for one because the index is locked: logged as refrozen.
GitAddFails ==
    /\ At("add", "next")
    /\ Fault
    /\ Logged
    /\ UNCHANGED <<tree, inflight, passed, missed>>

----------------------------------------------------------------------------
(* Interruptions.                                                          *)

Interrupt == signals + kills < MaxInterrupts

Trapped == pc \in {"trap", "trap move"}

\* INT or TERM: exit 130, which runs the EXIT trap.  The command it meets,
\* if it is the copy of the bindings, may be cut short.
Signal ==
    /\ pc # "idle" /\ ~Trapped
    /\ Interrupt /\ signals' = signals + 1
    /\ pc' = "trap" /\ passed' = FALSE
    /\ exit' = "130"
    /\ \/ UNCHANGED snap
       \/ pc = "bindings" /\ snap' = [snap EXCEPT ![comp].bindings = "part"]
    /\ UNCHANGED <<cur, bak, index, todo, comp, inflight, report,
                   missed, kills, faults>>

\* Another one in the EXIT trap ends the process at once.
SignalAgain ==
    /\ Trapped
    /\ Interrupt /\ signals' = signals + 1
    /\ Exit("130")
    /\ UNCHANGED <<tree, comp, report, missed, kills, faults>>

Armed == \E c \in inflight : bak[c] # "none"

TrapRemove ==
    /\ pc = "trap" /\ Armed
    /\ \E c \in inflight : Removed(c)
    /\ pc' = "trap move"
    /\ UNCHANGED <<todo, comp, inflight, passed, report, exit, missed, bounds>>

TrapMove ==
    /\ pc = "trap move"
    /\ \E c \in inflight : MovedBack(c)
    /\ Exit("130")
    /\ UNCHANGED <<comp, report, missed, bounds>>

\* rm or mv fails, and with it the process.
TrapFails ==
    /\ \/ pc = "trap" /\ Armed /\ \E c \in inflight : PartlyRemoved(c)
       \/ pc = "trap move" /\ UNCHANGED tree
    /\ Fault
    /\ Exit("1")
    /\ UNCHANGED <<comp, report, missed>>

TrapIdle ==
    /\ pc = "trap" /\ ~Armed
    /\ Exit("130")
    /\ UNCHANGED <<tree, comp, report, missed, bounds>>

\* SIGKILL or a power cut.
Kill ==
    /\ pc # "idle"
    /\ Interrupt /\ kills' = kills + 1
    /\ Exit("137")
    /\ UNCHANGED <<tree, comp, report, missed, signals, faults>>

----------------------------------------------------------------------------
(* The operator, between runs.                                             *)

\* Puts a stale backup in the place of current/.  The script asks for it when
\* both are there; without current/ it only says "placeholder component".
Resolve(c) ==
    /\ pc = "idle" /\ bak[c] # "none"
    /\ cur' = [cur EXCEPT ![c] = bak[c]]
    /\ bak' = [bak EXCEPT ![c] = "none"]
    /\ UNCHANGED <<snap, index, pc, todo, comp, inflight, passed, report, exit,
                   missed, bounds>>

\* git checkout -- <component>/<version>/, as the script advises.
Checkout(c) ==
    /\ pc = "idle" /\ snap[c] # index[c]
    /\ snap' = [snap EXCEPT ![c] = index[c]]
    /\ report' = [report EXCEPT ![c] = "none"]
    /\ UNCHANGED <<cur, bak, index, pc, todo, comp, inflight, passed, exit,
                   missed, bounds>>

----------------------------------------------------------------------------
Init ==
    /\ cur = [c \in Components |-> "dev"]
    /\ bak = [c \in Components |-> "none"]
    /\ snap = [c \in Components |-> Released]
    /\ index = snap
    /\ pc = "idle" /\ todo = {} /\ comp \in Components /\ inflight = {}
    /\ passed = FALSE
    /\ report = [c \in Components |-> "none"]
    /\ exit = "none" /\ missed = [c \in Components |-> {}]
    /\ signals = 0 /\ kills = 0 /\ faults = 0

Work == \/ Arm \/ MakeSlot \/ Stage \/ StageFails \/ Stamp \/ Build
        \/ StampOrBuildFails \/ Clear \/ ClearFails \/ CopyBindings \/ CopyYaml
        \/ CopyHash \/ CopyHeaders \/ CopyFails \/ RestoreRemove \/ RestoreMove
        \/ Disarm \/ GitAdd \/ GitAddFails \/ TrapRemove \/ TrapMove
        \/ TrapFails \/ TrapIdle \/ Finish
        \/ \E c \in Components :
              Skip(c) \/ Refuse(c) \/ MoveAway(c) \/ MoveFails(c)

Next == \/ Run \/ Work \/ Signal \/ SignalAgain \/ Kill
        \/ \E c \in Components : Resolve(c) \/ Checkout(c)

Spec == Init /\ [][Next]_vars

\* A run that is under way goes on, the operator starts it again for all
\* components, and resolves what it refused to touch.
RunAll == Run /\ todo' = Components

FairSpec == /\ Spec /\ WF_vars(Work) /\ SF_vars(RunAll)
            /\ \A c \in Components : SF_vars(Resolve(c))

----------------------------------------------------------------------------
(* Properties.                                                             *)

\* A directory in the place of current/: none, the developer's, the script's
\* staging area, developer's files damaged by either, or what is left of one
\* with the developer's directory inside.
Slots == {"none", "dev", "work", "mixed", "nesting"}

Snapshots == [bindings : {"plain", "none", "part", "kept", "over", "stamped"},
              headers : BOOLEAN, yaml : {"plain", "stamped"},
              hash : {"plain", "stamped"}]

Steps == {"next", "moved", "armed", "staging", "stamping", "building",
          "clearing", "bindings", "yaml", "hash", "headers", "restore",
          "restore move", "disarm", "add", "trap", "trap move"}

\* Directories, the script's variables and its exit status; the EXIT trap is
\* armed for one swap at most, that of the target in hand.
TypeOK ==
    /\ cur \in [Components -> Slots] /\ bak \in [Components -> Slots]
    /\ snap \in [Components -> Snapshots] /\ index \in [Components -> Snapshots]
    /\ pc \in Steps \cup {"idle"}
    /\ todo \subseteq Components /\ comp \in Components
    /\ inflight \in {{}, {comp}}
    /\ passed \in BOOLEAN
    /\ missed \in [Components -> SUBSET {"move", "remove", "clear"}]
    /\ report \in [Components -> {"none", "ok", "failed"}]
    /\ exit \in {"none", "0", "1", "130", "137"}
    /\ {signals, kills} \subseteq Nat /\ signals + kills <= MaxInterrupts
    /\ faults \in 0..MaxFaults

\* What the developer has in current/ is in current/ or in the backup at any
\* moment, whatever commands fail, wherever the script is interrupted or killed
\* and however often it is run again.  Two failures are excepted, because the
\* code has no answer to them.  When the staging area cannot be removed for the
\* restore, mv puts the backup inside what is left of it: the work is still
\* there, whole, but further down, in current/ or in a later backup.  When
\* current/ could not be moved aside, its files are written over and removed.
WorkKept ==
    \A c \in Components :
        /\ "move" \notin missed[c] =>
              {cur[c], bak[c]} \cap {"dev", "nesting"} # {}
        /\ {"move", "remove"} \cap missed[c] = {} =>
              cur[c] = "dev" \/ bak[c] = "dev"

\* A snapshot logged as refrozen has all of the new identity, and the headers
\* of the component's root among its bindings; older bindings are among them
\* only after a removal of those failed.
RefrozenIsWhole ==
    \A c \in Components :
        report[c] = "ok" => \/ snap[c] = Stamped
                            \/ snap[c] = Overlaid /\ "clear" \in missed[c]

\* git's index holds each snapshot as it was released or as it is stamped and
\* never half of each, so that the git checkout the script advises repairs any
\* snapshot that it left incomplete.
CheckoutRepairs ==
    \A c \in Components :
        \/ index[c] \in {Released, Stamped}
        \/ index[c] = Overlaid /\ "clear" \in missed[c]

\* When commands stop failing and interruptions end, running the script again
\* and resolving what it refuses stamps every snapshot and gives every
\* developer current/ back, also where the backup could not be moved back or
\* old bindings could not be removed; except for a component whose current/
\* could not be moved aside or whose staging area could not be removed, which
\* no run mends and which does not hold up the others.
EventuallyRefrozen ==
    <>(\A c \in Components :
           \/ {"move", "remove"} \cap missed[c] # {}
           \/ /\ snap[c] = Stamped /\ index[c] = Stamped
              /\ cur[c] = "dev" /\ bak[c] = "none")

\* "This EXIT trap restores whichever swap is in flight, on every exit path":
\* without a kill, current/ is back whenever the script has ended.
ExitRestores ==
    pc = "idle" /\ kills = 0 => \A c \in Components : cur[c] = "dev"

============================================================================
