--------------------------- MODULE RefreezeProofs ---------------------------
(***************************************************************************)
(* Theorems about Refreeze for every set of components and every number of *)
(* signals, kills and failing commands: types, the developer's work, what  *)
(* "refrozen" means, and what git checkout restores.                       *)
(***************************************************************************)
EXTENDS Refreeze, TLAPS

\* The script is between taking its target and having restored current/.
Swapped == pc \in {"moved", "armed", "staging", "stamping", "building",
                   "clearing", "bindings", "yaml", "hash", "headers",
                   "restore", "restore move"}

\* The script works on its target.
Busy == pc # "idle" /\ pc # "next" /\ ~Trapped

Kept == {"dev", "nesting"}

\* current/ is only ever missing or replaced while the backup is there, and
\* what is moved back finds no current/, or the removal of that failed.
WorkInv ==
    /\ \A c \in Components :
          "move" \notin missed[c] =>
             /\ bak[c] \in {"none"} \cup Kept
             /\ bak[c] = "none" => cur[c] \in Kept
             /\ Swapped /\ c = comp => bak[c] # "none"
             /\ cur[c] = "nesting" \/ bak[c] = "nesting" => "remove" \in missed[c]
    /\ pc = "restore move" => cur[comp] = "none" \/ "remove" \in missed[comp]
    /\ pc = "trap move" => cur[comp] = "none"

\* All of the new identity, over older bindings only if they could not be
\* removed.
Whole(c) == \/ snap[c] = Stamped
            \/ snap[c] = Overlaid /\ "clear" \in missed[c]

\* What of the target's snapshot has been written when.
SnapInv ==
    /\ pc \in {"bindings", "yaml", "hash", "headers"} =>
          \/ snap[comp].bindings \notin {"kept", "over"}
          \/ "clear" \in missed[comp]
    /\ pc \in {"yaml", "hash", "headers"} =>
          snap[comp].bindings \in {"stamped", "over"}
    /\ pc \in {"hash", "headers"} => snap[comp].yaml = "stamped"
    /\ pc = "headers" => snap[comp].hash = "stamped"
    /\ pc \in {"restore", "restore move", "disarm"} /\ passed => Whole(comp)
    /\ pc = "add" => Whole(comp)

\* A target that is logged as refrozen is not taken again in the same run.
ReportInv ==
    /\ \A c \in Components :
          report[c] = "ok" => /\ Whole(c)
                              /\ c \notin todo
                              /\ Busy => c # comp
    /\ Busy => comp \notin todo

IndexInv == CheckoutRepairs

IdleInv == pc = "idle" => todo = {} /\ inflight = {}

TrapInv == pc = "trap move" => inflight = {comp}

FlightInv ==
    pc \in {"next", "moved", "add"} => inflight = {}

IInv == TypeOK /\ WorkInv /\ SnapInv /\ ReportInv /\ IndexInv
        /\ IdleInv /\ TrapInv /\ FlightInv

LEMMA InitInv == Init => IInv
<1> SUFFICES ASSUME Init PROVE IInv
  OBVIOUS
<1>1. /\ {signals, kills} \subseteq Nat /\ signals + kills <= MaxInterrupts
      /\ faults \in 0..MaxFaults
  BY BoundsAssumption DEF Init
<1>2. Released \in Snapshots
  BY DEF Released, Snapshots
<1>3. TypeOK
  BY <1>1, <1>2 DEF Init, TypeOK, Slots
<1> QED
  BY <1>3 DEF Init, IInv, WorkInv, SnapInv, ReportInv, IndexInv, IdleInv,
     TrapInv, FlightInv, CheckoutRepairs, Swapped, Busy, Trapped, Kept

\* One more signal, kill or fault stays within its bound.
LEMMA Interrupted ==
    ASSUME TypeOK, Interrupt
    PROVE  /\ signals + 1 \in Nat /\ kills + 1 \in Nat
           /\ (signals + 1) + kills <= MaxInterrupts
           /\ signals + (kills + 1) <= MaxInterrupts
BY BoundsAssumption DEF TypeOK, Interrupt

LEMMA Faulted ==
    TypeOK /\ Fault => faults' \in 0..MaxFaults /\ UNCHANGED <<signals, kills>>
BY BoundsAssumption DEF Fault, TypeOK

LEMMA Missed ==
    ASSUME TypeOK, NEW c \in Components, NEW command \in {"move", "remove", "clear"},
           Misses(c, command)
    PROVE  /\ missed' \in [Components -> SUBSET {"move", "remove", "clear"}]
           /\ faults' \in 0..MaxFaults /\ UNCHANGED <<signals, kills>>
           /\ command \in missed'[c]
           /\ \A d \in Components : missed[d] \subseteq missed'[d]
           /\ \A d \in Components :
                 \A other \in {"move", "remove", "clear"} \ {command} :
                    other \in missed'[d] <=> other \in missed[d]
BY Faulted DEF Misses, TypeOK

\* Each write of the script leaves a snapshot directory.
LEMMA Written ==
    ASSUME NEW c \in Components, snap \in [Components -> Snapshots],
           NEW b \in {"none", "part", "kept", "over", "stamped"}, NEW h \in BOOLEAN
    PROVE  /\ [snap EXCEPT ![c].bindings = b] \in [Components -> Snapshots]
           /\ [snap EXCEPT ![c].yaml = "stamped"] \in [Components -> Snapshots]
           /\ [snap EXCEPT ![c].hash = "stamped"] \in [Components -> Snapshots]
           /\ [snap EXCEPT ![c].headers = h] \in [Components -> Snapshots]
           /\ [snap EXCEPT ![c].bindings = b, ![c].headers = h]
                 \in [Components -> Snapshots]
BY DEF Snapshots

\* Every action keeps the types.
LEMMA TypeStep == TypeOK /\ FlightInv /\ [Next]_vars => TypeOK'
<1> SUFFICES ASSUME TypeOK, FlightInv, [Next]_vars PROVE TypeOK'
  OBVIOUS
<1> USE DEF TypeOK, tree, bounds, Steps, Slots
<1>1. CASE Run
  BY <1>1 DEF Run
<1>2. CASE Arm
  BY <1>2 DEF Arm, At
<1>3. CASE MakeSlot
  BY <1>3, Faulted DEF MakeSlot, At
<1>4. CASE Stage
  BY <1>4 DEF Stage, At, Staged
<1>5. CASE StageFails
  BY <1>5, Faulted DEF StageFails, GiveUp, At, Staged, Fault
<1>6. CASE Stamp
  BY <1>6 DEF Stamp, At
<1>7. CASE Build
  BY <1>7 DEF Build, At
<1>8. CASE StampOrBuildFails
  BY <1>8, Faulted DEF StampOrBuildFails, GiveUp, At, Fault
<1>9. CASE Clear
  BY <1>9, Written DEF Clear, At
<1>9a. CASE ClearFails
  <2>1. snap' \in [Components -> Snapshots]
    <3>1. PICK headers \in {FALSE, snap[comp].headers} :
             snap' = [snap EXCEPT ![comp].bindings = "kept",
                                  ![comp].headers = headers]
      BY <1>9a DEF ClearFails
    <3>2. headers \in BOOLEAN /\ comp \in Components
      BY DEF Snapshots
    <3>3. "kept" \in {"none", "part", "kept", "over", "stamped"}
      OBVIOUS
    <3>4. [snap EXCEPT ![comp].bindings = "kept", ![comp].headers = headers]
             \in [Components -> Snapshots]
      BY <3>2, <3>3, Written
    <3> QED
      BY <3>1, <3>4
  <2> QED
    BY <1>9a, <2>1, Missed DEF ClearFails, At
<1>10. CASE CopyBindings
  <2>1. snap' \in [Components -> Snapshots]
    BY <1>10, Written DEF CopyBindings, Write
  <2> QED
    BY <1>10, <2>1 DEF CopyBindings, At, Write
<1>11. CASE CopyYaml
  BY <1>11, Written DEF CopyYaml, At, Write
<1>12. CASE CopyHash
  BY <1>12, Written DEF CopyHash, At, Write
<1>13. CASE CopyHeaders
  BY <1>13, Written DEF CopyHeaders, At, Write
<1>14. CASE CopyFails
  <2>1. faults' \in 0..MaxFaults
    BY <1>14, Faulted DEF CopyFails
  <2>2. CASE GiveUp("bindings") /\ Write("bindings", "part")
    <3>1. snap' \in [Components -> Snapshots]
      BY <2>2, Written DEF Write
    <3> QED
      BY <1>14, <2>1, <2>2, <3>1 DEF CopyFails, GiveUp, At, Write, Fault
  <2>3. CASE /\ UNCHANGED tree
             /\ GiveUp("yaml") \/ GiveUp("hash") \/ GiveUp("headers")
    BY <1>14, <2>1, <2>3 DEF CopyFails, GiveUp, At, Fault
  <2> QED
    BY <1>14, <2>2, <2>3 DEF CopyFails
<1>15. CASE RestoreRemove
  <2>1. /\ pc' \in Steps /\ cur' \in [Components -> Slots]
        /\ UNCHANGED <<bak, snap, index, todo, comp, inflight, passed, report, exit>>
    BY <1>15 DEF RestoreRemove, At, Removed, PartlyRemoved
  <2>2. CASE UNCHANGED <<missed, bounds>>
    BY <2>1, <2>2
  <2>3. CASE Misses(comp, "remove")
    <3>1. /\ missed' \in [Components -> SUBSET {"move", "remove", "clear"}]
          /\ faults' \in 0..MaxFaults /\ UNCHANGED <<signals, kills>>
      <4>1. comp \in Components /\ "remove" \in {"move", "remove", "clear"}
        OBVIOUS
      <4> QED
        BY <2>3, <4>1, Missed
    <3> QED
      BY <2>1, <3>1
  <2> QED
    BY <1>15, <2>2, <2>3 DEF RestoreRemove
<1>16. CASE RestoreMove
  BY <1>16, Faulted DEF RestoreMove, At, MovedBack
<1>17. CASE Disarm
  BY <1>17 DEF Disarm, At
<1>18. CASE GitAdd
  BY <1>18 DEF GitAdd, At, Logged
<1>19. CASE GitAddFails
  BY <1>19, Faulted DEF GitAddFails, At, Logged, Fault
<1>19a. CASE TrapFails
  <2>1. cur' \in [Components -> Slots] /\ UNCHANGED <<bak, snap, index>>
    BY <1>19a DEF TrapFails, PartlyRemoved
  <2> QED
    BY <1>19a, <2>1, Faulted DEF TrapFails, Exit
<1>20. CASE TrapRemove
  BY <1>20 DEF TrapRemove, Armed, Removed
<1>21. CASE TrapMove
  <2>1. PICK c \in inflight : MovedBack(c)
    BY <1>21 DEF TrapMove
  <2>2. bak[c] \in Slots
    BY DEF Slots
  <2>3. cur' \in [Components -> Slots] /\ bak' \in [Components -> Slots]
    BY <2>1, <2>2 DEF MovedBack
  <2> QED
    BY <1>21, <2>1, <2>3 DEF TrapMove, MovedBack, Exit
<1>22. CASE TrapIdle
  BY <1>22 DEF TrapIdle, Exit, Armed
<1>23. CASE Finish
  BY <1>23 DEF Finish, Exit
<1>24. CASE Signal
  <2>1. /\ {signals', kills'} \subseteq Nat
        /\ signals' + kills' <= MaxInterrupts
    BY <1>24, Interrupted DEF Signal
  <2>2. snap' \in [Components -> Snapshots]
    <3>1. [snap EXCEPT ![comp].bindings = "part"] \in [Components -> Snapshots]
      BY Written
    <3> QED
      BY <1>24, <3>1 DEF Signal
  <2>3. /\ pc' = "trap" /\ exit' = "130" /\ passed' = FALSE
        /\ UNCHANGED <<cur, bak, index, todo, comp, inflight, report,
                       missed, kills, faults>>
    BY <1>24 DEF Signal
  <2> QED
    BY <2>1, <2>2, <2>3
<1>25. CASE SignalAgain
  BY <1>25, Interrupted DEF SignalAgain, Exit, Trapped
<1>26. CASE Kill
  BY <1>26, Interrupted DEF Kill, Exit
<1>27. ASSUME NEW c \in Components,
              Skip(c) \/ Refuse(c) \/ MoveAway(c) \/ MoveFails(c)
       PROVE  TypeOK'
  <2>1. CASE Skip(c)
    BY <2>1 DEF Skip
  <2>2. CASE Refuse(c)
    BY <2>2 DEF Refuse, Exit
  <2>3. CASE MoveAway(c)
    BY <2>3 DEF MoveAway, Take, FlightInv
  <2>4. CASE MoveFails(c)
    BY <2>4, Missed DEF MoveFails, Take, FlightInv
  <2> QED
    BY <1>27, <2>1, <2>2, <2>3, <2>4
<1>28. ASSUME NEW c \in Components, Resolve(c) \/ Checkout(c)
       PROVE  TypeOK'
  <2>1. CASE Resolve(c)
    BY <2>1 DEF Resolve
  <2>2. CASE Checkout(c)
    BY <2>2 DEF Checkout
  <2> QED
    BY <1>28, <2>1, <2>2
<1>29. CASE UNCHANGED vars
  BY <1>29 DEF vars
<1> QED
  BY <1>1, <1>2, <1>3, <1>4, <1>5, <1>6, <1>7, <1>8, <1>9, <1>10, <1>11, <1>12,
     <1>9a, <1>13, <1>14, <1>15, <1>16, <1>17, <1>18, <1>19, <1>19a, <1>20, <1>21,
     <1>22, <1>23, <1>24, <1>25, <1>26, <1>27, <1>28, <1>29 DEF Next, Work

\* The EXIT trap is armed only for the swap in hand.
LEMMA FlightStep ==
    TypeOK /\ FlightInv /\ IdleInv /\ TrapInv /\ [Next]_vars
        => (FlightInv /\ IdleInv /\ TrapInv)'
<1> SUFFICES ASSUME TypeOK, FlightInv, IdleInv, TrapInv, [Next]_vars
             PROVE  (FlightInv /\ IdleInv /\ TrapInv)'
  OBVIOUS
<1> USE DEF TypeOK, FlightInv, IdleInv, TrapInv
<1>1. CASE Run
  BY <1>1 DEF Run
<1>2. CASE Arm \/ MakeSlot \/ Stage \/ Stamp \/ Build \/ Clear
           \/ ClearFails
  BY <1>2 DEF Arm, At, MakeSlot, Stage, Staged, Stamp, Build, Clear, ClearFails
<1>3. CASE StageFails \/ StampOrBuildFails
  BY <1>3 DEF StageFails, GiveUp, At, Staged, Fault, StampOrBuildFails
<1>4. CASE CopyBindings \/ CopyYaml \/ CopyHash \/ CopyHeaders
  BY <1>4 DEF CopyBindings, At, Write, CopyYaml, CopyHash, CopyHeaders
<1>5. CASE CopyFails
  BY <1>5 DEF CopyFails, GiveUp, At, Write, Fault
<1>6. CASE RestoreRemove \/ RestoreMove \/ Disarm
  BY <1>6 DEF RestoreRemove, At, Removed, RestoreMove, MovedBack, Disarm
<1>7. CASE GitAdd \/ GitAddFails
  BY <1>7 DEF GitAdd, At, Logged, GitAddFails, Fault
<1>8. CASE TrapRemove \/ TrapFails
  BY <1>8 DEF TrapRemove, Armed, Removed, TrapFails, Exit
<1>9. CASE TrapMove
  BY <1>9 DEF TrapMove, MovedBack, Exit
<1>10. CASE TrapIdle \/ Finish \/ Kill \/ SignalAgain
  BY <1>10 DEF TrapIdle, Exit, Armed, Finish, Kill, SignalAgain, Trapped
<1>11. CASE Signal
  BY <1>11 DEF Signal, Trapped
<1>12. ASSUME NEW c \in Components,
              Skip(c) \/ Refuse(c) \/ MoveAway(c) \/ MoveFails(c)
       PROVE  (FlightInv /\ IdleInv /\ TrapInv)'
  <2>1. CASE Skip(c)
    BY <2>1 DEF Skip
  <2>2. CASE Refuse(c)
    BY <2>2 DEF Refuse, Exit
  <2>3. CASE MoveAway(c)
    BY <2>3 DEF MoveAway, Take
  <2>4. CASE MoveFails(c)
    BY <2>4 DEF MoveFails, Take, Fault
  <2> QED
    BY <1>12, <2>1, <2>2, <2>3, <2>4
<1>13. ASSUME NEW c \in Components, Resolve(c) \/ Checkout(c)
       PROVE  (FlightInv /\ IdleInv /\ TrapInv)'
  <2>1. CASE Resolve(c)
    BY <2>1 DEF Resolve
  <2>2. CASE Checkout(c)
    BY <2>2 DEF Checkout
  <2> QED
    BY <1>13, <2>1, <2>2
<1>14. CASE UNCHANGED vars
  BY <1>14 DEF vars
<1> QED
  BY <1>1, <1>2, <1>3, <1>4, <1>5, <1>6, <1>7, <1>8, <1>9, <1>10, <1>11, <1>12,
       <1>13, <1>14 DEF Next, Work

\* The steps of a target write all parts of its snapshot, in this order.
LEMMA SnapStep ==
    TypeOK /\ SnapInv /\ [Next]_vars => SnapInv'
<1> SUFFICES ASSUME TypeOK, SnapInv, [Next]_vars PROVE SnapInv'
  OBVIOUS
<1> USE DEF TypeOK, SnapInv, Whole, Snapshots, Stamped, Overlaid, tree, bounds
<1>1. CASE Run
  BY <1>1 DEF Run
<1>2. CASE Arm \/ MakeSlot \/ Stage \/ Stamp \/ Build
  BY <1>2 DEF Arm, At, MakeSlot, Stage, Staged, Stamp, Build
<1>3. CASE StageFails
  BY <1>3 DEF StageFails, GiveUp, At, Staged, Fault
<1>4. CASE StampOrBuildFails
  BY <1>4 DEF StampOrBuildFails, GiveUp, At, Fault
<1>5. CASE Clear
  BY <1>5 DEF Clear, At
<1>5a. CASE ClearFails
  <2>1. "clear" \in missed'[comp] /\ pc' = "bindings" /\ comp' = comp
    BY <1>5a, Missed DEF ClearFails, At
  <2> QED
    BY <2>1
<1>6. CASE CopyBindings
  BY <1>6 DEF CopyBindings, At, Write
<1>7. CASE CopyYaml
  BY <1>7 DEF CopyYaml, At, Write
<1>8. CASE CopyHash
  BY <1>8 DEF CopyHash, At, Write
<1>9. CASE CopyHeaders
  <2>1. /\ pc = "headers" /\ pc' = "restore" /\ comp' = comp
        /\ snap' = [snap EXCEPT ![comp].headers = TRUE]
    BY <1>9 DEF CopyHeaders, At, Write
  <2>2. snap[comp] \in Snapshots
    OBVIOUS
  <2>3. \/ snap'[comp] = Stamped
        \/ snap'[comp] = Overlaid /\ "clear" \in missed[comp]
    <3>1. snap'[comp] = [snap[comp] EXCEPT !.headers = TRUE]
      BY <2>1
    <3>2. /\ snap[comp].yaml = "stamped" /\ snap[comp].hash = "stamped"
          /\ \/ snap[comp].bindings = "stamped"
             \/ snap[comp].bindings = "over" /\ "clear" \in missed[comp]
      BY <2>1
    <3>4. snap[comp].bindings = "stamped" => snap'[comp] = Stamped
      BY <2>2, <3>1, <3>2
    <3>5. snap[comp].bindings = "over" => snap'[comp] = Overlaid
      BY <2>2, <3>1, <3>2
    <3> QED
      BY <3>2, <3>4, <3>5
  <2>4. missed' = missed
    BY <1>9 DEF CopyHeaders, Write
  <2> QED
    BY <2>1, <2>3, <2>4
<1>10. CASE CopyFails
  BY <1>10 DEF CopyFails, GiveUp, At, Write, Fault
<1>11. CASE RestoreRemove \/ RestoreMove
  <2>1. /\ pc \in {"restore", "restore move"}
        /\ pc' \in {"restore move", "disarm"}
        /\ UNCHANGED <<snap, comp, passed>>
    BY <1>11 DEF RestoreRemove, At, Removed, PartlyRemoved, RestoreMove, MovedBack
  <2>2. missed[comp] \subseteq missed'[comp]
    BY <1>11, Missed DEF RestoreRemove, RestoreMove
  <2> QED
    BY <2>1, <2>2
<1>12. CASE Disarm
  BY <1>12 DEF Disarm, At
<1>13. CASE GitAdd \/ GitAddFails
  BY <1>13 DEF GitAdd, At, Logged, GitAddFails, Fault
<1>14. CASE TrapRemove \/ TrapMove \/ TrapFails
  BY <1>14 DEF TrapRemove, Armed, Removed, TrapMove, MovedBack, Exit, TrapFails
<1>15. CASE TrapIdle \/ Finish \/ Kill \/ SignalAgain
  BY <1>15 DEF TrapIdle, Exit, Armed, Finish, Kill, SignalAgain, Trapped
<1>16. CASE Signal
  BY <1>16 DEF Signal, Trapped
<1>17. ASSUME NEW c \in Components,
              Skip(c) \/ Refuse(c) \/ MoveAway(c) \/ MoveFails(c)
       PROVE  SnapInv'
  <2>1. CASE Skip(c)
    BY <2>1 DEF Skip
  <2>2. CASE Refuse(c)
    BY <2>2 DEF Refuse, Exit
  <2>3. CASE MoveAway(c)
    BY <2>3 DEF MoveAway, Take
  <2>4. CASE MoveFails(c)
    BY <2>4 DEF MoveFails, Take
  <2> QED
    BY <1>17, <2>1, <2>2, <2>3, <2>4
<1>18. ASSUME NEW c \in Components, Resolve(c) \/ Checkout(c)
       PROVE  SnapInv'
  <2>1. CASE Resolve(c)
    BY <2>1 DEF Resolve
  <2>2. CASE Checkout(c)
    BY <2>2 DEF Checkout
  <2> QED
    BY <1>18, <2>1, <2>2
<1>19. CASE UNCHANGED vars
  BY <1>19 DEF vars
<1> QED
  BY <1>1, <1>2, <1>3, <1>4, <1>5, <1>5a, <1>6, <1>7, <1>8, <1>9, <1>10, <1>11, <1>12,
       <1>13, <1>14, <1>15, <1>16, <1>17, <1>18, <1>19 DEF Next, Work

\* What is missed is not forgotten.
LEMMA MissedGrows ==
    TypeOK /\ [Next]_vars => \A c \in Components : missed[c] \subseteq missed'[c]
<1> SUFFICES ASSUME TypeOK, [Next]_vars
             PROVE  \A c \in Components : missed[c] \subseteq missed'[c]
  OBVIOUS
<1>1. ASSUME NEW c \in Components, MoveFails(c)
      PROVE  \A d \in Components : missed[d] \subseteq missed'[d]
  BY <1>1, Missed DEF MoveFails
<1>2. CASE ClearFails
  BY <1>2, Missed DEF ClearFails, TypeOK
<1>3. CASE RestoreRemove
  BY <1>3, Missed DEF RestoreRemove, TypeOK
<1>4. CASE missed' = missed
  BY <1>4
<1>5. \/ \E c \in Components : MoveFails(c)
      \/ ClearFails \/ RestoreRemove \/ missed' = missed
  BY DEF Next, Work, vars, Run, Arm, MakeSlot, Stage, StageFails, Stamp, Build,
     StampOrBuildFails, GiveUp, Clear, CopyBindings, CopyYaml, CopyHash,
     CopyHeaders, CopyFails, Write, RestoreMove, Disarm, GitAdd, GitAddFails,
     TrapRemove, TrapMove, TrapFails, TrapIdle, Finish, Skip, Refuse, MoveAway,
     Signal, SignalAgain, Kill, Resolve, Checkout
<1> QED
  BY <1>1, <1>2, <1>3, <1>4, <1>5

\* What is logged as refrozen is whole, and left alone until the run ends.
LEMMA ReportStep ==
    TypeOK /\ SnapInv /\ ReportInv /\ [Next]_vars => ReportInv'
<1> SUFFICES ASSUME TypeOK, SnapInv, ReportInv, [Next]_vars PROVE ReportInv'
  OBVIOUS
<1> USE DEF TypeOK, ReportInv, Whole, Busy, Trapped, tree, bounds
<1>0. \A c \in Components : missed[c] \subseteq missed'[c]
  BY MissedGrows
<1>1. CASE Run
  BY <1>1 DEF Run
<1>2. CASE Arm \/ MakeSlot \/ Stage \/ Stamp \/ Build
  BY <1>2 DEF Arm, At, MakeSlot, Stage, Staged, Stamp, Build
<1>3. CASE StageFails
  BY <1>3 DEF StageFails, GiveUp, At, Staged, Fault
<1>4. CASE StampOrBuildFails
  BY <1>4 DEF StampOrBuildFails, GiveUp, At, Fault
<1>5. CASE Clear \/ ClearFails
  BY <1>0, <1>5 DEF Clear, ClearFails, At
<1>6. CASE CopyBindings
  BY <1>6 DEF CopyBindings, At, Write
<1>7. CASE CopyYaml
  BY <1>7 DEF CopyYaml, At, Write
<1>8. CASE CopyHash
  BY <1>8 DEF CopyHash, At, Write
<1>9. CASE CopyHeaders
  BY <1>9 DEF CopyHeaders, At, Write
<1>10. CASE CopyFails
  BY <1>10 DEF CopyFails, GiveUp, At, Write, Fault
<1>11. CASE RestoreRemove \/ RestoreMove
  BY <1>0, <1>11 DEF RestoreRemove, At, Removed, PartlyRemoved, RestoreMove,
     MovedBack
<1>12. CASE Disarm
  BY <1>12 DEF Disarm, At
<1>13. CASE GitAdd
  BY <1>13 DEF GitAdd, At, Logged, SnapInv
<1>14. CASE GitAddFails
  BY <1>14 DEF GitAddFails, At, Logged, Fault, SnapInv
<1>15. CASE TrapRemove \/ TrapMove \/ TrapFails
  BY <1>15 DEF TrapRemove, Armed, Removed, PartlyRemoved, TrapMove, MovedBack,
     TrapFails, Exit
<1>16. CASE TrapIdle \/ Finish \/ Kill \/ SignalAgain
  BY <1>16 DEF TrapIdle, Exit, Armed, Finish, Kill, SignalAgain, Trapped
<1>17. CASE Signal
  BY <1>17 DEF Signal, Trapped
<1>18. ASSUME NEW c \in Components,
              Skip(c) \/ Refuse(c) \/ MoveAway(c) \/ MoveFails(c)
       PROVE  ReportInv'
  <2>1. CASE Skip(c)
    BY <2>1 DEF Skip
  <2>2. CASE Refuse(c)
    BY <2>2 DEF Refuse, Exit
  <2>3. CASE MoveAway(c)
    BY <2>3 DEF MoveAway, Take
  <2>4. CASE MoveFails(c)
    BY <1>0, <2>4 DEF MoveFails, Take
  <2> QED
    BY <1>18, <2>1, <2>2, <2>3, <2>4
<1>19. ASSUME NEW c \in Components, Resolve(c) \/ Checkout(c)
       PROVE  ReportInv'
  <2>1. CASE Resolve(c)
    BY <2>1 DEF Resolve
  <2>2. CASE Checkout(c)
    BY <2>2 DEF Checkout
  <2> QED
    BY <1>19, <2>1, <2>2
<1>20. CASE UNCHANGED vars
  BY <1>20 DEF vars
<1> QED
  BY <1>1, <1>2, <1>3, <1>4, <1>5, <1>6, <1>7, <1>8, <1>9, <1>10, <1>11, <1>12,
       <1>13, <1>14, <1>15, <1>16, <1>17, <1>18, <1>19, <1>20 DEF Next, Work

\* Only a snapshot that is whole is added to git's index.
LEMMA IndexStep ==
    TypeOK /\ SnapInv /\ IndexInv /\ [Next]_vars => IndexInv'
<1> SUFFICES ASSUME TypeOK, SnapInv, IndexInv, [Next]_vars PROVE IndexInv'
  OBVIOUS
<1> USE DEF TypeOK, IndexInv, CheckoutRepairs, tree, bounds
<1>0. \A c \in Components : missed[c] \subseteq missed'[c]
  BY MissedGrows
<1>1. CASE Run
  BY <1>1 DEF Run
<1>2. CASE Arm \/ MakeSlot \/ Stage \/ StageFails \/ Stamp \/ Build \/
           StampOrBuildFails
  BY <1>2 DEF Arm, At, MakeSlot, Stage, Staged, StageFails, GiveUp, Fault,
       Stamp, Build, StampOrBuildFails
<1>3. CASE Clear \/ ClearFails \/ CopyBindings \/ CopyYaml \/ CopyHash \/ CopyHeaders
  BY <1>0, <1>3 DEF Clear, ClearFails, At, CopyBindings, Write, CopyYaml, CopyHash, CopyHeaders
<1>4. CASE CopyFails
  BY <1>4 DEF CopyFails, GiveUp, At, Write, Fault
<1>5. CASE RestoreRemove \/ RestoreMove \/ Disarm
  BY <1>0, <1>5 DEF RestoreRemove, At, Removed, PartlyRemoved, RestoreMove,
     MovedBack, Disarm
<1>6. CASE GitAdd \/ GitAddFails
  BY <1>6 DEF GitAdd, At, Logged, SnapInv, Whole, GitAddFails, Fault
<1>7. CASE TrapRemove \/ TrapMove \/ TrapFails
  BY <1>7 DEF TrapRemove, Armed, Removed, PartlyRemoved, TrapMove, MovedBack,
     TrapFails, Exit
<1>8. CASE TrapIdle \/ Finish \/ Kill \/ SignalAgain \/ Signal
  BY <1>8 DEF TrapIdle, Exit, Armed, Finish, Kill, SignalAgain, Trapped, Signal
<1>9. ASSUME NEW c \in Components,
              Skip(c) \/ Refuse(c) \/ MoveAway(c) \/ MoveFails(c)
       PROVE  IndexInv'
  <2>1. CASE Skip(c)
    BY <2>1 DEF Skip
  <2>2. CASE Refuse(c)
    BY <2>2 DEF Refuse, Exit
  <2>3. CASE MoveAway(c)
    BY <2>3 DEF MoveAway, Take
  <2>4. CASE MoveFails(c)
    BY <1>0, <2>4 DEF MoveFails, Take
  <2> QED
    BY <1>9, <2>1, <2>2, <2>3, <2>4
<1>10. ASSUME NEW c \in Components, Resolve(c) \/ Checkout(c)
       PROVE  IndexInv'
  <2>1. CASE Resolve(c)
    BY <2>1 DEF Resolve
  <2>2. CASE Checkout(c)
    BY <2>2 DEF Checkout
  <2> QED
    BY <1>10, <2>1, <2>2
<1>11. CASE UNCHANGED vars
  BY <1>11 DEF vars
<1> QED
  BY <1>1, <1>2, <1>3, <1>4, <1>5, <1>6, <1>7, <1>8, <1>9, <1>10, <1>11 DEF
       Next, Work

\* current/ is removed only while the backup has the developer's work.
LEMMA WorkStep ==
    TypeOK /\ WorkInv /\ FlightInv /\ TrapInv /\ [Next]_vars => WorkInv'
<1> SUFFICES ASSUME TypeOK, WorkInv, FlightInv, TrapInv, [Next]_vars
             PROVE  WorkInv'
  OBVIOUS
<1> USE DEF TypeOK, WorkInv, Swapped, Kept, tree, bounds
<1>1. CASE Run
  BY <1>1 DEF Run
<1>2. CASE Arm \/ Stamp \/ Build
  BY <1>2 DEF Arm, At, Stamp, Build
<1>3. CASE MakeSlot
  BY <1>3 DEF MakeSlot, At
<1>4. CASE Stage
  BY <1>4 DEF Stage, At, Staged
<1>5. CASE StageFails
  BY <1>5 DEF StageFails, GiveUp, At, Staged, Fault
<1>6. CASE StampOrBuildFails
  <2>1. /\ pc \in {"stamping", "building"} /\ pc' = "restore"
        /\ UNCHANGED <<cur, bak, comp, missed>>
    BY <1>6 DEF StampOrBuildFails, GiveUp, At
  <2> QED
    BY <2>1
<1>7. CASE Clear \/ CopyBindings \/ CopyYaml \/ CopyHash \/ CopyHeaders
  BY <1>7 DEF Clear, At, CopyBindings, Write, CopyYaml, CopyHash, CopyHeaders
<1>8. CASE CopyFails
  <2>1. /\ pc \in {"bindings", "yaml", "hash", "headers"} /\ pc' = "restore"
        /\ UNCHANGED <<cur, bak, comp, missed>>
    BY <1>8 DEF CopyFails, GiveUp, At, Write
  <2> QED
    BY <2>1
<1>8a. CASE ClearFails
  <2>1. /\ pc = "clearing" /\ pc' = "bindings"
        /\ UNCHANGED <<cur, bak, comp>>
    BY <1>8a DEF ClearFails, At
  <2>2. \A c \in Components : \A command \in {"move", "remove"} :
           command \in missed'[c] <=> command \in missed[c]
    BY <1>8a, Missed DEF ClearFails
  <2> QED
    BY <2>1, <2>2
<1>9. CASE RestoreRemove
  <2>1. /\ pc = "restore" /\ pc' = "restore move" /\ comp' = comp /\ bak' = bak
    BY <1>9 DEF RestoreRemove, At, Removed, PartlyRemoved
  <2>2. CASE Removed(comp) /\ UNCHANGED <<missed, bounds>>
    BY <2>1, <2>2 DEF Removed
  <2>3. CASE PartlyRemoved(comp) /\ Misses(comp, "remove")
    <3>1. /\ "remove" \in missed'[comp]
          /\ \A c \in Components : missed[c] \subseteq missed'[c]
          /\ \A c \in Components : "move" \in missed'[c] <=> "move" \in missed[c]
      BY <2>3, Missed
    <3> QED
      BY <2>1, <2>3, <3>1 DEF PartlyRemoved
  <2> QED
    BY <1>9, <2>2, <2>3 DEF RestoreRemove
<1>10. CASE RestoreMove
  <2>1. /\ pc = "restore move" /\ pc' = "disarm" /\ UNCHANGED <<comp, missed>>
    BY <1>10 DEF RestoreMove, At
  <2>2. CASE MovedBack(comp)
    <3>1. /\ \A c \in Components \ {comp} : cur'[c] = cur[c] /\ bak'[c] = bak[c]
          /\ bak'[comp] = "none"
          /\ cur[comp] = "none" => cur'[comp] = bak[comp]
          /\ cur[comp] # "none" /\ bak[comp] \in Kept => cur'[comp] = "nesting"
      BY <2>2 DEF MovedBack
    <3> QED
      BY <2>1, <3>1
  <2>3. CASE UNCHANGED tree
    BY <2>1, <2>3
  <2> QED
    BY <1>10, <2>2, <2>3 DEF RestoreMove
<1>11. CASE Disarm \/ GitAdd \/ GitAddFails
  BY <1>11 DEF Disarm, At, GitAdd, Logged, GitAddFails, Fault
<1>11a. CASE TrapFails
  <2>1. /\ inflight = {comp} /\ pc' = "idle" /\ UNCHANGED <<bak, missed>>
        /\ \A c \in Components \ {comp} : cur'[c] = cur[c]
        /\ \/ bak[comp] # "none" /\ cur'[comp] \in {"work", "mixed"}
           \/ cur' = cur
    <3>1. CASE pc = "trap" /\ Armed /\ \E c \in inflight : PartlyRemoved(c)
      <4>1. inflight = {comp} /\ bak[comp] # "none" /\ PartlyRemoved(comp)
        BY <3>1 DEF Armed
      <4>2. /\ cur' = [cur EXCEPT ![comp] = IF @ = "work" THEN @ ELSE "mixed"]
            /\ bak' = bak
        BY <4>1 DEF PartlyRemoved
      <4> QED
        BY <1>11a, <4>1, <4>2 DEF TrapFails, Exit
    <3>2. CASE pc = "trap move" /\ UNCHANGED tree
      BY <1>11a, <3>2 DEF TrapFails, TrapInv, Exit
    <3> QED
      BY <1>11a, <3>1, <3>2 DEF TrapFails
  <2> QED
    BY <2>1
<1>12. CASE TrapRemove
  <2>1. /\ inflight = {comp} /\ bak[comp] # "none" /\ pc' = "trap move"
        /\ cur' = [cur EXCEPT ![comp] = "none"]
        /\ UNCHANGED <<bak, comp, missed>>
    BY <1>12 DEF TrapRemove, Armed, Removed
  <2> QED
    BY <2>1
<1>13. CASE TrapMove
  <2>1. pc = "trap move" /\ inflight = {comp} /\ cur[comp] = "none"
    BY <1>13 DEF TrapMove, TrapInv
  <2>2. MovedBack(comp)
    BY <1>13, <2>1 DEF TrapMove
  <2>3. /\ pc' = "idle" /\ missed' = missed
        /\ \A c \in Components \ {comp} : cur'[c] = cur[c] /\ bak'[c] = bak[c]
        /\ bak'[comp] = "none"
        /\ cur'[comp] = IF bak[comp] = "none" THEN cur[comp] ELSE bak[comp]
    BY <1>13, <2>1, <2>2 DEF TrapMove, MovedBack, Exit
  <2> QED
    BY <2>3
<1>14. CASE TrapIdle \/ Finish \/ Kill \/ SignalAgain
  BY <1>14 DEF TrapIdle, Exit, Armed, Finish, Kill, SignalAgain, Trapped
<1>15. CASE Signal
  BY <1>15 DEF Signal, Trapped
<1>16. ASSUME NEW c \in Components,
              Skip(c) \/ Refuse(c) \/ MoveAway(c) \/ MoveFails(c)
       PROVE  WorkInv'
  <2>1. CASE Skip(c)
    BY <2>1 DEF Skip
  <2>2. CASE Refuse(c)
    BY <2>2 DEF Refuse, Exit
  <2>3. CASE MoveAway(c)
    BY <2>3 DEF MoveAway, Take
  <2>4. CASE MoveFails(c)
    <3>1. /\ "move" \in missed'[c] /\ pc' = "moved" /\ comp' = c
          /\ UNCHANGED <<cur, bak>>
          /\ \A d \in Components : \A command \in {"remove", "clear"} :
                command \in missed'[d] <=> command \in missed[d]
          /\ \A d \in Components : missed[d] \subseteq missed'[d]
      BY <2>4, Missed DEF MoveFails, Take
    <3> QED
      BY <3>1
  <2> QED
    BY <1>16, <2>1, <2>2, <2>3, <2>4
<1>17. ASSUME NEW c \in Components, Resolve(c) \/ Checkout(c)
       PROVE  WorkInv'
  <2>1. CASE Resolve(c)
    BY <2>1 DEF Resolve
  <2>2. CASE Checkout(c)
    BY <2>2 DEF Checkout
  <2> QED
    BY <1>17, <2>1, <2>2
<1>18. CASE UNCHANGED vars
  BY <1>18 DEF vars
<1> QED
  BY <1>1, <1>2, <1>3, <1>4, <1>5, <1>6, <1>7, <1>8, <1>8a, <1>9, <1>10, <1>11, <1>11a, <1>12,
       <1>13, <1>14, <1>15, <1>16, <1>17, <1>18 DEF Next, Work

\* The invariant, over whole runs of the script and between them.
LEMMA Invariance == Spec => []IInv
<1>1. ASSUME IInv, [Next]_vars PROVE IInv'
  BY <1>1, TypeStep, FlightStep, SnapStep, ReportStep, IndexStep, WorkStep
     DEF IInv
<1> QED
  BY <1>1, InitInv, PTL DEF Spec

\* The directories, the script's variables and its exit status have their
\* types, and the EXIT trap is armed for one swap at most.
THEOREM TypeCorrect == Spec => []TypeOK
<1>1. IInv => TypeOK
  BY DEF IInv
<1> QED
  BY <1>1, Invariance, PTL

\* Whatever commands fail and wherever the script is interrupted, the developer's
\* current/ is in place or in the backup; further down in either, if the
\* staging area could not be removed; unless it could not be moved aside.
THEOREM DeveloperKeepsWork == Spec => []WorkKept
<1>1. IInv => WorkKept
  BY DEF IInv, TypeOK, WorkInv, WorkKept, Kept, Slots
<1> QED
  BY <1>1, Invariance, PTL

\* A snapshot that the run logs as refrozen has all of the new identity.
THEOREM RefrozenSnapshotsAreWhole == Spec => []RefrozenIsWhole
<1>1. IInv => RefrozenIsWhole
  BY DEF IInv, ReportInv, RefrozenIsWhole, Whole
<1> QED
  BY <1>1, Invariance, PTL

\* git checkout repairs whatever the script left of a snapshot.
THEOREM GitRepairsSnapshots == Spec => []CheckoutRepairs
<1>1. IInv => CheckoutRepairs
  BY DEF IInv, IndexInv
<1> QED
  BY <1>1, Invariance, PTL

=============================================================================
