----------------------------- MODULE EffectSync -----------------------------
(***************************************************************************)
(* scripts/project_interface_effect.py: keeping the change-class labels of *)
(* tickets and the Interface Effect field of their project items in step.  *)
(*                                                                         *)
(* Runs read a ticket, decide which surface moved by comparing with the    *)
(* class last written, read again, and then write in several calls.  A run *)
(* for one issue follows every label event on it (one at a time per        *)
(* issue); the sweep of all tickets is cancelled by the next one.  People  *)
(* edit labels and fields at any time in between.  A ticket not yet on the *)
(* board reads as one with both fields empty (adding it is idempotent).    *)
(* Milestones, scope and dry runs are left out.                            *)
(***************************************************************************)
EXTENDS Naturals, FiniteSets

CONSTANTS PRs, Issues,  \* tickets
          LabelEdits,   \* labels people add or remove
          Picks,        \* options people pick on the board
          MaxEdits,     \* bound: edits by people
          MaxKills      \* bound: runs killed

Tickets == PRs \union Issues

ASSUME TicketsAssumption == PRs \cap Issues = {}
ASSUME BoundsAssumption == MaxEdits \in Nat /\ MaxKills \in Nat

VARIABLES linked,    \* by PR: the issues it closes
          labels, effect, synced,  \* by ticket
          pending,  \* issues with a label event no run has picked up
          run,      \* by worker: the run in progress
          edits, kills,
          due       \* by ticket: the class an undisturbed edit asks for

vars == <<linked, labels, effect, synced, pending, run, edits, kills, due>>
-----------------------------------------------------------------------------
(* The mapping.                                                            *)

\* Strongest first.
PRECEDENCE == <<"CR-Major", "New Interface", "Major", "Minor", "BugFix",
                "Documentation", "Infrastructure", "Query">>
Options == {PRECEDENCE[n] : n \in 1..8}
None == "none"
Classes == Options \union {None}

LABELS_OF ==
    [o \in Options |->
       CASE o = "CR-Major" -> {"CR"}
         [] o = "Major" -> {"Major Change", "Breaking Change"}
         [] o = "Minor" -> {"Minor Change"}
         [] o = "BugFix" -> {"bug"}
         [] o = "Documentation" -> {"documentation"}
         [] o = "Infrastructure" -> {"scope:infrastructure"}
         [] OTHER -> {o}]

OWNED_LABELS == UNION {LABELS_OF[o] : o \in Options}
KEEP_ALWAYS == {"scope:infrastructure", "Query"}

\* A marker is written with "Major Change", never instead of it.
WRITEBACK_LABELS ==
    [c \in Classes |->
       IF c = None THEN {}
       ELSE IF c \in {"CR-Major", "New Interface"} THEN LABELS_OF[c] \union {"Major Change"}
       ELSE LABELS_OF[c] \ {"Breaking Change"}]

Strongest(os) ==
    IF os = {} THEN None
    ELSE PRECEDENCE[CHOOSE n \in 1..8 :
           PRECEDENCE[n] \in os /\ \A k \in 1..(n - 1) : PRECEDENCE[k] \notin os]

class_of ==
    [ls \in SUBSET OWNED_LABELS |-> Strongest({o \in Options : LABELS_OF[o] \cap ls # {}})]
ClassOf(ls) == class_of[ls]

\* The board wins when it alone moved; in every other disagreement the labels.
Resolve(lclass, fclass, last) ==
    IF fclass # last /\ lclass = last THEN fclass ELSE lclass

\* mutant: only the classes are compared
LabelsDifferByClass(c, ls) == c # ClassOf(ls)

LabelsDiffer(c, ls) == c # ClassOf(ls) \/ ~(WRITEBACK_LABELS[c] \subseteq ls)

\* What apply_labels adds, and it (or remove_owned_labels, for no class) strips.
Added(c, ls) == IF LabelsDiffer(c, ls) THEN WRITEBACK_LABELS[c] \ ls ELSE {}
Stripped(c, ls) ==
    IF LabelsDiffer(c, ls)
    THEN (ls \cap OWNED_LABELS)
           \ (WRITEBACK_LABELS[c] \union KEEP_ALWAYS \union (IF c = None THEN {} ELSE LABELS_OF[c]))
    ELSE {}
ASSUME EditsAssumption == LabelEdits \subseteq OWNED_LABELS /\ Picks \subseteq Classes
-----------------------------------------------------------------------------
(* Runs.                                                                   *)

Sweep == "sweep"
Workers == Issues \union {Sweep}      \* an issue names its event run
ASSUME NamesAssumption == Sweep \notin Tickets

\* mem: what the run read (and wrote since) of each ticket; todo: tickets left
\* of this phase; at: the ticket in hand; winner: the class being written.
\* Steps: next ticket, decide, re-read labels, write field, add labels, remove
\* labels, write state; then a PR inherits, and its issues follow it.
Read(ts, links) ==
    [t \in Tickets |->
       [labels |-> IF t \in ts \union links THEN labels[t] ELSE {},
        effect |-> IF t \in ts THEN effect[t] ELSE None,
        synced |-> IF t \in ts THEN synced[t] ELSE None]]
Unread == [labels |-> {}, effect |-> None, synced |-> None]

NoRun == [step |-> "idle", at |-> Sweep, todo |-> {}, mem |-> [t \in Tickets |-> Unread],
          winner |-> None, links |-> {}, link |-> Sweep, again |-> FALSE]

Free == "free"

LinksOf(t) == IF t \in PRs THEN linked[t] ELSE {}
Group(t) ==
    {t} \union LinksOf(t) \union {p \in PRs : t \in linked[p]}

Unlinked(t) == Group(t) = {t}

\* A PR and the one issue it closes, which no other PR closes.
Paired(t) == \E u \in Tickets : u # t /\ Group(t) = {t, u} /\ Group(u) = {t, u}

Init ==
    /\ linked \in [PRs -> SUBSET Issues]
    /\ labels = [t \in Tickets |-> {}]
    /\ effect = [t \in Tickets |-> None]
    /\ synced = [t \in Tickets |-> None]
    /\ pending = {}
    /\ run = [w \in Workers |-> NoRun]
    /\ edits = 0 /\ kills = 0
    /\ due = [t \in Tickets |-> IF Unlinked(t) \/ Paired(t) THEN None ELSE Free]

At(w, step) == run[w].step = step
Tk(w) == run[w].at                     \* the ticket in hand
Mem(w) == run[w].mem[Tk(w)]

Goto(w, step) == run' = [run EXCEPT ![w].step = step]
Surfaces == <<labels, effect, synced>>
Env == <<linked, edits, kills, due>>

\* Label changes raise an event on issues; the scripts' token does too.
SetLabels(t, ls) ==
    /\ labels' = [labels EXCEPT ![t] = ls]
    /\ pending' = IF t \in Issues /\ ls # labels[t] THEN pending \union {t} ELSE pending

StartEvent(i) ==
    /\ i \in pending /\ At(i, "idle")
    /\ pending' = pending \ {i}
    /\ run' = [run EXCEPT ![i] = [NoRun EXCEPT !.step = "decide", !.at = i,
                                              !.mem = Read({i}, {})]]
    /\ UNCHANGED <<Surfaces, Env>>

\* All pull requests are read, then handled one by one; then all issues.
StartSweep ==
    /\ At(Sweep, "idle")
    /\ run' = [run EXCEPT ![Sweep] = [NoRun EXCEPT !.step = "prs", !.mem = Read(PRs, Issues),
                                                   !.todo = PRs]]
    /\ UNCHANGED <<Surfaces, pending, Env>>

NextTicket(phase) ==
    /\ At(Sweep, phase)
    /\ \E t \in run[Sweep].todo :
         run' = [run EXCEPT ![Sweep].step = "decide", ![Sweep].at = t,
                            ![Sweep].todo = @ \ {t}]
    /\ UNCHANGED <<Surfaces, pending, Env>>

FetchIssues ==
    /\ At(Sweep, "prs") /\ run[Sweep].todo = {}
    /\ run' = [run EXCEPT ![Sweep] = [NoRun EXCEPT !.step = "issues", !.mem = Read(Issues, {}),
                                                   !.todo = Issues]]
    /\ UNCHANGED <<Surfaces, pending, Env>>

EndSweep ==
    /\ At(Sweep, "issues") /\ run[Sweep].todo = {}
    /\ run' = [run EXCEPT ![Sweep] = NoRun]
    /\ UNCHANGED <<Surfaces, pending, Env>>

\* The ticket in hand is done with: the sweep takes the next, an event run ends.
Leave(w) ==
    run' = [run EXCEPT ![w] =
              IF w # Sweep THEN NoRun
              ELSE [NoRun EXCEPT !.step = IF Tk(w) \in PRs THEN "prs" ELSE "issues",
                                 !.todo = run[w].todo,
                                 !.mem = [run[w].mem EXCEPT ![Tk(w)] = Unread]]]
-----------------------------------------------------------------------------
(* sync_ticket.                                                            *)

Winner(m) == Resolve(ClassOf(m.labels), m.effect, m.synced)

NeedsWrite(c, m) == LabelsDiffer(c, m.labels) \/ c # m.effect \/ c # m.synced

\* mutant: the item is not read again
DecideBlind(w) ==
    /\ At(w, "decide")
    /\ LET c == Winner(Mem(w))
           write == NeedsWrite(c, Mem(w)) \/ (c = None /\ LinksOf(Tk(w)) # {})
       IN run' = [run EXCEPT ![w].winner = c, ![w].step = IF write THEN "labels" ELSE "synced"]
    /\ UNCHANGED <<Surfaces, pending, Env>>

\* The winner is settled from what was read; before anything is written, or a
\* class inherited, the item is read again and the ticket left if it moved.
Decide(w) ==
    /\ At(w, "decide")
    /\ LET c == Winner(Mem(w))
           write == NeedsWrite(c, Mem(w)) \/ (c = None /\ LinksOf(Tk(w)) # {})
           moved == effect[Tk(w)] # Mem(w).effect \/ synced[Tk(w)] # Mem(w).synced
       IN IF write /\ moved THEN Leave(w)
          ELSE run' = [run EXCEPT ![w].winner = c,
                                  ![w].step = IF write THEN "labels" ELSE "synced"]
    /\ UNCHANGED <<Surfaces, pending, Env>>

\* Calls with nothing to do are not made.
AfterAdd(w) == IF Stripped(run[w].winner, Mem(w).labels) = {} THEN "state" ELSE "remove"
AfterField(w) == IF Added(run[w].winner, Mem(w).labels) = {} THEN AfterAdd(w) ELSE "add"
FirstWrite(w) == IF run[w].winner = Mem(w).effect THEN AfterField(w) ELSE "field"

\* Then the labels are.
RecheckLabels(w) ==
    /\ At(w, "labels")
    /\ IF labels[Tk(w)] # Mem(w).labels THEN Leave(w)
       ELSE Goto(w, IF NeedsWrite(run[w].winner, Mem(w)) THEN FirstWrite(w) ELSE "synced")
    /\ UNCHANGED <<Surfaces, pending, Env>>

WriteField(w) ==
    /\ At(w, "field") /\ Goto(w, AfterField(w))
    /\ effect' = [effect EXCEPT ![Tk(w)] = run[w].winner]
    /\ UNCHANGED <<labels, synced, pending, Env>>

AddLabels(w) ==
    /\ At(w, "add") /\ Goto(w, AfterAdd(w))
    /\ SetLabels(Tk(w), labels[Tk(w)] \union Added(run[w].winner, Mem(w).labels))
    /\ UNCHANGED <<effect, synced, Env>>

RemoveLabels(w) ==
    /\ At(w, "remove") /\ Goto(w, "state")
    /\ SetLabels(Tk(w), labels[Tk(w)] \ Stripped(run[w].winner, Mem(w).labels))
    /\ UNCHANGED <<effect, synced, Env>>

\* mutant: a cleared state is written as ""
WriteStateEmpty(w) ==
    /\ At(w, "state") /\ Leave(w)
    /\ synced' = [synced EXCEPT ![Tk(w)] = IF run[w].winner = None THEN "" ELSE run[w].winner]
    /\ UNCHANGED <<labels, effect, pending, Env>>

\* The run's own copy of the ticket follows what it wrote.
WriteState(w) ==
    /\ At(w, "state")
    /\ LET c == run[w].winner
           kept == Mem(w).labels \ (OWNED_LABELS \ KEEP_ALWAYS)
       IN /\ synced' = IF c # Mem(w).synced THEN [synced EXCEPT ![Tk(w)] = c] ELSE synced
          /\ run' = [run EXCEPT ![w].step = "synced",
                                ![w].mem[Tk(w)] = [labels |-> kept \union WRITEBACK_LABELS[c],
                                                   effect |-> c, synced |-> c]]
    /\ UNCHANGED <<labels, effect, pending, Env>>

-----------------------------------------------------------------------------
(* propagate_pr_to_issues.                                                 *)

Inherited(w) ==
    Strongest({ClassOf(run[w].mem[i].labels) : i \in LinksOf(Tk(w))} \ {None})

\* A PR without a class takes the strongest of its issues, as they were read.
Propagate(w) ==
    /\ At(w, "synced")
    /\ LET class == ClassOf(Mem(w).labels)
           c == IF class = None THEN Inherited(w) ELSE class
       IN IF LinksOf(Tk(w)) = {} \/ run[w].again \/ c = None THEN Leave(w)
          ELSE run' = [run EXCEPT ![w].winner = c, ![w].links = LinksOf(Tk(w)),
                                  ![w].step = IF class = None THEN "inherit" ELSE "spread"]
    /\ UNCHANGED <<Surfaces, pending, Env>>

\* Only the PR's labels are read again.
RecheckInherit(w) ==
    /\ At(w, "inherit")
    /\ IF labels[Tk(w)] # Mem(w).labels THEN Leave(w) ELSE Goto(w, "adopt")
    /\ UNCHANGED <<Surfaces, pending, Env>>

Adopt(w) ==
    /\ At(w, "adopt")
    /\ LET added == WRITEBACK_LABELS[run[w].winner]
       IN /\ SetLabels(Tk(w), labels[Tk(w)] \union (added \ Mem(w).labels))
          /\ run' = [run EXCEPT ![w].step = "spread", ![w].again = TRUE,
                                ![w].mem[Tk(w)].labels = @ \union added]
    /\ UNCHANGED <<effect, synced, Env>>

\* The PR wins over an issue that differs; one whose labels moved since the
\* read is left for the next sweep.
LinkRead(w, i) == run[w].mem[i].labels

Spread(w, i) ==
    /\ At(w, "spread") /\ i \in run[w].links
    /\ LET write == LabelsDiffer(run[w].winner, LinkRead(w, i)) /\ labels[i] = LinkRead(w, i)
           first == IF Added(run[w].winner, LinkRead(w, i)) = {} THEN "linkRemove" ELSE "linkAdd"
       IN run' = [run EXCEPT ![w].links = @ \ {i}, ![w].link = i,
                             ![w].step = IF write THEN first ELSE "spread"]
    /\ UNCHANGED <<Surfaces, pending, Env>>

LinkAdd(w) ==
    /\ At(w, "linkAdd")
    /\ LET i == run[w].link
           strip == Stripped(run[w].winner, LinkRead(w, i))
       IN /\ SetLabels(i, labels[i] \union Added(run[w].winner, LinkRead(w, i)))
          /\ Goto(w, IF strip = {} THEN "spread" ELSE "linkRemove")
    /\ UNCHANGED <<effect, synced, Env>>

LinkRemove(w) ==
    /\ At(w, "linkRemove") /\ Goto(w, "spread")
    /\ LET i == run[w].link
       IN SetLabels(i, labels[i] \ Stripped(run[w].winner, LinkRead(w, i)))
    /\ UNCHANGED <<effect, synced, Env>>

\* A PR that inherited its class is synced once more.
SpreadEnd(w) ==
    /\ At(w, "spread") /\ run[w].links = {}
    /\ IF run[w].again THEN Goto(w, "decide") ELSE Leave(w)
    /\ UNCHANGED <<Surfaces, pending, Env>>
-----------------------------------------------------------------------------
(* People, kills, and the whole.                                           *)

Settled(t) ==
    /\ effect[t] = ClassOf(labels[t]) /\ synced[t] = effect[t]
    /\ WRITEBACK_LABELS[effect[t]] \subseteq labels[t]

InSync ==
    /\ \A t \in Tickets : Settled(t)
    /\ \A p \in PRs : \A i \in linked[p] : effect[i] = effect[p]

\* No run is between its last look at a ticket and its last write to it.
Writing == {"labels", "field", "add", "remove", "state", "adopt", "linkAdd", "linkRemove"}
Quiet(t) == \A w \in Workers : run[w].step \in Writing => t \notin Group(Tk(w))
AtRest == InSync /\ \A t \in Tickets : Quiet(t)

\* A ticket agrees with itself and with what it is linked to.
Together(t) == \A u \in Group(t) : Settled(u) /\ effect[u] = effect[t]

\* A sweep has read another class of a PR, or of its issue, than they have, and
\* is not done with the PR.
Outdated(t) ==
    \E p \in PRs \cap Group(t) \cap (run[Sweep].todo \union {Tk(Sweep)}) : \E u \in Group(t) :
        ClassOf(run[Sweep].mem[u].labels) \notin {None, effect[u]}

\* The class Resolve picks, or that of a label that is never taken away
\* (KEEP_ALWAYS): the next sweep derives it again.
Lasting(c, ls) == Strongest({c, ClassOf(ls \intersect KEEP_ALWAYS)} \ {None})

\* What tickets are to become, in the hands of one undisturbed sweep: an
\* unlinked one what Resolve says, a pair what the PR has or, when they were in
\* step before, what was edited in.  Of other groups nothing is asked.
Wanted(t, ls, fclass) ==
    LET c == Lasting(Resolve(ClassOf(ls), fclass, synced[t]), ls)
    IN IF Unlinked(t) THEN c
       ELSE IF ~Paired(t) \/ ~Together(t) \/ Outdated(t) THEN Free
       ELSE IF t \in PRs THEN IF c # None THEN c ELSE effect[t]
       ELSE IF effect[t] = None THEN c
       ELSE effect[t]

Edit(t, ls, fclass) ==
    /\ edits < MaxEdits /\ edits' = edits + 1
    /\ due' = [u \in Tickets |->
                 IF u \notin Group(t) THEN due[u]
                 ELSE IF Quiet(t) THEN Wanted(t, ls, fclass) ELSE Free]
    /\ UNCHANGED <<linked, synced, run, kills>>

EditLabels(t, l) ==
    LET ls == IF l \in labels[t] THEN labels[t] \ {l} ELSE labels[t] \union {l}
    IN Edit(t, ls, effect[t]) /\ SetLabels(t, ls) /\ UNCHANGED effect

EditField(t, c) ==
    /\ c # effect[t] /\ Edit(t, labels[t], c)
    /\ effect' = [effect EXCEPT ![t] = c]
    /\ UNCHANGED <<labels, pending>>

\* A sweep is cancelled by the next one, and any run can die.
Kill(w) ==
    /\ kills < MaxKills /\ kills' = kills + 1
    /\ ~At(w, "idle") /\ run' = [run EXCEPT ![w] = NoRun]
    /\ UNCHANGED <<linked, Surfaces, pending, edits, due>>

Sync(w) ==
    \/ Decide(w) \/ RecheckLabels(w) \/ WriteField(w) \/ AddLabels(w)
    \/ RemoveLabels(w) \/ WriteState(w)
Push(w) ==
    \/ Propagate(w) \/ RecheckInherit(w) \/ Adopt(w) \/ (\E i \in Issues : Spread(w, i))
    \/ LinkAdd(w) \/ LinkRemove(w) \/ SpreadEnd(w)
EventStep(i) == StartEvent(i) \/ Sync(i) \/ Push(i)
SweepStep ==
    \/ StartSweep \/ NextTicket("prs") \/ NextTicket("issues") \/ FetchIssues \/ EndSweep
    \/ Sync(Sweep) \/ Push(Sweep)

People(t) == (\E l \in LabelEdits : EditLabels(t, l)) \/ (\E c \in Picks : EditField(t, c))

Next ==
    \/ SweepStep \/ (\E i \in Issues : EventStep(i))
    \/ (\E t \in Tickets : People(t)) \/ (\E w \in Workers : Kill(w))

Spec == Init /\ [][Next]_vars

\* Runs that started go on, events start a run, the sweep comes round.
Fairness == WF_vars(SweepStep) /\ \A i \in Issues : WF_vars(EventStep(i))
FairSpec == Spec /\ Fairness
-----------------------------------------------------------------------------
Steps == {"idle", "prs", "issues", "decide", "labels", "field", "add", "remove",
          "state", "synced", "inherit", "adopt", "spread", "linkAdd", "linkRemove"}
Images == [labels : SUBSET OWNED_LABELS, effect : Classes, synced : Classes]
Runs == [step : Steps, at : Tickets \union {Sweep}, todo : SUBSET Tickets,
         mem : [Tickets -> Images], winner : Classes, links : SUBSET Issues,
         link : Issues \union {Sweep}, again : BOOLEAN]

TypeOK ==
    /\ linked \in [PRs -> SUBSET Issues]
    /\ labels \in [Tickets -> SUBSET OWNED_LABELS]
    /\ effect \in [Tickets -> Classes] /\ synced \in [Tickets -> Classes]
    /\ pending \subseteq Issues
    /\ run \in [Workers -> Runs]
    /\ edits \in 0..MaxEdits /\ kills \in 0..MaxKills
    /\ due \in [Tickets -> Classes \union {Free}]

\* An edit of a ticket that no PR closes, or of a PR and its issue that were in
\* step, made while no run was writing to them, is what they are settled at,
\* whatever runs race or die afterwards (project_interface_effect.py 436-446).
EditHolds == \A t \in Tickets : Together(t) => due[t] \in {effect[t], Free}

\* Once people stop, runs stop dying and runs no longer overlap, labels, field
\* and state agree on every ticket, and each PR with its issues, for good
\* (22-27).
Alone == Cardinality({w \in Workers : ~At(w, "idle")}) <= 1
Converges == <>[]Alone => <>[]InSync

\* "Every label the mapping owns: applying one means removing the others."
\* (148): a class picked on the board leaves no label of the one it replaced.
OneClassLabel == AtRest => \A t \in Tickets : ~({"Major Change", "Minor Change"} \subseteq labels[t])
=============================================================================
