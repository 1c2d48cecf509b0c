------------------------------- MODULE Campaign -------------------------------
(***************************************************************************)
(* Collecting the campaign                                                 *)
(* (scripts/bench/p2-campaign/run-provider-campaign.ts): the runs of the   *)
(* plan are spawned one after another, each is watched for the manifest it *)
(* writes and ended soon after it, what was recorded is read back, and the *)
(* gates are judged at the end.                                            *)
(*                                                                         *)
(* The child is `rote run`: it replays a playbook when the library has one *)
(* that matches, under an id of its own, and plans in the browser under    *)
(* the id it was given when none does or the replay has failed.  It is of  *)
(* the default disposition towards SIGTERM.                                *)
(*                                                                         *)
(* The directory collected into is used again as it is, and the ids of the *)
(* plan are the same every time: what an earlier collection left there is  *)
(* where this one begins.                                                  *)
(***************************************************************************)
EXTENDS CampaignPlan, CampaignGates

CONSTANTS
    Protocol, Options,   \* what is planned
    Gates,               \* the values --gate may have, None for all
    Sources,             \* repetitions_per_cell of the frozen protocols, which are judged by
    Left,                \* what earlier collections may have left: sets of ids of runs
    Stream, Confidence,  \* of the bootstrap
    MaxFailures,         \* bound: the runs that fail with a manifest
    Planned, Replayed    \* the logical input of a run that plans and of one that replays

VARIABLES
    gate,       \* --gate
    queue,      \* the runs of executionPhases
    next,       \* the run that is made, as its place in the queue
    watch,      \* [at, id]: the stage of runRecordedCommand and recordedRunId
    child,      \* [run, at, code]: the place it was spawned for, what it does, its exit code
    left,       \* the run ids an earlier collection left a directory under
    disk,       \* run id -> the manifest under it: [outcome, run, tokens]
    learned,    \* whether the library has the playbook of the campaign: it has one cell to learn from
    records,    \* in memory
    raw,        \* raw.jsonl
    ended       \* how the collector has ended

vars == <<gate, queue, next, watch, child, left, disk, learned, records, raw, ended>>

\* Mutant: the gate alone.
GateAlone(g) == SelectSeq(PlanP2Campaign(Protocol, Options), LAMBDA p : g = None \/ p.gate = g)
\* A gate brings the learning it needs with it.
ExecutionPhases(g) ==
    SelectSeq(PlanP2Campaign(Protocol, Options), LAMBDA p : g = None \/ p.gate = g \/ (g # "b4" /\ p.gate = "t0"))
RunsOf(phases) ==
    FlattenSeq([i \in DOMAIN phases |-> [k \in DOMAIN phases[i].runs |-> [phase |-> phases[i], run |-> phases[i].runs[k]]]])

\* What the plan is known for: the id of a run that records is no other's that does, every
\* dependency is earlier in the plan (or preflightP2CampaignPlan refuses it), and so is the
\* learning that all but distilling depend on.
InOrder(runs) ==
    /\ Len(runs) \in Nat /\ DOMAIN runs = 1 .. Len(runs)
    /\ \A i \in DOMAIN runs :
         /\ runs[i].phase.records = (runs[i].phase.kind # "distill")
         /\ \A j \in DOMAIN runs : /\ runs[j].run.id # <<"replay", i>>
                                   /\ runs[i].phase.records /\ runs[j].phase.records /\ runs[j].run.id = runs[i].run.id => j = i
         /\ \A d \in ToSet(runs[i].phase.depends) :
              /\ \E k \in 1 .. i - 1 : runs[k].phase.id = d
              /\ \A k \in DOMAIN runs : runs[k].phase.id = d => k < i
              /\ runs[i].phase.kind = "distill" \/ \E k \in 1 .. i - 1 : runs[k].phase.kind = "distill"

ASSUME CampaignAssumption ==
    \A g \in Gates : LET runs == RunsOf(ExecutionPhases(g))
                     IN  InOrder(runs) /\ \A i \in DOMAIN runs : \A found \in Left : <<"replay", i>> \notin found

Now == queue[next]
NoChild == [run |-> 0, at |-> "gone", code |-> None]
Idle == [at |-> "idle", id |-> None]

\* A manifest of an earlier collection, as its run.
Earlier == 0
LeftOver(outcome) == [outcome |-> outcome, run |-> Earlier, tokens |-> Planned]

Init == /\ gate \in Gates /\ queue = RunsOf(ExecutionPhases(gate))
        /\ next = 1 /\ watch = Idle /\ child = NoChild
        /\ left \in Left
        /\ disk \in UNION {[found -> {LeftOver("success"), LeftOver("failure")}] : found \in SUBSET left}
        /\ learned \in BOOLEAN
        /\ records = <<>> /\ raw = <<>> /\ ended = "collecting"

-----------------------------------------------------------------------------
(* The child.                                                               *)

Goes(at) == child' = [child EXCEPT !.at = at]
Exits(code) == child' = [child EXCEPT !.at = "gone", !.code = code]
Running == child.at # "gone"
ReplayId == <<"replay", child.run>>
Writes(id, outcome, tokens) ==
    disk' = [d \in DOMAIN disk \cup {id} |-> IF d = id THEN [outcome |-> outcome, run |-> child.run, tokens |-> tokens] ELSE disk[d]]
MayFail(outcome) == outcome = "failure" => Cardinality({d \in DOMAIN disk : disk[d].outcome = "failure"}) < MaxFailures
Collector == <<gate, queue, next, watch, left, records, raw, ended>>

Selects ==
    /\ child.at = "selecting"
    /\ \/ learned /\ Goes("replaying")
       \/ Goes("planning")
    /\ UNCHANGED <<Collector, disk, learned>>

ReplayEnds(outcome) ==
    /\ child.at = "replaying" /\ MayFail(outcome)
    /\ Writes(ReplayId, outcome, Replayed)
    /\ Goes(IF outcome = "success" THEN "closing" ELSE "planning")
    /\ UNCHANGED <<Collector, learned>>

PlanningEnds(outcome) ==
    /\ child.at = "planning" /\ MayFail(outcome)
    /\ Writes(queue[child.run].run.id, outcome, Planned)
    /\ Goes("closing")
    /\ UNCHANGED <<Collector, learned>>

Closes ==
    /\ child.at = "closing"
    /\ Exits(0)
    /\ UNCHANGED <<Collector, disk, learned>>

\* It dies without a manifest, or distilling is refused.
Dies ==
    /\ child.at \in {"selecting", "planning", "distilling"}
    /\ Exits(1)
    /\ UNCHANGED <<Collector, disk, learned>>

\* Only a run that succeeded is distilled, and a playbook is added once.
Distills ==
    /\ child.at = "distilling" /\ ~ learned
    /\ queue[child.run].run.id \in DOMAIN disk
    /\ disk[queue[child.run].run.id].outcome = "success"
    /\ Exits(0)
    /\ learned' = TRUE
    /\ UNCHANGED <<Collector, disk>>

Child == Selects \/ (\E o \in {"success", "failure"} : ReplayEnds(o) \/ PlanningEnds(o)) \/ Closes \/ Dies \/ Distills

-----------------------------------------------------------------------------
(* The collector.                                                           *)

Spawn ==
    /\ ended = "collecting" /\ watch.at = "idle" /\ next <= Len(queue)
    /\ child' = [run |-> next, at |-> IF Now.phase.records THEN "selecting" ELSE "distilling", code |-> None]
    /\ watch' = [at |-> IF Now.phase.records THEN "watching" ELSE "distilling", id |-> Now.run.id]
    /\ UNCHANGED <<gate, queue, next, left, disk, learned, records, raw, ended>>

\* runCommand: a distillation that fails ends the campaign.
Distilled ==
    /\ watch.at = "distilling" /\ ~ Running
    /\ IF child.code = 0 THEN next' = next + 1 /\ watch' = Idle /\ UNCHANGED ended
       ELSE ended' = "threw" /\ UNCHANGED <<next, watch>>
    /\ UNCHANGED <<gate, queue, child, left, disk, learned, records, raw>>

\* A poll finds the manifest under the id it gave, whoever wrote it, or else a run whose
\* directory is new since the child was spawned.  Mutant: any run there is.
AnyRuns == DOMAIN disk
NewRuns == {id \in DOMAIN disk : disk[id].run = next}
Sees ==
    /\ watch.at = "watching"
    /\ \E id \in IF Now.run.id \in DOMAIN disk THEN {Now.run.id} ELSE NewRuns :
         watch' = [at |-> "grace", id |-> id]
    /\ UNCHANGED <<gate, queue, next, child, left, disk, learned, records, raw, ended>>

\* After half a second.
Terminate ==
    /\ watch.at = "grace"
    /\ watch' = [watch EXCEPT !.at = "ending"]
    /\ IF Running THEN Exits("SIGTERM") ELSE UNCHANGED child
    /\ UNCHANGED <<gate, queue, next, left, disk, learned, records, raw, ended>>

\* After twenty minutes.
\* Mutant: the time is only looked at once there is a manifest.
TimesOutRecorded ==
    /\ watch.at = "ending" /\ Running
    /\ watch' = [watch EXCEPT !.at = "over"]
    /\ Exits("SIGTERM")
    /\ UNCHANGED <<gate, queue, next, left, disk, learned, records, raw, ended>>
TimesOut ==
    /\ watch.at \in {"watching", "ending"} /\ Running
    /\ watch' = [watch EXCEPT !.at = "over"]
    /\ Exits("SIGTERM")
    /\ UNCHANGED <<gate, queue, next, left, disk, learned, records, raw, ended>>

Finished ==
    /\ watch.at \in {"watching", "ending"} /\ ~ Running
    /\ watch' = [watch EXCEPT !.at = "over"]
    /\ UNCHANGED <<gate, queue, next, child, left, disk, learned, records, raw, ended>>

\* The split of the steps of a run that may route; not told when one of its results
\* has no route.
StepSplits(kind) ==
    CASE kind = "routing_on" -> {[warm |-> 2, frontier |-> 0], [warm |-> None, frontier |-> None]}
      [] kind = "routing_off" -> {[warm |-> 2, frontier |-> 2]}
      [] OTHER -> {[warm |-> None, frontier |-> None]}

Recorded(manifest, split) ==
    RunRecord(Now.phase.cell, Now.phase.gate, Now.phase.kind, Now.run.repetition, manifest.outcome = "success",
              manifest.tokens, split.warm, split.frontier,
              IF Now.phase.kind = "endurance" THEN MinEndurance ELSE None, Protocol.pricing)

\* readRecordedRun throws when there is nothing to read, or what is there was written by
\* two runs and cannot be read; and so does the campaign.
Record ==
    /\ watch.at = "over" /\ watch.id \in DOMAIN disk
    /\ \E split \in StepSplits(Now.phase.kind) :
         LET r == Recorded(disk[watch.id], split)
         IN  /\ records' = Append(records, r)
             /\ raw' = Append(raw, [run |-> next, id |-> watch.id])
    /\ next' = next + 1 /\ watch' = Idle
    /\ UNCHANGED <<gate, queue, child, left, disk, learned, ended>>
Throw ==
    /\ watch.at = "over" /\ (watch.id \in DOMAIN disk => watch.id \in left)
    /\ ended' = "threw"
    /\ UNCHANGED <<gate, queue, next, watch, child, left, disk, learned, records, raw>>

\* What is then written as the verdict.
Verdict(source) == EvaluateCampaign(Protocol.cells, records, source, Stream, Confidence)
Evaluate ==
    /\ ended = "collecting" /\ watch.at = "idle" /\ next > Len(queue)
    /\ ended' = "judged"
    /\ UNCHANGED <<gate, queue, next, watch, child, left, disk, learned, records, raw>>

Next == Child \/ Spawn \/ Distilled \/ Sees \/ Terminate \/ TimesOut \/ Finished \/ Record \/ Throw \/ Evaluate

\* The collector goes on by itself; of the child it relies on nothing, but that
\* distilling ends: that is waited for without a deadline.
Fairness == /\ WF_vars(Spawn) /\ WF_vars(Distilled) /\ WF_vars(Terminate) /\ WF_vars(TimesOut) /\ WF_vars(Finished)
            /\ WF_vars(Record) /\ WF_vars(Throw) /\ WF_vars(Evaluate)
            /\ WF_vars(child.at = "distilling" /\ Child)
Spec == Init /\ [][Next]_vars /\ Fairness

-----------------------------------------------------------------------------

\* What is recorded for a run was written by the child that was spawned for it, whatever
\* id that child chose, or by an earlier collection under the id of that run; and no run is
\* recorded twice.  In a directory nothing was collected into, it is always the child's.
RecordsAreOfTheirRuns ==
    \A i \in DOMAIN raw : /\ \/ disk[raw[i].id].run = raw[i].run
                             \/ disk[raw[i].id].run = Earlier /\ raw[i].id \in left
                                  /\ raw[i].id = queue[raw[i].run].run.id
                          /\ \A j \in 1 .. i - 1 : raw[j].run < raw[i].run /\ raw[j].id # raw[i].id

\* Whatever gate was selected, a run is spawned only after every run its phase depends on
\* has been recorded, and a site is known by then.
SpawnedInOrder ==
    \A d \in ToSet(IF Running THEN queue[child.run].phase.depends ELSE <<>>) :
        /\ \E k \in 1 .. child.run - 1 : queue[k].phase.id = d
        /\ \A k \in DOMAIN queue : queue[k].phase.id = d /\ queue[k].phase.records =>
              \E i \in DOMAIN raw : raw[i].run = k
        /\ learned \/ queue[child.run].phase.kind = "distill"

\* The collector records each run of the plan once, as what its own child wrote or an earlier
\* collection left under its id, and spawns it only after those it depends on
\* (run-provider-campaign.ts:343-386).
CollectsItsRuns == RecordsAreOfTheirRuns /\ SpawnedInOrder

\* A campaign passes only when all of it was collected: a selected gate never does, nor
\* one that was cut short, nor a smoke run of fewer repetitions than are judged by.
PassesWhole ==
    \A source \in Sources : ended = "judged" /\ Verdict(source).passed =>
                    /\ gate = None /\ Protocol.repetitions >= source
                    /\ Len(records) = BilledRuns(PlanP2Campaign(Protocol, Options))
                    /\ \A i \in DOMAIN records : records[i].gate # "b4" => records[i].success

\* Without that exception it does not hold: an earlier manifest is found at the first poll,
\* and its child is ended for it (run-provider-campaign.ts:360, 368-374).
RecordsAreOfOwnChildren == \A i \in DOMAIN raw : disk[raw[i].id].run = raw[i].run

\* However its children hang, the collector ends.
CampaignEnds == <>(ended # "collecting")

\* "The CLI writes the complete manifest before Chromium teardown ... bounded termination
\* avoids an otherwise unbounded CDP close" (run-provider-campaign.ts:369-371): a child
\* that is ended for its manifest has nothing left but to close.
OnlyTeardownIsCut == [][Terminate /\ Running => child.at = "closing"]_vars
=============================================================================
