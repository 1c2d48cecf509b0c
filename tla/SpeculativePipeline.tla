------------------------- MODULE SpeculativePipeline -------------------------
(***************************************************************************)
(* BoundedSpeculativePipeline (packages/session/src/speculative-pipeline   *)
(* .ts): a queue of steps with dependencies, each run as one fenced        *)
(* speculation (EffectFence).                                              *)
(*                                                                         *)
(* A turn of run's loop is one stretch of code without an await: it drains *)
(* what was cancelled or is over time, scans the queue for steps it can    *)
(* start, and then waits for one of the speculations under way.  Nothing   *)
(* else happens during a turn.                                             *)
(***************************************************************************)
EXTENDS EffectFence, Sequences

CONSTANTS
    DependsOn,      \* DependsOn[x]: the step ids step x depends on
    Admissible,     \* confident enough, and not too deep
    MaxConcurrency, MaxSteps

ASSUME PipelineAssumption ==
    /\ DependsOn \in [Request -> SUBSET Request]
    /\ Admissible \subseteq Request
    /\ MaxConcurrency \in Nat \ {0}
    /\ MaxSteps \in Nat \ {0}

VARIABLES
    order,      \* the keys of `steps`, in the order they were queued
    entry,      \* entry[x]: the state of step x
    active,     \* the speculations run is waiting for
    loop,       \* where run is
    k,          \* the position of startReady's scan
    cancelled,
    quiesced    \* why the pipeline quiesced, or "no"

queueVars == <<order, entry, active, loop, k, cancelled, quiesced>>
pipelineVars == <<fenceVars, queueVars>>

PipeInit == /\ FenceInit
        /\ order = <<>>
        /\ entry = [x \in Request |-> "absent"]
        /\ active = {}
        /\ loop = "collecting" /\ k = 1
        /\ cancelled = FALSE /\ quiesced = "no"

AtTurn == loop \in {"top", "scan"}

\* drain.  Mutant: nothing.
DrainedNot == entry
Drained == [x \in Request |-> IF entry[x] = "queued" THEN "discarded" ELSE entry[x]]

\* Mutant of WaitOrEnd: a race of no promises never settles.
WaitAnyway == "await"
WaitOrEnd == IF active = {} THEN "done" ELSE "await"

-----------------------------------------------------------------------------

\* enqueue; a step it does not accept changes nothing.
Enqueue(x) ==
    /\ loop = "collecting" /\ ~ cancelled
    /\ entry[x] = "absent" /\ x \in Admissible /\ Len(order) < MaxSteps
    /\ order' = Append(order, x)
    /\ entry' = [entry EXCEPT ![x] = "queued"]
    /\ UNCHANGED <<fenceVars, active, loop, k, cancelled, quiesced>>

Cancel ==
    /\ ~ AtTurn /\ ~ cancelled /\ quiesced = "no"
    /\ cancelled' = TRUE
    /\ UNCHANGED <<fenceVars, order, entry, active, loop, k, quiesced>>

Run ==
    /\ loop = "collecting"
    /\ loop' = "top"
    /\ UNCHANGED <<fenceVars, order, entry, active, k, cancelled, quiesced>>

\* Mutant: a cancelled pipeline goes on.
StoppedIfQuiesced == quiesced # "no"
Stopped == cancelled \/ quiesced # "no"

\* Stopped before this turn: drain, and wait for what is under way.
TurnStopped ==
    /\ loop = "top" /\ Stopped
    /\ entry' = IF cancelled THEN Drained ELSE entry
    /\ loop' = WaitOrEnd
    /\ UNCHANGED <<fenceVars, order, active, k, cancelled, quiesced>>

OverTime ==
    /\ loop = "top" /\ quiesced = "no"
    /\ quiesced' = "duration_cap"
    /\ entry' = Drained
    /\ loop' = WaitOrEnd
    /\ UNCHANGED <<fenceVars, order, active, k, cancelled>>

TurnScans ==
    /\ loop = "top" /\ ~ Stopped
    /\ loop' = "scan" /\ k' = 1
    /\ UNCHANGED <<fenceVars, order, entry, active, cancelled, quiesced>>

\* startReady leaves its loop at the first entry that is not queued.  Its branch
\* for a dependency that was discarded is never taken (ScanSeesNoFailure).
Scanning ==
    /\ k <= Len(order)
    /\ Cardinality(active) < MaxConcurrency
    /\ entry[order[k]] = "queued"

\* Mutant: the dependencies are not looked at.
AnythingStarts(x) == TRUE
MayStart(x) == \A y \in DependsOn[x] : entry[y] = "promoted"

ScanPasses ==
    /\ loop = "scan" /\ Scanning /\ ~ MayStart(order[k])
    /\ k' = k + 1
    /\ UNCHANGED <<fenceVars, order, entry, active, loop, cancelled, quiesced>>

ScanStarts ==
    /\ loop = "scan" /\ Scanning /\ MayStart(order[k])
    /\ entry' = [entry EXCEPT ![order[k]] = "running"]
    /\ active' = active \cup {order[k]}
    /\ Speculate(order[k])
    /\ k' = k + 1
    /\ UNCHANGED <<order, loop, cancelled, quiesced>>

\* With nothing under way, whatever is still queued is taken for a cycle.
ScanEnds ==
    LET stuck == active = {} /\ \E x \in Request : entry[x] = "queued" IN
    /\ loop = "scan" /\ ~ Scanning
    /\ quiesced' = IF stuck THEN "cycle_detected" ELSE quiesced
    /\ entry' = IF stuck THEN Drained ELSE entry
    /\ loop' = WaitOrEnd
    /\ UNCHANGED <<fenceVars, order, active, k, cancelled>>

\* Promise.race: a speculation that has settled.
StepPromotes(x) ==
    /\ loop = "await" /\ x \in active /\ call[x] = "promoted"
    /\ active' = active \ {x}
    /\ entry' = [entry EXCEPT ![x] = "promoted"]
    /\ loop' = "top"
    /\ UNCHANGED <<fenceVars, order, k, cancelled, quiesced>>

\* Mutant: the pipeline goes on after a failure.
Unquiesced(why) == UNCHANGED quiesced
Quiesce(why) == quiesced' = IF quiesced = "no" THEN why ELSE quiesced

StepFails(x) ==
    /\ loop = "await" /\ x \in active /\ call[x] = "discarded"
    /\ active' = active \ {x}
    /\ entry' = [Drained EXCEPT ![x] = "discarded"]
    /\ Quiesce("step_failed")
    /\ loop' = "top"
    /\ UNCHANGED <<fenceVars, order, k, cancelled>>

Turn == TurnStopped \/ OverTime \/ TurnScans \/ ScanPasses \/ ScanStarts \/ ScanEnds
Outside(x) == ~ AtTurn /\ FenceStep(x) /\ UNCHANGED queueVars

PipeNext == \/ Cancel \/ Run \/ Turn
        \/ \E x \in Request : Enqueue(x) \/ StepPromotes(x) \/ StepFails(x) \/ Outside(x)

PipeSpec == PipeInit /\ [][PipeNext]_pipelineVars

\* The loop runs when it can.  A dispatch is timed out if it does not answer; that
\* promoteShadow settles is assumed of the host.
FairPipeSpec ==
    PipeSpec /\ WF_pipelineVars(Turn)
         /\ \A x \in Request :
              /\ WF_pipelineVars(StepPromotes(x) \/ StepFails(x))
              /\ WF_pipelineVars(Outside(x) /\ call'[x] # call[x])

-----------------------------------------------------------------------------
(* Properties. *)

PipeTypeOK ==
    /\ FenceTypeOK
    /\ order \in Seq(Request)
    /\ entry \in [Request -> {"absent", "queued", "running", "promoted", "discarded"}]
    /\ active \subseteq Request
    /\ loop \in {"collecting", "top", "scan", "await", "done"}
    /\ k \in Nat
    /\ cancelled \in BOOLEAN
    /\ quiesced \in {"no", "duration_cap", "cycle_detected", "step_failed"}

\* README.md:36-37: dependencies must promote before a child starts.
DependenciesFirst ==
    \A x \in Request : entry[x] \in {"running", "promoted"} =>
        \A y \in DependsOn[x] : entry[y] = "promoted"

\* README.md:37-38: once it is cancelled or quiesced the pipeline starts nothing,
\* and a child of the step that failed least of all.
NothingStartsOnceStopped ==
    [][cancelled \/ quiesced # "no" =>
         \A x \in Request : entry'[x] = "running" => entry[x] = "running"]_pipelineVars

\* A failure stops the pipeline before the next scan, so a scan never comes upon
\* a step that was discarded (speculative-pipeline.ts:120-124, 138).
ScanSeesNoFailure ==
    loop = "scan" => \A x \in Request : entry[x] # "discarded"

\* README.md:37-38: at the end of a run every step that was queued is accounted
\* for: promoted by its own speculation, or discarded.
Accounted ==
    /\ loop = "done" => \A x \in Request : entry[x] \notin {"queued", "running"}
    /\ \A x \in Request : entry[x] = "promoted" => call[x] = "promoted"
    /\ active = {x \in Request : entry[x] = "running"}

\* The budgets bound the run: it ends, whatever its steps do.
RunEnds == loop = "top" ~> loop = "done"

\* README.md:37-38 names a cycle among the causes that drain queued work: the
\* pipeline reports one only where no queued step could ever start.
CycleMeansCycle ==
    [][quiesced = "no" /\ quiesced' = "cycle_detected" =>
         \A x \in Request : entry[x] = "queued" => ~ MayStart(x)]_pipelineVars

\* The fence of the queue: a slot is neither leaked nor given back twice, however a
\* dispatch ends (effect-fenced-speculation.ts:110-117), and only what is permitted is
\* ever at work (:108).
FenceHolds == BudgetKept /\ OnlyPermittedAtWork
\* Each step of the queue is promoted by its own speculation and after those it depends
\* on, or discarded, and no scan comes upon a failure (speculative-pipeline.ts:105-149).
StepsAccounted == DependenciesFirst /\ Accounted /\ ScanSeesNoFailure
=============================================================================
