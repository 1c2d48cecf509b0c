------------------------------ MODULE BenchCells ------------------------------
(***************************************************************************)
(* A plan of commands, the cells that come of it                           *)
(* (packages/bench/src/command-driver.ts and spec.ts) and the M3 gate over *)
(* them (accounting.ts and gate.ts).                                       *)
(*                                                                         *)
(* An entry has task, phase, repetition, repetitions, id and usage, of     *)
(* which the last four may be None.  What its command does is given with   *)
(* it: ok (it exits with 0), writes (the manifest and trajectory it leaves *)
(* under its id, or None) and sidecar (the usage it leaves, or None).  A   *)
(* manifest has outcome, tokens and calls; usage is a sequence of records  *)
(* of input, read, write and output.                                       *)
(***************************************************************************)
EXTENDS BenchStats

CONSTANT LowerCase   \* what a task's name is in lower case

-----------------------------------------------------------------------------
(* parseCommandBenchmarkPlan, runCommandBenchmarkPlan.                      *)

Refuses(entry) ==
    \/ (entry.repetition = None) = (entry.repetitions = None)
    \/ entry.repetitions # None /\ (entry.id # None \/ entry.usage # None)
Expanded(entry) ==
    IF entry.repetitions = None THEN <<entry>>
    ELSE [n \in 1 .. entry.repetitions |-> [entry EXCEPT !.repetition = n]]
ParsePlan(entries) == IF \E i \in DOMAIN entries : Refuses(entries[i]) THEN <<>> ELSE FlattenSeq([i \in DOMAIN entries |-> Expanded(entries[i])])

\* Mutant: the id leaves out which repetition it is.
IdOfTask(run) == <<LowerCase[run.task], run.phase, 1>>
DefaultRunId(run) == <<LowerCase[run.task], run.phase, run.repetition>>
RunId(run) == Or(run.id, DefaultRunId(run))
UsageFile(run) == Or(run.usage, RunId(run))

\* One command, over what the store has and the specification written so far.  It fails, or
\* it leaves nothing that can be read, or its run is listed by its id.
Listed(run, id, usage) == [task |-> run.task, phase |-> run.phase, n |-> run.repetition, id |-> id, usage |-> usage]
RunCommand(run, done, did) ==
    LET manifests == IF did.writes = None THEN done.manifests ELSE (RunId(run) :> did.writes) @@ done.manifests
        sidecars == IF did.sidecar = None THEN done.sidecars ELSE (UsageFile(run) :> did.sidecar) @@ done.sidecars
        found == did.ok /\ RunId(run) \in DOMAIN manifests
        row == IF found THEN Listed(run, RunId(run), IF UsageFile(run) \in DOMAIN sidecars THEN UsageFile(run) ELSE None)
               ELSE Listed(run, None, None)
    IN  [manifests |-> manifests, sidecars |-> sidecars, spec |-> Append(done.spec, row)]
RunPlan(runs, did, store) ==
    FoldLeft(LAMBDA done, i : RunCommand(runs[i], done, did[i]), [manifests |-> store, sidecars |-> [x \in {} |-> None], spec |-> <<>>],
             [i \in DOMAIN runs |-> i])

\* cellsFromSpec reads the store once all commands have run.
CellsFromSpec(done) ==
    LET manifest(row) == [done.manifests[row.id] EXCEPT
                             !.tokens = IF row.usage = None THEN @ ELSE @ \o done.sidecars[row.usage]]
        cell(row) == [task |-> row.task, phase |-> row.phase, n |-> row.n, manifest |-> IF row.id = None THEN None ELSE manifest(row)]
    IN  [i \in DOMAIN done.spec |-> cell(done.spec[i])]

-----------------------------------------------------------------------------
(* buildBenchReport, evaluateM3Gate.  A cell succeeds when it has a         *)
(* manifest, whatever outcome that states; tokens of the cache are left out. *)

Billed(usage) == usage.input + usage.output
CellTokens(cell) == Total([i \in DOMAIN cell.manifest.tokens |-> Billed(cell.manifest.tokens[i])])
Read(cells) == SelectSeq(cells, LAMBDA c : c.manifest # None)
Of(cells, task, phase) == SelectSeq(cells, LAMBDA c : c.task = task /\ c.phase = phase)
RowTokens(cells) == LET read == Read(cells) IN Mean([i \in DOMAIN read |-> CellTokens(read[i])])
Compared(cells) == {t \in {c.task : c \in ToSet(cells)} : \A p \in {"cold", "warm"} : Of(cells, t, p) # <<>>}
RatioReduction(baseline, current) == Max({0, Reduction(current, baseline)})

\* Mutant: whether the warm runs succeed as often is not asked.
AnyRate(cold, warm) == FALSE
LosesSuccess(cold, warm) == Len(Read(warm)) * Len(cold) < Len(Read(cold)) * Len(warm)
TaskPasses(cells, task, floor) ==
    LET cold == Of(cells, task, "cold")
        warm == Of(cells, task, "warm")
    IN  ~ LosesSuccess(cold, warm) /\ RatioReduction(RowTokens(cold), RowTokens(warm)) >= floor
EvaluateM3Gate(cells, floor) == Compared(cells) # {} /\ \A t \in Compared(cells) : TaskPasses(cells, t, floor)

-----------------------------------------------------------------------------

\* Of the runs of a plan none is left out of the report, in the order of the plan; and in
\* a store that had nothing, unless two runs share an id, each is judged by what it left
\* itself, with its own usage.
CellsAreTheirRuns(entries, did) ==
    LET runs == ParsePlan(entries)
        cells == CellsFromSpec(RunPlan(runs, did, [x \in {} |-> None]))
        own(x) == [x.writes EXCEPT !.tokens = IF x.sidecar = None THEN @ ELSE @ \o x.sidecar]
        alone(i) == \A j \in DOMAIN runs : j = i \/ {RunId(runs[j]), UsageFile(runs[j])} \cap {RunId(runs[i]), UsageFile(runs[i])} = {}
        distinct == \A e, f \in DOMAIN entries : e # f =>
            LowerCase[entries[e].task] # LowerCase[entries[f].task] \/ entries[e].phase # entries[f].phase
    IN  /\ Len(cells) = Len(runs)
        /\ \A i \in DOMAIN runs :
             /\ <<cells[i].task, cells[i].phase, cells[i].n>> = <<runs[i].task, runs[i].phase, runs[i].repetition>>
             /\ (alone(i) \/ (distinct /\ \A e \in DOMAIN entries : entries[e].id = None /\ entries[e].usage = None)) =>
                  cells[i].manifest = IF did[i].ok /\ did[i].writes # None THEN own(did[i]) ELSE None

\* Another warm run that fails, or one that costs more, never turns a failed gate, and a
\* failure beside cold runs that all succeeded always turns a passed one.
WorseNeverPasses(cells, floor) ==
    LET failed(t) == Append(cells, [task |-> t, phase |-> "warm", n |-> 0, manifest |-> None])
        dearer(i) == [cells EXCEPT ![i].manifest.tokens = Append(@, [input |-> 5, read |-> 0, write |-> 0, output |-> 0])]
        beaten(t) == LET cold == Read(Of(cells, t, "cold")) IN \E i \in DOMAIN cold : CellTokens(cold[i]) > 0
    IN  /\ ~ EvaluateM3Gate(cells, floor) =>
             /\ \A t \in Compared(cells) : ~ EvaluateM3Gate(failed(t), floor)
             /\ \A i \in DOMAIN cells : cells[i].phase = "warm" /\ cells[i].manifest # None => ~ EvaluateM3Gate(dearer(i), floor)
        /\ EvaluateM3Gate(cells, floor) => \A t \in Compared(cells) :
             /\ floor > 0 => beaten(t)
             /\ Read(Of(cells, t, "cold")) = Of(cells, t, "cold") => ~ EvaluateM3Gate(failed(t), floor)
=============================================================================
