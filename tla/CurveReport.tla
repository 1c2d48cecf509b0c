----------------------------- MODULE CurveReport -----------------------------
(***************************************************************************)
(* The published curve of cumulative tokens over the length of a task: its *)
(* protocol and receipts (packages/bench/src/curve-protocol.ts) and the    *)
(* audited report (curve-report.ts).                                       *)
(*                                                                         *)
(* A receipt has harness, protocol, model, kind, run, task, repetition,    *)
(* target (steps), step, usage and sum (records of the buckets input and   *)
(* cached), outcome ("continued", "success", "failure") and verified.      *)
(* What the code throws at the first time is a set of refusals here; every *)
(* run of a task is taken to name the same target.                         *)
(***************************************************************************)
EXTENDS BenchStats

Buckets == {"input", "cached"}
Logical(usage) == usage.input + usage.cached
NoUsage == [x \in Buckets |-> 0]

\* CurveCheckpointSchema: the interactions an operation takes at least.
ExpectedSteps(mode, count) ==
    CASE mode = "create_tag_each" -> 4 * count + 5
      [] mode = "review_title_each" -> 4 * count + 4
      [] mode = "single_bulk" -> count + 6
ValidCheckpoint(c) ==
    /\ c.target = ExpectedSteps(c.mode, c.count) /\ c.expected = c.count
    /\ Len(IF c.mode = "create_tag_each" THEN c.tags ELSE c.titles) = c.count
    /\ c.mode = "create_tag_each" => c.titles = <<>>
ValidCurve(protocol) ==
    /\ Len(protocol.checkpoints) >= 2
    /\ \A i \in DOMAIN protocol.checkpoints : ValidCheckpoint(protocol.checkpoints[i])
    /\ \A i, j \in DOMAIN protocol.checkpoints : i < j =>
         /\ protocol.checkpoints[i].id # protocol.checkpoints[j].id
         /\ protocol.checkpoints[i].target < protocol.checkpoints[j].target

\* assertCurveSequences: the receipts of a run of a harness, as they were read.
Before(records, i) ==
    {j \in 1 .. i - 1 : records[j].harness = records[i].harness /\ records[j].run = records[i].run}
Parses(records) ==
    \A i \in DOMAIN records :
        LET previous == IF Before(records, i) = {} THEN [step |-> 0, sum |-> NoUsage] ELSE records[Max(Before(records, i))]
        IN  /\ records[i].step = previous.step + 1
            /\ \A x \in Buckets : records[i].sum[x] = previous.sum[x] + records[i].usage[x]
            /\ records[i].kind = "dry_run" => records[i].usage = NoUsage /\ records[i].sum = NoUsage

-----------------------------------------------------------------------------
(* auditRuns.                                                               *)

RunsIn(records) == {r.run : r \in ToSet(records)}
RowsOf(records, run) == SelectSeq(records, LAMBDA r : r.run = run)
Place(row) == <<row.task, row.repetition, row.target>>

\* Mutant: where the run ends is not looked at.
EndsAnywhere(rows) == Last(rows).outcome = "success" => Last(rows).verified
EndsProperly(rows) ==
    /\ \A i \in DOMAIN rows : (rows[i].outcome = "continued") = (i < Len(rows))
    /\ Last(rows).outcome = "success" => Last(rows).verified
RunRefusals(rows) ==
    {x \in {"identity"} : \E i \in DOMAIN rows : Place(rows[i]) # Place(rows[1])}
    \cup {x \in {"steps"} : \E i \in DOMAIN rows : rows[i].step # i}
    \cup {x \in {"usage"} : \E i \in DOMAIN rows, b \in Buckets :
             rows[i].sum[b] # Total([k \in 1 .. i |-> rows[k].usage[b]])}
    \cup {x \in {"end"} : ~ EndsProperly(rows)}

Audited(rows) ==
    [task |-> rows[1].task, repetition |-> rows[1].repetition, target |-> rows[1].target,
     success |-> Last(rows).outcome = "success", logical |-> Logical(Last(rows).sum)]
AuditRefusals(records) ==
    LET first(run) == RowsOf(records, run)[1]
    IN  UNION {RunRefusals(RowsOf(records, run)) : run \in RunsIn(records)}
        \cup {x \in {"duplicate"} : \E r, s \in RunsIn(records) : r # s /\
                 first(r).task = first(s).task /\ first(r).repetition = first(s).repetition}
AuditRuns(records) == {Audited(RowsOf(records, run)) : run \in RunsIn(records)}

\* auditSharedIdentity: the baseline's protocol, with the suffix a subject may have.
IdentityRefusals(subject, baseline, harnesses, suffixed) ==
    LET foreign(records, harness, protocol) == \E r \in ToSet(records) :
            r.kind # "measurement" \/ r.harness # harness \/ r.protocol # protocol \/ r.model # subject[1].model
    IN  IF subject = <<>> \/ baseline = <<>> THEN {"empty"}
        ELSE {x \in {"protocol"} : subject[1].protocol # suffixed[baseline[1].protocol]}
             \cup {x \in {"mixed"} : foreign(subject, harnesses[1], subject[1].protocol)
                                     \/ foreign(baseline, harnesses[2], baseline[1].protocol)}

-----------------------------------------------------------------------------
(* buildCurveReport.                                                        *)

OfTask(runs, task) == {r \in runs : r.task = task}
\* Mutant: attempts that failed are measured as well.
Attempted(runs) == runs
Good(runs) == {r \in runs : r.success}
TaskTargets(runs) == {<<r.task, r.target>> : r \in runs}

CompleteRepetitions(subject, baseline, tasks) ==
    {n \in {r.repetition : r \in subject} : \A t \in tasks, runs \in {subject, baseline} :
        \E r \in Good(OfTask(runs, t[1])) : r.repetition = n}

CellRefusals(subject, baseline, tasks, min) ==
    LET few(t) == \E runs \in {subject, baseline} : Cardinality(Good(OfTask(runs, t[1]))) < min
        lost(t) == Cardinality(Good(OfTask(subject, t[1]))) * Cardinality(OfTask(baseline, t[1]))
                     < Cardinality(Good(OfTask(baseline, t[1]))) * Cardinality(OfTask(subject, t[1]))
    IN  {x \in {"few"} : \E t \in tasks : few(t)} \cup {x \in {"parity"} : \E t \in tasks : lost(t)}
        \cup {x \in {"unmatched"} : Cardinality(CompleteRepetitions(subject, baseline, tasks)) < min}

\* linearSlope, but for the factors both harnesses share: over a resample of repetitions.
SlopeOver(runs, tasks, sample) ==
    LET centred(t) == Cardinality(tasks) * t[2] - SumSet({s[2] : s \in tasks})
        logical(t, n) == (CHOOSE r \in Good(OfTask(runs, t[1])) : r.repetition = n).logical
    IN  MapThenSumSet(LAMBDA t : centred(t) * Total([k \in DOMAIN sample |-> logical(t, sample[k])]), tasks)

\* bootstrapSlope; nothing looks at the sign of a baseline that was resampled.
SlopeReduction(s, b) == (Parts * (b - s)) \div b
SlopeInterval(subject, baseline, tasks, stream, confidence) ==
    LET matched == SetToSortSeq(CompleteRepetitions(subject, baseline, tasks), <)
        ratio(sample) == SlopeReduction(SlopeOver(subject, tasks, sample), SlopeOver(baseline, tasks, sample))
    IN  IntervalOf(ratio(matched), [k \in DOMAIN stream |-> ratio(Draw(matched, stream[k]))], confidence)

\* The result is refused for reasons, or it has an interval and passes or not.  A slope of
\* the whole that is not positive is refused by the schema of the summary.
Refused(reasons) == [refusals |-> reasons, interval |-> NoInterval, passed |-> FALSE]
Grows(runs, tasks, matched) == SlopeOver(runs, tasks, matched) > 0
BuildCurveReport(subject, baseline, harnesses, suffixed, min, floor, stream, confidence) ==
    LET input == IdentityRefusals(subject, baseline, harnesses, suffixed) \cup AuditRefusals(subject) \cup AuditRefusals(baseline)
        s == AuditRuns(subject)
        b == AuditRuns(baseline)
        tasks == TaskTargets(s)
        matched == SetToSortSeq(CompleteRepetitions(s, b, tasks), <)
        interval == SlopeInterval(s, b, tasks, stream, confidence)
    IN  IF input # {} THEN Refused(input)
        ELSE IF tasks # TaskTargets(b) THEN Refused({"tasks"})
        ELSE IF CellRefusals(s, b, tasks, min) # {} THEN Refused(CellRefusals(s, b, tasks, min))
        ELSE IF ~ (Grows(s, tasks, matched) /\ Grows(b, tasks, matched)) THEN Refused({"schema"})
        ELSE [refusals |-> {}, interval |-> interval, passed |-> interval.lower >= floor]

-----------------------------------------------------------------------------

Accepts(report) == report.refusals = {}

\* Evidence that is accepted is whole: no receipt of a run of several can be left out, none
\* can be counted twice and no number in it be altered, without the report being refused;
\* and how the runs are interleaved in the file says nothing.
EvidenceIsUntouched(subject, baseline, Report(_, _)) ==
    LET refused(some) == ~ (Parses(some) /\ Accepts(Report(some, baseline)))
    IN  Parses(subject) /\ Accepts(Report(subject, baseline)) => \A i \in DOMAIN subject :
            /\ Len(RowsOf(subject, subject[i].run)) > 1 => refused(RemoveAt(subject, i))
            /\ refused(InsertAt(subject, i, subject[i]))
            /\ \A x \in Buckets : refused([subject EXCEPT ![i].usage[x] = @ + 1]) /\ refused([subject EXCEPT ![i].sum[x] = @ + 1])
            /\ \A j \in DOMAIN subject :
                 LET other == [subject EXCEPT ![i] = subject[j], ![j] = subject[i]]
                 IN  Parses(other) => Report(other, baseline) = Report(subject, baseline)

\* The claim rests on repetitions in which both harnesses finished every length and were
\* verified, and a failed or abandoned attempt stays in the count: none helps.
ClaimIsEarned(subject, baseline, failed, min, Report(_, _)) ==
    LET report == Report(subject, baseline)
        tasks == TaskTargets(AuditRuns(subject))
        done(records, n, t) == \E r \in ToSet(records) : r.repetition = n /\ r.task = t[1] /\ r.outcome = "success" /\ r.verified
        both == {n \in {r.repetition : r \in ToSet(subject)} : \A t \in tasks : done(subject, n, t) /\ done(baseline, n, t)}
        lost == Report(subject \o failed, baseline)
    IN  /\ report.passed => Accepts(report) /\ Cardinality(both) >= min
        /\ lost.passed => report.passed
        /\ report.passed => \A n \in both : LET slope(records) == SlopeOver(AuditRuns(records), tasks, <<n>>)
                                            IN  Cardinality(both) = 1 => slope(subject) < slope(baseline)
=============================================================================
