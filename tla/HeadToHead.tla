------------------------------ MODULE HeadToHead ------------------------------
(***************************************************************************)
(* The comparison of harnesses, its launch gate and the audited G2 report  *)
(* (packages/bench/src/headhead-assembler.ts, competitor.ts,               *)
(* competitor-gate.ts, t0-campaign.ts and g2-report.ts).                   *)
(*                                                                         *)
(* A neutral record has harness, task, n, success, tokens (a record of     *)
(* input, read, write and output), model and adjusted.  The phase and the  *)
(* duration are left out: nothing that decides looks at either.            *)
(***************************************************************************)
EXTENDS BenchStats

NoTokens == [input |-> 0, read |-> 0, write |-> 0, output |-> 0]
Sum(s, t) == [x \in DOMAIN s |-> s[x] + t[x]]

\* roteRecordsFromCells: a failed cell has no tokens and counts as an attempt.
RecordFromCell(cell, source) ==
    [harness |-> source.harness, task |-> cell.task, n |-> cell.n, model |-> source.model, adjusted |-> source.adjusted,
     success |-> cell.manifest # None /\ cell.manifest.outcome = "success",
     tokens |-> IF cell.manifest = None THEN NoTokens ELSE FoldSeq(Sum, NoTokens, cell.manifest.tokens)]

\* competitorRecordsFromRaw: repetitions are counted from the last one that was given.
Numbered(raw) ==
    LET number(done, run) == Or(run.n, Or(done.next[run.task], 0))
        step(done, run) == [next |-> [done.next EXCEPT ![run.task] = number(done, run) + 1],
                            runs |-> Append(done.runs, [run EXCEPT !.n = number(done, run)])]
    IN  FoldLeft(step, [next |-> [t \in {r.task : r \in ToSet(raw)} |-> None], runs |-> <<>>], raw).runs
RecordFromRaw(run, source) ==
    [harness |-> source.harness, task |-> run.task, n |-> run.n, model |-> source.model, adjusted |-> source.adjusted,
     success |-> run.success, tokens |-> run.tokens]
CompetitorRecords(raw, source) == LET runs == Numbered(raw) IN [i \in DOMAIN runs |-> RecordFromRaw(runs[i], source)]

\* assembleHeadToHeadRecords: a file with a record of another harness than its own is
\* refused.  A file is a harness and records.
\* Mutant: only the first record of a file is looked at.
FirstIsOwn(file) == file.records # <<>> => file.records[1].harness = file.harness
Labelled(file) == \A i \in DOMAIN file.records : file.records[i].harness = file.harness
Assemble(files) == IF \A i \in DOMAIN files : Labelled(files[i]) THEN FlattenSeq([i \in DOMAIN files |-> files[i].records]) ELSE <<>>

-----------------------------------------------------------------------------
(* summarizeHarnessRuns, buildHeadToHead.  Mixed groups throw.              *)

GroupOf(records, task, harness) == SelectSeq(records, LAMBDA r : r.task = task /\ r.harness = harness)
Mixed(group) == \E i, j \in DOMAIN group : group[i].model # group[j].model \/ group[i].adjusted # group[j].adjusted
Successes(group) == SelectSeq(group, LAMBDA r : r.success)
AllTokens(r) == r.tokens.input + r.tokens.read + r.tokens.write + r.tokens.output
\* None when a run that succeeded has no price.
CostOf(done, table) ==
    IF done = <<>> \/ \E i \in DOMAIN done : PriceForModel(done[i].model, table) = None THEN None
    ELSE Mean([i \in DOMAIN done |-> RunCost(done[i].tokens, PriceForModel(done[i].model, table))])
Summary(group, table) ==
    LET done == Successes(group)
    IN  [model |-> group[1].model, adjusted |-> group[1].adjusted, runs |-> Len(group), successes |-> Len(done),
         totals |-> [i \in DOMAIN done |-> AllTokens(done[i])], cost |-> CostOf(done, table)]

Groups(records) == {<<r.task, r.harness>> : r \in ToSet(records)}
Throws(records) == records = <<>> \/ \E g \in Groups(records) : Mixed(GroupOf(records, g[1], g[2]))
Comparison(records, table, subject, task, harness) ==
    LET s == Summary(GroupOf(records, task, subject), table)
        b == Summary(GroupOf(records, task, harness), table)
    IN  [task |-> task, subject |-> s, baseline |-> b, parity |-> s.successes * b.runs >= b.successes * s.runs,
         tokens |-> Reduction(Mean(s.totals), Mean(b.totals)),
         cost |-> IF None \in {s.cost, b.cost} THEN None ELSE Reduction(s.cost, b.cost)]
\* A task that the subject did not run is passed over.
BuildHeadToHead(records, table, subject) ==
    {Comparison(records, table, subject, g[1], g[2]) : g \in {x \in Groups(records) : x[2] # subject /\ <<x[1], subject>> \in Groups(records)}}

-----------------------------------------------------------------------------
(* evaluateLaunchGate.                                                      *)

\* Mutant: how many runs succeeded is not asked.
AnyNumber(c, min) == {}
Insufficient(c, min) == {x \in {"runs"} : \E h \in {c.subject, c.baseline} : Len(h.totals) < min}
Reasons(c, floor, min, stream, confidence) ==
    {x \in {"parity"} : ~ c.parity} \cup {x \in {"model"} : c.subject.model # c.baseline.model}
    \cup {x \in {"adjusted"} : ~ (c.subject.adjusted /\ c.baseline.adjusted)} \cup Insufficient(c, min)
    \cup {x \in {"range"} : IndependentInterval(c.subject.totals, c.baseline.totals, stream, confidence).lower < floor}
EvaluateLaunchGate(comparisons, floor, min, stream, confidence) ==
    comparisons # {} /\ \A c \in comparisons : Reasons(c, floor, min, stream, confidence) = {}

-----------------------------------------------------------------------------

Launches(files, table, subject, floor, min, stream, confidence) ==
    LET records == Assemble(files)
    IN  ~ Throws(records) /\ EvaluateLaunchGate(BuildHeadToHead(records, table, subject), floor, min, stream, confidence)

\* A launch rests on every record of every file, each of the harness its file is of; one
\* that failed, or one that took more tokens, does not help the subject, nor does a
\* baseline that needed fewer.
LaunchIsEarned(files, table, subject, floor, min, stream, confidence) ==
    LET launches(other) == Launches(other, table, subject, floor, min, stream, confidence)
        failed(k, i) == [files EXCEPT ![k].records = Append(@, [@[i] EXCEPT !.success = FALSE, !.tokens = NoTokens])]
        dearer(k, i, by) == [files EXCEPT ![k].records[i].tokens.read = @ + by]
        records == FlattenSeq([k \in DOMAIN files |-> files[k].records])
        done(r) == Cardinality({i \in DOMAIN records : records[i].success /\ records[i].task = r.task /\ records[i].harness = r.harness})
        pairs == {p \in ToSet(records) \X ToSet(records) : p[1].task = p[2].task /\ p[1].harness = subject /\ p[2].harness # subject}
    IN  /\ launches(files) =>
             /\ \A k \in DOMAIN files : \A r \in ToSet(files[k].records) : r.harness = files[k].harness
             /\ pairs # {}
             /\ \A p \in pairs : done(p[1]) >= min /\ done(p[2]) >= min /\ p[1].model = p[2].model /\ p[2].adjusted
        /\ ~ launches(files) /\ Assemble(files) # <<>> => \A k \in DOMAIN files : \A i \in DOMAIN files[k].records :
             /\ files[k].harness = subject => ~ launches(failed(k, i)) /\ ~ launches(dearer(k, i, 4))
             /\ files[k].harness # subject /\ files[k].records[i].tokens.read > 0 => ~ launches(dearer(k, i, -1))

-----------------------------------------------------------------------------
(* The audit of the paired T0 rows (packages/bench/src/t0-campaign.ts).      *)
(*                                                                           *)
(* A row has n (its repetition), phase, concluded, verified, tags, usage     *)
(* (records of source and tokens), cost, duration and pricing.  What the     *)
(* code throws is a refusal.                                                 *)

CONSTANT Repetitions   \* 15 in the code

Stages(phase) == IF phase = "cold" THEN {"planner", "verify"} ELSE {"distill", "matcher", "verify"}
ValidRow(row) == row.n \in 1 .. Repetitions /\ row.tags # {} /\ \A u \in ToSet(row.usage) : u.source \in row.tags

\* Mutant: a second row of a phase replaces the first.
Unrepeated(rows) == TRUE
Distinct(rows) == \A i, j \in DOMAIN rows : <<rows[i].n, rows[i].phase>> = <<rows[j].n, rows[j].phase>> => i = j
Refuses(rows) ==
    \/ \E i \in DOMAIN rows : ~ ValidRow(rows[i])
    \/ ~ Distinct(rows)
    \/ \E i, j \in DOMAIN rows : rows[i].pricing # rows[j].pricing
    \/ {<<r.n, r.phase>> : r \in ToSet(rows)} # (1 .. Repetitions) \X {"cold", "warm"}
    \/ \E r \in ToSet(rows) : ~ (Stages(r.phase) \subseteq r.tags)

RowAt(rows, n, phase) == CHOOSE r \in ToSet(rows) : r.n = n /\ r.phase = phase
Succeeded(row) == row.concluded /\ row.verified
LogicalInput(row) == Total([i \in DOMAIN row.usage |-> row.usage[i].tokens])
SuccessesOf(rows, phase) == {n \in 1 .. Repetitions : Succeeded(RowAt(rows, n, phase))}
Pairs(rows) == SuccessesOf(rows, "cold") \cap SuccessesOf(rows, "warm")
Parity(rows) == Cardinality(SuccessesOf(rows, "cold")) = Cardinality(SuccessesOf(rows, "warm"))
Certifiable(rows) == Pairs(rows) = 1 .. Repetitions /\ Parity(rows)

\* The three reductions are drawn alike; the gate looks at the first.
IntervalBy(rows, Measure(_), stream, confidence) ==
    LET side(phase) == [n \in 1 .. Repetitions |-> Measure(RowAt(rows, n, phase))]
    IN  MatchedInterval(side("warm"), side("cold"), stream, confidence)
AuditT0Campaign(rows, stream, confidence) ==
    LET inputs == IntervalBy(rows, LogicalInput, stream, confidence)
        costs == IntervalBy(rows, LAMBDA r : r.cost, stream, confidence)
    IN  IF Refuses(rows) THEN [refused |-> TRUE, certifiable |-> FALSE, passed |-> FALSE, cost |-> NoInterval]
        ELSE [refused |-> FALSE, certifiable |-> Certifiable(rows), passed |-> Certifiable(rows) /\ inputs.lower >= 800,
              cost |-> IF Certifiable(rows) THEN costs ELSE NoInterval]

-----------------------------------------------------------------------------

\* Every row stays in the denominator: without one of them, with one of them twice or with
\* one unverified nothing passes, and their order says nothing.
RowsStayCounted(rows, stream, confidence) ==
    LET audit(some) == AuditT0Campaign(some, stream, confidence)
    IN  /\ \A i \in DOMAIN rows :
             /\ ~ audit(RemoveAt(rows, i)).passed \/ audit(rows).refused
             /\ ~ audit(Append(rows, rows[i])).passed
             /\ ~ audit([rows EXCEPT ![i].verified = FALSE]).passed
             /\ rows[i].phase = "warm" /\ ~ audit(rows).passed =>
                  ~ audit([rows EXCEPT ![i].usage = Append(@, [source |-> "verify", tokens |-> 3])]).passed
        /\ audit(Reverse(rows)) = audit(rows)

-----------------------------------------------------------------------------
(* The G2 report (packages/bench/src/g2-report.ts), of one model.            *)
(*                                                                           *)
(* Evidence e has records, the manifests and dumps they are drawn from, a    *)
(* protocol (v1 to v3), min (Repetitions or more) and table.  A manifest has  *)
(* task, n, success and usage (a sequence of tokens); a dump task, n,         *)
(* success, tokens, concluded, visible, exact, version and receipts (model,   *)
(* prompt, read, write, five, hour and output).  A throw is a Refusal.        *)

Subject == "rote"
Rival == "browser-use"
G2Tasks == {"B1", "B2", "B3"}
G2Model == "gpt-4.1-mini"
VersionOf(protocol) == IF protocol = "v3" THEN "0.13.7" ELSE "0.13.6"

Identity(x) == <<x.task, x.n>>
OfHarness(records, harness) == SelectSeq(records, LAMBDA r : r.harness = harness)
Identities(s) == {Identity(x) : x \in ToSet(s)}
MatrixHolds(records) ==
    /\ \A r \in ToSet(records) : r.task \in G2Tasks /\ r.harness \in {Subject, Rival} /\ r.model = G2Model /\ r.adjusted
    /\ IsInjective([i \in DOMAIN records |-> <<records[i].harness, Identity(records[i])>>])
InScope(records, protocol) ==
    LET tasks == {r.task : r \in ToSet(records)}
    IN  CASE protocol = "v1" -> tasks = G2Tasks [] protocol = "v2" -> "B2" \in tasks [] protocol = "v3" -> tasks = {"B2"}

Backed(x, records, harness, tokens) ==
    \E r \in ToSet(OfHarness(records, harness)) : Identity(r) = Identity(x) /\ r.success = x.success /\ r.tokens = tokens
ManifestAgrees(m, records) ==
    m.success /\ m.usage # <<>> /\ Backed(m, records, Subject, FoldSeq(Sum, NoTokens, m.usage))

Counts(receipt) ==
    /\ receipt.model = G2Model /\ receipt.hour = 0 /\ 0 \in {receipt.write, receipt.five}
    /\ receipt.read + receipt.write + receipt.five <= receipt.prompt
Received(receipt) ==
    LET write == receipt.write + receipt.five
    IN  [input |-> receipt.prompt - receipt.read - write, read |-> receipt.read, write |-> write, output |-> receipt.output]
\* Mutant: the dump's own sums are believed.
SaysSo(d) == TRUE
Reconciled(d) == d.tokens = FoldSeq(Sum, NoTokens, [i \in DOMAIN d.receipts |-> Received(d.receipts[i])])
DumpAgrees(d, records, protocol) ==
    /\ d.version = VersionOf(protocol) /\ d.receipts # <<>>
    /\ d.success => d.concluded /\ d.visible
    /\ protocol \in {"v2", "v3"} /\ d.task = "B2" => d.exact
    /\ \A i \in DOMAIN d.receipts : Counts(d.receipts[i])
    /\ Reconciled(d) /\ Backed(d, records, Rival, d.tokens)

\* Two manifests of one run are not refused.
EvidenceAgrees(e) ==
    /\ \A m \in ToSet(e.manifests) : ManifestAgrees(m, e.records)
    /\ \A d \in ToSet(e.dumps) : DumpAgrees(d, e.records, e.protocol)
    /\ Identities(e.manifests) = Identities(OfHarness(e.records, Subject))
    /\ Identities(e.dumps) = Identities(OfHarness(e.records, Rival)) /\ Len(e.dumps) = Cardinality(Identities(e.dumps))

ByRepetition(records, task, harness) ==
    SortSeq(Successes(GroupOf(records, task, harness)), LAMBDA r, s : r.n < s.n)
\* Mutant: as many on either side.
SameNumber(s, b) == Len(s) = Len(b)
MatchedRepetitions(s, b) == Len(s) = Len(b) /\ \A i \in DOMAIN s : s[i].n = b[i].n
G2Refused(e, compared) ==
    \/ e.min < Repetitions \/ ~ MatrixHolds(e.records) \/ ~ InScope(e.records, e.protocol) \/ ~ EvidenceAgrees(e)
    \/ compared = {}
    \/ \E c \in compared : \/ None \in {c.subject.cost, c.baseline.cost}
                          \/ ~ MatchedRepetitions(ByRepetition(e.records, c.task, Subject), ByRepetition(e.records, c.task, Rival))

TokenReduction(e, task, stream, confidence) ==
    LET totals(harness) == LET runs == ByRepetition(e.records, task, harness) IN [i \in DOMAIN runs |-> AllTokens(runs[i])]
    IN  MatchedInterval(totals(Subject), totals(Rival), stream, confidence)
Refusal == [passed |-> FALSE, tasks |-> {}]
Certified(e, compared, stream, confidence) ==
    LET lower == [t \in {c.task : c \in compared} |-> TokenReduction(e, t, stream, confidence).lower]
    IN  IF G2Refused(e, compared) THEN Refusal
        ELSE [passed |-> EvaluateLaunchGate(compared, 0, e.min, stream, confidence) /\ \A t \in DOMAIN lower : lower[t] > 0,
              tasks |-> {[task |-> t, lower |-> lower[t], clears |-> lower[t] >= 800] : t \in DOMAIN lower}]
BuildG2Report(e, stream, confidence) == Certified(e, BuildHeadToHead(e.records, e.table, Subject), stream, confidence)

-----------------------------------------------------------------------------

Shortened(s) == {RemoveAt(s, i) : i \in DOMAIN s}

\* A report rests on all of its evidence: with a record, a dump or the only manifest of a
\* run missing, a dump twice, or a token more in a record or a receipt there is none.  A
\* task is reported only if every attempt of Rote at it succeeded and the rival's at the
\* same repetitions; and the order of the evidence changes no figure.
ReportRestsOnEvidence(e, stream, confidence) ==
    LET lone(i) == \A j \in DOMAIN e.manifests \ {i} : Identity(e.manifests[j]) # Identity(e.manifests[i])
        incomplete == {[e EXCEPT !.records = s] : s \in Shortened(e.records)} \cup {[e EXCEPT !.dumps = s] : s \in Shortened(e.dumps)}
                          \cup {[e EXCEPT !.manifests = RemoveAt(@, i)] : i \in {k \in DOMAIN e.manifests : lone(k)}}
        altered == {[e EXCEPT !.records[i].tokens.read = @ + 1] : i \in DOMAIN e.records}
                       \cup {[e EXCEPT !.dumps[i].receipts[1].output = @ + 1] : i \in DOMAIN e.dumps}
                       \cup {[e EXCEPT !.dumps = Append(@, @[i])] : i \in DOMAIN e.dumps}
        reversed == [e EXCEPT !.records = Reverse(@), !.dumps = Reverse(@), !.manifests = Reverse(@)]
        reports == [x \in {e, reversed} \cup incomplete \cup altered |-> BuildG2Report(x, stream, confidence)]
    IN  reports[e] # Refusal =>
            /\ \A x \in incomplete \cup altered : reports[x] = Refusal
            /\ \A r \in ToSet(e.records) : r.task \in {t.task : t \in reports[e].tasks} =>
                   r.success \/ Identity(r) \notin Identities(OfHarness(e.records, Subject))
            /\ reports[reversed].tasks = reports[e].tasks
=============================================================================
