---------------------------- MODULE CampaignGates ----------------------------
(***************************************************************************)
(* What the runs of a campaign prove                                       *)
(* (packages/bench/src/p2-campaign-gates.ts): one verdict for each cell of *)
(* the protocol, over the matched repetitions of the two halves of its     *)
(* comparison, and the verdict on the campaign.                            *)
(***************************************************************************)
EXTENDS BenchStats

CONSTANT Floors      \* of t0, t2, routing and, below which t2 retreats, retreat: in thousandths

\* P2CampaignRunRecord, of what the gates read: the steps and the transitions are None
\* when the run did not report them.
RunRecord(cell, gate, kind, repetition, success, tokens, warm, frontier, transitions, pricing) ==
    [cell |-> cell, gate |-> gate, kind |-> kind, repetition |-> repetition, success |-> success, tokens |-> tokens,
     warm |-> warm, frontier |-> frontier, transitions |-> transitions, pricing |-> pricing]

Paired(gate) ==
    CASE gate = "t0" -> [subject |-> "warm", baseline |-> "cold"]
      [] gate = "t2" -> [subject |-> "brief_on", baseline |-> "brief_off"]
      [] gate = "routing" -> [subject |-> "routing_on", baseline |-> "routing_off"]

Of(records, cell) == SelectSeq(records, LAMBDA r : r.cell = cell.id /\ r.gate = cell.gate)
Half(records, kind) == SelectSeq(records, LAMBDA r : r.kind = kind)
Succeeded(records) == SelectSeq(records, LAMBDA r : r.success)

\* matchRepetitions: of two baselines of one repetition the last counts.
\* Mutant: a repetition is paired whatever became of its baseline.
PairedAnyhow(subject, baseline) ==
    LET others(r) == SelectSeq(baseline, LAMBDA b : b.repetition = r.repetition)
        found == SelectSeq(Succeeded(subject), LAMBDA r : others(r) # <<>>)
    IN  SortSeq([i \in DOMAIN found |-> [subject |-> found[i], baseline |-> Last(others(found[i]))]],
                LAMBDA p, q : p.subject.repetition < q.subject.repetition)
MatchRepetitions(subject, baseline) ==
    LET others(r) == SelectSeq(Succeeded(baseline), LAMBDA b : b.repetition = r.repetition)
        found == SelectSeq(Succeeded(subject), LAMBDA r : others(r) # <<>>)
    IN  SortSeq([i \in DOMAIN found |-> [subject |-> found[i], baseline |-> Last(others(found[i]))]],
                LAMBDA p, q : p.subject.repetition < q.subject.repetition)

\* routingShare: whether every pair tells its warm steps and how many the frontier planned.
Whole(r) == r.warm # None /\ r.frontier # None /\ r.warm # 0 /\ r.frontier <= r.warm
Measures(gate, matched) ==
    [i \in DOMAIN matched |->
        IF gate = "routing" THEN <<matched[i].subject.frontier, matched[i].subject.warm>>
        ELSE <<matched[i].subject.tokens, matched[i].baseline.tokens>>]

\* Success rates are compared as fractions: a half without a run is not judged.
LosesParity(subject, baseline) ==
    Len(Succeeded(subject)) * Len(baseline) < Len(Succeeded(baseline)) * Len(subject)

Result(verdict, interval, matched, reasons) ==
    [verdict |-> verdict, interval |-> interval, matched |-> matched, reasons |-> reasons]
NotCertifiable(matched, reason) == Result("not_certifiable", None, matched, {reason})

\* evaluateEnduranceReport.
EnduranceReport(cell, records, min) ==
    LET runs == Half(records, "endurance")
        done == Succeeded(runs)
        n == Len(done)
    IN  CASE runs = <<>> -> NotCertifiable(0, "phase_missing")
          [] runs # <<>> /\ n < min -> NotCertifiable(n, "insufficient_matched_repetitions")
          [] n >= min /\ (\E r \in ToSet(done) : r.transitions = None) -> NotCertifiable(n, "step_telemetry_missing")
          [] n >= min /\ (\A r \in ToSet(done) : r.transitions # None) /\ (\E r \in ToSet(done) : r.transitions < cell.minimum) ->
                NotCertifiable(n, "transitions_below_minimum")
          [] OTHER -> Result("reported_only", None, n, {"no_floor_defined"})

Judged(cell, subject, baseline, stream, confidence) ==
    LET matched == MatchRepetitions(subject, baseline)
        measures == Measures(cell.gate, matched)
        side(k) == [i \in DOMAIN measures |-> measures[i][k]]
        interval == MatchedInterval(side(1), side(2), stream, confidence)
        reasons == {r \in {"success_parity_lost"} : LosesParity(subject, baseline)}
                   \cup {r \in {"below_floor"} : interval.lower < Floors[cell.gate]}
    IN  Result(IF reasons = {} THEN "pass" ELSE "fail", interval, Len(matched), reasons)

EvaluateGate(cell, records, min, stream, confidence) ==
    LET own == Of(records, cell)
        subject == Half(own, Paired(cell.gate).subject)
        baseline == Half(own, Paired(cell.gate).baseline)
        matched == MatchRepetitions(subject, baseline)
    IN  IF cell.gate = "b4" THEN EnduranceReport(cell, own, min)
        ELSE IF subject = <<>> \/ baseline = <<>> THEN NotCertifiable(0, "phase_missing")
        ELSE IF Cardinality({r.pricing : r \in ToSet(own)}) > 1 THEN NotCertifiable(0, "pricing_table_mismatch")
        ELSE IF Len(matched) < min THEN NotCertifiable(Len(matched), "insufficient_matched_repetitions")
        ELSE IF cell.gate = "routing" /\ \E p \in ToSet(matched) : ~ Whole(p.subject)
             THEN NotCertifiable(Len(matched), "step_telemetry_missing")
        ELSE Judged(cell, subject, baseline, stream, confidence)

RetreatTriggered(cell, result) == cell.gate = "t2" /\ result.interval # None /\ result.interval.lower < Floors.retreat

\* Mutant: what could not be judged does not count.
NoneFails(cells, records, min, stream, confidence) ==
    LET results == [i \in DOMAIN cells |-> EvaluateGate(cells[i], records, min, stream, confidence)]
        blocking == {i \in DOMAIN cells : cells[i].gate # "b4"}
    IN  [gates |-> results, passed |-> blocking # {} /\ \A i \in blocking : results[i].verdict # "fail"]
EvaluateCampaign(cells, records, min, stream, confidence) ==
    LET results == [i \in DOMAIN cells |-> EvaluateGate(cells[i], records, min, stream, confidence)]
        blocking == {i \in DOMAIN cells : cells[i].gate # "b4"}
    IN  [gates |-> results, passed |-> blocking # {} /\ \A i \in blocking : results[i].verdict = "pass"]

-----------------------------------------------------------------------------

\* In the records of a campaign a repetition of a phase occurs once.
OncePerRepetition(records) ==
    \A i, j \in DOMAIN records : i # j =>
        <<records[i].cell, records[i].kind, records[i].repetition>> # <<records[j].cell, records[j].kind, records[j].repetition>>

\* No verdict is won by losing: neither a further run of the subject that fails, nor one
\* that costs more than it did, nor a baseline that is cheaper turns it into a pass.
LosingNeverWins(cell, records, extra, min, stream, confidence) ==
    LET passes(some) == EvaluateGate(cell, some, min, stream, confidence).verdict = "pass"
    IN  ~ passes(records) =>
            /\ extra.kind = Paired(cell.gate).subject => ~ passes(Append(records, [extra EXCEPT !.success = FALSE]))
            /\ \A i \in DOMAIN records :
                 /\ records[i].kind = Paired(cell.gate).subject => ~ passes([records EXCEPT ![i].tokens = @ + 1])
                 /\ records[i].kind = Paired(cell.gate).baseline /\ records[i].tokens > 0 =>
                      ~ passes([records EXCEPT ![i].tokens = @ - 1])

\* A pass rests on as many repetitions as were asked for in which both halves succeeded,
\* all on one table of prices, and neither it nor a loss is read out of a collection that
\* is broken.
VerdictsNeedEvidence(cell, records, min, stream, confidence) ==
    LET result == EvaluateGate(cell, records, min, stream, confidence)
        own == {r \in ToSet(records) : r.cell = cell.id /\ r.gate = cell.gate}
        good(kind) == {r.repetition : r \in {x \in own : x.kind = kind /\ x.success}}
    IN  OncePerRepetition(records) /\ result.verdict \in {"pass", "fail"} =>
            /\ Cardinality(good(Paired(cell.gate).subject) \cap good(Paired(cell.gate).baseline)) >= min
            /\ Cardinality({r.pricing : r \in own}) = 1
            /\ result.interval.lower <= result.interval.upper
            /\ RetreatTriggered(cell, result) => result.verdict = "fail"

\* The order in which the runs were collected says nothing.
OrderSaysNothing(cell, records, min, stream, confidence) ==
    OncePerRepetition(records) =>
        \A i, j \in DOMAIN records :
            EvaluateGate(cell, [records EXCEPT ![i] = records[j], ![j] = records[i]], min, stream, confidence)
                = EvaluateGate(cell, records, min, stream, confidence)
=============================================================================
