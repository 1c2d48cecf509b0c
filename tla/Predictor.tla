------------------------------- MODULE Predictor -------------------------------
(***************************************************************************)
(* Predicting the next action of a task from its earlier runs              *)
(* (packages/predictor): the longest match of the history                  *)
(* (trace-predictor.ts), the transition model (transition-predictor.ts),   *)
(* the ensemble of both (ensemble.ts) and its offline simulation           *)
(* (simulate.ts).                                                          *)
(*                                                                         *)
(* An action is the value its key is (action-key.ts); a run is a sequence  *)
(* of actions; the priors are the runs of one task.  Shares and scores are *)
(* kept in thousandths.                                                    *)
(***************************************************************************)
EXTENDS Integers, SequencesExt, FiniteSetsExt

CONSTANTS
    None,
    Action,
    Before(_, _)     \* the order of action keys as strings

FullLength == 3      \* fullConfidenceMatchLength

Votes(vote) == [a \in Action |-> Cardinality({x \in vote : x[3] = a})]
\* The position of an action in a run, as <<run, position, action>>.
PositionsOf(priors) == UNION {{<<r, i, priors[r][i]>> : i \in DOMAIN priors[r]} : r \in DOMAIN priors}

\* How much of the end of the history stands just before a position.
MatchLength(history, prior, i) ==
    Max({n \in 0 .. Min({Len(history), i - 1}) :
            \A k \in 0 .. n - 1 : prior[i - 1 - k] = history[Len(history) - k]})

Ranked(votes) ==
    SortSeq(FoldSet(LAMBDA a, s : Append(s, a), <<>>, {a \in Action : votes[a] > 0}),
            LAMBDA a, b : votes[a] > votes[b] \/ (votes[a] = votes[b] /\ Before(a, b)))
Total(votes) == MapThenFoldSet(LAMBDA x, y : x + y, 0, LAMBDA a : votes[a], LAMBDA S : CHOOSE a \in S : TRUE, Action)

\* predictTrace: the positions with the longest match vote for their action; with no
\* history those that begin a run; then whatever followed the last action; then the
\* first actions.
Trace(history, priors) ==
    LET length(x) == MatchLength(history, priors[x[1]], x[2])
        matching == {x \in PositionsOf(priors) : IF history = <<>> THEN x[2] = 1 ELSE length(x) > 0}
        best == Max({0} \cup {length(x) : x \in matching})
        longest == {x \in matching : length(x) = best}
        following == {x \in PositionsOf(priors) : x[2] > 1 /\ history # <<>> /\ priors[x[1]][x[2] - 1] = Last(history)}
        first == {x \in PositionsOf(priors) : x[2] = 1}
        winner == CASE longest # {} -> longest [] following # {} -> following [] OTHER -> first
    IN  [votes |-> Votes(winner), length |-> best,
         fallback |-> CASE longest # {} -> "none" [] following # {} -> "bigram" [] OTHER -> "first_action"]

\* predictTransition: what followed the last two actions, else the last one.
Transitions(history, priors, order) ==
    {x \in PositionsOf(priors) :
        LET n == Min({order, Len(history), x[2] - 1})
        IN  /\ n = Min({order, Len(history)}) /\ n = Min({order, x[2] - 1})
            /\ \A k \in 0 .. n - 1 : priors[x[1]][x[2] - 1 - k] = history[Len(history) - k]}
Vocabulary(priors) == Cardinality({x[3] : x \in PositionsOf(priors)})

Share(votes, a) == (1000 * votes[a]) \div Total(votes)
Smoothed(votes, a, priors) == (1000 * (votes[a] + 1)) \div (Total(votes) + Max({1, Vocabulary(priors)}))

Prediction(votes, confidence, source) ==
    [predicted |-> Head(Ranked(votes)), confidence |-> confidence, source |-> source]
NoPrediction == [predicted |-> None, confidence |-> 0, source |-> "none"]

\* Mutant of Support: a run that agrees with itself is enough.
AnySupport(votes, priors) == 1000
\* A lone prior is capped below certainty.
Support(votes, priors) ==
    Min({1000, (1000 * votes[Head(Ranked(votes))]) \div Max({2, Min({Len(priors), 3})})})

Predict(history, priors) ==
    LET trace == Trace(history, priors)
        third == Votes(Transitions(history, priors, 2))
        second == Votes(Transitions(history, priors, 1))
        share(votes) == Smoothed(votes, Head(Ranked(votes)), priors)
        length == Min({FullLength, trace.length + IF history = <<>> THEN 1 ELSE 0})
    IN  CASE Total(trace.votes) = 0 -> NoPrediction
          [] trace.fallback = "none" ->
               Prediction(trace.votes,
                          (((Share(trace.votes, Head(Ranked(trace.votes))) * length) \div FullLength)
                             * (500 + Support(trace.votes, priors) \div 2)) \div 1000, "trace")
          [] Total(third) > 0 -> Prediction(third, (share(third) * 6) \div 10, "transition")
          [] Total(second) > 0 -> Prediction(second, (share(second) * 4) \div 10, "transition")
          [] OTHER -> Prediction(trace.votes, Share(trace.votes, Head(Ranked(trace.votes))) \div 4, "first_action")

-----------------------------------------------------------------------------
(* simulatePredictor: each step of each run from the other runs.            *)

Without(runs, r) == RemoveAt(runs, r)
SampleAt(runs, x) ==
    LET p == Predict(SubSeq(runs[x[1]], 1, x[2] - 1), Without(runs, x[1]))
    IN  [at |-> <<x[1], x[2]>>, confidence |-> p.confidence, hit |-> p.predicted = x[3]]
\* A task with a single run is cold and skipped.
Samples(runs) == IF Len(runs) < 2 THEN {} ELSE {SampleAt(runs, x) : x \in PositionsOf(runs)}
Acted(runs, threshold) == {s \in Samples(runs) : s.confidence >= threshold}
Bucket(runs, i, count) ==
    {s \in Samples(runs) : /\ 1000 * i <= s.confidence * count
                           /\ s.confidence * count < 1000 * (i + 1) \/ (i = count - 1 /\ s.confidence <= 1000)}

-----------------------------------------------------------------------------

\* The predictor repeats what it has seen: along a run that is among the priors it
\* predicts that run's next action, or one that an earlier run took after at least
\* as long a stretch of the same actions; and it does not depend on the order the
\* runs are read in.
FollowsTheLongestMatch(history, priors) ==
    LET p == Predict(history, priors)
        length(x) == MatchLength(history, priors[x[1]], x[2])
        support == {x \in PositionsOf(priors) : x[3] = p.predicted}
    IN  /\ p.predicted = None <=> PositionsOf(priors) = {}
        /\ p = Predict(history, Reverse(priors))
        /\ p.source = "trace" /\ history # <<>> =>
             \A x \in PositionsOf(priors) : \E y \in support : length(y) >= length(x)

\* Certainty takes two runs: a lone prior that did something once never predicts it
\* with full confidence.  And the transition model never decides: an action that
\* ever followed the last one is a match of the history by itself.
ConfidenceIsEarned(history, priors) ==
    LET p == Predict(history, priors)
        once(a) == Cardinality({i \in DOMAIN priors[1] : priors[1][i] = a}) <= 1
    IN  /\ p.confidence <= 1000
        /\ p.source # "transition"
        /\ Len(priors) = 1 /\ once(p.predicted) => p.confidence < 1000

\* Every step is in one bucket of the calibration table, and a higher threshold acts
\* on no step a lower one leaves out.
SimulationAddsUp(runs, count) ==
    /\ \A s \in Samples(runs) : Cardinality({i \in 0 .. count - 1 : s \in Bucket(runs, i, count)}) = 1
    /\ Acted(runs, 900) \subseteq Acted(runs, 500)

-----------------------------------------------------------------------------
(* The kill gate of the predictor (packages/bench/src/predictor-gate.ts):    *)
(* each step of a recorded run predicted from the other runs of its task.    *)
(*                                                                           *)
(* A run has id, task and actions.  A record of a curve has run, step,       *)
(* action and kind; an action without a target is in Untargeted.  The        *)
(* interval that is reported beside the verdict is left out.                 *)

CONSTANTS KindOf, Untargeted, TaskOf

\* runsFromCurveRecords: the last record of a step is its action.
StepsOf(records, run) == {r.step : r \in {x \in ToSet(records) : x.run = run}}
LastAt(records, run, step) == records[Max({i \in DOMAIN records : records[i].run = run /\ records[i].step = step})].action
RunFrom(records, run) ==
    LET steps == SetToSortSeq(StepsOf(records, run), <)
    IN  [id |-> run, task |-> TaskOf[run], actions |-> [k \in DOMAIN steps |-> LastAt(records, run, steps[k])]]
RunsFromCurve(all) ==
    LET records == SelectSeq(all, LAMBDA r : r.kind = "measurement")
    IN  {RunFrom(records, x) : x \in {r.run : r \in ToSet(records)}}

\* curveRunsGranularity.
Granularity(runs) ==
    LET targeted == {x \in UNION {ToSet(r.actions) : r \in ToSet(runs)} : KindOf[x] # "done"}
    IN  IF targeted # {} /\ targeted \cap Untargeted = {} THEN "kind_target" ELSE "kind_only"

\* evaluateDataSet.  A step is the position of its run and its own.
OfTask(runs, task) == SelectSeq(runs, LAMBDA r : r.task = task)
Warm(runs) == {<<i, k>> \in (DOMAIN runs) \X (1 .. Max({0} \cup {Len(r.actions) : r \in ToSet(runs)})) :
                  k <= Len(runs[i].actions) /\ Len(OfTask(runs, runs[i].task)) >= 2}
\* Mutant: the priors are all runs of the task.
AllRuns(runs, run) == OfTask(runs, run.task)
Priors(runs, run) == SelectSeq(OfTask(runs, run.task), LAMBDA r : r.id # run.id)
PredictNext(history, priors) ==
    LET trace == Trace(history, [i \in DOMAIN priors |-> priors[i].actions])
    IN  IF Total(trace.votes) = 0 THEN None ELSE Head(Ranked(trace.votes))
PredictedAt(runs, x) == PredictNext(SubSeq(runs[x[1]].actions, 1, x[2] - 1), Priors(runs, runs[x[1]]))
Correct(runs) == {x \in Warm(runs) : PredictedAt(runs, x) = runs[x[1]].actions[x[2]]}
RightKind(runs) == {x \in Warm(runs) : PredictedAt(runs, x) # None /\ KindOf[PredictedAt(runs, x)] = KindOf[runs[x[1]].actions[x[2]]]}
EvaluateDataSet(runs) ==
    [granularity |-> Granularity(runs), steps |-> Cardinality(Warm(runs)), correct |-> Cardinality(Correct(runs)),
     kinds |-> Cardinality(RightKind(runs))]

\* summarizePredictorGate: over the data sets that recorded whole actions.
Verdict(evaluations, threshold) ==
    LET gated == SelectSeq(evaluations, LAMBDA e : e.granularity = "kind_target")
        sum(field) == FoldSeq(LAMBDA e, n : e[field] + n, 0, gated)
    IN  IF 1000 * sum("correct") >= threshold * Max({1, sum("steps")}) THEN "pass" ELSE "kill"

-----------------------------------------------------------------------------

\* The gate measures foresight: what is predicted at a step is the same whatever the run
\* does from there on, a run recorded twice does not teach itself, and a task that was
\* run once is not measured.  Runs that recorded no targets do not pass it, and a whole
\* action that is right has the right kind.
GateMeasuresForesight(runs, actions, threshold) ==
    LET other(i, k, x) == [runs EXCEPT ![i].actions[k] = x]
        twice(i) == EvaluateDataSet(<<runs[i], runs[i]>>)
    IN  /\ \A i \in DOMAIN runs : \A k \in DOMAIN runs[i].actions, x \in actions :
             \A j \in 1 .. k : PredictedAt(other(i, k, x), <<i, j>>) = PredictedAt(runs, <<i, j>>)
        /\ \A i \in DOMAIN runs : twice(i).correct = 0 /\ EvaluateDataSet(<<runs[i]>>).steps = 0
        /\ Correct(runs) \subseteq RightKind(runs)
        /\ EvaluateDataSet(Reverse(runs)) = EvaluateDataSet(runs)
        /\ (\E r \in ToSet(runs) : \E x \in ToSet(r.actions) : x \in Untargeted /\ KindOf[x] # "done") =>
             Verdict(<<EvaluateDataSet(runs)>>, threshold) = "kill"
=============================================================================
