----------------------------- MODULE RunEvidence -----------------------------
(***************************************************************************)
(* What a campaign reads from the runs it retained: of the predictor and   *)
(* of compaction (collectRoutingTelemetry in scripts/bench/p2-campaign,    *)
(* packages/bench/src/routing-calibration.ts, b4-evidence.ts), and whether *)
(* long sessions are certified (enterprise-endurance.ts), over the history *)
(* the agent shows its planner.                                            *)
(*                                                                         *)
(* An event has page (None for "unknown"), route (None or a record of      *)
(* planner and escalated), prediction (None or a record of source,         *)
(* confidence in thousandths, hit and predicted), actual and compaction    *)
(* (None or a record of compacted and retained).                           *)
(*                                                                         *)
(* A run has completed, success, exact, dispatched, timeouts, slowest and  *)
(* steps; a step has volatile and chars (sizes), mode, visible, through    *)
(* (how far the history is compacted, or None), route and document (which  *)
(* changed) and bytes (of the recorder).  Limits is a record of min, of    *)
(* transitions, budget, bootstrap, settle, share and growth, the last two  *)
(* in thousandths.                                                         *)
(***************************************************************************)
EXTENDS AgentContext

\* collectRoutingTelemetry: what a run says of itself is believed only if the predicted
\* action is the one that was taken.
Usable(event) == event.prediction # None /\ event.prediction.confidence \in 0 .. 1000
\* Mutant: the run's word is taken.
SaysHit(event) == event.prediction.hit
Hit(event) == event.prediction.hit /\ event.prediction.predicted = event.actual
SampleOf(event, at) ==
    [at |-> at, site |-> event.page, source |-> event.prediction.source, confidence |-> event.prediction.confidence, hit |-> Hit(event)]
SamplesOf(events) == {SampleOf(events[i], i) : i \in {k \in DOMAIN events : Usable(events[k])}}
SiteSteps(events) == [s \in {e.page : e \in ToSet(events)} |-> Cardinality({i \in DOMAIN events : events[i].page = s})]
Telemetry(events, kind) ==
    [routine |-> Cardinality({i \in DOMAIN events : events[i].route # None /\ events[i].route.planner = "routine"}),
     escalations |-> Cardinality({i \in DOMAIN events : events[i].route # None /\ events[i].route.escalated}),
     missing |-> IF kind = "routing_on" THEN Cardinality({i \in DOMAIN events : events[i].route = None}) ELSE 0,
     predicted |-> Cardinality(SamplesOf(events)), hits |-> Cardinality({s \in SamplesOf(events) : s.hit})]

-----------------------------------------------------------------------------
(* summarizeRoutingCalibration.  A ratio is kept as its two counts.         *)

Thresholds == {500, 700, 800, 900, 950}
Buckets == {<<0, 200>>, <<200, 400>>, <<400, 600>>, <<600, 800>>, <<800, 1000>>}
\* Mutant: a bucket has both its ends.
BothEnds(s, bucket) == s.confidence >= bucket[1] /\ s.confidence <= bucket[2]
InBucket(s, bucket) ==
    s.confidence >= bucket[1] /\ IF bucket[2] = 1000 THEN s.confidence <= 1000 ELSE s.confidence < bucket[2]
Acted(samples, threshold) == {s \in samples : s.confidence >= threshold}
Hits(samples) == Cardinality({s \in samples : s.hit})
Summarize(samples, steps) ==
    [steps |-> steps, predicted |-> Cardinality(samples), hits |-> Hits(samples),
     calibration |-> [b \in Buckets |-> LET some == {s \in samples : InBucket(s, b)} IN [steps |-> Cardinality(some), hits |-> Hits(some)]],
     thresholds |-> [t \in Thresholds |-> [acted |-> Cardinality(Acted(samples, t)), hits |-> Hits(Acted(samples, t))]]]
BySource(samples, steps) == [x \in {s.source : s \in samples} |-> Summarize({s \in samples : s.source = x}, steps)]
BySite(samples, steps) ==
    [x \in {s.site : s \in samples} \cup DOMAIN steps |->
        Summarize({s \in samples : s.site = x}, IF x \in DOMAIN steps THEN steps[x] ELSE 0)]
Report(events) ==
    [overall |-> Summarize(SamplesOf(events), Len(events)), sources |-> BySource(SamplesOf(events), Len(events)),
     sites |-> BySite(SamplesOf(events), SiteSteps(events))]

-----------------------------------------------------------------------------
(* summarizeB4Trajectory: of a run's events, how many actions the planner   *)
(* was shown.  What the code calls boundaries are all steps with metadata.  *)

Shown(events, i) ==
    LET prior == i - 1
        c == events[i].compaction
    IN  IF c = None THEN prior ELSE c.retained + Max({0, prior - c.compacted})
B4Evidence(events) ==
    [actions |-> Len(events), visible |-> Max({0} \cup {Shown(events, i) : i \in DOMAIN events}),
     boundaries |-> Cardinality({i \in DOMAIN events : events[i].compaction # None})]

-----------------------------------------------------------------------------
(* The certification of long sessions.                                      *)

\* visibleActionBound, expectedCompactionBoundaries.
VisibleActionBound(policy) == Max({policy.max, policy.limit + policy.recent + policy.interval - 1})
\* Mutant: a boundary is counted from the first action.
AllBoundaries(policy, count) == Cardinality({((n - policy.recent) \div policy.interval) * policy.interval : n \in 0 .. count} \ {0})
ExpectedBoundaries(policy, count) ==
    Cardinality({((n - policy.recent) \div policy.interval) * policy.interval : n \in policy.max + 1 .. count} \ {0})

Where(steps, Holds(_)) == {i \in DOMAIN steps : Holds(steps[i])}
Boundaries(steps) == {steps[i].through : i \in DOMAIN steps} \ {None}

\* peakGrowthAcrossBoundaries: the largest request between two boundaries, over the one
\* before.
Peak(steps, boundary) == Max({steps[i].volatile : i \in Where(steps, LAMBDA s : s.through = boundary)})
Before(steps, boundary) == {b \in Boundaries(steps) : b < boundary}
Climbs(steps, growth) ==
    \E b \in Boundaries(steps) : Before(steps, b) # {} /\
        (Peak(steps, b) - Peak(steps, Max(Before(steps, b)))) * 1000 > growth * Peak(steps, Max(Before(steps, b)))

\* recorderGrowthRatio: the last third against the middle one.
Swells(steps) ==
    LET third == Len(steps) \div 3
        grown(k) == steps[(k + 1) * third].bytes - steps[k * third].bytes
    IN  third >= 2 /\ grown(1) > 0 /\ 100 * grown(2) > 125 * grown(1)

Diffs(steps) == Cardinality(Where(Tail(steps), LAMBDA s : s.mode = "diff"))
MostlyDiffs(steps, share) == Len(steps) > 1 /\ 1000 * Diffs(steps) >= share * (Len(steps) - 1)
InBudget(s, limits) == s.chars <= IF s.mode = "bootstrap" THEN limits.bootstrap ELSE limits.budget

\* certifyEndurance: the checks that a collection of runs fails.
Failing(id, broken) == {x \in {id} : broken}
FailedChecks(runs, policy, limits) ==
    LET some(Holds(_)) == \E i \in DOMAIN runs : Holds(runs[i])
        routes(r) == Cardinality(Where(r.steps, LAMBDA s : s.route))
        few == CHOOSE n \in {routes(r) : r \in ToSet(runs)} : \A r \in ToSet(runs) : n <= routes(r)
    IN  Failing("run_count", Len(runs) < limits.min)
        \cup Failing("success", some(LAMBDA r : ~ (r.success /\ r.exact /\ r.completed = limits.transitions)))
        \cup Failing("dispatches", some(LAMBDA r : r.dispatched # limits.transitions))
        \cup Failing("routes", some(LAMBDA r : \E i \in DOMAIN r.steps : r.steps[i].document) \/ few # limits.transitions)
        \cup Failing("history", some(LAMBDA r : \E i \in DOMAIN r.steps : r.steps[i].visible > VisibleActionBound(policy)))
        \cup Failing("boundaries", some(LAMBDA r : Cardinality(Boundaries(r.steps)) # ExpectedBoundaries(policy, limits.transitions)))
        \cup Failing("peaks", some(LAMBDA r : Climbs(r.steps, limits.growth)))
        \cup Failing("observations", some(LAMBDA r : \E i \in DOMAIN r.steps : ~ InBudget(r.steps[i], limits)))
        \cup Failing("eviction", some(LAMBDA r : ~ MostlyDiffs(r.steps, limits.share)))
        \cup Failing("settled", some(LAMBDA r : r.timeouts > 0 \/ r.slowest > limits.settle))
        \cup Failing("recorder", some(LAMBDA r : Swells(r.steps)))
Certified(runs, policy, limits) == FailedChecks(runs, policy, limits) = {}

-----------------------------------------------------------------------------

Over(slices, Of(_)) == MapThenSumSet(LAMBDA x : Of(slices[x]), DOMAIN slices)

\* The slices of the report are parts of the whole: by source, by site and by confidence
\* each prediction is counted once; a step without a prediction is counted at its site; a
\* higher threshold acts on no more; and no hit is claimed of an action that was not taken.
CalibrationAddsUp(events) ==
    LET report == Report(events)
        whole == report.overall
        silent(i) == [events EXCEPT ![i].prediction = None]
    IN  /\ Over(report.sites, LAMBDA x : x.steps) = whole.steps
        /\ \A parts \in {report.sites, report.sources, whole.calibration} : Over(parts, LAMBDA x : x.hits) = whole.hits
        /\ \A parts \in {report.sites, report.sources} : Over(parts, LAMBDA x : x.predicted) = whole.predicted
        /\ Over(whole.calibration, LAMBDA x : x.steps) = whole.predicted
        /\ \A t, u \in Thresholds : t < u => whole.thresholds[u].acted <= whole.thresholds[t].acted
        /\ whole.hits <= Cardinality({i \in DOMAIN events : events[i].prediction # None /\ events[i].prediction.predicted = events[i].actual})
        /\ \A i \in DOMAIN events : LET less == Report(silent(i)).overall
                                    IN  less.steps = whole.steps /\ less.predicted <= whole.predicted /\ less.hits <= whole.hits
        /\ Telemetry(events, "routing_on").hits = whole.hits
        /\ Telemetry(events, "routing_on").routine + Telemetry(events, "routing_on").missing <= Len(events)

\* The step of a run in which actions were taken before it, as the agent shows them.
Witnessed(actions, policy) ==
    LET history == History(actions, policy)
    IN  [visible |-> Len(history.visible), through |-> IF history.compacted = 0 THEN None ELSE history.compacted - 1]
RunOf(actions, policy, bytes) ==
    LET step(k) == [volatile |-> 100, chars |-> 10, mode |-> IF k = 0 THEN "full" ELSE "diff", route |-> k > 0, document |-> FALSE,
                    bytes |-> bytes[k + 1], visible |-> Witnessed(SubSeq(actions, 1, k), policy).visible,
                    through |-> Witnessed(SubSeq(actions, 1, k), policy).through]
    IN  [success |-> TRUE, exact |-> TRUE, completed |-> Len(actions), dispatched |-> Len(actions), timeouts |-> 0, slowest |-> 1,
         steps |-> [k \in 1 .. Len(actions) + 1 |-> step(k - 1)]]

\* The certificate and the agent agree on what compaction is: whatever the actions of a
\* session and under every policy the agent accepts, a session that shows what the agent
\* shows is certified, unless its recorder swells; one in which a compacted step showed
\* its whole history, or whose history was compacted at other steps, is not.
CertificateMatchesAgent(actions, policy, bytes, limits) ==
    LET run == RunOf(actions, policy, bytes)
        whole(k) == [run EXCEPT !.steps[k].visible = VisibleActionBound(policy) + 1]
        eager == [run EXCEPT !.steps = [k \in DOMAIN run.steps |-> [run.steps[k] EXCEPT !.through = IF k > policy.max THEN k - 1 ELSE None]]]
    IN  ValidPolicy(policy) =>
          /\ Certified(<<run, run>>, policy, limits) <=> ~ Swells(run.steps)
          /\ \A k \in DOMAIN run.steps : ~ Certified(<<run, whole(k)>>, policy, limits)
          /\ Cardinality(Boundaries(eager.steps)) # Cardinality(Boundaries(run.steps)) => ~ Certified(<<eager, run>>, policy, limits)
=============================================================================
