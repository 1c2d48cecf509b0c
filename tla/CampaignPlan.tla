----------------------------- MODULE CampaignPlan -----------------------------
(***************************************************************************)
(* What the provider-billed campaign will run                              *)
(* (packages/bench/src/p2-campaign-plan.ts), what must be in place before  *)
(* it may (p2-campaign-preflight.ts) and what it may cost                  *)
(* (p2-campaign-cost.ts).                                                  *)
(*                                                                         *)
(* A cell has id, gate, minimum (transitions), tags, reset and oracle; a   *)
(* binding has cell, task, ask and asks, a function from the repetitions   *)
(* that ask something of their own.  The id of a phase is its cell and its *)
(* kind, that of a run the repetition besides; a command line is the flags *)
(* it has.                                                                 *)
(***************************************************************************)
EXTENDS BenchStats

CONSTANTS
    MinRepetitions,      \* 15 runs of each cell
    MinEndurance,        \* 50 transitions of B4
    EnduranceSteps       \* 80 steps are planned for it at least

GateKinds == {"t0", "t2", "routing", "b4"}
UsageBuckets == {"input", "read", "write", "output"}

Telemetry(gate) ==
    CASE gate = "routing" -> {"route", "predict"} [] gate = "t0" -> {"distill", "matcher"} [] OTHER -> {}
ValidProtocol(protocol) ==
    LET cells == ToSet(protocol.cells)
    IN  /\ protocol.repetitions >= MinRepetitions
        /\ Len(protocol.cells) = 4 /\ Cardinality({c.id : c \in cells}) = 4
        /\ {c.gate : c \in cells} = GateKinds
        /\ \A c \in cells : Telemetry(c.gate) \subseteq c.tags /\ (c.gate = "b4" => c.minimum >= MinEndurance)

-----------------------------------------------------------------------------
(* assertP2CampaignPreflight: the first reason the campaign may not start.  *)

RowFailure(cell, rows) ==
    LET row == CHOOSE r \in ToSet(rows) : r.cell = cell.id
    IN  CASE \A r \in ToSet(rows) : r.cell # cell.id -> "campaign_row_missing"
          [] ~ row.priced -> "pricing_unavailable"
          [] ~ UsageBuckets \subseteq row.buckets -> "usage_bucket_missing"
          [] ~ cell.tags \subseteq row.tags -> "source_tag_missing"
          [] row.reset # cell.reset -> "reset_evidence_mismatch"
          [] row.oracle # cell.oracle -> "oracle_evidence_mismatch"
          [] OTHER -> None

\* Mutant: a cell may have several rows.
NoneRepeated(rows) == {}
Repeated(rows) == {i \in DOMAIN rows : \E j \in 1 .. i - 1 : rows[j].cell = rows[i].cell}
PreflightFailure(protocol, rows) ==
    LET failing == {i \in DOMAIN protocol.cells : RowFailure(protocol.cells[i], rows) # None}
    IN  IF Repeated(rows) # {} THEN <<"campaign_row_duplicate", rows[Min(Repeated(rows))].cell>>
        ELSE IF failing # {} THEN <<RowFailure(protocol.cells[Min(failing)], rows), protocol.cells[Min(failing)].id>>
        ELSE None

-----------------------------------------------------------------------------
(* planP2Campaign.                                                          *)

IsBound(cell, options) == \E b \in ToSet(options.bindings) : b.cell = cell.id
BindingOf(cell, options) == Last(SelectSeq(options.bindings, LAMBDA b : b.cell = cell.id))
AskOf(binding, repetition) == IF repetition \in DOMAIN binding.asks THEN binding.asks[repetition] ELSE binding.ask

\* Of the flags those that differ between the runs: --route-min-confidence is the same for
\* every run that routes (p2-campaign-plan.ts:219), and nothing of the collector reads it.
Flags(brief) == [brief |-> brief, routine |-> None, steps |-> None]
BriefOff == Flags(0)

\* Mutant: the kind of the phase is not part of the id.
RunsByCell(protocol, options, cell, kind, flags) ==
    [n \in 1 .. protocol.repetitions |->
        [id |-> <<cell.id, n>>, repetition |-> n, flags |-> flags, ask |-> AskOf(BindingOf(cell, options), n)]]
PhaseRuns(protocol, options, cell, kind, flags) ==
    [n \in 1 .. protocol.repetitions |->
        [id |-> <<cell.id, kind, n>>, repetition |-> n, flags |-> flags, ask |-> AskOf(BindingOf(cell, options), n)]]
DistillRun(options, cell, from) ==
    <<[id |-> Append(from, 1), repetition |-> 1, flags |-> None, ask |-> BindingOf(cell, options).ask]>>

Phase(protocol, options, cell, kind, depends, flags) ==
    [id |-> <<cell.id, kind>>, cell |-> cell.id, gate |-> cell.gate, kind |-> kind, task |-> BindingOf(cell, options).task,
     depends |-> depends, records |-> kind # "distill",
     runs |-> IF kind = "distill" THEN DistillRun(options, cell, depends[1])
              ELSE PhaseRuns(protocol, options, cell, kind, flags)]

PlanP2Campaign(protocol, options) ==
    LET add(cell, kind, depends, flags) == Phase(protocol, options, cell, kind, depends, flags)
        of(gate) == SelectSeq(protocol.cells, LAMBDA c : c.gate = gate /\ IsBound(c, options))
        learned == [i \in DOMAIN of("t0") |-> <<of("t0")[i].id, "warm">>]
        teach(c) == <<add(c, "cold", <<>>, BriefOff), add(c, "distill", <<<<c.id, "cold">>>>, None),
                      add(c, "warm", <<<<c.id, "distill">>>>, BriefOff)>>
        brief(c) == <<add(c, "brief_off", learned, BriefOff), add(c, "brief_on", learned, Flags(options.brief))>>
        route(c) == <<add(c, "routing_off", learned, BriefOff),
                      add(c, "routing_on", <<<<c.id, "routing_off">>>>, [BriefOff EXCEPT !.routine = options.routine])>>
        endure(c) == <<add(c, "endurance", <<>>, [BriefOff EXCEPT !.steps = Max({c.minimum, EnduranceSteps})])>>
    IN  FlattenSeq([i \in DOMAIN of("t0") |-> teach(of("t0")[i])]) \o FlattenSeq([i \in DOMAIN of("t2") |-> brief(of("t2")[i])])
            \o FlattenSeq([i \in DOMAIN of("routing") |-> route(of("routing")[i])])
            \o FlattenSeq([i \in DOMAIN of("b4") |-> endure(of("b4")[i])])

BilledRuns(plan) == Total([i \in DOMAIN plan |-> IF plan[i].records THEN Len(plan[i].runs) ELSE 0])

\* preflightP2CampaignPlan: every reason at once.
PlanProblems(plan, protocol, options) ==
    LET cells == ToSet(protocol.cells)
    IN  {<<"cell_unbound", c.id>> : c \in {x \in cells : ~ IsBound(x, options)}}
        \cup {<<"binding_unknown_cell", b.cell>> : b \in {x \in ToSet(options.bindings) : \A c \in cells : c.id # x.cell}}
        \cup {<<"routing_without_routine_model", p.id>> : p \in {x \in ToSet(plan) : x.kind = "routing_on" /\ options.routine = None}}
        \cup {<<"endurance_below_minimum_transitions", p.id>> : p \in {x \in ToSet(plan) : x.kind = "endurance" /\ x.runs # <<>> /\
                 \E c \in cells : c.id = x.cell /\ x.runs[1].flags.steps < c.minimum}}
        \cup {<<"forward_dependency", plan[i].id>> : i \in {k \in DOMAIN plan : \E d \in ToSet(plan[k].depends) :
                 \A j \in 1 .. k - 1 : plan[j].id # d}}

\* toCommandPlan: None where it throws.
BenchPhase(kind) ==
    CASE kind \in {"cold", "endurance", "brief_off"} -> "cold"
      [] kind \in {"warm", "brief_on", "routing_off", "routing_on"} -> "warm"
ToCommandPlan(phase) ==
    IF ~ phase.records THEN None
    ELSE [i \in DOMAIN phase.runs |-> [task |-> phase.task, phase |-> BenchPhase(phase.kind), run |-> phase.runs[i].id]]

\* rehearseP2Campaign: the runs in broken fail.
Rehearse(plan, broken) ==
    LET failed(p) == Cardinality({i \in DOMAIN p.runs : p.runs[i].id \in broken})
        stops == {i \in DOMAIN plan : failed(plan[i]) > 0}
        ran == SubSeq(plan, 1, IF stops = {} THEN Len(plan) ELSE Min(stops))
    IN  [order |-> [i \in DOMAIN ran |-> ran[i].id], attempted |-> Total([i \in DOMAIN ran |-> Len(ran[i].runs)]),
         failed |-> Total([i \in DOMAIN ran |-> failed(ran[i])]), complete |-> stops = {}]

-----------------------------------------------------------------------------
(* projectP2CampaignCost, in five thousandths of a twentieth: a warm run is *)
(* bounded by the fifth it may cost when its gate is just met.              *)

ColdKinds == {"cold", "brief_off", "endurance"}
Unpriced(reason) == [priced |-> FALSE, low |-> 0, high |-> 0, why |-> reason, floor |-> FALSE]

\* Mutant: the first profile there is.
AnyProfiles(task, profiles) == profiles
ProfilesOf(task, profiles) == SelectSeq(profiles, LAMBDA p : p.task = task)
LowPerRun(phase, profile, frontier, routine, share) ==
    LET cold == RunCost(profile.tokens, frontier)
    IN  CASE phase.kind \in ColdKinds -> cold * 5 * Parts
          [] phase.kind = "routing_on" /\ routine # None -> cold * (Parts - share) + RunCost(profile.tokens, routine) * share
          [] OTHER -> cold * Parts

ProjectPhase(phase, required, mismatch, frontier, routine, share, profiles) ==
    LET found == ProfilesOf(phase.task, profiles)
        n == Len(phase.runs)
    IN  CASE phase.kind = "distill" -> [priced |-> TRUE, low |-> 0, high |-> 0, why |-> None, floor |-> FALSE]
          [] phase.kind # "distill" /\ mismatch -> Unpriced("pricing_table_mismatch")
          [] phase.kind # "distill" /\ ~ mismatch /\ frontier = None -> Unpriced("model_not_priced")
          [] phase.kind # "distill" /\ ~ mismatch /\ frontier # None /\ found = <<>> -> Unpriced("no_profile")
          [] OTHER -> [priced |-> TRUE, low |-> n * LowPerRun(phase, found[1], frontier, routine, share),
                       high |-> n * RunCost(found[1].tokens, frontier) * 5 * Parts, why |-> None,
                       floor |-> found[1].steps < required]

ProjectCost(plan, protocol, table, routine, share, profiles) ==
    LET required(p) == LET c == {x \in ToSet(protocol.cells) : x.id = p.cell} IN IF c = {} THEN 1 ELSE (CHOOSE x \in c : TRUE).minimum
        price(model) == IF model = None THEN None ELSE PriceForModel(model, table)
        phases == [i \in DOMAIN plan |-> ProjectPhase(plan[i], required(plan[i]), protocol.pricing # table.version,
                                                      price(protocol.model), price(routine), share, profiles)]
        sum(field) == Total([i \in DOMAIN phases |-> IF phases[i].priced THEN phases[i][field] ELSE 0])
    IN  [phases |-> phases, low |-> sum("low"), high |-> sum("high"),
         unpriced |-> {plan[i].id : i \in {k \in DOMAIN plan : ~ phases[k].priced}},
         floors |-> {plan[i].id : i \in {k \in DOMAIN plan : phases[k].floor}}]

-----------------------------------------------------------------------------

\* What the two halves of a comparison may differ in.
Variable(gate) == CASE gate = "t2" -> {"brief"} [] gate = "routing" -> {"routine"} [] OTHER -> {}
Alike(p, q) ==
    /\ Len(p.runs) = Len(q.runs)
    /\ \A i \in DOMAIN p.runs :
         /\ p.runs[i].ask = q.runs[i].ask /\ p.runs[i].repetition = q.runs[i].repetition
         /\ \A f \in DOMAIN BriefOff \ Variable(p.gate) : p.runs[i].flags[f] = q.runs[i].flags[f]

\* A plan without a problem collects every gate: both halves of each comparison, as
\* often as the protocol wants, asking the same in the same repetition and differing in
\* nothing but what is compared; and what is distilled is a run the plan has made by
\* then, with the values it was asked with.
PlanCollectsEveryGate(protocol, options) ==
    LET plan == PlanP2Campaign(protocol, options)
        recording == {p \in ToSet(plan) : p.records}
        ids == UNION {{r.id : r \in ToSet(p.runs)} : p \in recording}
        sameFirst == \A b \in ToSet(options.bindings) : AskOf(b, 1) = b.ask
    IN  ValidProtocol(protocol) /\ PlanProblems(plan, protocol, options) = {} =>
            /\ \A gate \in GateKinds : LET halves == {p \in recording : p.gate = gate}
                                      IN  /\ Cardinality(halves) = IF gate = "b4" THEN 1 ELSE 2
                                          /\ \A p, q \in halves : Alike(p, q) /\ Len(p.runs) >= MinRepetitions
            /\ Cardinality(ids) = BilledRuns(plan)
            /\ \A i \in DOMAIN plan : ~ plan[i].records =>
                 LET run == plan[i].runs[1]
                 IN  \E j \in 1 .. i - 1 : \E r \in ToSet(plan[j].runs) :
                       plan[j].records /\ r.id = run.id /\ (sameFirst => r.ask = run.ask)
            /\ \A p \in ToSet(plan) : (ToCommandPlan(p) = None) = (p.kind = "distill")

\* No phase is rehearsed on top of one that failed, and only a rehearsal of everything
\* is complete.
RehearsalStopsShort(protocol, options, broken) ==
    LET plan == PlanP2Campaign(protocol, options)
        r == Rehearse(plan, broken)
        clean(id) == \E p \in ToSet(plan) : p.id = id /\ \A run \in ToSet(p.runs) : run.id \notin broken
    IN  /\ r.complete => r.failed = 0 /\ ToSet(r.order) = {p.id : p \in ToSet(plan)}
        /\ \A i \in DOMAIN plan : plan[i].id \in ToSet(r.order) /\ PlanProblems(plan, protocol, options) = {} =>
             \A d \in ToSet(plan[i].depends) : clean(d)

\* A campaign is let start by evidence no part of which could be left out.
PreflightFailsClosed(protocol, rows) ==
    LET fails(some) == PreflightFailure(protocol, some) # None
    IN  ~ fails(rows) => \A i \in DOMAIN rows : \A c \in {x \in ToSet(protocol.cells) : x.id = rows[i].cell} :
            /\ fails(RemoveAt(rows, i)) /\ fails(Append(rows, rows[i]))
            /\ \A b \in UsageBuckets : fails([rows EXCEPT ![i].buckets = @ \ {b}])
            /\ \A t \in c.tags : fails([rows EXCEPT ![i].tags = @ \ {t}])
            /\ fails([rows EXCEPT ![i].priced = FALSE])

\* Approving the high bound is safe, as long as routing does not lead to a dearer model:
\* no phase costs more, and one that could not be priced is named, never priced at nothing.
CostIsBounded(plan, protocol, table, routine, share, profiles) ==
    LET cost == ProjectCost(plan, protocol, table, routine, share, profiles)
        price(model) == IF model = None THEN None ELSE PriceForModel(model, table)
        cheaper == \A x \in ToSet(profiles) : price(protocol.model) # None /\ price(routine) # None =>
                      RunCost(x.tokens, price(routine)) <= RunCost(x.tokens, price(protocol.model))
    IN  /\ cheaper => \A i \in DOMAIN plan : cost.phases[i].low <= cost.phases[i].high
        /\ cheaper => cost.low <= cost.high
        /\ \A i \in DOMAIN plan : plan[i].id \in cost.unpriced \/ plan[i].kind = "distill" \/
             \E x \in ToSet(profiles) : x.task = plan[i].task /\
                 cost.phases[i].high = Len(plan[i].runs) * 5 * Parts * RunCost(x.tokens, price(protocol.model))
=============================================================================
