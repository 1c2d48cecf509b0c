----------------------------- MODULE MCAlgorithms -----------------------------
(***************************************************************************)
(* The pure decisions of the packages, over bounded inputs: a state is one *)
(* question, and the properties compare its answer with what it promises.  *)
(***************************************************************************)
EXTENDS Matching, Integers, SequencesExt, TLC

CONSTANTS None, Failed, v1, v2, v3, note, the, slot

VARIABLES topic, input
Init == topic = None /\ input = None
Answered == topic # None /\ topic' = None /\ input' = None
Ask(t, inputs) == topic = None /\ topic' = t /\ input' \in inputs

\* The order of strings, of those that make up keys.
Alphabet == <<None, "form_semantics", "page_edge", "quirk", "selector_map", "settle_prior",
           v1, v2, "click", "enter_inserts_newline", "fill", "long_settle", "navigate", "submit_is_mutating">>
Place(word) == CHOOSE i \in DOMAIN Alphabet : Alphabet[i] = word
KeyBefore(k, l) ==
    LET differ == {i \in DOMAIN k \cap DOMAIN l : k[i] # l[i]}
    IN  IF differ = {} THEN Len(k) < Len(l) ELSE Place(k[Min(differ)]) < Place(l[Min(differ)])

Memory == INSTANCE SiteLearning WITH
    LongSettle <- 2,
    KeyBefore <- KeyBefore,
    LineLength <- LAMBDA f : Place(f.key[1])
\* A name is the sequence of its words.
Plane == INSTANCE ActionPlane WITH
    TokensOf <- LAMBDA name : IF name = None THEN {} ELSE ToSet(name)
\* The selectors 1 and 2 are ids, 3 is a path.
Replaying == INSTANCE ReplayTools WITH
    TokensOf <- LAMBDA name : IF name = None THEN {} ELSE ToSet(name),
    KeysOf <- LAMBDA e : IF e.hint \in {1, 2} THEN <<e.hint>> ELSE <<>>,
    TopContext <- v1
Context == INSTANCE AgentContext
Distilling == INSTANCE Distiller WITH Word <- {v1, v2}

Floors == [t0 |-> 800, t2 |-> 100, routing |-> 200, retreat |-> 0]
Plan == INSTANCE CampaignPlan WITH MinRepetitions <- 2, MinEndurance <- 2, EnduranceSteps <- 3
Gates == INSTANCE CampaignGates
Curve == INSTANCE CurveReport
Cells == INSTANCE BenchCells WITH LowerCase <- [t \in {v1, v2} |-> v1]
Heads == INSTANCE HeadToHead WITH Repetitions <- 2
Prediction == INSTANCE Predictor WITH
    Action <- {v1, v2, v3},
    Before <- LAMBDA x, y : x # y /\ (x = v1 \/ y = v3),
    KindOf <- [x \in {v1, v2, v3} |-> IF x = v2 THEN v1 ELSE x],
    Untargeted <- {v3},
    TaskOf <- [r \in 1 .. 3 |-> IF r = 3 THEN v2 ELSE v1]
Sessions == INSTANCE RunEvidence

\* Two resamples: one of the first alone and one of the last.
Stream == <<<<0, 0, 0, 0, 0, 0>>, <<9, 9, 9, 9, 9, 9>>, <<0, 9, 0, 9, 0, 9>>>>
Confidence == 950

MCSlot == [n \in {v3} |-> slot]

-----------------------------------------------------------------------------
(* Matching. *)

Texts == SUBSET {v1, v2, the, slot}
Library == {[playbook |-> p, version |-> v, env |-> e, intent |-> t, needs |-> n] :
              p \in {1, 2}, v \in {1, 2}, e \in {v1, v2}, t \in {{v1}, {v1, the}, {v1, v2, slot}}, n \in {{}, {v3}}}
\* Texts long enough for a word too few to be within the threshold, and two within the margin.
Long == {1 .. 4, 1 .. 5, (1 .. 4) \cup {the}, (1 .. 5) \cup {the}}
LongEntry(p, t) == [playbook |-> p, version |-> 1, env |-> v1, intent |-> t, needs |-> {}]
AskLongMatch ==
    Ask("match", {[request |-> [task |-> t, params |-> [n \in {} |-> None], env |-> v1],
                   entries |-> {LongEntry(1, i), LongEntry(2, j)}, one |-> LongEntry(3, k)] : t, i, j, k \in Long})
AskMatch ==
    Ask("match", {[request |-> [task |-> t, params |-> p, env |-> v1], entries |-> es, one |-> e] :
        t \in Texts, p \in {[n \in {} |-> None], [n \in {v3} |-> v2]},
        es \in {{}} \cup {{e, f} : e \in {x \in Library : x.version = 1}, f \in {x \in Library : x.env = v1 /\ x.needs = {}}},
        e \in {x \in Library : x.env = v1 /\ x.version = 2}})
MatchIsSound ==
    topic = "match" => /\ MatchIsLicensed(input.request, input.entries)
                       /\ OneMoreOnlyAdds(input.request, input.entries, input.one)

-----------------------------------------------------------------------------
(* Site memory. *)

Contract(safety) == [control |-> "submit", newline |-> TRUE, destination |-> v2, method |-> "post", safety |-> safety]
Event(tool, page, next, settle) ==
    [tool |-> tool, dispatched |-> TRUE, page |-> page, next |-> next, id |-> v1, resolved |-> next,
     contract |-> IF tool = "navigate" THEN None ELSE Contract("mutating"), settle |-> settle]
Events == {Event(t, p, q, s) : t \in {"navigate", "fill", "click"}, p \in {v1, v2}, q \in {v1, v2}, s \in {None, 2}}
Visits == {<<>>} \cup {<<e, Event("click", v1, v2, 1)>> : e \in Events}
Batches(runs) == [i \in DOMAIN runs |-> Memory!DeriveSiteMemory(runs[i], i, i)]

AskMemory == Ask("memory", {<<r, <<Event("fill", v1, v1, 1), e>>>> : r \in Visits, e \in Events})

SiteMemoryIsSound ==
    topic = "memory" =>
        LET facts == Memory!Consolidate(FlattenSeq(Batches(input)), 3)
        IN  /\ Memory!OrderDoesNotMatter(Batches(input), 3)
            /\ \A budget \in {3, 9, 30} : Memory!BriefIsBest(facts, v1, 2, budget)

Steps == {[contract |-> c, context |-> None, effect |-> e, checked |-> k] :
            c \in {v1, v2}, e \in {"local_write", "external_effect"}, k \in {"authoritative", "strong", "weak"}}
Paths == {<<s>> : s \in Steps} \cup {<<s, t>> : s, t \in {x \in Steps : x.effect # "external_effect"}}
AskSubflow ==
    Ask("subflow", {<<[run |-> 1, judged |-> FALSE, binding |-> v1, steps |-> p],
                      [run |-> 2, judged |-> j, binding |-> g, steps |-> q]>> :
                      p, q \in Paths, j \in BOOLEAN, g \in {v1, v2}})
SubflowsAreSupported == topic = "subflow" => Memory!MinedIsSupported(input)

-----------------------------------------------------------------------------
(* Observations and actions. *)

Element(tag, type, name, hint, place) ==
    [tag |-> tag, type |-> type, aria |-> None, name |-> name, visible |-> TRUE, label |-> FALSE, hint |-> hint,
     context |-> place[1], container |-> place[2], form |-> [method |-> "post", action |-> None, submits |-> TRUE],
     href |-> v1, enabled |-> TRUE, checked |-> FALSE, onclick |-> FALSE, value |-> None, options |-> {v3}]
Save == Element("button", "submit", <<v3>>, 1, <<v1, v1>>)
Elements ==
    {Save, [Save EXCEPT !.hint = 2], [Save EXCEPT !.container = v2], [Save EXCEPT !.context = v2],
     [Save EXCEPT !.visible = FALSE], [Save EXCEPT !.form.method = "get"],
     [Save EXCEPT !.name = <<v3, note>>, !.hint = 2], [Save EXCEPT !.name = <<note>>],
     Element("input", "checkbox", <<note>>, 3, <<v1, v1>>),
     [Element("input", "checkbox", <<note>>, 3, <<v1, v1>>) EXCEPT !.checked = TRUE],
     Element("p", None, <<note>>, None, <<v1, v1>>), Element("a", None, <<note>>, 2, <<v1, v2>>)}
Pages(n, elements) == {[url |-> u, elements |-> s] : u \in {v1}, s \in TupleOf(elements, n)}
Views == Pages(0, Elements) \cup Pages(1, Elements) \cup Pages(2, Elements)

AskPage == Ask("page", {[before |-> p, after |-> q] : p, q \in Views})
ObservationsAreWhole ==
    topic = "page" =>
        LET base == Plane!DistillPage(input.before)
            current == Plane!DistillPage(input.after)
        IN  /\ Plane!NothingStaleIsLeft(base, current)
            /\ \A budget \in 0 .. 2, ceiling \in {1, 2} :
                 /\ Plane!NeverUnactionable(current, None, budget, ceiling)
                 /\ Plane!NeverUnactionable(current, base, budget, ceiling)
            /\ Plane!EvidenceSeesChange("click", input.before, input.after)

Nodes == {Plane!NodeOf(e, v1) : e \in {x \in Elements : x.visible}}
Observations == {<<n>> : n \in Nodes} \cup {<<n, m>> : n, m \in Nodes}
Targets == {[selector |-> s, id |-> i, role |-> r, name |-> n, context |-> c] :
              s \in {1, 2}, i \in {None} \cup {n.id : n \in Nodes}, r \in {None, "button"},
              n \in {None, <<v3>>, <<note>>}, c \in {None, v1}}
AskTarget == Ask("target", {[nodes |-> o, target |-> t] : o \in Observations, t \in {x \in Targets : x.id # None /\ (x.role = None => x.name = None)}})
TargetsAreKept ==
    topic = "target" => \A n \in Nodes : Plane!OneMoreNeverRedirects(input.nodes, input.target, n)

Known == [stale : {FALSE}, mismatch : BOOLEAN, ambiguous : {FALSE}, origin : {{}, {v1}}, downloads : {{}, {v1}}]
Verbs == {"navigate", "fill", "select", "click", "hover", "press", "upload", "dragAndDrop"}
AskContract ==
    Ask("contract", {[recorded |-> Plane!ContractOf(v, n, None), current |-> Plane!ContractOf(v, m, e)] :
                       v \in Verbs, n, m \in {x \in Nodes : x.interactive}, e \in {None, v1}})
ContractsReachAlike ==
    topic = "contract" => \A known \in Known :
        /\ Plane!CompatibleReachesAlike(input.recorded, input.current, known)
        /\ Plane!NothingMutatingRunsEarly(input.current, known)

Fields ==
    {[Element("input", "text", <<note>>, h, <<c, v1>>) EXCEPT !.value = v] : h \in {1}, c \in {v1, v2}, v \in {v3}}
    \cup {[Element("input", "text", <<note>>, 3, <<v1, v1>>) EXCEPT !.value = note]}
    \cup {[Element("select", "single", <<v3>>, 2, <<v1, v1>>) EXCEPT !.value = v3]}
Controls == Fields \cup {Save, [Save EXCEPT !.hint = 3, !.form.method = "get"], [Save EXCEPT !.context = v2], [Save EXCEPT !.name = <<note>>]}
OnceEach(page) == \A i, j \in DOMAIN page.elements :
    i # j => page.elements[i].hint # page.elements[j].hint \/ page.elements[i].context # page.elements[j].context
ReplayPages == {[url |-> v1, doc |-> 1, elements |-> s] : s \in {<<>>} \cup TupleOf(Controls, 1) \cup TupleOf(Controls, 2)}
Recorded(e, tool) ==
    LET n == Plane!NodeOf(e, v1)
    IN  [selector |-> e.hint, id |-> n.id, role |-> n.role, name |-> n.name, context |-> n.context,
         contract |-> Plane!ContractOf(Replaying!VerbForTool(tool), n, None), text |-> v3]
Arguments(e, tool) ==
    LET r == Recorded(e, tool)
    IN  {r, [r EXCEPT !.contract = None], [r EXCEPT !.id = None], [r EXCEPT !.context = None, !.name = None],
         [r EXCEPT !.text = None], [r EXCEPT !.id = None, !.role = None, !.name = None, !.context = None, !.contract = None]}
Backends == {[verbs |-> {"hover", "press", "upload", "drag_and_drop"}, files |-> f, closed |-> {}] : f \in {{}, {v3}}}
            \cup {[verbs |-> {}, files |-> {v3}, closed |-> {v2}]}
Shown == {[url |-> v1, doc |-> d, elements |-> <<f>>] : d \in {1, 2}, f \in {c \in Controls : c.context = v1}}
Short(page) == Len(page.elements) < 2
AskReplay == topic = None /\ \E t \in {"fill", "select", "click", "upload"}, s \in {p \in ReplayPages : OnceEach(p)} :
    Ask("replay", {[tool |-> t, step |-> e, seen |-> s, live |-> l] : e \in Controls,
        l \in {None} \cup (IF Short(s) THEN Shown ELSE {x \in Shown : x.elements = <<Save>>})})
AskChord == Ask("chord", BoundedSeq({"ctrl", "Control", "cmd", "Shift", "Alt", "enter", "x", "Hyper"}, 4) \ {<<>>})

ReplaysAreFaithful ==
    /\ topic = "replay" =>
         LET live == IF input.live = None THEN input.seen ELSE input.live
         IN  \A args \in Arguments(input.step, input.tool), backend \in Backends, after \in {live, Failed} :
               /\ Replaying!ReplayIsFaithful(input.tool, args, input.seen, live,
                                             Replaying!Call(input.tool, args, backend, input.seen, live, after))
               /\ \A at \in DOMAIN live.elements : Replaying!ExpectsItsField(at, v3, live)
    /\ topic = "chord" => Replaying!ChordsAreCanonical(input)

-----------------------------------------------------------------------------
(* The agent's requests and its verifier. *)

Acts == [kind : {"click"}, target : {v1, v2}] \cup [kind : {"navigate", "fill"}, target : {v1}]
Compactions == {p \in [max : 2 .. 4, interval : 1 .. 3, recent : 1 .. 2, limit : 0 .. 2] : Context!ValidPolicy(p)}
AskHistory == Ask("history", {[actions |-> s, policy |-> p] : s \in TupleOf(Acts, 5), p \in {q \in Compactions : q.max = 2}}
                             \cup {[actions |-> s, policy |-> p] : s \in TupleOf({x \in Acts : x.target = v1 /\ x.kind # "fill"}, 6), p \in Compactions})
HistoriesAreHonest ==
    topic = "history" =>
        /\ \A x \in Acts : Context!HistoryIsHonest(input.actions, x, input.policy)
        /\ Context!LatestTargetsKept(input.actions, input.policy)

Envelopes == [class : {"api_state", "ui_text"}, subject : {v1, v2}, at : {1, 3}, generation : {None, 1, 2}, digest : {v1}]
Needs == [class : {"api_state", "database_state"}, digest : {None, v1, v2}]
AskVerdict ==
    Ask("verdict", {[collected |-> c, policy |-> [required |-> r, age |-> g], at |-> [now |-> 3, subject |-> v1, generation |-> n]] :
        c \in {<<{e, f}>> : e, f \in Envelopes} \cup {<<{e}, None>> : e \in Envelopes},
        r \in {<<>>} \cup {<<x>> : x \in Needs}, g \in {None, 1}, n \in {None, 1}})
VerdictsNeedAuthority ==
    topic = "verdict" => Context!OnlyAuthorityCounts(input.collected, input.policy, input.at)

-----------------------------------------------------------------------------
(* What the providers report, and pages that are read from a file. *)

Client == INSTANCE LlmUsage
Numbers == {None, -1, 0, 2}
Reports == [input : Numbers, cached : Numbers, output : {None, 1}]
Printed == {None, [type |-> "message", text |-> v1, usage |-> None]} \cup [type : {"turn"}, text : {None}, usage : Reports]
AskUsage ==
    \/ Ask("prompt", {<<f, r, w, o>> : f, r, w \in 0 .. 3, o \in {0, 1}})
    \/ Ask("usage", {[exit |-> x, events |-> s, usage |-> u] : x \in {0, 1}, s \in BoundedSeq(Printed, 2),
            u \in {[input |-> i, read |-> r, write |-> w, cached |-> Client!OrZero(r), written |-> Client!OrZero(w), output |-> 1] : i \in {0, 2}, r, w \in {None, 0, 2}}})

Tag(tag, closes, type, action) == [closes |-> closes, tag |-> tag, empty |-> tag = "input", key |-> None, type |-> type, action |-> action]
Tags == {Tag("form", FALSE, None, v1), Tag("form", FALSE, None, v2), Tag("form", TRUE, None, None), Tag("section", FALSE, None, None),
         Tag("section", TRUE, None, None), Tag("input", FALSE, "text", None), Tag("button", FALSE, None, None)}
AskHtml == Ask("html", BoundedSeq(Tags, 5))

-----------------------------------------------------------------------------
(* Predictions. *)

Traces == BoundedSeq({v1, v2, v3}, 3)
AskPrediction == Ask("prediction", {[history |-> h, priors |-> <<p, q>>] : h \in BoundedSeq({v1, v2}, 2), p \in Traces, q \in BoundedSeq({v1, v2, v3}, 2)}
                                   \cup {[history |-> h, priors |-> <<p>>] : h \in BoundedSeq({v1, v2}, 3), p \in BoundedSeq({v1, v2, v3}, 4)})
UsageIsTrue ==
    /\ topic = "prompt" => Client!ProvidersAgree(input[1], input[2], input[3], input[4])
    /\ topic = "usage" => Client!NothingIsGuessed(input.exit, input.events, input.usage)
PagesAreNested == topic = "html" => Plane!WalksAgree(input)
PredictionsAreEarned ==
    topic = "prediction" =>
        /\ Prediction!FollowsTheLongestMatch(input.history, input.priors)
        /\ Prediction!ConfidenceIsEarned(input.history, input.priors)
        /\ input.history = <<>> => Prediction!SimulationAddsUp(input.priors, 2)

-----------------------------------------------------------------------------
(* Playbooks. *)

Values == {<<v3>>, <<note>>, <<v3, note>>, <<v3, v3>>, <<v1>>}
AskTemplate ==
    Ask("template", {[text |-> t, params |-> <<[name |-> <<v1>>, value |-> v], [name |-> <<v2>>, value |-> w]>>] :
                       t \in BoundedSeq({v1, v3, note, "\\"}, 4), v, w \in Values})
TemplatesAreFaithful ==
    topic = "template" =>
        /\ Distilling!TemplatesAreFaithful(input.text, input.params)
        /\ \A n \in {<<v1>>, <<v2, v1>>}, v \in {1, 2} : Distilling!EscapesAreLiteral(input.text, n, v)

Recalled(tool, id, label, text) ==
    [tool |-> tool, dispatched |-> TRUE, exact |-> tool = "fill", id |-> id, selector |-> label, label |-> label,
     text |-> text, path |-> None, contract |-> TRUE, checks |-> None]
Doings ==
    {[Recalled("navigate", None, <<v1>>, <<note, v3>>) EXCEPT !.path = <<v3>>],
     Recalled("fill", v1, <<v1>>, <<v3>>), Recalled("fill", v1, <<v1>>, <<note, v3>>), Recalled("fill", None, <<v2>>, <<note>>),
     [Recalled("fill", v1, <<v1>>, <<note>>) EXCEPT !.dispatched = FALSE],
     [Recalled("select", v1, <<v1>>, <<note>>) EXCEPT !.exact = FALSE],
     Recalled("click", v1, <<v1>>, <<>>), Recalled("click", None, <<v2>>, <<>>), Recalled("click", None, <<v2, 2>>, <<>>),
     Recalled("press", None, <<v2>>, <<note>>), Recalled("scroll", None, <<v2>>, <<>>)}
Done(checks) == [Recalled("done", None, <<v1>>, <<>>) EXCEPT !.checks = checks]
AskDistill == topic = None /\ \E s \in BoundedSeq(Doings, 3) :
    Ask("distill", {[events |-> Append(s, Done(c)),
                     options |-> [params |-> p, literals |-> l, verify |-> v, intent |-> <<note, v3>>]] :
        c \in IF Len(s) = 3 THEN {<<<<v3>>>>} ELSE {None, Failed, <<<<v3>>>>},
        v \in IF Len(s) = 3 THEN {None} ELSE {None, <<<<note>>>>}, l \in {"fail", "allow"},
        p \in {<<>>, <<[name |-> <<v1>>, value |-> <<v3>>]>>,
               <<[name |-> <<v1>>, value |-> <<note, v3>>], [name |-> <<v2>>, value |-> <<note>>]>>}})
PlaybooksRepeatRuns ==
    topic = "distill" => /\ Distilling!ReplayRepeatsTheRun(input.events, input.options)
                         /\ Distilling!NothingIsKeptUnasked(input.events, input.options)

Dependencies == {<<>>, <<1>>, <<2>>, <<3>>, <<4>>, <<2, 3>>, <<3, 1>>, <<4, 2>>}
AskOrder == Ask("order", {[i \in 1 .. 4 |-> [id |-> i, depends |-> d[i]]] : d \in [1 .. 4 -> Dependencies]})
PlaybooksAreOrdered == topic = "order" => Distilling!OrderRespectsDependencies(input)

-----------------------------------------------------------------------------
(* Planning a campaign. *)

Cell(id, gate, minimum) ==
    [id |-> id, gate |-> gate, minimum |-> minimum, tags |-> Plan!Telemetry(gate), reset |-> v1, oracle |-> v1]
CellsOf(minimum) == <<Cell(1, "t0", 1), Cell(2, "t2", 1), Cell(3, "routing", 1), Cell(4, "b4", minimum)>>
Protocols ==
    {[repetitions |-> n, pricing |-> v1, model |-> v1, cells |-> c] :
        n \in {1, 2}, c \in {CellsOf(2), CellsOf(4), Reverse(CellsOf(2)), [CellsOf(2) EXCEPT ![1].tags = {}], Tail(CellsOf(2))}}
Asks == {[n \in {} |-> None], [n \in {1} |-> v1], [n \in {1, 2} |-> IF n = 1 THEN v1 ELSE v2], [n \in {2} |-> v2]}
Binding(cell, asks) == [cell |-> cell, task |-> cell, ask |-> v1, asks |-> asks]
Bindings ==
    {[i \in 1 .. 4 |-> Binding(i, s)] : s \in Asks}
    \cup {Append([i \in 1 .. 4 |-> Binding(i, s)], Binding(x, t)) : x \in {1, 5}, s, t \in {[n \in {} |-> None], [n \in {1, 2} |-> v2]}}
    \cup {[i \in 1 .. 3 |-> Binding(i + k, s)] : k \in {0, 1}, s \in Asks}
AllOptions == {[bindings |-> s, brief |-> 1, routine |-> m] : s \in Bindings, m \in {None, v2}}
Broken(protocol, options) ==
    {{}} \cup {{r} : r \in UNION {{x.id : x \in ToSet(p.runs)} : p \in ToSet(Plan!PlanP2Campaign(protocol, options))}}
AskPlan == topic = None /\ \E p \in Protocols, o \in AllOptions :
    Ask("plan", {[protocol |-> p, options |-> o, broken |-> s] : s \in Broken(p, o)})
PlansAreWhole ==
    topic = "plan" => /\ Plan!PlanCollectsEveryGate(input.protocol, input.options)
                      /\ Plan!RehearsalStopsShort(input.protocol, input.options, input.broken)

Row(cell) == [cell |-> cell.id, priced |-> TRUE, buckets |-> Plan!UsageBuckets, tags |-> cell.tags, reset |-> v1, oracle |-> v1]
RowsOf(cell) ==
    LET row == Row(cell)
    IN  {row, [row EXCEPT !.priced = FALSE], [row EXCEPT !.buckets = @ \ {"read"}], [row EXCEPT !.tags = @ \cup {"other"}],
         [row EXCEPT !.tags = {}], [row EXCEPT !.reset = v2], [row EXCEPT !.oracle = v2]}
AskPreflight ==
    Ask("preflight", {[protocol |-> [repetitions |-> 2, pricing |-> v1, model |-> v1, cells |-> SubSeq(CellsOf(2), 1, 3)], rows |-> rows] :
        rows \in {<<x, y, z>> : x \in RowsOf(CellsOf(2)[1]), y \in RowsOf(CellsOf(2)[2]), z \in RowsOf(CellsOf(2)[3])}})

Price(n) == [input |-> n, output |-> 2 * n, read |-> None, write |-> None]
Tables == {[version |-> v, prices |-> p] : v \in {v1, v2}, p \in {[m \in {v1} |-> Price(3)], [m \in {v2} |-> Price(1)],
              [m \in {v1, v2} |-> Price(IF m = v1 THEN 3 ELSE 1)], [m \in {v1, v2} |-> Price(IF m = v1 THEN 1 ELSE 2)]}}
Profile(task, n, steps) == [task |-> task, tokens |-> [input |-> n, output |-> 1, read |-> n, write |-> 1], steps |-> steps]
AskCost ==
    Ask("cost", {[protocol |-> p, options |-> o, table |-> t, share |-> s, profiles |-> f] :
        p \in {x \in Protocols : x.repetitions = 2 /\ Len(x.cells) = 4},
        o \in {x \in AllOptions : Len(x.bindings) # 5}, t \in Tables, s \in {0, 500, 1000},
        f \in {<<>>, <<Profile(1, 2, 1), Profile(2, 1, 1)>>, <<Profile(4, 1, 1), Profile(3, 2, 2), Profile(2, 3, 1), Profile(1, 1, 1)>>}})
StartsAreSafe ==
    /\ topic = "preflight" => Plan!PreflightFailsClosed(input.protocol, input.rows)
    /\ topic = "cost" => Plan!CostIsBounded(Plan!PlanP2Campaign(input.protocol, input.options), input.protocol, input.table,
                                            input.options.routine, input.share, input.profiles)

-----------------------------------------------------------------------------
(* Judging a campaign. *)

Record(gate, kind, n, success, tokens, split, pricing) ==
    Gates!RunRecord(1, gate, kind, n, success, tokens, split[1], split[2], split[1], pricing)
Untold == <<None, None>>
Halves(gate, repetitions, tokens, splits) ==
    {Record(gate, k, n, s, t, p, v1) : k \in {Gates!Paired(gate).subject, Gates!Paired(gate).baseline}, n \in repetitions,
        s \in BOOLEAN, t \in tokens, p \in splits}
Ran(gate, subject, baseline, n, tokens, splits) ==
    {<<x, y>> : x \in {r \in Halves(gate, {n}, tokens, splits) : r.kind = Gates!Paired(gate).subject},
                y \in {r \in Halves(gate, {n}, tokens, {Untold}) : r.kind = Gates!Paired(gate).baseline}}
AskGate == topic = None /\ \E g \in {"t0", "t2", "routing"} :
    LET splits == IF g = "routing" THEN {<<2, 1>>, <<2, 2>>, <<0, 0>>, Untold} ELSE {Untold}
        tokens == IF g = "routing" THEN {5} ELSE {1, 5, 9}
        firsts == Ran(g, TRUE, TRUE, 1, tokens, splits)
        seconds == Ran(g, TRUE, TRUE, 2, tokens, splits)
    IN  Ask("gate", {[cell |-> Cell(1, g, 2), records |-> r, extra |-> Record(g, Gates!Paired(g).subject, 3, TRUE, 1, Untold, v1)] :
            r \in {x \o y : x \in firsts, y \in seconds} \cup {x \o y : x \in firsts, y \in {<<z[1]>> : z \in seconds}}
                 \cup {Append(x \o y, Record(g, k, 3, s, 1, Untold, v1)) : k \in {Gates!Paired(g).subject, Gates!Paired(g).baseline},
                         s \in BOOLEAN, x \in firsts, y \in {z \in seconds : z[1].success /\ z[2].success}}
                 \cup {Append(x, [x[2] EXCEPT !.repetition = 2, !.pricing = v2]) : x \in firsts}})
AskEndurance ==
    Ask("endurance", {[cell |-> Cell(1, "b4", 2), records |-> r] :
        r \in BoundedSeq({Record("b4", "endurance", n, s, 1, <<t, None>>, v1) : n \in {1, 2}, s \in BOOLEAN, t \in {None, 1, 2}}, 2)})
GatesAreFair ==
    /\ topic = "gate" =>
         /\ Gates!LosingNeverWins(input.cell, input.records, input.extra, 2, Stream, Confidence)
         /\ Gates!VerdictsNeedEvidence(input.cell, input.records, 2, Stream, Confidence)
         /\ Gates!OrderSaysNothing(input.cell, input.records, 2, Stream, Confidence)
    /\ topic = "endurance" => Gates!OrderSaysNothing(input.cell, input.records, 2, Stream, Confidence)

-----------------------------------------------------------------------------
(* The published curve: two lengths of a task, twice each. *)

Receipt(harness, run, task, n, step, usage, sum, outcome) ==
    [harness |-> harness, protocol |-> harness, model |-> v1, kind |-> "measurement", run |-> run, task |-> task, repetition |-> n,
     target |-> 2 * task, step |-> step, usage |-> usage, sum |-> sum, outcome |-> outcome, verified |-> outcome = "success"]
Usage(n) == [input |-> n, cached |-> n]
\* A run of task steps, of which each is paid u.
Receipts(harness, task, n, u, outcome) ==
    [k \in 1 .. task |-> Receipt(harness, 2 * task + n, task, n, k, Usage(u), Usage(k * u), IF k < task THEN "continued" ELSE outcome)]
Runs(harness, paid, outcomes) ==
    FoldSeq(LAMBDA i, s : s \o Receipts(harness, 1 + (i \div 3), 1 + (i % 2), paid[i], outcomes[i]), <<>>, <<1, 2, 3, 4>>)
Outcomes == {[i \in 1 .. 4 |-> "success"]} \cup {[[i \in 1 .. 4 |-> "success"] EXCEPT ![k] = "failure"] : k \in 1 .. 4}
Curves(harness, costs) ==
    {Runs(harness, [i \in 1 .. 4 |-> IF i = 4 THEN v ELSE u], o) : u \in costs, v \in costs, o \in Outcomes}
FailedRuns == {Receipts(v1, 1, 3, 1, "failure"), Receipts(v1, 2, 3, 9, "failure")}
Tampered(records) ==
    {records, Tail(records), Append(records, records[1]), [records EXCEPT ![2].repetition = 2], [records EXCEPT ![1].model = v2],
     [records EXCEPT ![1].outcome = "continued"], [records EXCEPT ![6].outcome = "success"], [records EXCEPT ![2].step = 2],
     [records EXCEPT ![3].usage.input = @ + 1]}
AskCurve ==
    Ask("curve", {[subject |-> s, baseline |-> r, failed |-> f, min |-> n] : n \in {1, 2},
        s \in Curves(v1, {1, 3}) \cup Tampered(Runs(v1, <<1, 1, 1, 1>>, CHOOSE o \in Outcomes : o[1] = o[2] /\ o[3] = o[4])),
        r \in Curves(v2, {2, 3}), f \in FailedRuns})
CurvesAreSound ==
    topic = "curve" =>
        LET report(s, r) == Curve!BuildCurveReport(s, r, <<v1, v2>>, [p \in {v1, v2} |-> v1], input.min, 100, Stream, Confidence)
        IN  /\ Curve!EvidenceIsUntouched(input.subject, input.baseline, report)
            /\ Curve!ClaimIsEarned(input.subject, input.baseline, input.failed, input.min, report)

-----------------------------------------------------------------------------
(* Plans of commands and the M3 gate.  The names of the two tasks differ in case. *)

Entry(task, phase, n, fan, id, file) == [task |-> task, phase |-> phase, repetition |-> n, repetitions |-> fan, id |-> id, usage |-> file]
Entries(tasks, phases) ==
    {Entry(t, p, n, f, id, file) : t \in tasks, p \in phases, n \in {None, 1}, f \in {None, 2}, id \in {None, v3}, file \in {None, note}}
Spent(n) == [input |-> n, read |-> n, write |-> 0, output |-> 0]
Manifest(outcome, n) == [outcome |-> outcome, tokens |-> <<Spent(n)>>, calls |-> n]
Did(ok, writes, sidecar) == [ok |-> ok, writes |-> writes, sidecar |-> sidecar]
Deeds(m) == {Did(TRUE, m, None), Did(TRUE, None, None), Did(FALSE, m, None), Did(TRUE, m, <<Spent(7)>>)}
RunsTo(entries) == Len(Cells!ParsePlan(entries))
AskCells == topic = None /\ \E e \in Entries({v1}, {"cold"}), f \in Entries({v1, v2}, {"cold", "warm"}) :
    Ask("cells", {[entries |-> <<e, f>>, did |-> d] :
        d \in {x \in [1 .. RunsTo(<<e, f>>) -> UNION {Deeds(Manifest("success", k)) : k \in 1 .. 4}] :
                  \A k \in DOMAIN x : x[k] \in Deeds(Manifest("success", k))}})
CellOf(task, phase, n, m) == [task |-> task, phase |-> phase, n |-> n, manifest |-> m]
SomeManifests == {None, Manifest("success", 1), Manifest("failure", 5), Manifest("success", 9)}
AskM3 ==
    Ask("m3", {[cells |-> <<CellOf(v1, "cold", 1, k), CellOf(v1, "cold", 2, l), CellOf(v1, "warm", 1, m)>> \o s] :
        k \in SomeManifests, l \in SomeManifests, m \in SomeManifests,
        s \in {<<>>} \cup {<<CellOf(t, "warm", 2, m)>> : t \in {v1, v2}, m \in SomeManifests}})

(* Harnesses compared: the subject's file of cells, and a competitor's. *)

Raw(task, n, success, tokens) == [task |-> task, n |-> n, success |-> success, tokens |-> Spent(tokens)]
FilesOf(subject, other, model, adjusted) ==
    <<[harness |-> v1, records |-> [i \in DOMAIN subject |->
          Heads!RecordFromCell(subject[i], [harness |-> v1, model |-> v1, adjusted |-> TRUE])]],
      [harness |-> v2, records |-> Heads!CompetitorRecords(other, [harness |-> v2, model |-> model, adjusted |-> adjusted])]>>
Mislabelled(files) == {files, [files EXCEPT ![2].records = Append(@, [@[1] EXCEPT !.harness = v1])],
    [files EXCEPT ![2].records = Append(@, [@[1] EXCEPT !.harness = v3])], [files EXCEPT ![1].records[1].model = v2]}
AskLaunch == topic = None /\ \E k, l \in SomeManifests, m \in {v1, v2}, c \in BOOLEAN, s, u \in BOOLEAN, v \in {1, 9}, t \in {v1, v2} :
    Ask("launch", {[files |-> f, min |-> min, table |-> p] : min \in {1, 2}, p \in {x \in Tables : x.version = v1 /\ v1 \in DOMAIN x.prices /\ x.prices[v1].input = 3},
        f \in Mislabelled(FilesOf(<<CellOf(v1, "warm", 1, k), CellOf(v1, "warm", 2, l)>>, <<Raw(v1, 3, s, 9), Raw(t, None, u, v)>>, m, c))})

Stage(n, phase, ok, tags, tokens, pricing) ==
    [n |-> n, phase |-> phase, concluded |-> ok, verified |-> TRUE, tags |-> tags, cost |-> tokens, duration |-> 1, pricing |-> pricing,
     usage |-> IF tokens = 0 THEN <<>> ELSE <<[source |-> "verify", tokens |-> tokens]>>]
StagesOf(n, phase) ==
    {Stage(n, phase, s, Heads!Stages(phase), k, v1) : s \in BOOLEAN, k \in IF phase = "cold" THEN {5, 10} ELSE {0, 1, 2}}
    \cup {Stage(n, phase, TRUE, Heads!Stages(phase) \ {x}, 1, v1) : x \in Heads!Stages(phase)} \cup {Stage(n, phase, TRUE, Heads!Stages(phase), 1, v2)}
AskT0 == topic = None /\ \E w \in StagesOf(1, "cold"), x \in StagesOf(1, "warm") :
    Ask("t0", {<<w, x, y, z>> : y \in StagesOf(2, "cold"), z \in StagesOf(2, "warm")}
              \cup {<<w, x, y, z, [z EXCEPT !.concluded = FALSE]>> : y \in StagesOf(2, "cold"), z \in StagesOf(2, "warm")})
\* A certification of B2, a run of which may have failed, with the evidence tampered with.
Neutral(harness, task, n, success, tokens) ==
    [harness |-> harness, task |-> task, n |-> n, success |-> success, tokens |-> Spent(tokens), model |-> Heads!G2Model, adjusted |-> TRUE]
ManifestFor(r) == [task |-> r.task, n |-> r.n, success |-> r.success, usage |-> <<r.tokens>>]
ReceiptFor(r) == [model |-> r.model, prompt |-> r.tokens.input + r.tokens.read, read |-> r.tokens.read, write |-> 0, five |-> 0, hour |-> 0, output |-> r.tokens.output]
DumpFor(r, protocol) ==
    [task |-> r.task, n |-> r.n, success |-> r.success, tokens |-> r.tokens, concluded |-> TRUE, visible |-> TRUE, exact |-> protocol # "v1",
     version |-> Heads!VersionOf(protocol), receipts |-> <<ReceiptFor(r)>>]
Certification(records, protocol, min) ==
    LET mine == Heads!OfHarness(records, Heads!Subject)
        theirs == Heads!OfHarness(records, Heads!Rival)
    IN  [records |-> records, protocol |-> protocol, min |-> min, table |-> [version |-> v1, prices |-> [m \in {Heads!G2Model} |-> Price(3)]],
         manifests |-> [i \in DOMAIN mine |-> ManifestFor(mine[i])], dumps |-> [i \in DOMAIN theirs |-> DumpFor(theirs[i], protocol)]]
Falsified(e) ==
    {e, [e EXCEPT !.manifests[1].success = FALSE], [e EXCEPT !.manifests[1].usage = <<>>], [e EXCEPT !.manifests = Append(@, @[1])],
     [e EXCEPT !.manifests[1].usage = <<@[1], Spent(0)>>], [e EXCEPT !.dumps[1].visible = FALSE], [e EXCEPT !.dumps[1].concluded = FALSE],
     [e EXCEPT !.dumps[1].exact = FALSE], [e EXCEPT !.dumps[2].version = "other"], [e EXCEPT !.records[1].model = v2],
     [e EXCEPT !.records[2].adjusted = FALSE]}
    \cup {[e EXCEPT !.dumps[1].receipts[1] = r] : r \in
            LET is == e.dumps[1].receipts[1]
            IN  {[is EXCEPT !.model = v2], [is EXCEPT !.hour = 1], [is EXCEPT !.write = 1, !.five = 1], [is EXCEPT !.read = @ - 1, !.five = 1],
                 [is EXCEPT !.read = @ + 9], [is EXCEPT !.prompt = @ + 1]}}
AskG2 == topic = None /\ \E x, y \in {1, 5}, u \in {2, 9} :
    LET both(task, n) == <<Neutral(Heads!Subject, task, n, TRUE, IF n = 1 THEN x ELSE y), Neutral(Heads!Rival, task, n, TRUE, IF n = 1 THEN u ELSE 9)>>
        pairs == both("B2", 1) \o both("B2", 2)
        extra(h, task, n, s) == Append(pairs, Neutral(h, task, n, s, u))
    IN  Ask("g2", UNION {Falsified(Certification(r, p, 2)) \cup {Certification(r, p, 1)} : p \in {"v1", "v2", "v3"}, r \in
            {pairs, Tail(pairs), Append(pairs, pairs[1]), pairs \o both("B1", 2) \o both("B1", 1) \o both("B3", 1) \o both("B3", 2),
             [extra(Heads!Rival, "B2", 3, TRUE) EXCEPT ![2].success = FALSE], [pairs EXCEPT ![4].success = FALSE]}
            \cup {extra(h, t, 3, s) : h \in {Heads!Subject, Heads!Rival}, t \in {"B1", "B2"}, s \in BOOLEAN}})

CountsAreHonest ==
    /\ topic = "g2" => Heads!ReportRestsOnEvidence(input, Stream, Confidence)
    /\ topic = "cells" => Cells!CellsAreTheirRuns(input.entries, input.did)
    /\ topic = "m3" => \A floor \in {0, 800} : Cells!WorseNeverPasses(input.cells, floor)
    /\ topic = "launch" => Heads!LaunchIsEarned(input.files, input.table, v1, 100, input.min, Stream, Confidence)
    /\ topic = "t0" => Heads!RowsStayCounted(input, Stream, Confidence)

-----------------------------------------------------------------------------
(* What the runs teach: the routes of a campaign, the foresight of the predictor and *)
(* long sessions. *)

Forecast(source, confidence, hit, predicted) == [source |-> source, confidence |-> confidence, hit |-> hit, predicted |-> predicted]
Forecasts == {None, Forecast(v1, 1200, TRUE, v1), Forecast(v2, 700, TRUE, v2)} \cup {Forecast(v1, c, h, v1) : c \in {0, 400, 1000}, h \in BOOLEAN}
Happened(page, prediction, route) == [page |-> page, route |-> route, prediction |-> prediction, actual |-> v1, compaction |-> None]
AskRoutes ==
    Ask("routes", {<<Happened(v1, p, [planner |-> "routine", escalated |-> FALSE]), Happened(s, q, [planner |-> "frontier", escalated |-> TRUE]),
                     Happened(None, r, None)>> : p \in Forecasts, q \in Forecasts, r \in Forecasts, s \in {v1, v2}})

Tried(run, step, action, kind) == [run |-> run, step |-> step, action |-> action, kind |-> kind]
Some == {v1, v2, v3}
AskForesight == topic = None /\ \E x \in BoundedSeq(Some, 2), y \in BoundedSeq(Some, 3), z \in {<<>>, <<v2, v1>>} :
    Ask("foresight", {[k \in DOMAIN x |-> Tried(1, k, x[k], m)] \o [k \in DOMAIN y |-> Tried(2, n * k, y[k], "measurement")]
                         \o [k \in DOMAIN z |-> Tried(t, k, z[k], "measurement")] : m \in {"measurement", "dry_run"}, n \in {0, 1}, t \in {2, 3}})

Policies == {[max |-> m, interval |-> i, recent |-> r, limit |-> l] : m \in 1 .. 3, i \in 1 .. 3, r \in 1 .. 2, l \in {0, 1}}
ActionOf(target) == [kind |-> "click", target |-> target]
AskSession == topic = None /\ \E p \in {x \in Policies : Sessions!ValidPolicy(x)}, n \in {4, 7} :
    Ask("session", {[policy |-> p, actions |-> [k \in 1 .. n |-> ActionOf(s[k])], bytes |-> [k \in 1 .. n + 1 |-> IF k > 5 THEN g * k ELSE k]] :
        s \in {x \in [1 .. n -> {v1, v2}] : x[1] = v1}, g \in {1, 3}})
LimitsOf(n) == [min |-> 2, transitions |-> n, budget |-> 10, bootstrap |-> 20, settle |-> 1, share |-> 800, growth |-> 50]
LessonsAreTrue ==
    /\ topic = "routes" => Sessions!CalibrationAddsUp(input)
    /\ topic = "foresight" => LET runs == FoldSet(LAMBDA r, s : Append(s, r), <<>>, Prediction!RunsFromCurve(input))
                              IN  Prediction!GateMeasuresForesight(runs, Some, 700)
    /\ topic = "session" =>
         /\ Sessions!CertificateMatchesAgent(input.actions, input.policy, input.bytes, LimitsOf(Len(input.actions)))
         /\ LET shown(k) == Sessions!History(SubSeq(input.actions, 1, k - 1), input.policy)
                event(k) == [compaction |-> IF shown(k).compacted = 0 THEN None
                                            ELSE [compacted |-> shown(k).compacted, retained |-> Len(shown(k).visible) - (k - 1 - shown(k).compacted)]]
            IN  Sessions!B4Evidence([k \in 1 .. Len(input.actions) + 1 |-> event(k)]).visible <= Sessions!VisibleActionBound(input.policy)

AskedOfBench ==
    \/ AskPlan \/ AskPreflight \/ AskCost \/ AskGate \/ AskEndurance \/ AskCurve
    \/ AskCells \/ AskM3 \/ AskLaunch \/ AskT0 \/ AskG2 \/ AskRoutes \/ AskForesight \/ AskSession
-----------------------------------------------------------------------------
(* What the run checks. *)

\* What is learned holds where it is used: a distilled playbook does what its run did and
\* in an order its dependencies allow (distiller, core); it is matched only for its own task
\* and parameters (matcher); a remembered fact neither depends on the order of the runs nor
\* displaces a better one, and a subflow is what independent successes share (site memory).
LearningIsSound ==
    /\ TemplatesAreFaithful /\ PlaybooksRepeatRuns /\ PlaybooksAreOrdered
    /\ MatchIsSound /\ SiteMemoryIsSound /\ SubflowsAreSupported
\* A replayed action reaches what the recorded one did: a delta of the page leaves nothing
\* stale and an element added elsewhere redirects no target (perception, action plane), the
\* walks over a page in a file agree (browser), contracts that are compatible let the same
\* happen and nothing that writes runs early, and a tool acts on the recorded target or
\* fails; when it fails with a code of its own it has done nothing (replay tools).
ReplaysReachAlike ==
    /\ ObservationsAreWhole /\ TargetsAreKept /\ PagesAreNested
    /\ ContractsReachAlike /\ ReplaysAreFaithful
\* What a request tells the model, what the verifier believes, what the predictor expects
\* and what a call is accounted at follow from what happened (agent, predictor, llm).
RequestsAreHonest == HistoriesAreHonest /\ VerdictsNeedAuthority /\ PredictionsAreEarned /\ UsageIsTrue
\* A campaign collects what its gates need, starts only if that is safe, and a gate is
\* passed only by evidence: losing a run never turns a verdict (bench).
CampaignsAreFair == PlansAreWhole /\ StartsAreSafe /\ GatesAreFair
\* A report claims only what its records bear: no failed run is left out of it, no number
\* is of another run, and what is learned of routes, predictions and sessions adds up.
ReportsAreHonest == CurvesAreSound /\ CountsAreHonest /\ LessonsAreTrue

-----------------------------------------------------------------------------
AskedOfPackages ==
        \/ AskMatch \/ AskLongMatch \/ AskMemory \/ AskSubflow \/ AskPage \/ AskTarget \/ AskContract \/ AskReplay \/ AskChord
        \/ AskHistory \/ AskVerdict \/ AskPrediction \/ AskTemplate \/ AskDistill \/ AskOrder
        \/ AskUsage \/ AskHtml
Next == AskedOfPackages \/ AskedOfBench \/ Answered
Spec == Init /\ [][Next]_<<topic, input>>
=============================================================================
