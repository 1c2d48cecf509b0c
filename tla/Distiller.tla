------------------------------ MODULE Distiller ------------------------------
(***************************************************************************)
(* From one successful run to a playbook                                   *)
(* (packages/distiller/src/distill.ts), the references its texts hold and  *)
(* what they render to (packages/core/src/template.ts), and what makes it  *)
(* valid (core/src/schemas/playbook.ts, executor/src/topo-order.ts).       *)
(*                                                                         *)
(* A text is a sequence of symbols; the two braces of each kind are one    *)
(* symbol.  A parameter is [name, value], both of them texts.              *)
(*                                                                         *)
(* An event is [tool, dispatched, exact, id, selector, label, text, path,  *)
(* contract, checks]: whether its evidence exists and is strong and held,  *)
(* the identity and selector it resolved to, the words of its label, the   *)
(* text it carries (a value, a URL, a chord, a file or a second target),   *)
(* the path of a URL, whether a contract was recorded, and, for done, the  *)
(* checks of the verification: None, Failed, or a sequence of texts.       *)
(***************************************************************************)
EXTENDS Integers, SequencesExt, FiniteSetsExt

CONSTANTS
    Word,           \* the symbols a name is made of: letters, digits, underscore
    None, Failed

Open == "{{"
Close == "}}"
Slash == "\\"
Ref(name) == <<Open>> \o name \o <<Close>>

StandsAt(text, part, i) == i + Len(part) - 1 <= Len(text) /\ SubSeq(text, i, i + Len(part) - 1) = part
Includes(text, part) == \E i \in 1 .. Len(text) : StandsAt(text, part, i)

-----------------------------------------------------------------------------
(* extractParamRefs and renderTemplate.                                     *)

\* The names of the references that begin at a position: one or none.
NamesAt(text, i) ==
    {SubSeq(text, i + 1, j - 1) : j \in {k \in i + 2 .. Len(text) :
        /\ text[i] = Open /\ text[k] = Close
        /\ \A m \in i + 1 .. k - 1 : text[m] \in Word}}
NameAt(text, i) == CHOOSE name \in NamesAt(text, i) : TRUE
SlashesBefore(text, i) == Max({n \in 0 .. i - 1 : \A k \in i - n .. i - 1 : text[k] = Slash})

\* One backslash escapes in the first version; from the second on a pair is one.
IsEscaped(text, i, version) ==
    IF version < 2 THEN SlashesBefore(text, i) > 0 ELSE SlashesBefore(text, i) % 2 = 1
RefsOf(text, version) ==
    UNION {IF IsEscaped(text, i, version) THEN {} ELSE NamesAt(text, i) : i \in DOMAIN text}

\* How many of the backslashes before a reference stay.
SlashesKept(text, i, version) ==
    IF version >= 2 THEN SlashesBefore(text, i) \div 2 ELSE Max({0, SlashesBefore(text, i) - 1})
\* The position of a symbol that is an escape, and so is not rendered.
IsEscape(text, i, version) ==
    \E j \in i + 1 .. Len(text) : /\ NamesAt(text, j) # {}
                                  /\ i >= j - SlashesBefore(text, j) + SlashesKept(text, j, version)

IsBound(bindings, name) == name \in DOMAIN bindings
RenderTemplate(text, bindings, version) ==
    LET shown(i) == IF IsEscaped(text, i, version) THEN Ref(NameAt(text, i)) ELSE bindings[NameAt(text, i)]
        rest[i \in 1 .. Len(text) + 1] ==
            CASE i > Len(text) -> <<>>
              [] NamesAt(text, i) # {} -> shown(i) \o rest[i + Len(NameAt(text, i)) + 2]
              [] OTHER -> (IF IsEscape(text, i, version) THEN <<>> ELSE <<text[i]>>) \o rest[i + 1]
    IN  rest[1]
Renders(text, bindings, version) == \A name \in RefsOf(text, version) : IsBound(bindings, name)

-----------------------------------------------------------------------------
(* templateValue.                                                           *)

ReplaceEach(text, part, by) ==
    LET rest[i \in 1 .. Len(text) + 1] ==
            CASE i > Len(text) -> <<>>
              [] i <= Len(text) /\ StandsAt(text, part, i) -> by \o rest[i + Len(part)]
              [] OTHER -> <<text[i]>> \o rest[i + 1]
    IN  rest[1]

\* Mutant of LongestFirst: the parameters in the order they are declared.
AsDeclared(params) == params
LongestFirst(params) ==
    LET before(i, j) == \/ Len(params[i].value) > Len(params[j].value)
                        \/ Len(params[i].value) = Len(params[j].value) /\ i <= j
        order == SortSeq([i \in DOMAIN params |-> i], before)
    IN  [i \in DOMAIN params |-> params[order[i]]]

\* The text after the first n parameters have been replaced.
Templated(text, params, n) ==
    LET after[k \in 0 .. n] ==
            IF k = 0 THEN text
            ELSE ReplaceEach(after[k - 1], LongestFirst(params)[k].value, Ref(LongestFirst(params)[k].name))
    IN  after[n]
TemplateValue(text, params) == Templated(text, params, Len(params))
UsedIn(text, params) ==
    {LongestFirst(params)[k].name : k \in {i \in DOMAIN params :
        Includes(Templated(text, params, i - 1), LongestFirst(params)[i].value)}}

-----------------------------------------------------------------------------
(* distillTrajectory.                                                       *)

Writes == {"fill", "select"}
ElementTools == Writes \cup {"click", "hover", "press", "upload", "dragAndDrop"}

PruneReason(e) ==
    CASE e.tool = "done" -> "terminal_done"
      [] e.tool \notin ElementTools \cup {"navigate"} -> "unsupported_tool"
      [] ~ e.dispatched -> "not_dispatched"
      [] OTHER -> None

TargetKey(e) == IF e.id # None THEN e.id ELSE e.selector
\* Mutant of Superseded: a write counts as corrected by any later action on its target.
TouchedAgain(events, i) ==
    /\ events[i].tool \in Writes
    /\ \E j \in i + 1 .. Len(events) : PruneReason(events[j]) = None /\ TargetKey(events[j]) = TargetKey(events[i])
\* The last write to a target wins.
Superseded(events, i) ==
    /\ events[i].tool \in Writes
    /\ \E j \in i + 1 .. Len(events) : /\ events[j].tool \in Writes /\ PruneReason(events[j]) = None
                                       /\ TargetKey(events[j]) = TargetKey(events[i])
Kept(events) ==
    SelectSeq([i \in DOMAIN events |-> i], LAMBDA i : PruneReason(events[i]) = None /\ ~ Superseded(events, i))

\* A label that occurs again is numbered.
BaseId(e) == <<e.tool>> \o e.label
StepId(events, i) ==
    LET count == Cardinality({j \in ToSet(Kept(events)) : j <= i /\ BaseId(events[j]) = BaseId(events[i])})
    IN  IF count = 1 THEN BaseId(events[i]) ELSE BaseId(events[i]) \o <<count>>

NoExpect == [kind |-> None, text |-> <<>>]
ExpectOf(e, text, params) ==
    CASE e.tool = "navigate" /\ e.path # None -> [kind |-> "url_contains", text |-> TemplateValue(e.path, params)]
      [] e.tool \in Writes /\ e.exact -> [kind |-> "input_value", text |-> text]
      [] OTHER -> NoExpect

\* Where an input may stand, and where the recorded text is copied as it is.
Parameterized == Writes \cup {"navigate"}
StepOf(events, kept, n, params) ==
    LET e == events[kept[n]]
        text == IF e.tool \in Parameterized THEN TemplateValue(e.text, params) ELSE e.text
    IN  [id |-> StepId(events, kept[n]), tool |-> e.tool, key |-> TargetKey(e), text |-> text,
         expect |-> ExpectOf(e, text, params),
         depends |-> IF n = 1 THEN <<>> ELSE <<StepId(events, kept[n - 1])>>,
         contract |-> e.tool # "navigate" /\ e.contract]

\* A typed value that is no parameter's may be a secret.
Unparameterized(e, options) ==
    e.tool \in Writes /\ UsedIn(e.text, options.params) = {} /\ options.literals = "fail"

Terminal(events) == SelectSeq(events, LAMBDA e : e.tool = "done" /\ e.checks # None)
RecordedChecks(events) == IF Terminal(events) = <<>> THEN None ELSE Last(Terminal(events)).checks
Unlearnable(events, options) ==
    options.verify = None /\ RecordedChecks(events) \in {None, Failed, <<>>}
VerifyOf(events, options) ==
    IF options.verify # None THEN options.verify
    ELSE [i \in DOMAIN RecordedChecks(events) |-> TemplateValue(RecordedChecks(events)[i], options.params)]

UsedParams(events, options) ==
    LET kept == ToSet(Kept(events))
        texts == {events[i].text : i \in {j \in kept : events[j].tool \in Parameterized}}
                 \cup {events[i].path : i \in {j \in kept : events[j].tool = "navigate" /\ events[j].path # None}}
                 \cup (IF options.verify = None THEN ToSet(RecordedChecks(events)) ELSE {})
    IN  UNION {UsedIn(text, options.params) : text \in texts}

Compiled(events, options) ==
    LET kept == Kept(events)
    IN  [intent |-> TemplateValue(options.intent, options.params),
         params |-> UsedParams(events, options),
         steps |-> [n \in DOMAIN kept |-> StepOf(events, kept, n, options.params)],
         verify |-> VerifyOf(events, options)]

-----------------------------------------------------------------------------
(* PlaybookSchema and topoOrder.  A graph is the sequence of the steps'     *)
(* [id, depends].                                                           *)

StepIds(steps) == {steps[i].id : i \in DOMAIN steps}
StepNamed(steps, id) == steps[CHOOSE i \in DOMAIN steps : steps[i].id = id]

\* findDependencyCycle: depth first, the stack of the steps being visited and the set
\* of those that are done.
\* Mutant of Closes: a step that was visited before closes a cycle.
ClosesAgain(path, done, dep) == dep \in ToSet(path) \cup done
Closes(path, done, dep) == dep \in ToSet(path)

RECURSIVE Explore(_, _, _, _)
Explore(steps, id, stack, done) ==
    LET path == Append(stack, id)
        look(found, dep) ==
            CASE found.cycle # None -> found
              [] Closes(path, found.done, dep) ->
                   [cycle |-> SubSeq(path, Max({1} \cup {i \in DOMAIN path : path[i] = dep}), Len(path)) \o <<dep>>,
                    done |-> found.done]
              [] dep \in found.done \/ dep \notin StepIds(steps) -> found
              [] OTHER -> Explore(steps, dep, path, found.done)
        found == FoldLeft(look, [cycle |-> None, done |-> done], StepNamed(steps, id).depends)
    IN  IF found.cycle # None THEN found ELSE [found EXCEPT !.done = @ \cup {id}]
FindDependencyCycle(steps) ==
    FoldLeft(LAMBDA found, step : IF found.cycle # None \/ step.id \in found.done THEN found
                                  ELSE Explore(steps, step.id, <<>>, found.done),
             [cycle |-> None, done |-> {}], steps).cycle

RECURSIVE Visit(_, _, _)
Visit(steps, order, id) ==
    IF id \in ToSet(order) \/ id \notin StepIds(steps) THEN order
    ELSE Append(FoldLeft(LAMBDA o, dep : Visit(steps, o, dep), order, StepNamed(steps, id).depends), id)
TopoOrder(steps) == FoldLeft(LAMBDA order, step : Visit(steps, order, step.id), <<>>, steps)

Undeclared(playbook) ==
    UNION ({RefsOf(playbook.steps[i].text, 1) \cup RefsOf(playbook.steps[i].expect.text, 1) : i \in DOMAIN playbook.steps}
           \cup {RefsOf(playbook.verify[i], 1) : i \in DOMAIN playbook.verify}) \ playbook.params
IsValid(playbook) ==
    /\ Cardinality(StepIds(playbook.steps)) = Len(playbook.steps)
    /\ \A i \in DOMAIN playbook.steps : ToSet(playbook.steps[i].depends) \subseteq StepIds(playbook.steps)
    /\ FindDependencyCycle(playbook.steps) = None
    /\ Undeclared(playbook) = {}

\* What the playbook would send or assert.
Leaves(playbook) ==
    {playbook.intent} \cup {playbook.steps[i].text : i \in DOMAIN playbook.steps}
    \cup {playbook.steps[i].expect.text : i \in DOMAIN playbook.steps} \cup ToSet(playbook.verify)
Leaks(playbook, params) ==
    \E i \in DOMAIN params, leaf \in Leaves(playbook) : Includes(leaf, params[i].value)

Refused(why) == [refused |-> why]
DistillTrajectory(events, options) ==
    IF Kept(events) = <<>> THEN Refused("empty")
    ELSE IF \E i \in ToSet(Kept(events)) : Unparameterized(events[i], options) THEN Refused("unparameterized")
    ELSE IF Unlearnable(events, options) THEN Refused("unlearnable")
    ELSE IF ~ IsValid(Compiled(events, options)) THEN Refused("invalid")
    ELSE IF Leaks(Compiled(events, options), options.params) THEN Refused("leak")
    ELSE [playbook |-> Compiled(events, options)]
Distills(events, options) == "playbook" \in DOMAIN DistillTrajectory(events, options)

-----------------------------------------------------------------------------

Bound(params) == [n \in {params[i].name : i \in DOMAIN params} |->
                    params[CHOOSE i \in DOMAIN params : params[i].name = n].value]

\* Neither braces nor backslashes, and no value that is a part of a name.
Plain(text, params) ==
    /\ ToSet(text) \cap {Open, Close, Slash} = {}
    /\ \A i, j \in DOMAIN params : ~ Includes(params[i].name, params[j].value)

\* A value that was typed with the run's parameters is typed again when the playbook
\* is replayed with them; what was the value of a parameter follows that parameter;
\* and nothing of the old values is left for a replay with others.
TemplatesAreFaithful(text, params) ==
    Plain(text, params) =>
        LET template == TemplateValue(text, params)
            names == {params[i].name : i \in DOMAIN params}
        IN  /\ RenderTemplate(template, Bound(params), 1) = text
            /\ RefsOf(template, 1) = UsedIn(text, params)
            /\ \A i \in DOMAIN params :
                 /\ ~ Includes(RenderTemplate(template, [n \in names |-> <<Slash>>], 1), params[i].value)
                 /\ text = params[i].value /\ (\A j \in DOMAIN params \ {i} : params[j].value # text)
                      => template = Ref(params[i].name)

\* A literal that is written with a backslash is shown as it stands, and whatever is
\* bound, a template without references renders to itself.
EscapesAreLiteral(text, name, version) ==
    Plain(text, <<>>) =>
        /\ RenderTemplate(text \o <<Slash>> \o Ref(name), <<>>, version) = text \o Ref(name)
        /\ RefsOf(text \o <<Slash>> \o Ref(name), version) = {}
        /\ RenderTemplate(text, <<>>, version) = text

\* What the fields of a page hold after a number of writes, as a function of the
\* targets that were written.
Written(steps, Value(_), n) ==
    LET writes == {i \in 1 .. n : steps[i].tool \in Writes}
        key(i) == steps[i].key
    IN  [k \in {key(i) : i \in writes} |-> Value(CHOOSE i \in writes : key(i) = k /\ \A j \in writes : key(j) = k => j <= i)]

\* A replay with the run's values does what the run did: every action but the
\* superseded writes, in their order; in the end every field holds what it held; and
\* whatever it commits on the way it finds each field as in the run, or not yet
\* written when the run wrote it again later.
ReplayRepeatsTheRun(events, options) ==
    Distills(events, options) /\ (\A e \in ToSet(events) : Plain(e.text, options.params)) =>
        LET steps == DistillTrajectory(events, options).playbook.steps
            ran == SelectSeq(events, LAMBDA e : PruneReason(e) = None)
            did == [i \in DOMAIN ran |-> [tool |-> ran[i].tool, key |-> TargetKey(ran[i])]]
            sent(i) == RenderTemplate(steps[i].text, Bound(options.params), 1)
            typed(i) == ran[i].text
            commits(s) == SelectSeq([i \in DOMAIN s |-> i], LAMBDA i : s[i].tool \notin Writes)
            final == Written(did, typed, Len(did))
        IN  /\ final = Written(steps, sent, Len(steps))
            /\ Len(commits(did)) = Len(commits(steps))
            /\ \A c \in DOMAIN commits(steps) :
                 LET i == commits(steps)[c]
                     j == commits(did)[c]
                     before == Written(did, typed, j)
                     found == Written(steps, sent, i)
                 IN  /\ steps[i].tool = ran[j].tool /\ steps[i].key = did[j].key /\ sent(i) = ran[j].text
                     /\ \A k \in DOMAIN before :
                          \/ k \in DOMAIN found /\ found[k] = before[k]
                          \/ k \notin DOMAIN found /\ \E l \in j + 1 .. Len(did) : did[l].tool \in Writes /\ did[l].key = k

\* Only an exact effect becomes an assertion; no typed value is kept that a caller did
\* not allow; and a replay with other values sends and asserts none of the run's.
NothingIsKeptUnasked(events, options) ==
    Distills(events, options) =>
        LET playbook == DistillTrajectory(events, options).playbook
        IN  /\ \A n \in DOMAIN playbook.steps :
                 LET e == events[Kept(events)[n]]
                 IN  /\ playbook.steps[n].expect.kind = "input_value" => e.exact
                     /\ e.tool \in Writes /\ options.literals = "fail" => RefsOf(playbook.steps[n].text, 1) # {}
            /\ \A i \in DOMAIN options.params, leaf \in Leaves(playbook) :
                 LET other == [n \in playbook.params |-> <<Slash>>]
                 IN  Renders(leaf, other, 1) => ~ Includes(RenderTemplate(leaf, other, 1), options.params[i].value)

\* A playbook that is accepted can be replayed: no step waits for itself, and the
\* order of the replay has every step once, after all it depends on.
OrderRespectsDependencies(steps) ==
    LET edges == {<<steps[i].id, d>> : i \in DOMAIN steps, d \in StepIds(steps)}
                     \cap UNION {{<<steps[i].id, d>> : d \in ToSet(steps[i].depends)} : i \in DOMAIN steps}
        cyclic == \E S \in SUBSET StepIds(steps) \ {{}} : \A s \in S : \E t \in S : <<s, t>> \in edges
        cycle == FindDependencyCycle(steps)
        order == TopoOrder(steps)
    IN  /\ cyclic <=> cycle # None
        /\ cyclic => /\ Head(cycle) = Last(cycle)
                     /\ \A i \in 1 .. Len(cycle) - 1 : <<cycle[i], cycle[i + 1]>> \in edges
        /\ ~ cyclic => /\ IsInjective(order) /\ ToSet(order) = StepIds(steps)
                       /\ \A e \in edges : \E i, j \in DOMAIN order : i < j /\ order[i] = e[2] /\ order[j] = e[1]
=============================================================================
