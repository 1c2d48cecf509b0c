----------------------------- MODULE SiteLearning -----------------------------
(***************************************************************************)
(* Site memory (packages/site-memory): what a recorded run teaches about a *)
(* site (derive.ts), the view of all that was ever appended                *)
(* (consolidate.ts), the brief a planner is given (brief.ts), and the      *)
(* prefixes that several runs share (subflow.ts).                          *)
(*                                                                         *)
(* A step of a run is                                                      *)
(* [tool, dispatched, page, next, id, resolved, contract, settle]: the     *)
(* page it acted on and the one it settled on, the stable identity of its  *)
(* target with its role, the selector it resolved to, the action contract  *)
(* [control, newline, destination, method, safety] and the measured settle *)
(* time; None where the run has none.  A record is                         *)
(* [kind, key, body, at, run].  A page, an identity or a digest is a       *)
(* value; times are counted in half-lives, so that freshness is 2^-age.    *)
(***************************************************************************)
EXTENDS Integers, SequencesExt, FiniteSetsExt

CONSTANTS
    None,
    LongSettle,        \* LONG_SETTLE_P90_MS
    KeyBefore(_, _),   \* the order of record keys as strings
    LineLength(_)      \* the length of the line of a fact, 0 when it has none

ElementTools == {"fill", "select", "click", "hover", "press", "upload", "dragAndDrop"}
Tools == ElementTools \cup {"navigate"}

-----------------------------------------------------------------------------
(* deriveSiteMemory. *)

\* Why an event contributes nothing, in the order the reasons are looked for.
SkipReason(e) ==
    CASE e.tool = "done" -> "terminal_done"
      [] e.tool \notin Tools -> "unsupported_tool"
      [] ~ e.dispatched -> "not_dispatched"
      [] e.page = None -> "no_page_key"
      [] e.tool # "navigate" /\ e.id = None -> "no_identity"
      [] OTHER -> None

\* Without an identity an event still counts for the page graph and the settles.
Observed(e) == SkipReason(e) \in {None, "no_identity"}
Targeted(e) == SkipReason(e) = None /\ e.tool # "navigate"

Fact(kind, key, body) == [kind |-> kind, key |-> <<kind>> \o key, body |-> body]
If(condition, fact) == IF condition THEN <<fact>> ELSE <<>>

Newline(e) == e.tool \in {"fill", "select"} /\ e.contract.newline
Submits(e) == e.tool = "click" /\ e.contract.control = "submit"

\* What one event asserts by itself.
FactsOf(e) ==
    If(Observed(e) /\ e.next # None /\ e.next # e.page,
       Fact("page_edge", <<e.page, e.tool, IF e.tool = "navigate" THEN None ELSE e.id>>, e.next))
    \o If(Targeted(e) /\ e.resolved # None, Fact("selector_map", <<e.page, e.id>>, e.resolved))
    \o If(Targeted(e) /\ e.contract # None /\ Newline(e), Fact("quirk", <<e.page, "enter_inserts_newline", e.id>>, None))
    \o If(Targeted(e) /\ e.contract # None /\ Submits(e) /\ e.contract.safety = "mutating",
          Fact("quirk", <<e.page, "submit_is_mutating", e.id>>, None))

Contracted(events, page) == SelectSeq(events, LAMBDA e : Targeted(e) /\ e.contract # None /\ e.page = page)
FieldsOf(events, page) ==
    LET fields == SelectSeq(Contracted(events, page), LAMBDA e : e.tool \in {"fill", "select"})
    IN  [i \in DOMAIN fields |-> fields[i].id]
NoSubmit == [destination |-> None, method |-> None, safety |-> None]
\* The last submit click on the page decides what its form does.
SubmitOf(events, page) ==
    LET clicks == SelectSeq(Contracted(events, page), Submits)
        c == Last(clicks).contract
    IN  IF clicks = <<>> THEN NoSubmit
        ELSE [destination |-> c.destination, method |-> c.method, safety |-> c.safety]

FormOf(events, page) ==
    LET submit == SubmitOf(events, page)
    IN  If(FieldsOf(events, page) # <<>>,
           Fact("form_semantics", <<page, submit.destination>>, <<FieldsOf(events, page), submit>>))

\* Nearest-rank percentiles of the settles of a page and a tool.
Settles(events, page, tool) ==
    LET timed == SelectSeq(events, LAMBDA e : Observed(e) /\ e.page = page /\ e.tool = tool /\ e.settle # None)
    IN  SortSeq([i \in DOMAIN timed |-> timed[i].settle], <)
Rank(sorted, tenths) == sorted[Max({1, (tenths * Len(sorted) + 9) \div 10})]
PriorOf(events, page, tool) ==
    LET s == Settles(events, page, tool)
    IN  IF s = <<>> THEN <<>>
        ELSE <<Fact("settle_prior", <<page, tool>>, <<Len(s), Rank(s, 5), Rank(s, 9), Last(s)>>)>>
             \o If(Rank(s, 9) >= LongSettle, Fact("quirk", <<page, "long_settle", None>>, None))

PagesOf(events) == {events[i].page : i \in DOMAIN events} \ {None}
InSomeOrder(S) == FoldSet(LAMBDA x, s : Append(s, x), <<>>, S)
Each(S, Op(_)) == FlattenSeq([i \in 1 .. Cardinality(S) |-> Op(InSomeOrder(S)[i])])

\* The facts of a run, stamped with its time: those of the events in their order,
\* then the forms, then the settles.
DeriveSiteMemory(events, run, at) ==
    LET facts == FlattenSeq([i \in DOMAIN events |-> FactsOf(events[i])])
                 \o Each(PagesOf(events), LAMBDA p : FormOf(events, p))
                 \o Each(PagesOf(events) \X Tools, LAMBDA x : PriorOf(events, x[1], x[2]))
    IN  [i \in DOMAIN facts |-> [kind |-> facts[i].kind, key |-> facts[i].key, body |-> facts[i].body,
                                 at |-> at, run |-> run]]

-----------------------------------------------------------------------------
(* consolidateSiteMemory. *)

Keys(records) == {records[i].key : i \in DOMAIN records}
Assertions(records, key) == SelectSeq(records, LAMBDA r : r.key = key)

\* Mutant of Ordered: the log order stands for the order of time.
AsWritten(group) == group
\* A stable sort by time: of two records of one moment the one written later wins.
Ordered(group) ==
    LET before(i, j) == group[i].at < group[j].at \/ (group[i].at = group[j].at /\ i <= j)
        order == SortSeq([i \in DOMAIN group |-> i], before)
    IN  [i \in DOMAIN group |-> group[order[i]]]

FactFor(records, key, now) ==
    LET ordered == Ordered(Assertions(records, key))
        latest == Last(ordered)
    IN  [key |-> key, latest |-> latest, observations |-> Len(ordered),
         first |-> Head(ordered).at, last |-> latest.at,
         age |-> Max({0, now - latest.at}),
         changed |-> \E i \in DOMAIN ordered : ordered[i].body # latest.body]

\* All confidences are 1, so the score falls with the age and equal ages tie.
Consolidate(records, now) == {FactFor(records, key, now) : key \in Keys(records)}

-----------------------------------------------------------------------------
(* renderSiteBrief. *)

PageOf(fact) == fact.key[2]
Stale(fact) == fact.age > 2      \* a score below 0.2

Precedes(f, g, page) ==
    LET here(x) == page # None /\ PageOf(x) = page
    IN  \/ here(f) /\ ~ here(g)
        \/ /\ here(f) = here(g)
           /\ f.age < g.age \/ (f.age = g.age /\ KeyBefore(f.key, g.key))

Ranked(facts, page) ==
    SortSeq(InSomeOrder({f \in facts : ~ Stale(f)}), LAMBDA f, g : Precedes(f, g, page))

\* The lines that fit, best first; a line that does not fit ends the brief.
Brief(facts, page, header, budget) ==
    LET ranked == SelectSeq(Ranked(facts, page), LAMBDA f : LineLength(f) > 0)
        used[i \in 0 .. Len(ranked)] == IF i = 0 THEN header ELSE used[i - 1] + 1 + LineLength(ranked[i])
        n == Max({0} \cup {i \in DOMAIN ranked : used[i] <= budget})
    IN  [lines |-> SubSeq(ranked, 1, n), dropped |-> Len(Ranked(facts, page)) - n, length |-> used[n]]

-----------------------------------------------------------------------------
(* mineVerifiedSubflows and selectVerifiedSubflow.  A trajectory is [run,      *)
(* judged, binding, steps], a step [contract, context, effect, checked].       *)

Safe == {"pure_read", "local_nav", "local_write"}
Strong == {"authoritative", "strong"}

Rejection(t) ==
    CASE t.judged -> "judgment_chosen"
      [] \E i \in DOMAIN t.steps : t.steps[i].checked \notin Strong -> "weak_verification"
      [] \E i \in DOMAIN t.steps : t.steps[i].effect \notin Safe -> "effect_incompatible"
      [] OTHER -> None

\* Trajectories are grouped by binding and first step, whatever checked it.
GroupOf(t) == <<t.binding, [t.steps[1] EXCEPT !.checked = None]>>
Candidates(trajectories) == SelectSeq(trajectories, LAMBDA t : Rejection(t) = None)
Groups(trajectories) == {GroupOf(t) : t \in ToSet(Candidates(trajectories))}
Group(trajectories, g) == SelectSeq(Candidates(trajectories), LAMBDA t : GroupOf(t) = g)

\* The longest length, no longer than the length so far, at whose end both have
\* the same step.
SharedLength(first, steps, length) ==
    Max({0} \cup {n \in 1 .. Min({length, Len(steps)}) : steps[n] = first[n]})
CommonPrefix(group) ==
    LET first == group[1].steps
        length[i \in DOMAIN group] == IF i = 1 THEN Len(first)
                                      ELSE SharedLength(first, group[i].steps, length[i - 1])
    IN  SubSeq(first, 1, length[Len(group)])

\* A write must be verified by the authority.
WeakWrite(steps) == \E i \in DOMAIN steps : steps[i].effect = "local_write" /\ steps[i].checked # "authoritative"

\* Mutant of Supported: one run is enough.
SupportedByOne(group) == CommonPrefix(group) # <<>> /\ ~ WeakWrite(CommonPrefix(group))
Supported(group) == Len(group) >= 2 /\ CommonPrefix(group) # <<>> /\ ~ WeakWrite(CommonPrefix(group))

Mine(trajectories) ==
    {[binding |-> Group(trajectories, g)[1].binding, steps |-> CommonPrefix(Group(trajectories, g)),
      runs |-> [i \in DOMAIN Group(trajectories, g) |-> Group(trajectories, g)[i].run]]
        : g \in {h \in Groups(trajectories) : Supported(Group(trajectories, h))}}

Contexts(steps) == SelectSeq([i \in DOMAIN steps |-> steps[i].context], LAMBDA c : c # None)
\* A session offers [binding, contracts, contexts]; every gate must hold.
Selected(subflow, session) ==
    /\ subflow.binding = session.binding
    /\ Len(session.contracts) >= Len(subflow.steps)
    /\ \A i \in DOMAIN subflow.steps : session.contracts[i] = subflow.steps[i].contract
    /\ LET contexts == Contexts(subflow.steps)
       IN  Len(contexts) <= Len(session.contexts) /\ \A i \in DOMAIN contexts : session.contexts[i] = contexts[i]
Handoff(subflow, completed) == Max({0, Min({completed, Len(subflow.steps)})})

-----------------------------------------------------------------------------

\* A log consolidates to the same facts whatever the order its runs were distilled
\* in, as long as no two are of one moment: a run distilled late changes no fact
\* that a newer one asserts.
OrderDoesNotMatter(batches, now) ==
    (\A i, j \in DOMAIN batches : i # j /\ batches[i] # <<>> /\ batches[j] # <<>> => batches[i][1].at # batches[j][1].at) =>
        LET view(order) == Consolidate(FlattenSeq([i \in DOMAIN batches |-> batches[order[i]]]), now)
            forth == [i \in DOMAIN batches |-> i]
            back == Reverse(forth)
        IN  view(forth) = view(back)

\* The brief stays within its budget, holds no stale fact, and leaves none out for
\* the sake of a lesser one.
BriefIsBest(facts, page, header, budget) ==
    LET brief == Brief(facts, page, header, budget)
        in == ToSet(brief.lines)
    IN  /\ brief.lines # <<>> => brief.length <= budget
        /\ \A f \in in : f \in facts /\ ~ Stale(f)
        /\ \A f \in in, g \in facts \ in :
             ~ Stale(g) /\ LineLength(g) > 0 => Precedes(f, g, page)
        /\ Cardinality(in) = Len(brief.lines)

\* A mined subflow is for one binding, is supported by two runs at least, each of
\* which began with its first step and took its last one at that place; every step
\* is safe and strongly verified, and a write by the authority.
MinedIsSupported(trajectories) ==
    \A s \in Mine(trajectories) :
        /\ Len(s.runs) >= 2
        /\ \A i \in DOMAIN s.runs : \E t \in ToSet(trajectories) :
             /\ t.run = s.runs[i] /\ t.binding = s.binding /\ ~ t.judged
             /\ t.steps[1].contract = s.steps[1].contract
             /\ Len(s.steps) <= Len(t.steps)
        /\ \A i \in DOMAIN s.steps : s.steps[i].effect \in Safe /\ s.steps[i].checked \in Strong
        /\ ~ WeakWrite(s.steps)

\* "Prefixes shared by at least two successful trajectories."
PrefixIsShared(trajectories) ==
    \A s \in Mine(trajectories) : \A i \in DOMAIN s.runs : \E t \in ToSet(trajectories) :
        t.run = s.runs[i] /\ IsPrefix(s.steps, t.steps)
=============================================================================
