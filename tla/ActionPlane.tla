----------------------------- MODULE ActionPlane -----------------------------
(***************************************************************************)
(* From an action the planner chose to the control it is carried out on    *)
(* (packages/action): the target is resolved among the nodes of a fresh    *)
(* observation (element-resolution.ts), its contract is compared with the  *)
(* recorded one (action-contract-gate.ts and core's action-contract.ts),   *)
(* an action that would run early is classified (speculation-fence.ts and  *)
(* session/shadow-prefetch.ts), and the settled page is asked whether the  *)
(* action took effect (post-action-evidence.ts, browser-expect.ts).        *)
(*                                                                         *)
(* Nodes and elements are those of Perception.  A target is                *)
(* [selector, id, role, name, context], None where the planner left it     *)
(* out.                                                                    *)
(***************************************************************************)
EXTENDS Perception

CONSTANT TokensOf(_)     \* the words of a name, in lower case and without punctuation

-----------------------------------------------------------------------------
(* resolveElementTarget.  Candidates are kept as positions in the           *)
(* observation, so that two nodes that look alike are still two.            *)

Found(node, by) == [node |-> node, by |-> by]
Stopped(why) == [node |-> None, by |-> why]

InContext(nodes, t) == {i \in DOMAIN nodes : t.context \in {None, nodes[i].context}}
Grounded(nodes, t) == {i \in InContext(nodes, t) : nodes[i].selector # None}
StableElsewhere(nodes, t) ==
    {i \in DOMAIN nodes : t.id # None /\ t.context \notin {None, nodes[i].context} /\ nodes[i].id = t.id}
StableMatches(nodes, t) == {i \in Grounded(nodes, t) : t.id # None /\ nodes[i].id = t.id}
SemanticMatches(nodes, t) ==
    {i \in Grounded(nodes, t) : /\ t.role # None /\ t.name # None
                                /\ nodes[i].role = t.role /\ TokensOf(nodes[i].name) = TokensOf(t.name)}

\* The Jaccard index of the words, as the two sizes it is the quotient of.
Similarity(n, m) == [common |-> Cardinality(TokensOf(n) \cap TokensOf(m)),
                     all |-> Max({1, Cardinality(TokensOf(n) \cup TokensOf(m))})]
Closer(s, t) == s.common * t.all > t.common * s.all
Similar(nodes, t) ==
    {i \in Grounded(nodes, t) : t.name # None /\ LET s == Similarity(t.name, nodes[i].name) IN 2 * s.common >= s.all}
ClosestOf(nodes, t) ==
    {i \in Similar(nodes, t) : \A j \in Similar(nodes, t) \ {i} :
        Closer(Similarity(t.name, nodes[i].name), Similarity(t.name, nodes[j].name))}

\* Mutant of SelectorMatches: the selector is followed though the identity is gone.
AnySelectorMatches(nodes, t) == {i \in Grounded(nodes, t) : nodes[i].selector = t.selector}
SelectorMatches(nodes, t) == {i \in Grounded(nodes, t) : t.id = None /\ nodes[i].selector = t.selector}

The(S) == CHOOSE x \in S : TRUE
Resolve(nodes, t) ==
    LET stable == StableMatches(nodes, t)
        semantic == SemanticMatches(nodes, t)
        one(S) == Cardinality(S) = 1
    IN  CASE t.context # None /\ InContext(nodes, t) = {} -> Stopped("context mismatch")
          [] StableElsewhere(nodes, t) # {} -> Stopped("context mismatch")
          [] Cardinality(stable) > 1 \/ (stable = {} /\ Cardinality(semantic) > 1) -> Stopped("ambiguous")
          [] one(stable) /\ one(semantic) /\ stable # semantic -> Stopped("conflict")
          [] one(stable) -> Found(The(stable), "stable-id")
          [] one(semantic) -> Found(The(semantic), "role-name")
          [] ClosestOf(nodes, t) # {} -> Found(The(ClosestOf(nodes, t)), "text-proximity")
          [] one(SelectorMatches(nodes, t)) -> Found(The(SelectorMatches(nodes, t)), "selector")
          [] t.id = None /\ t.role = None /\ t.name = None -> Found(0, "selector")
          [] OTHER -> Stopped("unresolved")

-----------------------------------------------------------------------------
(* The contract of a verb on a node, and the gate.                          *)

Baseline(verb) ==
    CASE verb = "hover" -> "read"
      [] verb \in {"fill", "select"} -> "local_input"
      [] verb = "navigate" -> "navigation"
      [] verb \in {"press", "click"} -> "potentially_mutating"
      [] verb \in {"upload", "dragAndDrop"} -> "mutating"

SafetyOf(verb, affordance) ==
    CASE verb = "click" /\ affordance.control = "link" -> "navigation"
      [] verb = "click" /\ affordance.control = "submit" ->
           IF affordance.method = "post" THEN "mutating" ELSE "navigation"
      [] verb = "click" /\ affordance.control \in {"checkbox", "radio"} -> "local_input"
      [] OTHER -> Baseline(verb)

\* None when the node carries no affordance to derive a contract from.
ContractOf(verb, node, effect) ==
    IF node.affordance = None THEN None
    ELSE [verb |-> verb, role |-> node.role, name |-> node.name, id |-> node.id, context |-> node.context,
          affordance |-> node.affordance, safety |-> SafetyOf(verb, node.affordance), effect |-> effect]

\* Mutant of Behaviour: a form's method is not part of the contract.
ControlOnly(c) == [c.affordance EXCEPT !.method = None, !.destination = None]
\* What the compatibility matrix compares of a control: kind, type, what Enter does,
\* where it goes and how, whether it is enabled.
Behaviour(c) == c.affordance
Compatible(recorded, current) ==
    /\ recorded.verb = current.verb /\ recorded.role = current.role /\ recorded.context = current.context
    /\ Behaviour(recorded) = Behaviour(current) /\ recorded.safety = current.safety
    /\ None \in {recorded.effect, current.effect} \/ recorded.effect = current.effect
Drift(recorded, current) ==
    {f \in {"name", "id"} : recorded[f] # current[f]}

-----------------------------------------------------------------------------
(* classifySpeculation.  What is known of the site is                       *)
(* [stale, mismatch, ambiguous, origin, downloads]: three warnings and the  *)
(* destinations known to be of the same origin, or to start a download.     *)

External(reason) == [class |-> "external_effect", reason |-> reason]
Class(class, reason) == [class |-> class, reason |-> reason]

DestinationVerdict(c, known, reason) ==
    CASE c.affordance.destination = None -> External("unknown_destination")
      [] c.affordance.destination \in known.downloads -> External("download_destination")
      [] c.affordance.destination \notin known.origin -> External("cross_origin_destination")
      [] OTHER -> Class("local_nav", reason)

Classify(c, known) ==
    CASE known.stale -> External("stale_document")
      [] known.mismatch -> External("contract_mismatch")
      [] known.ambiguous -> External("ambiguous_target")
      [] ~ c.affordance.enabled -> External("precondition_unmet")
      [] c.affordance.method = "post" -> External("form_method_mutating")
      [] c.verb = "hover" -> Class("pure_read", "read_only_verb")
      [] c.verb \in {"upload", "dragAndDrop"} -> External("mutating_verb")
      [] c.verb \in {"fill", "select"} -> Class("local_write", "local_control_write")
      [] c.verb = "press" -> IF c.affordance.enter = "submits_form" THEN External("chord_commits")
                             ELSE Class("local_write", "local_control_write")
      [] c.verb = "navigate" -> DestinationVerdict(c, known, "same_origin_navigation")
      [] c.affordance.control = "submit" -> External("submit_control")
      [] c.affordance.control \in {"checkbox", "radio"} -> Class("local_write", "local_control_write")
      [] c.affordance.control = "link" -> DestinationVerdict(c, known, "same_origin_link")
      [] OTHER -> External("unclassified_control")

MaySpeculate(verdict, permit) == verdict.class # "external_effect" /\ verdict.class \in permit

\* ShadowPrefetchCoordinator.prefetch: a request carries the binding it was made
\* under and the digest it predicts, a receipt the ones it was answered under;
\* None stands for an executor that throws.
Prefetch(request, receipt, known) ==
    CASE ~ MaySpeculate(Classify(request.contract, known), {"pure_read"}) -> "effect_boundary"
      [] receipt = None -> "dispatch_failed"
      [] receipt.binding # request.binding -> "scope_mismatch"
      [] receipt.digest # request.digest -> "miss"
      [] OTHER -> "hit"

-----------------------------------------------------------------------------
(* derivePostActionEvidence and evaluateBrowserExpect.                      *)

Named(page, selector) == SelectSeq(page.elements, LAMBDA e : e.hint = selector)
ValueAt(page, selector) ==
    IF Named(page, selector) = <<>> THEN None ELSE Head(Named(page, selector)).value

Evidence(strength, outcome) == [strength |-> strength, outcome |-> outcome]
Reaction(before, after) ==
    LET diff == Diff(DistillPage(before), DistillPage(after))
    IN  CASE before.url # after.url -> "observed"
          [] diff = Broken -> "unavailable"
          [] Changes(diff) > 0 -> "observed"
          [] OTHER -> "none"
EvidenceOf(verb, argument, selector, before, after) ==
    LET exact(holds) == Evidence("strong", IF holds THEN "observed" ELSE "missing")
    IN  CASE verb \in {"fill", "select"} -> exact(ValueAt(after, selector) = argument)
          [] verb = "navigate" -> exact(after.url = argument)
          [] OTHER -> Evidence("reaction", Reaction(before, after))
\* assertPostActionEvidence: only a strong effect that is missing stops the run.
Enforced(evidence) == evidence.strength = "strong" /\ evidence.outcome = "missing"

ExpectHolds(expect, page) ==
    LET shown == SelectSeq(page.elements, LAMBDA e : e.visible)
        at == {i \in DOMAIN shown : shown[i].hint = expect.at}
    IN  CASE expect.kind = "selector_visible" -> at # {}
          [] expect.kind = "selector_absent" -> at = {}
          [] expect.kind = "input_value" -> ValueAt(page, expect.at) = expect.is
          [] expect.kind = "url_contains" -> page.url = expect.is
          [] expect.kind = "text_visible" -> \E i \in DOMAIN shown : shown[i].name = expect.is

-----------------------------------------------------------------------------

Resolved(nodes, t) == LET r == Resolve(nodes, t) IN IF r.node \in DOMAIN nodes THEN nodes[r.node] ELSE None

\* A page that grows by a node never sends an action with a durable identity to
\* another of the nodes that were already there: it goes where it went, to the new
\* node, or nowhere.
OneMoreNeverRedirects(nodes, t, node) ==
    t.id # None /\ Resolved(nodes, t) # None =>
        Resolved(Append(nodes, node), t) \in {Resolved(nodes, t), node, None}

\* "Two independently grounded semantic identities may not be mixed": what is
\* found by its identity is also what the target calls it, when anything is.
NothingSpliced(nodes, t) ==
    LET r == Resolve(nodes, t)
    IN  r.by = "stable-id" /\ SemanticMatches(nodes, t) # {} => r.node \in SemanticMatches(nodes, t)

\* The gate and the fence agree: an action whose contract the gate lets through
\* reaches as far as the one that was recorded, whatever is known of the site; and
\* what may run early is safe however the gate words it.
CompatibleReachesAlike(recorded, current, known) ==
    Compatible(recorded, current) => Classify(recorded, known) = Classify(current, known)
NothingMutatingRunsEarly(c, known) ==
    c.safety = "mutating" => ~ MaySpeculate(Classify(c, known), {"pure_read", "local_nav", "local_write"})

\* A renamed, hidden, moved or rewritten control is a reaction; and evidence can only
\* fail a run when an exact effect was asked for.
EvidenceSeesChange(verb, before, after) ==
    LET evidence == EvidenceOf(verb, None, None, before, after)
        b == DistillPage(before)
        a == DistillPage(after)
    IN  verb \in {"click", "hover", "press", "upload", "dragAndDrop"} =>
            /\ ~ Enforced(evidence)
            /\ evidence.outcome = "none" <=>
                 before.url = after.url /\ Unique(b) /\ Unique(a) /\ ToSet(b) = ToSet(a)
=============================================================================
