------------------------------ MODULE Perception ------------------------------
(***************************************************************************)
(* What the agent sees of a page (packages/perception): the captured       *)
(* elements become nodes with a stable identity and an affordance          *)
(* (distill.ts), two observations are told apart (diff.ts), and one of     *)
(* them is shown to the planner within a budget (adaptive-render.ts).      *)
(*                                                                         *)
(* A captured element is                                                   *)
(* [tag, type, aria, name, visible, label, hint, context, container, form, *)
(*  href, enabled, checked, onclick]: its ARIA role, accessible name and   *)
(* selector (None when it has none), the browsing context and container it *)
(* is in, the form around it as [method, action, submits] or None.  Names, *)
(* selectors, contexts and destinations are values.                        *)
(***************************************************************************)
EXTENDS Integers, SequencesExt, FiniteSetsExt

CONSTANT None

-----------------------------------------------------------------------------
(* distillPage. *)

InteractiveTags == {"a", "button", "input", "select", "textarea"}
ContentTags == {"heading", "label", "p"}

IsInteractive(e) == e.tag \in InteractiveTags \/ e.onclick \/ e.aria \in {"button", "link"}

RoleOf(e) ==
    CASE e.aria # None -> e.aria
      [] e.tag = "a" -> "link"
      [] e.tag = "input" /\ e.type \in {"submit", "button"} -> "button"
      [] e.tag = "input" /\ e.type \in {"checkbox", "radio"} -> e.type
      [] e.tag \in {"input", "textarea"} -> "textbox"
      [] e.tag = "select" -> "combobox"
      [] OTHER -> e.tag

ControlOf(e) ==
    CASE e.tag = "a" -> "link"
      [] e.tag = "textarea" -> "multi_line_text"
      [] e.tag = "select" -> IF e.type = "multiple" THEN "select_multiple" ELSE "select_single"
      [] e.tag = "button" -> IF e.type = "submit" THEN "submit" ELSE "button"
      [] e.tag = "input" /\ e.type \in {"submit", "image"} -> "submit"
      [] e.tag = "input" /\ e.type \in {"button", "reset"} -> "button"
      [] e.tag = "input" /\ e.type \in {"checkbox", "radio", "file"} -> e.type
      [] e.tag = "input" -> "single_line_text"
      [] e.aria \in {"link", "button"} -> e.aria
      [] OTHER -> "generic"

\* Only links and the submit controls of a form go somewhere.
DestinationOf(e, url) ==
    CASE e.tag = "a" -> e.href
      [] e.form # None /\ ControlOf(e) = "submit" -> IF e.form.action = None THEN url ELSE e.form.action
      [] OTHER -> None
EnterOf(e) ==
    CASE ControlOf(e) = "multi_line_text" -> "inserts_newline"
      [] ControlOf(e) = "single_line_text" /\ e.form # None /\ e.form.submits -> "submits_form"
      [] OTHER -> "none"
AffordanceOf(e, url) ==
    [control |-> ControlOf(e), type |-> IF e.tag = "input" THEN e.type ELSE None, enter |-> EnterOf(e),
     destination |-> DestinationOf(e, url),
     method |-> IF e.form # None /\ DestinationOf(e, url) # None THEN e.form.method ELSE None,
     enabled |-> e.enabled]

\* The identity leaves out the selector, the tag, the value and the depth.
StableId(e) == <<RoleOf(e), e.name, e.context, e.container>>
NodeOf(e, url) ==
    [id |-> StableId(e), role |-> RoleOf(e), name |-> e.name, tag |-> e.tag, selector |-> e.hint,
     context |-> e.context, interactive |-> IsInteractive(e),
     checked |-> IF RoleOf(e) \in {"checkbox", "radio"} THEN e.checked ELSE None,
     affordance |-> IF IsInteractive(e) THEN AffordanceOf(e, url) ELSE None]

Bears(e) ==
    /\ e.visible /\ ~ (e.tag = "label" /\ e.label)
    /\ IsInteractive(e) \/ e.aria # None \/ (e.tag \in ContentTags /\ e.name # None)
\* A text that an earlier node already shows is not repeated.
Repeats(elements, i) ==
    \E j \in 1 .. i - 1 : /\ Bears(elements[j]) /\ ~ IsInteractive(elements[j])
                          /\ RoleOf(elements[j]) = RoleOf(elements[i]) /\ elements[j].name = elements[i].name
Distilled(elements) ==
    SelectSeq([i \in DOMAIN elements |-> i],
              LAMBDA i : Bears(elements[i]) /\ (IsInteractive(elements[i]) \/ ~ Repeats(elements, i)))
DistillPage(page) ==
    LET kept == Distilled(page.elements)
    IN  [i \in DOMAIN kept |-> NodeOf(page.elements[kept[i]], page.url)]

-----------------------------------------------------------------------------
(* diffObservations and applyObservationDiff; Broken is their exception. *)

Broken == [broken |-> TRUE]
IdsOf(nodes) == {nodes[i].id : i \in DOMAIN nodes}
Unique(nodes) == Cardinality(IdsOf(nodes)) = Len(nodes)
WithId(nodes, id) == nodes[CHOOSE i \in DOMAIN nodes : nodes[i].id = id]
Ids(nodes) == [i \in DOMAIN nodes |-> nodes[i].id]

\* Mutant of SameNode: what the line of a node shows first is compared alone.
SameIdentity(n, m) == n.role = m.role /\ n.name = m.name /\ n.selector = m.selector
SameNode(n, m) == n = m

Diff(base, current) ==
    IF ~ Unique(base) \/ ~ Unique(current) THEN Broken
    ELSE LET isNew(n) == n.id \notin IdsOf(base)
         IN  [added |-> SelectSeq(current, isNew),
              updated |-> SelectSeq(current, LAMBDA n : ~ isNew(n) /\ ~ SameNode(WithId(base, n.id), n)),
              removed |-> SelectSeq(Ids(base), LAMBDA id : id \notin IdsOf(current)),
              order |-> Ids(current)]

ApplyDiff(base, diff) ==
    LET changed == diff.updated \o diff.added
        ids == (IdsOf(base) \ ToSet(diff.removed)) \cup IdsOf(changed)
        node(id) == IF id \in IdsOf(changed) THEN WithId(changed, id) ELSE WithId(base, id)
    IN  IF \/ ~ Unique(base) \/ ~ Unique(changed) \/ ~ IsInjective(diff.removed) \/ ~ IsInjective(diff.order)
           \/ ~ ToSet(diff.removed) \subseteq IdsOf(base)
           \/ ~ IdsOf(diff.updated) \subseteq IdsOf(base) \ ToSet(diff.removed)
           \/ \E id \in IdsOf(diff.added) : id \in IdsOf(base) /\ id \notin ToSet(diff.removed)
           \/ ToSet(diff.order) # ids
        THEN Broken
        ELSE [i \in DOMAIN diff.order |-> node(diff.order[i])]

-----------------------------------------------------------------------------
(* renderAdaptiveObservation.  Every line has the length of one.            *)

Changes(diff) == Len(diff.added) + Len(diff.updated) + Len(diff.removed)
Show(mode, lines) == [mode |-> mode, lines |-> lines]

RenderAdaptive(nodes, previous, budget, ceiling) ==
    LET diff == Diff(previous, nodes)
    IN  IF ceiling < budget THEN Broken
        ELSE IF Len(nodes) <= budget THEN Show("full", nodes)
        ELSE IF previous # None /\ diff = Broken THEN Broken
        ELSE IF previous # None /\ Max({1, Changes(diff)}) <= budget THEN Show("diff", diff)
        ELSE IF Len(nodes) <= ceiling THEN Show("bootstrap", nodes)
        ELSE Broken

-----------------------------------------------------------------------------

\* What a planner that knew the previous observation knows after the next one is
\* the page as it is: nothing that vanished is left, nothing that changed in any
\* respect is as it was, in the order of the page.
NothingStaleIsLeft(base, current) ==
    Unique(base) /\ Unique(current) => ApplyDiff(base, Diff(base, current)) = current

\* An observation is the whole page or the difference to one: within the budget,
\* or, once, within the ceiling; the planner is never shown a part of the page.
NeverUnactionable(nodes, previous, budget, ceiling) ==
    LET shown == RenderAdaptive(nodes, previous, budget, ceiling)
    IN  shown # Broken =>
            CASE shown.mode = "full" -> shown.lines = nodes /\ Len(nodes) <= budget
              [] shown.mode = "diff" -> ApplyDiff(previous, shown.lines) = nodes /\ Changes(shown.lines) <= budget
              [] shown.mode = "bootstrap" -> shown.lines = nodes /\ Len(nodes) <= ceiling

-----------------------------------------------------------------------------
(* The page read from a file instead of a browser (packages/browser/src/    *)
(* static-backend.ts): which containers and which form an element is in,    *)
(* found by two walks over the tags.                                        *)
(*                                                                          *)
(* A page is a sequence of tags [closes, tag, empty, key, type, action]:    *)
(* empty if nothing can be in it, key if it is a landmark by an attribute   *)
(* (else None), type and action None if absent.                             *)

ContainerTags == {"article", "dialog", "fieldset", "form", "main", "nav", "section", "table", "tbody", "tr"}
TextLike == {None, "text"}   \* types that are not of a button, a file or a choice

\* containerLandmark.
Landmark(tag) == IF tag.tag \in ContainerTags \/ tag.key # None THEN <<<<tag.tag, tag.key>>>> ELSE <<>>

\* containerLineageByOffset: a closing tag closes the last of its name that is open, and
\* whatever was opened since; one that closes nothing is passed over.
\* Mutant: a closing tag closes what was opened last, whatever that is.
CloseTop(open, tag) == IF open = <<>> THEN open ELSE Front(open)
Close(open, tag) ==
    LET at == SelectLastInSeq(open, LAMBDA e : e.tag = tag)
    IN  IF at = 0 THEN open ELSE SubSeq(open, 1, at - 1)
Step(open, tag) ==
    CASE tag.closes -> Close(open, tag.tag)
      [] ~ tag.closes /\ tag.empty -> open
      [] OTHER -> Append(open, tag)
OpenAt(page, i) == FoldLeft(Step, <<>>, SubSeq(page, 1, i - 1))
Lineage(page, i) == FlattenSeq([k \in DOMAIN OpenAt(page, i) |-> Landmark(OpenAt(page, i)[k])])

\* enclosingFormByOffset: a form is the tags between its opening and its closing one;
\* of those an element is in, the shortest.
FormSpans(page) ==
    LET step(done, i) ==
            CASE page[i].tag # "form" -> done
              [] page[i].tag = "form" /\ ~ page[i].closes -> [done EXCEPT !.open = Append(@, i)]
              [] OTHER -> IF done.open = <<>> THEN done
                          ELSE [open |-> Front(done.open), spans |-> done.spans \cup {<<Last(done.open), i>>}]
    IN  FoldLeft(step, [open |-> <<>>, spans |-> {}], [i \in DOMAIN page |-> i]).spans
Within(page, span) == {i \in span[1] + 1 .. span[2] - 1 : ~ page[i].closes}
ImplicitSubmit(page, span) ==
    \/ \E i \in Within(page, span) : page[i].tag = "button" /\ page[i].type \notin {"button", "reset"}
    \/ \E i \in Within(page, span) : page[i].tag = "input" /\ page[i].type \in {"submit", "image"}
    \/ Cardinality({i \in Within(page, span) : page[i].tag = "input" /\ page[i].type \in TextLike}) = 1
Enclosing(page, i) == {s \in FormSpans(page) : s[1] < i /\ i < s[2]}
FormOf(page, i) ==
    LET span == CHOOSE s \in Enclosing(page, i) : \A t \in Enclosing(page, i) : s[2] - s[1] <= t[2] - t[1]
    IN  IF Enclosing(page, i) = {} THEN None
        ELSE [at |-> span[1], action |-> page[span[1]].action, submits |-> ImplicitSubmit(page, span)]

\* parseElements: the elements that are captured, with the facts of their form.
Controls == {"input", "textarea", "select", "button"}
Captured(page) == {i \in DOMAIN page : ~ page[i].closes}
Facts(page, i) ==
    LET form == FormOf(page, i)
    IN  [tag |-> page[i].tag, lineage |-> Lineage(page, i),
         form |-> IF page[i].tag \notin Controls \/ form = None THEN None
                  ELSE IF page[i].tag = "input" THEN form ELSE [form EXCEPT !.submits = FALSE]]

-----------------------------------------------------------------------------

\* No closing tag of another name reaches past an open form, and every form is closed.
FormsNest(page) ==
    /\ \A i \in DOMAIN page : page[i].closes =>
           LET open == OpenAt(page, i)
               first == SelectLastInSeq(open, LAMBDA e : e.tag = page[i].tag)
           IN  first # 0 => \A k \in first + 1 .. Len(open) : open[k].tag # "form"
    /\ \A k \in DOMAIN OpenAt(page, Len(page) + 1) : OpenAt(page, Len(page) + 1)[k].tag # "form"

\* Where the forms are nested the two walks agree, whatever else of the page is left open
\* or closed twice: an element is in a form exactly if an open form is in its lineage, and
\* it is the innermost one; the same page once more behind it changes nothing of that.
WalksAgree(page) ==
    FormsNest(page) => \A i \in Captured(page) :
        LET forms == SelectSeq(OpenAt(page, i), LAMBDA e : e.tag = "form")
            form == FormOf(page, i)
            again == FormOf(page \o page, Len(page) + i)
        IN  /\ (form = None) = (forms = <<>>)
            /\ form # None => form.action = Last(forms).action /\ again = [form EXCEPT !.at = @ + Len(page)]
            /\ form = None => again = None
=============================================================================
