----------------------------- MODULE ReplayTools -----------------------------
(***************************************************************************)
(* One browser step of a playbook as the executor carries it out           *)
(* (packages/executor/src/browser-tool-caller.ts): the target is resolved  *)
(* in a capture of the page, its contract is compared, the verb is         *)
(* dispatched on the page as it then is, and a last capture is what the    *)
(* expectations of the step are judged by (expect-evaluator.ts).           *)
(*                                                                         *)
(* A step's arguments are those of a target, with contract and text (a     *)
(* URL, value, chord, file or second selector), None when absent.  A page  *)
(* has the document token doc besides its url and elements.                *)
(***************************************************************************)
EXTENDS ActionPlane

CONSTANTS
    Failed,          \* a capture that throws, a chord that cannot be parsed
    TopContext,         \* the browsing context of the top document
    KeysOf(_)        \* the #id and tag[name=] selectors of an element, in this order

Verbs == {"fill", "select", "click", "hover", "press", "upload", "drag_and_drop", "download_file"}
VerbForTool(tool) ==
    CASE tool = "download_file" -> "click" [] tool = "drag_and_drop" -> "dragAndDrop" [] OTHER -> tool
Offers(backend, tool) == tool \in {"hover", "press", "upload", "drag_and_drop"} => tool \in backend.verbs

-----------------------------------------------------------------------------
(* normalizeKeyChord: the parts of a chord are words.                       *)

Modifiers == <<"Alt", "Control", "Meta", "Shift">>
Canonical(word) ==
    CASE word \in {"Control", "control", "ctrl"} -> "Control"
      [] word \in {"Meta", "cmd"} -> "Meta"
      [] word \in {"Alt", "Shift"} -> word
      [] OTHER -> None
KeyOfChord(word) == CASE word \in {"Enter", "enter"} -> "Enter" [] word \in {"x", "X", "1"} -> word [] OTHER -> None

NormalizeKeyChord(parts) ==
    LET held == [i \in 1 .. Len(parts) - 1 |-> Canonical(parts[i])]
    IN  IF None \in ToSet(held) \/ ~ IsInjective(held) \/ KeyOfChord(Last(parts)) = None THEN Failed
        ELSE Append(SelectSeq(Modifiers, LAMBDA m : m \in ToSet(held)), KeyOfChord(Last(parts)))

-----------------------------------------------------------------------------
(* resolveTarget.                                                           *)

ToolError == "BROWSER_REPLAY_TOOL_ERROR"
Refuse(code) == [code |-> code, selector |-> None, context |-> None]
At(selector, context) == [code |-> None, selector |-> selector, context |-> context]

CodeOf(stopped) ==
    CASE stopped = "ambiguous" -> "BROWSER_TARGET_AMBIGUOUS"
      [] stopped = "context mismatch" -> "BROWSER_CONTEXT_MISMATCH"
      [] OTHER -> ToolError

\* The node whose contract is compared: by the identity of the one that was resolved,
\* or, when nothing but a selector was given, by that selector.
\* Mutant: the one the step named, wherever the resolution has led.
AsRequested(nodes, r, args) == {i \in DOMAIN nodes : nodes[i].selector = args.selector}
Candidates(nodes, r, args) ==
    IF r.node = 0 THEN {i \in DOMAIN nodes : nodes[i].selector = args.selector}
    ELSE {i \in DOMAIN nodes : nodes[i].id = nodes[r.node].id}

Contracted(tool, args, nodes, r, place) ==
    LET found == Candidates(nodes, r, args)
        current == ContractOf(VerbForTool(tool), nodes[Min(found)], args.contract.effect)
    IN  CASE found = {} \/ (found # {} /\ current = None) -> Refuse("ACTION_CONTRACT_UNAVAILABLE")
          [] ~ Compatible(args.contract, current) -> Refuse("BROWSER_CONTRACT_MISMATCH")
          [] OTHER -> place

PlaceOf(nodes, r, args) ==
    IF r.node = 0 THEN At(args.selector, None) ELSE At(nodes[r.node].selector, nodes[r.node].context)
Located(tool, args, nodes, r) ==
    CASE r.node = None -> Refuse(CodeOf(r.by))
      [] args.contract # None -> Contracted(tool, args, nodes, r, PlaceOf(nodes, r, args))
      [] OTHER -> PlaceOf(nodes, r, args)
LocatedIn(tool, args, nodes) == Located(tool, args, nodes, Resolve(nodes, args))

ResolveTarget(tool, args, seen, closed) ==
    LET semantic == \E f \in {"id", "context", "role", "name"} : args[f] # None
    IN  CASE args.selector = None -> Refuse(ToolError)
          [] ~ semantic /\ args.contract = None -> At(args.selector, None)
          [] seen = Failed -> Refuse(ToolError)
          [] args.context # None /\ args.context \in closed -> Refuse("CLOSED_SHADOW_ROOT_UNSUPPORTED")
          [] OTHER -> LocatedIn(tool, args, DistillPage(seen))

-----------------------------------------------------------------------------
(* The dispatch on the page as it is by then: code None when it went        *)
(* through, and what was done, None for nothing.                            *)

Dispatched(code, did) == [code |-> code, did |-> did]
Where(page, selector, context) ==
    {i \in DOMAIN page.elements : /\ page.elements[i].hint = selector
                                  /\ page.elements[i].context = IF context = None THEN TopContext ELSE context}
Takes(verb, e) ==
    CASE verb = "fill" -> e.tag \in {"input", "select", "textarea", "button"}
      [] verb = "select" -> e.tag = "select"
      [] OTHER -> TRUE

\* A selection of an option that is not there has emptied the field when it fails.
Dispatch(tool, text, place, seen, live) ==
    LET verb == VerbForTool(tool)
        there == Where(live, place.selector, place.context)
        did(value) == [verb |-> verb, at |-> Min(there), value |-> value]
    IN  CASE place.context # None /\ live.doc # seen.doc -> Dispatched("BROWSER_CONTEXT_STALE", None)
          [] there = {} \/ (verb = "dragAndDrop" /\ Where(live, text, place.context) = {}) -> Dispatched(ToolError, None)
          [] ~ Takes(verb, live.elements[Min(there)]) -> Dispatched(ToolError, None)
          [] verb = "select" /\ text \notin live.elements[Min(there)].options -> Dispatched(ToolError, did(None))
          [] OTHER -> Dispatched(None, did(text))

\* What is refused before the target is looked for.
Refused(tool, args, backend) ==
    CASE tool \notin Verbs -> ToolError
      [] ~ Offers(backend, tool) -> "BROWSER_CAPABILITY_UNSUPPORTED"
      [] tool \in {"press", "upload"} /\ args.text = None -> ToolError
      [] tool = "press" -> IF NormalizeKeyChord(args.text) = Failed THEN "KEY_CHORD_INVALID" ELSE None
      [] tool = "upload" -> IF args.text \in backend.files THEN None ELSE "UPLOAD_NOT_ALLOWLISTED"
      [] OTHER -> None

Outcome(ok, code, did) == [ok |-> ok, code |-> code, did |-> did]

Settle(did, after) == IF after = Failed THEN Outcome(FALSE, ToolError, did) ELSE Outcome(TRUE, None, did)

Answered(sent, after) == IF sent.code # None THEN Outcome(FALSE, sent.code, sent.did) ELSE Settle(sent.did, after)
CallAt(tool, args, place, seen, live, after) ==
    CASE place.code # None -> Outcome(FALSE, place.code, None)
      [] tool \in {"fill", "select", "drag_and_drop"} /\ args.text = None -> Outcome(FALSE, ToolError, None)
      [] OTHER -> Answered(Dispatch(tool, args.text, place, seen, live), after)

Call(tool, args, backend, seen, live, after) ==
    IF Refused(tool, args, backend) # None THEN Outcome(FALSE, Refused(tool, args, backend), None)
    ELSE CallAt(tool, args, ResolveTarget(tool, args, seen, backend.closed), seen, live, after)

-----------------------------------------------------------------------------
(* pageResult and evaluateExpect.                                           *)

Visible(page) == SelectSeq(page.elements, LAMBDA e : e.visible)
VisibleSelectors(page) == UNION {ToSet(KeysOf(e)) : e \in ToSet(Visible(page))}
\* Of two fields under one key the last is kept.
InputValues(page) ==
    LET shown == Visible(page)
        under(k) == {i \in DOMAIN shown : KeysOf(shown[i]) # <<>> /\ Head(KeysOf(shown[i])) = k /\ shown[i].value # None}
    IN  [k \in {x \in VisibleSelectors(page) : under(x) # {}} |-> shown[Max(under(k))].value]
PageResult(page) ==
    [url |-> page.url, visible_selectors |-> VisibleSelectors(page), input_values |-> InputValues(page),
     visible_text |-> {e.name : e \in ToSet(Visible(page))} \ {None}]

\* The JSON of a result is a function from its paths to values.
EvaluateExpect(expect, world) ==
    CASE expect.kind = "exit_code" -> world.exit = expect.is
      [] expect.kind = "selector_visible" -> expect.at \in world.visible_selectors
      [] expect.kind = "selector_absent" -> expect.at \notin world.visible_selectors
      [] expect.kind = "input_value" -> expect.at \in DOMAIN world.input_values /\ world.input_values[expect.at] = expect.is
      [] expect.kind = "url_contains" -> world.url = expect.is
      [] expect.kind = "text_visible" -> expect.is \in world.visible_text
      [] expect.kind = "json_path_exists" -> expect.at \in DOMAIN world.json
      [] expect.kind = "json_path_equals" -> expect.at \in DOMAIN world.json /\ world.json[expect.at] = expect.is
      [] expect.kind = "output_matches" -> world.output = expect.is
      [] expect.kind = "nonempty" -> world.json # << >>

-----------------------------------------------------------------------------

\* A step that was learned with a durable identity and a contract acts, if it acts,
\* on what stood under the selector and in the context where the capture showed a
\* control with a compatible contract, in the document of that capture.
ShownAs(tool, contract, nodes, e) ==
    \E i \in DOMAIN nodes : /\ nodes[i].selector = e.hint /\ nodes[i].context = e.context
                            /\ Compatible(contract, ContractOf(VerbForTool(tool), nodes[i], None))
ActsAsRecorded(tool, args, did, seen, live) ==
    args.id # None /\ args.contract # None /\ did # None =>
        /\ live.doc = seen.doc
        /\ ShownAs(tool, args.contract, DistillPage(seen), live.elements[did.at])

\* A failure with a code of its own has touched nothing, so another way may be tried;
\* and a success has done what it was asked to.
TypedFailuresAreClean(tool, args, outcome) ==
    /\ ~ outcome.ok /\ outcome.did # None => outcome.code = ToolError
    /\ outcome.ok => outcome.did.verb = VerbForTool(tool) /\ outcome.did.value = args.text

ReplayIsFaithful(tool, args, seen, live, outcome) ==
    ActsAsRecorded(tool, args, outcome.did, seen, live) /\ TypedFailuresAreClean(tool, args, outcome)

\* On a page of a single context the expectation on a value is about the field the
\* step has written, and no other.
OneContext(page) == \A e, f \in ToSet(page.elements) : e.context = f.context
ExpectsItsField(at, value, after) ==
    LET e == after.elements[at]
    IN  OneContext(after) /\ e.visible /\ e.value # None /\ KeysOf(e) # <<>> =>
            EvaluateExpect([kind |-> "input_value", at |-> Head(KeysOf(e)), is |-> value], PageResult(after))
                <=> e.value = value

\* The order and the spelling of the modifiers of a chord say nothing.
ChordsAreCanonical(parts) ==
    LET chord == NormalizeKeyChord(parts)
    IN  chord # Failed =>
            /\ NormalizeKeyChord(chord) = chord
            /\ \A i, j \in 1 .. Len(parts) - 1 : NormalizeKeyChord([parts EXCEPT ![i] = parts[j], ![j] = parts[i]]) = chord
            /\ \A i \in 1 .. Len(parts) - 1 : NormalizeKeyChord(<<parts[i]>> \o parts) = Failed
=============================================================================
