------------------------------ MODULE Matching ------------------------------
(***************************************************************************)
(* matchPlaybook (packages/matcher/src/match.ts): which playbook of the    *)
(* library, if any, a task is an instance of.                              *)
(*                                                                         *)
(* A text is the set of its tokens.  A request is [task, params, env]: the *)
(* tokens of the task, the caller's values by parameter name, and the      *)
(* fingerprint of the environment.  An entry is [playbook, version, env,   *)
(* intent, needs]: its templated intent and the parameters it declares.    *)
(* Scores are kept as the two sizes they are the quotient of.              *)
(***************************************************************************)
EXTENDS Naturals, FiniteSets, FiniteSetsExt

CONSTANTS
    Filler,    \* the tokens a task may drop or add: stop words and slots
    Slot,      \* Slot[n]: the token {{n}} that stands for the value of parameter n
    Rebound    \* base_url and initial_url, bound from the live URL whatever the caller gives

ASSUME MatchingAssumption == \A n \in DOMAIN Slot : Slot[n] \in Filler

IsContent(token) == token \notin Filler

\* A value of the caller's is replaced by the slot of its parameter; of two
\* parameters with one value a single one gets it.
NameOf(value, params) == CHOOSE n \in DOMAIN params : params[n] = value
Slotted(task, params) ==
    {IF \E n \in DOMAIN params : params[n] = w THEN Slot[NameOf(w, params)] ELSE w : w \in task}

NoScore == [common |-> 0, all |-> 1]

\* Mutant of IntentScore: the Jaccard index without the coverage condition.
JaccardOnly(request, entry) ==
    LET a == Slotted(request.task, request.params)
    IN  IF a = {} \/ entry.intent = {} THEN NoScore
        ELSE [common |-> Cardinality(a \cap entry.intent), all |-> Cardinality(a \cup entry.intent)]

IntentScore(request, entry) ==
    LET a == Slotted(request.task, request.params)
        uncovered == {w \in entry.intent : IsContent(w) /\ w \notin a}
    IN  IF a = {} \/ entry.intent = {} \/ uncovered # {} THEN NoScore
        ELSE [common |-> Cardinality(a \cap entry.intent), all |-> Cardinality(a \cup entry.intent)]

Less(s, t) == s.common * t.all < t.common * s.all
BelowThreshold(s) == 5 * s.common < 4 * s.all                    \* 0.8
WithinMargin(s, t) ==                                            \* 0.05
    20 * (s.common * t.all - t.common * s.all) < s.all * t.all

Unbound(entry, params) == {n \in entry.needs : n \notin Rebound /\ n \notin DOMAIN params}
BindingsFor(entry, params) == [n \in entry.needs \cap DOMAIN params |-> params[n]]

SameEnvironment(request, entries) == {e \in entries : e.env = request.env}
Bindable(request, entries) == {e \in entries : Unbound(e, request.params) = {}}

\* Best first: by score, then the newer version.  Entries that tie in both and
\* are of different playbooks are ambiguous, so their order does not matter.
Ahead(request, e, f) ==
    LET s == IntentScore(request, e)
        t == IntentScore(request, f)
    IN  Less(t, s) \/ (~ Less(s, t) /\ e.version >= f.version)
Top(request, entries) ==
    CHOOSE e \in entries : \A f \in entries : Ahead(request, e, f)

\* Mutant of Rivals: only an equal score counts as one.
EqualRivals(request, top, entries) ==
    {e \in entries : /\ e.playbook # top.playbook
                     /\ IntentScore(request, e) = IntentScore(request, top)}

Rivals(request, top, entries) ==
    {e \in entries : /\ e.playbook # top.playbook
                     /\ WithinMargin(IntentScore(request, top), IntentScore(request, e))}

NoMatch(reason) == [kind |-> "no_match", reason |-> reason]

\* Mutant of Considered: the fingerprint does not matter.
ConsiderAll(request, entries) == entries
Considered(request, entries) == SameEnvironment(request, entries)

MatchPlaybook(request, entries) ==
    LET same == Considered(request, entries)
        able == Bindable(request, same)
        top == Top(request, able)
    IN  IF entries = {} THEN NoMatch("no_candidates")
        ELSE IF same = {} THEN NoMatch("fingerprint_mismatch")
        ELSE IF able = {} THEN NoMatch("params_unbound")
        ELSE IF BelowThreshold(IntentScore(request, top)) THEN NoMatch("below_threshold")
        ELSE IF Rivals(request, top, able) # {} THEN NoMatch("ambiguous")
        ELSE [kind |-> "match", entry |-> top, params |-> BindingsFor(top, request.params)]

-----------------------------------------------------------------------------

Matches(request, entries) == MatchPlaybook(request, entries).kind = "match"
Matched(request, entries) == MatchPlaybook(request, entries).entry

\* What a match promises, from the request and the library alone: it was proved
\* in this environment, every content word of its intent is in the task, all
\* its parameters are bound, and no other playbook is as good within the margin.
MatchIsLicensed(request, entries) ==
    Matches(request, entries) =>
        LET e == Matched(request, entries)
        IN  /\ e.env = request.env
            /\ {w \in e.intent : IsContent(w)} \subseteq Slotted(request.task, request.params)
            /\ e.needs \ Rebound \subseteq DOMAIN request.params
            /\ \A f \in entries :
                 f.env = request.env /\ f.playbook # e.playbook /\ Unbound(f, request.params) = {}
                    => ~ WithinMargin(IntentScore(request, e), IntentScore(request, f))

\* One more playbook in the library makes a task match it, or miss; it never
\* makes it match another one than before.
OneMoreOnlyAdds(request, entries, e) ==
    LET after == entries \cup {e}
    IN  Matches(request, after) =>
            \/ Matched(request, after) = e
            \/ Matches(request, entries) /\ Matched(request, after) = Matched(request, entries)
=============================================================================
