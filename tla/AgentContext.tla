----------------------------- MODULE AgentContext -----------------------------
(***************************************************************************)
(* What one request to the planner is made of, and what ends a task        *)
(* (packages/agent): the compacted history of actions                      *)
(* (history-compaction.ts), the prefix that must not change within a run   *)
(* (context.ts), and the verifier that asks for authoritative evidence     *)
(* (evidence.ts with core's verification-evidence.ts).                     *)
(*                                                                         *)
(* An action is [kind, target]: for navigate and done the target is not    *)
(* told apart.  A policy of compaction is [max, interval, recent, limit].  *)
(***************************************************************************)
EXTENDS Integers, SequencesExt, FiniteSetsExt

CONSTANT None

-----------------------------------------------------------------------------
(* buildPlannerActionHistory. *)

ValidPolicy(p) == p.recent < p.max /\ p.interval <= p.max /\ p.interval > 0 /\ p.recent > 0

\* Mutant of CompactedCount: all but the recent actions, at every step.
AllButRecent(n, p) == IF n <= p.max THEN 0 ELSE n - p.recent
\* How many of n actions are compacted: whole intervals, once there are too many.
CompactedCount(n, p) ==
    IF n <= p.max THEN 0 ELSE ((n - p.recent) \div p.interval) * p.interval

KeyOf(action) == <<action.kind, IF action.kind \in {"navigate", "done"} THEN None ELSE action.target>>
\* The last action of each kind and target, the latest of them up to the limit, in
\* their order.
LastOfItsKey(actions, i) == \A j \in i + 1 .. Len(actions) : KeyOf(actions[j]) # KeyOf(actions[i])
Representatives(actions, limit) ==
    LET last == {i \in DOMAIN actions : LastOfItsKey(actions, i)}
        kept == {i \in last : Cardinality({j \in last : j > i}) < limit}
    IN  SelectSeq([i \in DOMAIN actions |-> i], LAMBDA i : i \in kept)

\* The positions of the actions a request shows, and how many are compacted.
History(actions, p) ==
    LET n == CompactedCount(Len(actions), p)
        older == SubSeq(actions, 1, n)
    IN  [compacted |-> n,
         counts |-> [k \in {actions[i].kind : i \in 1 .. n} |-> Cardinality({i \in 1 .. n : actions[i].kind = k})],
         visible |-> Representatives(older, p.limit) \o [i \in 1 .. Len(actions) - n |-> n + i]]

-----------------------------------------------------------------------------
(* assemblePlannerContext: what stands before the line that provider caches *)
(* keep, and after it.                                                      *)

StablePrefix(o) == <<o.task, o.verbs, IF "upload" \in o.verbs THEN o.uploads ELSE {}, o.brief>>
VolatileSuffix(o) == <<o.history, o.page, o.evicted, o.controls, o.repair, o.observation>>
\* assertCacheStablePrefix: the first prefix of a run is the one of all its requests.
PrefixAsserted(expected, actual) == expected \in {None, actual}

-----------------------------------------------------------------------------
(* evaluateEvidencePolicy.  An envelope is [class, subject, at, generation, *)
(* digest], a policy [required, age], a requirement [class, digest].        *)

Authoritative == {"api_state", "database_state", "fixture_oracle", "browser_download_event"}
ValidRequirement(r) == r.class \in Authoritative

\* Mutant of Fresh: an envelope without a generation passes.
FreshEnough(e, policy, at) ==
    /\ policy.age = None \/ at.now - e.at <= policy.age
    /\ at.generation = None \/ e.generation \in {None, at.generation}
Fresh(e, policy, at) ==
    /\ policy.age = None \/ at.now - e.at <= policy.age
    /\ at.generation = None \/ e.generation = at.generation

\* The first gate of a requirement that no envelope passes.
GateOf(requirement, envelopes, policy, at) ==
    LET ofClass == {e \in envelopes : e.class = requirement.class}
        bound == {e \in ofClass : e.subject = at.subject}
        fresh == {e \in bound : Fresh(e, policy, at)}
        consistent == {e \in fresh : requirement.digest \in {None, e.digest}}
    IN  CASE ofClass = {} -> "authoritative_effect_missing"
          [] bound = {} -> "authoritative_evidence_task_mismatch"
          [] fresh = {} -> "authoritative_evidence_stale"
          [] consistent = {} -> "authoritative_evidence_inconsistent"
          [] OTHER -> "satisfied"

\* The verdict is that of the first requirement that fails.
EvaluatePolicy(envelopes, policy, at) ==
    LET failing == SelectSeq(policy.required, LAMBDA r : GateOf(r, envelopes, policy, at) # "satisfied")
    IN  IF failing = <<>> THEN "satisfied" ELSE GateOf(Head(failing), envelopes, policy, at)

\* createEvidenceGatedVerifier: the base verifier first; then every adapter, of
\* which one that throws (None) ends the run with an error and no verdict.
Verify(base, collected, policy, at) ==
    CASE ~ base -> "failure"
      [] policy.required = <<>> -> "success"
      [] None \in ToSet(collected) -> "error"
      [] EvaluatePolicy(UNION ToSet(collected), policy, at) = "satisfied" -> "success"
      [] OTHER -> EvaluatePolicy(UNION ToSet(collected), policy, at)

-----------------------------------------------------------------------------

\* A request shows actions that were taken, in their order, the recent ones all;
\* what one request showed the next one shows after it, unless a whole interval has
\* become older meanwhile; and a request never shows more than the bound.
HistoryIsHonest(actions, action, p) ==
    LET now == History(actions, p)
        next == History(Append(actions, action), p)
    IN  /\ \A i, j \in DOMAIN now.visible : i < j => now.visible[i] < now.visible[j]
        /\ \A i \in DOMAIN actions : i > Len(actions) - p.recent => i \in ToSet(now.visible)
        /\ IsPrefix(now.visible, next.visible) \/ next.compacted - now.compacted >= p.interval
        /\ Len(now.visible) <= Max({p.max, p.limit + p.recent + p.interval - 1})

\* Every action that is no longer shown is counted, and what it did last to a
\* target is shown while the limit allows: no target is forgotten before another
\* one that was used earlier.
LatestTargetsKept(actions, p) ==
    LET h == History(actions, p)
        shown == ToSet(h.visible)
    IN  \A i \in DOMAIN actions, j \in DOMAIN actions :
            i < j /\ i \in shown /\ LastOfItsKey(actions, j) => j \in shown

\* Success needs, for each requirement, one envelope of its own class that is about
\* this run, of the current generation and young enough: without the envelopes of
\* another run, class or generation the verdict would be the same.
OnlyAuthorityCounts(collected, policy, at) ==
    LET counts(e) == /\ e.class \in {r.class : r \in ToSet(policy.required)}
                     /\ e.subject = at.subject
                     /\ at.generation \in {None, e.generation}
                     /\ policy.age = None \/ e.at + policy.age >= at.now
        relevant == [i \in DOMAIN collected |->
                       IF collected[i] = None THEN None ELSE {e \in collected[i] : counts(e)}]
    IN  Verify(TRUE, collected, policy, at) = "success" => Verify(TRUE, relevant, policy, at) = "success"
=============================================================================
