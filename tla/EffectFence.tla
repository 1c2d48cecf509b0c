----------------------------- MODULE EffectFence -----------------------------
(***************************************************************************)
(* EffectFencedSpeculator (packages/session/src/effect-fenced-speculation  *)
(* .ts): one speculate call per request, refused at the effect boundary or *)
(* for want of budget, else dispatched under a time cap, compared with its *)
(* prediction and promoted.                                                *)
(*                                                                         *)
(* The time cap rejects the wait for a dispatch; nothing ends the dispatch *)
(* itself.  `atWork` is what the injected executor is really doing.        *)
(***************************************************************************)
EXTENDS Naturals, FiniteSets

CONSTANTS
    Request,        \* one name per call of speculate
    Permitted,      \* the requests classified pure_read or local_nav, and permitted
    MaxDispatches, MaxInFlight

ASSUME FenceAssumption ==
    /\ IsFiniteSet(Request)
    /\ Permitted \subseteq Request
    /\ MaxDispatches \in Nat \ {0}
    /\ MaxInFlight \in Nat \ {0}

VARIABLES
    call,        \* call[x]: where the speculate call of request x is
    dispatches,  \* dispatches so far
    inFlight,    \* the speculator's own count of those in flight
    atWork       \* the requests the executor is carrying out

fenceVars == <<call, dispatches, inFlight, atWork>>

FenceInit == /\ call = [x \in Request |-> "none"]
             /\ dispatches = 0 /\ inFlight = 0
             /\ atWork = {}

Affordable == dispatches < MaxDispatches /\ inFlight < MaxInFlight

\* The fence permits it and the budget allows it.  Mutant: the fence is not asked.
SpeculableIfAffordable(x) == Affordable
Speculable(x) == x \in Permitted /\ Affordable

\* speculate, up to its first await.
Dispatched(x) ==
    /\ call[x] = "none" /\ Speculable(x)
    /\ call' = [call EXCEPT ![x] = "dispatching"]
    /\ dispatches' = dispatches + 1
    /\ inFlight' = inFlight + 1
    /\ atWork' = atWork \cup {x}

\* effect_boundary or budget_exhausted
Refused(x) ==
    /\ call[x] = "none" /\ ~ Speculable(x)
    /\ call' = [call EXCEPT ![x] = "discarded"]
    /\ UNCHANGED <<dispatches, inFlight, atWork>>

Speculate(x) == Dispatched(x) \/ Refused(x)

\* The slot is given back in the `finally`.  Mutant: it is not.
ReleasedNot == inFlight
Released == inFlight - 1

\* The end of the try block, whichever way it is left.
Settle(x, outcome) ==
    /\ call' = [call EXCEPT ![x] = outcome]
    /\ inFlight' = Released

\* The receipt is exact and confirms the prediction.
Confirmed(x) ==
    /\ call[x] = "dispatching" /\ x \in atWork
    /\ call' = [call EXCEPT ![x] = "promoting"]
    /\ atWork' = atWork \ {x}
    /\ UNCHANGED <<dispatches, inFlight>>

\* The dispatch failed, or its receipt is stale or of another scope, control or
\* plan, or it observed something else than predicted.
NotConfirmed(x) ==
    /\ call[x] = "dispatching" /\ x \in atWork
    /\ Settle(x, "discarded")
    /\ atWork' = atWork \ {x}
    /\ UNCHANGED dispatches

\* withTimeout
TimesOut(x) ==
    /\ call[x] = "dispatching"
    /\ Settle(x, "discarded")
    /\ UNCHANGED <<dispatches, atWork>>

\* promoteShadow resolves or rejects.
PromotionSettles(x) ==
    /\ call[x] = "promoting"
    /\ \E outcome \in {"promoted", "discarded"} : Settle(x, outcome)
    /\ UNCHANGED <<dispatches, atWork>>

\* A dispatch nobody waits for any more comes to its end.
LateEnd(x) ==
    /\ x \in atWork /\ call[x] # "dispatching"
    /\ atWork' = atWork \ {x}
    /\ UNCHANGED <<call, dispatches, inFlight>>

FenceStep(x) ==
    \/ Confirmed(x) \/ NotConfirmed(x) \/ TimesOut(x) \/ PromotionSettles(x) \/ LateEnd(x)

-----------------------------------------------------------------------------
(* Properties. *)

Pending == {x \in Request : call[x] \in {"dispatching", "promoting"}}

FenceTypeOK ==
    /\ call \in [Request -> {"none", "dispatching", "promoting", "promoted", "discarded"}]
    /\ dispatches \in Nat /\ inFlight \in Nat
    /\ atWork \subseteq Request

\* However its calls end, the speculator neither leaks a slot of its budget nor
\* gives one back twice, and it stays within both caps (lines 110-138).
BudgetKept ==
    /\ inFlight = Cardinality(Pending)
    /\ inFlight <= MaxInFlight
    /\ dispatches <= MaxDispatches
    /\ Cardinality({x \in Request : call[x] = "promoted"}) + inFlight <= dispatches

\* The executor works on nothing that was refused at the boundary
\* (README.md:23-26).
OnlyPermittedAtWork == atWork \subseteq Permitted
=============================================================================
