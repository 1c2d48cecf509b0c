------------------------------ MODULE AgentLoop ------------------------------
(***************************************************************************)
(* runBrowserAgent (packages/agent/src/run.ts) over the tagged planner     *)
(* (tagged-llm-planner.ts) and the file recorder (file-run-recorder.ts):   *)
(* observe, ask a planner for one action, check its target, dispatch it,   *)
(* observe what it did, record the step, and go on until the planner says  *)
(* done and the verifier agrees.                                           *)
(*                                                                         *)
(* A page is known by how many effects of this run it shows.  Model calls  *)
(* are counted, not priced: `spent` is what the provider charges for.      *)
(***************************************************************************)
EXTENDS Naturals, Sequences, FiniteSets

CONSTANTS
    Control,           \* the stable ids a planner may name
    Routing,           \* TRUE when a routine planner is configured
    MaxSteps, MaxRepairs, MaxTargetRepairs,
    MaxOutputRepairs,  \* corrective calls of the tagged planner
    None

ASSUME AgentAssumption ==
    /\ Routing \in BOOLEAN
    /\ MaxSteps \in Nat /\ MaxRepairs \in Nat /\ MaxOutputRepairs \in Nat
    /\ MaxTargetRepairs \in {0, 1}
    /\ None \notin Nat \cup Control
    /\ "unnamed" \notin Control /\ "done" \notin Control /\ "give_up" \notin Control

\* An action names a control, or it is a navigation or names none; or the planner
\* ends the run, claiming success or not.  A drag names a second one, to drop on.
Action == Control \cup {"unnamed", "done", "give_up"}
Ends(action) == action \in {"done", "give_up"}
Target(action) == IF Ends(action) THEN {None} ELSE Control \cup {None}

VARIABLES
    pc,        \* what the loop awaits
    step,      \* the loop's counter
    cur,       \* the locals of this turn of the loop
    drop,      \* what the action in hand drops on, if it is a drag
    call,      \* the planner call under way: which one, its tries, its usages
    usage,     \* the model calls of this turn, as the step will list them
    steps,     \* the steps recorded, as finish() sees them
    usages,    \* the model calls those steps list, added up
    repairs,   \* repairsUsed
    pending,   \* pendingRepair is set
    kept,      \* pendingPage
    ids,       \* dispatchedStableIds
    effects,   \* how often the run changed the application
    spent,     \* model calls that completed
    trail,     \* events in the trajectory
    finishes,  \* calls of recorder.finish
    manifest,  \* what the last call of finish() was given
    sealed     \* the manifest is on disk

vars == <<pc, step, cur, drop, call, usage, steps, usages, repairs, pending, kept, ids,
          effects, spent, trail, finishes, manifest, sealed>>

NewTurn == [source |-> "planner", author |-> "frontier",
            action |-> None, fuzzy |-> FALSE, page |-> 0, landed |-> FALSE,
            error |-> "none", verdict |-> "none"]
NoDrop == [on |-> None, fuzzy |-> FALSE]
NoUsage == [planned |-> 0, escalated |-> 0]
NoCall == [which |-> None, tries |-> 0, usages |-> 0]
NoManifest == [outcome |-> "none", tokens |-> 0, throws |-> FALSE]

Init == /\ pc = "turn" /\ step = 0 /\ cur = NewTurn /\ drop = NoDrop /\ call = NoCall
        /\ usage = NoUsage /\ usages = NoUsage /\ steps = <<>>
        /\ repairs = 0 /\ pending = FALSE /\ kept = None /\ ids = {}
        /\ effects = 0 /\ spent = 0 /\ trail = 0 /\ finishes = 0
        /\ manifest = NoManifest /\ sealed = FALSE

budget == <<step, repairs, pending>>
world == <<kept, ids, effects>>
record == <<steps, usages, trail, finishes, manifest, sealed>>

\* tokenUsageFromSteps.  Mutant: the calls of a planner that was escalated from
\* are left out.
UsageWithoutEscalation == usages.planned
UsageOfSteps == usages.planned + usages.escalated

\* recorder.finish is called, at most once.
MayFinish == finishes = 0

Finish(outcome, tokens, throws) ==
    /\ pc' = "finishing"
    /\ finishes' = finishes + 1
    /\ manifest' = [outcome |-> outcome, tokens |-> tokens, throws |-> throws]

\* The catch of the loop; `carried` is what a planner's output error carries.
Throw(carried) ==
    IF MayFinish
    THEN Finish("failure", UsageOfSteps + carried, TRUE)
    ELSE pc' = "threw" /\ UNCHANGED <<finishes, manifest>>

-----------------------------------------------------------------------------
(* Observe and plan. *)

Ask(which) == call' = [NoCall EXCEPT !.which = which]

\* chooseRoute: a repair is never routed.
Routes == IF Routing /\ ~ pending THEN {"frontier", "routine"} ELSE {"frontier"}

\* The page: the last post-action capture, or a new one.
Observe ==
    /\ pc = "turn" /\ step < MaxSteps
    /\ \E planner \in Routes :
         cur' = [NewTurn EXCEPT
                   !.page = IF kept = None THEN effects ELSE kept,
                   !.source = IF pending THEN "repair" ELSE "planner",
                   !.author = planner]
    /\ usage' = NoUsage
    /\ kept' = None
    /\ Ask("plan")
    /\ pc' = "planning"
    /\ UNCHANGED <<drop, budget, ids, effects, spent, record>>

\* The page cannot be captured, or its observation exceeds the bootstrap limit.
ObserveThrows ==
    /\ pc = "turn" /\ step < MaxSteps
    /\ Throw(0)
    /\ UNCHANGED <<cur, drop, call, usage, budget, world, spent, steps, usages, trail, sealed>>

\* The model returns one well-formed action.
Planned ==
    /\ pc = "planning"
    /\ spent' = spent + 1
    /\ \E action \in Action :
         /\ cur' = [cur EXCEPT !.action = action]
         /\ \E control \in Target(action) : drop' = [NoDrop EXCEPT !.on = control]
         /\ pc' = IF Ends(action) /\ call.which # "target" THEN "deciding" ELSE "checking"
    /\ usage' = [usage EXCEPT !.planned = @ + call.usages + 1]
    /\ pending' = FALSE
    /\ UNCHANGED <<step, call, repairs, world, record>>

\* Malformed output buys a corrective call.
PlansAgain ==
    /\ pc = "planning" /\ call.tries < MaxOutputRepairs
    /\ spent' = spent + 1
    /\ call' = [call EXCEPT !.tries = @ + 1, !.usages = @ + 1]
    /\ UNCHANGED <<pc, cur, drop, usage, budget, world, record>>

OutputFails == pc = "planning" /\ call.tries = MaxOutputRepairs /\ spent' = spent + 1

\* The routine planner fails closed: the frontier re-plans the step.
Escalates ==
    /\ OutputFails /\ call.which = "plan" /\ cur.author = "routine"
    /\ cur' = [cur EXCEPT !.author = "frontier"]
    /\ usage' = [usage EXCEPT !.escalated = call.usages + 1]
    /\ Ask("escalated")
    /\ UNCHANGED <<pc, drop, budget, world, record>>

\* The frontier fails closed: the run ends, with the calls of this failure.
PlanFails ==
    /\ OutputFails /\ call.which # "target"
    /\ call.which = "plan" => cur.author = "frontier"
    /\ Throw(call.usages + 1)
    /\ UNCHANGED <<cur, drop, call, usage, budget, world, steps, usages, trail, sealed>>

\* A target repair that fails is the error of the step, which is still recorded.
TargetPlanFails ==
    /\ OutputFails /\ call.which = "target"
    /\ cur' = [cur EXCEPT !.error = "output"]
    /\ call' = [call EXCEPT !.usages = @ + 1]
    /\ pc' = "deciding"
    /\ UNCHANGED <<drop, usage, budget, world, record>>

\* The provider fails: no output error, and the usages the planner held are gone.
ProviderFails ==
    /\ pc = "planning"
    /\ IF call.which = "target"
       THEN /\ cur' = [cur EXCEPT !.error = "world"]
            /\ pc' = "deciding"
            /\ UNCHANGED <<finishes, manifest>>
       ELSE Throw(0) /\ UNCHANGED cur
    /\ call' = NoCall
    /\ UNCHANGED <<drop, usage, budget, world, spent, steps, usages, trail, sealed>>

-----------------------------------------------------------------------------
(* Check, dispatch and observe the effect. *)

\* The stale-identity guard.  Mutant: it is not there.
RefusesNothing(action, fuzzy) == FALSE
Stale(action, fuzzy) == fuzzy /\ action \in ids

\* A named control resolves to itself or, by likeness only, to another; a `done`
\* that corrects a target is shown to the guard too.  What a drag drops on resolves in the
\* same way, and is not shown to it.
CheckPasses ==
    /\ pc = "checking"
    /\ \E fuzzy \in BOOLEAN :
         /\ fuzzy => cur.action \in Control
         /\ ~ Stale(cur.action, fuzzy)
         /\ cur' = [cur EXCEPT !.fuzzy = fuzzy]
    /\ \E fuzzy \in BOOLEAN :
         /\ fuzzy => drop.on # None
         /\ drop' = [drop EXCEPT !.fuzzy = fuzzy]
    /\ pc' = IF Ends(cur.action) THEN "deciding" ELSE "acting"
    /\ UNCHANGED <<call, usage, budget, world, spent, record>>

\* The check itself, or the injected guard, throws something else.
CheckThrows ==
    /\ pc = "checking"
    /\ cur' = [cur EXCEPT !.error = "world"]
    /\ drop' = NoDrop
    /\ pc' = "deciding"
    /\ UNCHANGED <<call, usage, budget, world, spent, record>>

\* Unresolvable, ambiguous, stale, not allowlisted, a drag into another browsing context, or
\* guarded: nothing was done yet, and the frontier may correct its target once.
Rejected ==
    /\ pc = "checking"
    /\ drop' = NoDrop
    /\ IF call.which # "target" /\ MaxTargetRepairs = 1
       THEN /\ cur' = [cur EXCEPT !.author = "frontier"]
            /\ Ask("target")
            /\ pc' = "planning"
       ELSE /\ cur' = [cur EXCEPT !.error = "target"]
            /\ pc' = "deciding"
            /\ UNCHANGED call
    /\ UNCHANGED <<usage, budget, world, spent, record>>

Land ==
    /\ pc = "acting" /\ ~ cur.landed
    /\ effects' = effects + 1
    /\ cur' = [cur EXCEPT !.landed = TRUE]
    /\ UNCHANGED <<pc, drop, call, usage, budget, kept, ids, spent, record>>

\* The dispatch threw, before its effect or after it, or the page could not be
\* captured afterwards.
ActFails ==
    /\ pc = "acting"
    /\ cur' = [cur EXCEPT !.error = "world"]
    /\ drop' = NoDrop
    /\ pc' = "deciding"
    /\ UNCHANGED <<call, usage, budget, world, spent, record>>

\* What a post-action capture leaves for the next turn.  Mutant: the page before it.
KeptBefore == cur.page
KeptAfter == effects

\* What was acted on is remembered; what it dropped on is not.
Acted(error) ==
    /\ pc = "acting" /\ cur.landed
    /\ kept' = KeptAfter
    /\ ids' = ids \cup ({cur.action} \cap Control)
    /\ drop' = NoDrop
    /\ cur' = [cur EXCEPT !.error = error]
    /\ pc' = "deciding"
    /\ UNCHANGED <<call, usage, budget, effects, spent, record>>

\* With its effect in evidence and its expect met, or not.
ActHolds == Acted("none")
ActDisproved == Acted("postcondition")

-----------------------------------------------------------------------------
(* Verify, record and go on. *)

Verifies == cur.action = "done" /\ cur.error = "none"

List(turn) ==
    /\ steps' = Append(steps, turn)
    /\ usages' = [planned |-> usages.planned + usage.planned,
                  escalated |-> usages.escalated + usage.escalated]

\* The verifier is given the page of this turn.
Verify ==
    /\ pc = "deciding" /\ Verifies
    /\ \E verdict \in {"holds", "refuted", "threw"} :
         cur' = [cur EXCEPT !.verdict = verdict]
    /\ List(cur')
    /\ pc' = "recording"
    /\ UNCHANGED <<drop, call, usage, budget, world, spent, trail, finishes, manifest, sealed>>

\* Mutant of RecordStep: a step that failed is thrown and not recorded.
RecordUnlessFailed ==
    /\ pc = "deciding" /\ ~ Verifies
    /\ IF cur.error = "none"
       THEN List(cur) /\ pc' = "recording" /\ UNCHANGED <<finishes, manifest>>
       ELSE Throw(0) /\ UNCHANGED <<steps, usages>>
    /\ UNCHANGED <<cur, drop, call, usage, budget, world, spent, trail, sealed>>

RecordStep ==
    /\ pc = "deciding" /\ ~ Verifies
    /\ List(cur)
    /\ pc' = "recording"
    /\ UNCHANGED <<cur, drop, call, usage, budget, world, spent, trail, finishes, manifest, sealed>>

\* Only a failed postcondition is repairable.  Mutant: any error of a step is.
RepairsAnything == cur.error # "none" /\ repairs < MaxRepairs
Repairable == cur.error = "postcondition" /\ repairs < MaxRepairs

\* Mutant: the loop's counter is stepped by hand as well.
NextStepTwice == step + 2
NextStep == step + 1

GoesOn ==
    /\ cur.verdict # "threw" /\ cur.error = "none" /\ ~ Ends(cur.action)
    /\ pc' = "turn" /\ step' = NextStep
    /\ UNCHANGED <<repairs, pending, finishes, manifest>>

Repairs ==
    /\ Repairable
    /\ pc' = "turn" /\ step' = NextStep
    /\ repairs' = repairs + 1 /\ pending' = TRUE
    /\ UNCHANGED <<finishes, manifest>>

ThrowsError ==
    /\ cur.verdict = "threw" \/ (cur.error # "none" /\ ~ Repairable)
    /\ Throw(IF cur.error = "output" THEN call.usages ELSE 0)
    /\ UNCHANGED budget

\* The outcome of a run that returns.  Mutant: the planner's word for it.
ClaimedOutcome == IF cur.action = "done" THEN "success" ELSE "failure"
DecidedOutcome == IF cur.verdict = "holds" THEN "success" ELSE "failure"

Decides ==
    /\ cur.verdict # "threw" /\ cur.error = "none" /\ Ends(cur.action)
    /\ Finish(DecidedOutcome, UsageOfSteps, FALSE)
    /\ UNCHANGED budget

\* recordStep resolved: the event is in the trajectory, synced.
Recorded ==
    /\ pc = "recording"
    /\ trail' = trail + 1
    /\ GoesOn \/ Repairs \/ ThrowsError \/ Decides
    /\ UNCHANGED <<cur, drop, call, usage, world, spent, steps, usages, sealed>>

\* The disk refuses the event, or the sync after it.
RecordThrows ==
    /\ pc = "recording"
    /\ trail' \in {trail, trail + 1}
    /\ Throw(0)
    /\ UNCHANGED <<cur, drop, call, usage, budget, world, spent, steps, usages, sealed>>

\* Mutant: the loop is left, and nothing is finished.
NothingLeftToDo == FALSE
OutOfSteps == step = MaxSteps

StepsExhausted ==
    /\ pc = "turn" /\ OutOfSteps
    /\ Finish("failure", UsageOfSteps, FALSE)
    /\ UNCHANGED <<cur, drop, call, usage, budget, world, spent, steps, usages, trail, sealed>>

ManifestWritten ==
    /\ pc = "finishing"
    /\ sealed' = TRUE
    /\ pc' = IF manifest.throws THEN "threw" ELSE "returned"
    /\ UNCHANGED <<cur, drop, call, usage, budget, world, spent, steps, usages, trail,
                   finishes, manifest>>

\* finish() throws: into the catch, unless it was called from there.
ManifestFails ==
    /\ pc = "finishing"
    /\ IF manifest.throws
       THEN pc' = "threw" /\ UNCHANGED <<finishes, manifest>>
       ELSE Throw(0)
    /\ UNCHANGED <<cur, drop, call, usage, budget, world, spent, steps, usages, trail, sealed>>

Over == pc \in {"returned", "threw", "crashed"}

Crash ==
    /\ ~ Over
    /\ pc' = "crashed"
    /\ UNCHANGED <<cur, drop, call, usage, budget, world, spent, record>>

Advance ==
    \/ Observe \/ ObserveThrows \/ Planned \/ PlansAgain \/ Escalates \/ PlanFails
    \/ TargetPlanFails \/ ProviderFails \/ CheckPasses \/ CheckThrows \/ Rejected
    \/ ActFails \/ ActHolds \/ ActDisproved \/ Verify \/ RecordStep
    \/ Recorded \/ RecordThrows \/ StepsExhausted \/ ManifestWritten \/ ManifestFails

Next == Advance \/ Land \/ Crash

Spec == Init /\ [][Next]_vars

\* What is awaited settles: planner, page, verifier and disk are assumed to answer.
FairSpec == Spec /\ WF_vars(Advance)

-----------------------------------------------------------------------------
(* Properties. *)

Turn == [source : {"planner", "repair"}, author : {"frontier", "routine"},
         action : Action \cup {None},
         fuzzy : BOOLEAN, page : Nat, landed : BOOLEAN,
         error : {"none", "target", "output", "world", "postcondition"},
         verdict : {"none", "holds", "refuted", "threw"}]
Usage == [planned : Nat, escalated : Nat]

TypeOK ==
    /\ pc \in {"turn", "planning", "checking", "acting", "deciding", "recording",
              "finishing", "returned", "threw", "crashed"}
    /\ step \in 0 .. MaxSteps /\ cur \in Turn
    /\ drop \in [on : Control \cup {None}, fuzzy : BOOLEAN]
    /\ call \in [which : {"plan", "escalated", "target", None},
                 tries : 0 .. MaxOutputRepairs, usages : Nat]
    /\ usage \in Usage /\ usages \in Usage
    /\ steps \in Seq(Turn) /\ Len(steps) <= MaxSteps
    /\ repairs \in 0 .. MaxRepairs /\ pending \in BOOLEAN
    /\ kept \in Nat \cup {None} /\ ids \subseteq Control
    /\ effects \in Nat /\ spent \in Nat /\ trail \in Nat /\ finishes \in Nat
    /\ manifest \in [outcome : {"none", "success", "failure"}, tokens : Nat,
                     throws : BOOLEAN]
    /\ sealed \in BOOLEAN

\* run.ts:303: "planner-declared completion is never success until an independent
\* verifier passes".  A run that reports success was verified in its last step,
\* every earlier step holds or was repaired, and all of them are in the trajectory.
NeverSilentSuccess ==
    manifest.outcome = "success" =>
        /\ steps # <<>> /\ steps[Len(steps)].verdict = "holds"
        /\ \A i \in 1 .. Len(steps) :
             steps[i].error \in {"none", "postcondition"}
        /\ steps[Len(steps)].error = "none"
        /\ trail = Len(steps)

\* What the verifier judged shows every effect of the run: the page it is given,
\* captured before the planner was asked, is no older than the last dispatch
\* (run.ts:53, 199, 235).
VerifiedAfterLastEffect ==
    \A i \in 1 .. Len(steps) : steps[i].verdict = "holds" => steps[i].page = effects

\* docs/02-architecture.md "Repair ladder": a failed postcondition is never passed
\* over silently.  It ends the run, or the frontier plans the next step as its
\* repair, at most MaxRepairs times; any other failure ends the run.
FailureBuysOneRepair ==
    /\ \A i \in 1 .. Len(steps) - 1 : steps[i].error # "none" =>
         /\ steps[i].error = "postcondition"
         /\ steps[i + 1].source = "repair" /\ steps[i + 1].author = "frontier"
    /\ Cardinality({i \in 1 .. Len(steps) : steps[i].source = "repair"}) <= MaxRepairs

\* The record follows the application: at most the last effect is not in the
\* trajectory yet, whenever the process dies, and a run that comes to finish()
\* knows of every effect it had.
EffectsOnRecord ==
    /\ effects <= trail + 1
    /\ finishes > 0 => effects = Cardinality({i \in 1 .. Len(steps) : steps[i].landed})

\* run.ts:382: spend is "never hidden from the run's accounting".  A run that
\* returns has every model call that completed in its manifest, those of repairs
\* and of planners it escalated from included; no manifest claims more.
ReturnedSpendIsWhole ==
    /\ manifest.tokens <= spent
    /\ pc = "returned" => manifest.tokens = spent

\* run.ts:441-445: an identity that was acted on is never rebound by likeness.  It is a
\* promise for what an action acts on, not for what a drag drops on.
LookalikeRefused ==
    \A i, j \in 1 .. Len(steps) :
        i < j /\ steps[i].landed /\ steps[j].landed /\ steps[j].fuzzy
            => steps[i].action # steps[j].action

\* The comment makes it for both, and the code does not hold it for the second
\* (run.ts:459-466).
NothingIsRebound ==
    pc = "acting" => ~ Stale(cur.action, cur.fuzzy) /\ ~ Stale(drop.on, drop.fuzzy)

\* What a failure may still buy: a repair within the budget, and never an action on a
\* control that took the place of one the run had acted on.
RepairsAreSafe == FailureBuysOneRepair /\ LookalikeRefused
\* The record of a run is whole: its effects, up to the one in hand, and its spend.
RecordIsWhole == EffectsOnRecord /\ ReturnedSpendIsWhole

\* The budgets of steps, repairs and corrective calls bound the run.
RunEnds == pc = "turn" ~> Over

\* tagged-llm-planner.ts:62-63: malformed output is never "dropped from token
\* accounting".  Every manifest has every model call that completed.
SpendOnRecord == sealed => manifest.tokens = spent
=============================================================================
