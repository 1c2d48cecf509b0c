-------------------------- MODULE PlaybookExecutor --------------------------
(***************************************************************************)
(* runPlaybook (packages/executor/src/executor.ts): replays one playbook.  *)
(* A run walks the steps in dependency order, skips the ones an earlier    *)
(* session recorded, dispatches a tool or asks the model for the others,   *)
(* checks each step's `expect` on the world it has observed, awaits the    *)
(* checkpoint hook, and at the end checks `verify`.                        *)
(*                                                                         *)
(* One record per session holds the local variables of its runPlaybook     *)
(* call.  `effects` is the application on the other side of the tools: it  *)
(* survives every session, and an effect may land before the tool answers, *)
(* or although it answers with an error.                                   *)
(***************************************************************************)
EXTENDS Naturals, Sequences, FiniteSets

CONSTANTS
    Session,        \* calls of runPlaybook, one per session of a task
    Step,           \* the steps of the playbook
    Order,          \* topoOrder(playbook.steps): a listing of Step
    Deterministic,  \* the steps that dispatch a tool; the others ask the model
    Uses,           \* Uses[x]: the model steps whose answer x's templates name
    Attempts,       \* Attempts[x]: 3 when on_fail is `retry`, else 1
    Expect,         \* Expect[x]: the check of step x
    Verify,         \* the playbook-level checks
    Value,          \* what a field of the world may show
    None,           \* a field not observed, an absent choice
    Answer,         \* the observations tools can return
    StopAfter       \* the values of stopAfterStepId in use

ASSUME PlaybookAssumption ==
    /\ Len(Order) \in Nat
    /\ Order \in [1 .. Len(Order) -> Step]
    /\ \A i, j \in 1 .. Len(Order) : Order[i] = Order[j] => i = j
    /\ \A x \in Step : \E i \in 1 .. Len(Order) : Order[i] = x
    /\ Deterministic \subseteq Step
    /\ Uses \in [Step -> SUBSET (Step \ Deterministic)]
    /\ Attempts \in [Step -> Nat \ {0}]
    /\ None \notin Value \cup Step
    /\ StopAfter \subseteq Step \cup {None}

\* What an assertion can read.  `page` stands for url, selectors, inputs and
\* text; `output` for last_json and last_output.
Field == {"page", "exit_code", "output"}
World == [Field -> Value \cup {None}]

\* A check reads one field; a check of absence (selector_absent) also accepts
\* a field that was never observed.
Check == [field : Field, accepts : SUBSET (Value \cup {None})]

ASSUME ChecksAssumption ==
    /\ Expect \in [Step -> Check]
    /\ Verify \subseteq Check
    /\ Answer \subseteq World

VARIABLES
    run,      \* run[s]: the local state of session s's run
    effects   \* effects[x]: how often step x took effect in the application

execVars == <<run, effects>>

InitialWorld == [f \in Field |-> None]

Idle == [pc |-> "idle", pos |-> 1, attempt |-> 0, landed |-> FALSE,
         world |-> InitialWorld, seen |-> InitialWorld,
         resume |-> {}, completed |-> {}, bound |-> {}, hooked |-> {},
         stop |-> None, pushed |-> 0, flushed |-> 0, outcome |-> "none"]

Init == /\ run = [s \in Session |-> Idle]
        /\ effects = [x \in Step |-> 0]

Cur(s) == Order[run[s].pos]
More(s) == run[s].pos <= Len(Order)
Active(s) == run[s].pc \notin {"idle", "ended", "threw", "crashed"}

Accepts(check, world) == world[check.field] \in check.accepts

\* mergeWorldState: what a result does not mention persists, except its output.
Merge(world, obs) ==
    [f \in Field |-> IF f # "output" /\ obs[f] = None THEN world[f] ELSE obs[f]]

\* finish() waits for the trajectory queue before it writes the manifest.
Finish(r, outcome) == [r EXCEPT !.pc = "draining", !.outcome = outcome]

\* To the next step.  Mutant: without the increment.
OnwardStays(r) == [r EXCEPT !.pc = "step", !.attempt = 0]
Onward(r) == [r EXCEPT !.pc = "step", !.pos = @ + 1, !.attempt = 0]

\* Mutant of Passed: the hook is not awaited before the next step.
PassedUnawaited(r, world, obs) ==
    Onward([r EXCEPT !.world = world, !.seen = obs,
                     !.completed = @ \cup {Order[r.pos]}])

Passed(r, world, obs) ==
    [r EXCEPT !.pc = "hook", !.world = world, !.seen = obs,
              !.completed = @ \cup {Order[r.pos]}]

\* Mutant: one attempt too many.
RetriesOnceMore(r) == r.attempt <= Attempts[Order[r.pos]]
Retries(r) == r.attempt < Attempts[Order[r.pos]]

\* The observation of a failed attempt is dropped when the step is retried.
Failed(r, world) ==
    IF Retries(r)
    THEN [r EXCEPT !.pc = "step"]
    ELSE Finish([r EXCEPT !.world = world], "fallback")

\* A slot or judgment answer is bound to its step.
Bind(r, x) == [r EXCEPT !.bound = @ \cup {x}]

\* Mutant: the failure of the hook is logged, and the run goes on.
HookIgnored(r) == Onward(r)
HookFailed(r) == Finish(r, "checkpoint_write_failed")

\* Mutant: `some` for `every`.
VerifiedSome(world) == \E v \in Verify : Accepts(v, world)
Verified(world) == \A v \in Verify : Accepts(v, world)

\* The queue is empty.  Mutant: nobody waits for it.
FlushedAnyway(r) == TRUE
Flushed(r) == r.flushed = r.pushed

Record(r) == [r EXCEPT !.pushed = @ + 1, !.landed = FALSE]

-----------------------------------------------------------------------------
(* The walk over the steps. *)

\* A call of runPlaybook: `done` and `bound` come from the resumed checkpoint,
\* `stop` is stopAfterStepId.
Begin(s, done, bound, stop) ==
    /\ run[s].pc = "idle"
    /\ run' = [run EXCEPT ![s] = [Idle EXCEPT !.pc = "step", !.resume = done,
                                              !.bound = bound, !.stop = stop]]
    /\ UNCHANGED effects

Skip(s) ==
    /\ run[s].pc = "step" /\ More(s) /\ Cur(s) \in run[s].resume
    /\ run' = [run EXCEPT ![s] = Onward([run[s] EXCEPT !.completed = @ \cup {Cur(s)}])]
    /\ UNCHANGED effects

AtStep(s) == run[s].pc = "step" /\ More(s) /\ Cur(s) \notin run[s].resume

Dispatch(s) ==
    /\ AtStep(s) /\ Uses[Cur(s)] \subseteq run[s].bound
    /\ run' = [run EXCEPT ![s].attempt = @ + 1,
                          ![s].pc = IF Cur(s) \in Deterministic
                                    THEN "calling" ELSE "asking"]
    /\ UNCHANGED effects

\* renderTemplate throws on a binding no step has produced yet.  checkExpect renders as well,
\* after the dispatch (executor.ts:137-141, 240): an expect is taken to use no binding that
\* the arguments of its step do not.
Unbound(s) ==
    /\ AtStep(s) /\ ~ (Uses[Cur(s)] \subseteq run[s].bound)
    /\ run' = [run EXCEPT ![s].pc = "threw", ![s].outcome = "unbound"]
    /\ UNCHANGED effects

\* The application carries out a call still in flight, while the process that made it lives:
\* one that arrives only after a crash is left out.
Land(s) ==
    /\ run[s].pc = "calling" /\ ~ run[s].landed
    /\ effects' = [effects EXCEPT ![Cur(s)] = @ + 1]
    /\ run' = [run EXCEPT ![s].landed = TRUE]

\* The call failed: before anything was dispatched, or after (a page that does
\* not settle or cannot be captured is reported as the step's failure).
ToolFails(s) ==
    /\ run[s].pc = "calling"
    /\ run' = [run EXCEPT ![s] = Failed(Record(run[s]), run[s].world)]
    /\ UNCHANGED effects

ToolPasses(s) ==
    /\ run[s].pc = "calling" /\ run[s].landed
    /\ \E obs \in Answer :
         LET world == Merge(run[s].world, obs) IN
         /\ Accepts(Expect[Cur(s)], world)
         /\ run' = [run EXCEPT ![s] = Passed(Record(run[s]), world, obs)]
    /\ UNCHANGED effects

ExpectFails(s) ==
    /\ run[s].pc = "calling" /\ run[s].landed
    /\ \E obs \in Answer :
         LET world == Merge(run[s].world, obs) IN
         /\ ~ Accepts(Expect[Cur(s)], world)
         /\ run' = [run EXCEPT ![s] = Failed(Record(run[s]), world)]
    /\ UNCHANGED effects

\* The answer is bound, then checked like a tool's text.
ModelAnswers(s) ==
    /\ run[s].pc = "asking"
    /\ \E v \in Value :
         LET obs == [page |-> v, exit_code |-> None, output |-> v]
             world == Merge(run[s].world, obs)
             r == Bind(run[s], Cur(s))
         IN run' = [run EXCEPT ![s] = IF Accepts(Expect[Cur(s)], world)
                                      THEN Passed(r, world, obs)
                                      ELSE Failed(r, world)]
    /\ UNCHANGED effects

\* The provider fails, or a judgment is outside its enum: a hard error.
ModelThrows(s) ==
    /\ run[s].pc = "asking"
    /\ run' = [run EXCEPT ![s].pc = "threw"]
    /\ UNCHANGED effects

\* onStepCompleted resolved: stop here if asked to, else go to the next step.
HookResolves(s) ==
    /\ run[s].pc = "hook"
    /\ LET r == [run[s] EXCEPT !.hooked = @ \cup {Cur(s)}] IN
       run' = [run EXCEPT ![s] =
                 IF r.stop = Cur(s) THEN Finish(r, "interrupted")
                 ELSE Onward(r)]
    /\ UNCHANGED effects

\* onStepCompleted threw: the run ends, whatever remains is not dispatched.
HookThrows(s) ==
    /\ run[s].pc = "hook"
    /\ run' = [run EXCEPT ![s] = HookFailed(@)]
    /\ UNCHANGED effects

FinalVerify(s) ==
    /\ run[s].pc = "step" /\ ~ More(s)
    /\ run' = [run EXCEPT ![s] =
                 Finish(@, IF Verified(run[s].world)
                           THEN "success" ELSE "verify_failed")]
    /\ UNCHANGED effects

-----------------------------------------------------------------------------
(* The run's own recording, and the end of the process. *)

\* The queue appends one event, in the order they were pushed.
Flush(s) ==
    /\ Active(s) /\ run[s].flushed < run[s].pushed
    /\ run' = [run EXCEPT ![s].flushed = @ + 1]
    /\ UNCHANGED effects

\* An append that fails rejects the queue's tail: finish() rethrows it, and
\* before finish() nobody handles the rejection and the process dies.
FlushFails(s) ==
    /\ Active(s) /\ run[s].flushed < run[s].pushed
    /\ run' = [run EXCEPT ![s].pc = IF @ = "draining" THEN "threw" ELSE "crashed"]
    /\ UNCHANGED effects

WriteManifest(s) ==
    /\ run[s].pc = "draining" /\ Flushed(run[s])
    /\ run' = [run EXCEPT ![s].pc = "ended"]
    /\ UNCHANGED effects

Crash(s) ==
    /\ Active(s)
    /\ run' = [run EXCEPT ![s].pc = "crashed"]
    /\ UNCHANGED effects

\* Everything a run does by itself between its start and its end, but for the
\* hook, which belongs to the caller.
Walk(s) ==
    \/ Skip(s) \/ Dispatch(s) \/ Unbound(s) \/ Land(s)
    \/ ToolFails(s) \/ ToolPasses(s) \/ ExpectFails(s)
    \/ ModelAnswers(s) \/ ModelThrows(s) \/ FinalVerify(s)
    \/ Flush(s) \/ FlushFails(s) \/ WriteManifest(s) \/ Crash(s)

\* On its own, a run may resume at any position an earlier session recorded, with
\* the bindings of that session or without them (`stepBindings` is optional).
Start(s) ==
    \E k \in 0 .. Len(Order), stop \in StopAfter :
        LET done == {Order[i] : i \in 1 .. k}
        IN \E bound \in {{}, done \ Deterministic} : Begin(s, done, bound, stop)

Next == \E s \in Session :
            Start(s) \/ Walk(s) \/ HookResolves(s) \/ HookThrows(s)

Spec == Init /\ [][Next]_execVars

\* The event loop runs what is ready: a settled promise resumes the run and the
\* queue writes.  That tool, model and hook settle at all is assumed of them.
Advance(s) ==
    \/ Skip(s) \/ Dispatch(s) \/ Unbound(s)
    \/ ToolFails(s) \/ ToolPasses(s) \/ ExpectFails(s)
    \/ ModelAnswers(s) \/ ModelThrows(s)
    \/ HookResolves(s) \/ HookThrows(s) \/ FinalVerify(s) \/ WriteManifest(s)

FairSpec ==
    Spec /\ \A s \in Session : /\ WF_execVars(Advance(s))
                               /\ WF_execVars(Flush(s) \/ FlushFails(s))

-----------------------------------------------------------------------------
(* Properties. *)

Pc == {"idle", "step", "calling", "asking", "hook", "draining",
       "ended", "threw", "crashed"}
Outcome == {"none", "success", "verify_failed", "fallback", "interrupted",
            "checkpoint_write_failed", "unbound"}

RunRecord ==
    [pc : Pc, pos : Nat \ {0}, attempt : Nat, landed : BOOLEAN,
     world : World, seen : World, resume : SUBSET Step,
     completed : SUBSET Step, bound : SUBSET (Step \ Deterministic),
     hooked : SUBSET Step, stop : StopAfter \cup {None},
     pushed : Nat, flushed : Nat, outcome : Outcome]

\* Every variable keeps its type, and a run that is at work on a step is
\* within the listing of the steps.
TypeOK ==
    /\ run \in [Session -> RunRecord]
    /\ effects \in [Step -> Nat]
    /\ \A s \in Session :
         run[s].pc \in {"calling", "asking", "hook"} => More(s)

Busy(s) == run[s].pc \in {"calling", "asking"}

\* onStepCompleted is awaited before the next dispatch (executor.ts:304): while
\* a tool or the model is at work, every step this run completed has had its
\* hook resolve.  A step with its checkpoint missing is never followed by
\* another side effect.
CheckpointBeforeNextDispatch ==
    \A s \in Session : Busy(s) =>
        run[s].completed \ run[s].resume \subseteq run[s].hooked

\* The application sees a step at most once per attempt its on_fail allows
\* (executor.ts:284-292), and only from the sessions that did not find it
\* recorded (executor.ts:276).
EffectsAccounted ==
    \A x \in Step :
        effects[x] <= Attempts[x]
            * Cardinality({s \in Session : run[s].pc # "idle" /\ x \notin run[s].resume})

\* The first sacred invariant: success means that every step was completed,
\* each one of them recorded before or acknowledged by the hook, and that
\* every verify check accepts the final world (executor.ts:320-328).
NeverSilentlyWrong ==
    \A s \in Session : run[s].outcome = "success" =>
        /\ run[s].completed = Step
        /\ Step \subseteq run[s].resume \cup run[s].hooked
        /\ \A v \in Verify : Accepts(v, run[s].world)

\* The manifest is written after every queued event (manifest-writer.ts): a
\* run with a manifest has an event on disk for each tool step it completed.
ManifestSealsTrajectory ==
    \A s \in Session : run[s].pc = "ended" =>
        /\ run[s].flushed = run[s].pushed
        /\ Cardinality((run[s].completed \ run[s].resume) \cap Deterministic)
             <= run[s].flushed

\* A step takes effect at most once per attempt and per session, whatever replies are
\* lost (executor.ts:287), and the manifest is written over the whole trajectory, or over
\* none of what followed an append that failed (sequential-queue.ts:13).
RunsAreAccounted == EffectsAccounted /\ ManifestSealsTrajectory

\* A template is never rendered before the model step that produces its
\* binding, in this session or in the one it resumes (executor.ts:165, 232).
NeverUnbound == \A s \in Session : run[s].outcome # "unbound"

\* Every run comes to an end: the retries are bounded, and the manifest waits for
\* a queue that empties (executor.ts:204-226, 287-292).
EveryRunEnds == \A s \in Session : run[s].pc = "step" ~> ~ Active(s)

\* world-state.ts:79-82: last_exit_code "always reflects the most recent
\* step".  A step whose expect reads the exit code passes on its own exit code.
ExitCodeIsTheStepsOwn ==
    \A s \in Session :
        run[s].pc = "hook" /\ Expect[Cur(s)].field = "exit_code"
            => run[s].seen["exit_code"] # None
=============================================================================
