------------------------------- MODULE TaskRun -------------------------------
(***************************************************************************)
(* runBrowserTask (packages/cli/src/run-browser-task.ts): one task, by     *)
(* verified replay of a playbook when one may be used and by the agent     *)
(* (AgentLoop) otherwise or when the replay fails.                         *)
(*                                                                         *)
(* Each await of it is a step.  Several tasks and distill commands share   *)
(* the disk (LearnedStore).  The replay is what PlaybookExecutor allows    *)
(* it to be: a success passed the playbook's own `verify`, and a failure   *)
(* may come after some of its effects.                                     *)
(***************************************************************************)
EXTENDS LearnedStore

CONSTANTS
    Attempt,     \* the tasks that are run, each under its own run id
    Text,        \* task texts
    TokensOf(_), \* the tokens of a text
    Earlier,     \* the successful runs on disk at the start
    Check,       \* verification checks
    Filler,      \* tokens that are no content
    Providers    \* the names of a provider that createTaggedLlmClientFromEnv knows

Warm(t) == <<"replay", t>>
Cold(t) == <<"agent", t>>

\* How a task ends and which way it came, why it fell back, and the code of that.
Outcomes == {"error", "success", "failure"}
Ways == {"warm", "cold"}
Reasons == {"fingerprint_mismatch", "replay_failed", "replay_error"}
Codes == {"FINGERPRINT_MISMATCH", "VERIFY_FAILED", "REPLAY_UNCLASSIFIED", "REPLAY_THREW"}

\* An attempt records under ids of its own (executor.ts:156, file-run-recorder.ts:25), and
\* the library lists what an earlier run taught.
ASSUME RunAssumption ==
    /\ Run = Earlier \cup {Warm(t) : t \in Attempt} \cup {Cold(t) : t \in Attempt}
    /\ \A t \in Attempt : Warm(t) \notin Earlier /\ Cold(t) \notin Earlier
    /\ \A known \in Before : known.name # None => known.name \in Name /\ known.run \in Earlier
    /\ \A text \in Text : IsFiniteSet(TokensOf(text))
    /\ None \notin Outcomes \cup Ways \cup Reasons \cup Codes \cup Providers

VARIABLES
    task,     \* task[t]: where runBrowserTask is in attempt t
    effects,  \* effects[t]: who has committed the work of t in the application
    page,     \* page[t]: the checks that hold of the page last looked at
    browser   \* browser[t]: the backend of attempt t

taskVars == <<task, effects, page, browser>>

M == INSTANCE Matching WITH Slot <- [p \in {} |-> None], Rebound <- {}

NoCandidate == [name |-> None, env |-> None, run |-> None]
NotStarted == [phase |-> "idle", env |-> None, text |-> None, checks |-> {}, explicit |-> FALSE,
               candidate |-> NoCandidate, fallback |-> None, code |-> None, llm |-> None,
               planned |-> FALSE, phase_of |-> None, result |-> None]

RunDir(status, e, text, checks) == [status |-> status, env |-> e, text |-> text, checks |-> checks]

TaskInit == /\ \E text \in Text, e \in Env, c \in Check :
                 runs = [r \in Run |-> IF r \in Earlier THEN RunDir("success", e, text, {c})
                                       ELSE RunDir("none", None, None, {})]
            /\ LearnedInit
            /\ task = [t \in Attempt |-> NotStarted]
            /\ effects = [t \in Attempt |-> <<>>]
            /\ page = [t \in Attempt |-> {}]
            /\ browser = [t \in Attempt |-> "closed"]

Did(t, who) == \E i \in DOMAIN effects[t] : effects[t][i] = who

InPhase(t, phase) == task[t].phase = phase
Enter(t, phase) == task' = [task EXCEPT ![t].phase = phase]
\* An exception on its way to the caller, and a result on its way; the finally
\* block is next.
Raise(t) == task' = [task EXCEPT ![t].phase = "finally", ![t].result = "error"]
Return(t, phase, result) ==
    task' = [task EXCEPT ![t].phase = "finally", ![t].phase_of = phase, ![t].result = result]
\* An exception that no finally block follows: before there is a browser there is
\* nothing to close.
Refuse(t) == task' = [task EXCEPT ![t].phase = "over", ![t].result = "error"]

\* recorder.finish: a manifest, and in the last step of a cold run the checks that decided
\* it.  A replay records its steps only.
Seal(r, t, status) ==
    runs' = [runs EXCEPT ![r] = RunDir(status, task[t].env, task[t].text, IF r = Cold(t) THEN task[t].checks ELSE {})]
\* A failed run is sealed, unless the disk refuses the manifest too.
SealFailure(t) == Seal(Cold(t), t, "failure") \/ UNCHANGED runs

-----------------------------------------------------------------------------

\* A run without a verification check is refused before anything.
Start(t, text, env, checks, explicit) ==
    /\ t \in cast /\ InPhase(t, "idle")
    /\ task' = [task EXCEPT ![t].phase = IF checks = {} THEN "over" ELSE "select",
                            ![t].result = IF checks = {} THEN "error" ELSE None,
                            ![t].text = text, ![t].env = env, ![t].checks = checks,
                            ![t].explicit = explicit]
    /\ UNCHANGED <<effects, page, browser, runs>>

EntryOf(n) == [playbook |-> n, version |-> 1, env |-> runs[RunOf(n)].env,
               intent |-> TokensOf(runs[RunOf(n)].text), needs |-> {}]
Library == {EntryOf(n) : n \in Listed}
Request(t) == [task |-> TokensOf(task[t].text), params |-> [p \in {} |-> None], env |-> task[t].env]
LibraryCandidate(t) ==
    IF M!Matches(Request(t), Library)
    THEN LET e == M!Matched(Request(t), Library) IN [name |-> e.playbook, env |-> e.env, run |-> RunOf(e.playbook)]
    ELSE NoCandidate

\* Mutant of Gate: the fingerprint of a candidate that was asked for is not compared.
GateOpen(t, c) == c # NoCandidate

\* selectBrowserExecution
Gate(t, c) == c # NoCandidate /\ c.env = task[t].env
Mismatch(t, c) == c # NoCandidate /\ ~ Gate(t, c)

Selected(t, c) ==
    task' = [task EXCEPT ![t].phase = "open", ![t].candidate = c,
                         ![t].fallback = IF Mismatch(t, c) THEN "fingerprint_mismatch" ELSE None,
                         ![t].code = IF Mismatch(t, c) THEN "FINGERPRINT_MISMATCH" ELSE None]

\* What createReplayCandidate writes: a playbook, and the environment of the URL
\* it was given, whatever environment the playbook was proved in.
CandidateFile == {[name |-> n, env |-> e, run |-> None] : n \in Name, e \in Env}

\* The candidate file named by --replay-candidate, or the library: both may raise.
Select(t) ==
    /\ InPhase(t, "select")
    /\ IF task[t].explicit
       THEN Refuse(t) \/ \E c \in CandidateFile : Selected(t, c)
       ELSE IF ListThrows THEN Refuse(t) ELSE Selected(t, LibraryCandidate(t))
    /\ UNCHANGED <<effects, page, browser, runs>>

\* A browser that does not start, or whose page does not open, is recorded as a failed
\* run, and rethrown.
OpenPage(t) ==
    /\ InPhase(t, "open")
    /\ \/ /\ browser' = [browser EXCEPT ![t] = "open"]
          /\ Enter(t, IF Gate(t, task[t].candidate) THEN "replay" ELSE "plan")
          /\ UNCHANGED runs
       \/ /\ \E started \in {"open", "closed"} : browser' = [browser EXCEPT ![t] = started]
          /\ Raise(t) /\ SealFailure(t)
    /\ UNCHANGED <<effects, page>>

\* The steps of the playbook and its look at the page, before the outcome is known: its
\* work may have reached the application by then.
ReplayActs(t) ==
    /\ InPhase(t, "replay") /\ file[task[t].candidate.name] = "whole" /\ effects[t] = <<>>
    /\ effects' \in {effects, [effects EXCEPT ![t] = Append(@, "replay")]}
    /\ \E seen \in SUBSET Check : page' = [page EXCEPT ![t] = seen]
    /\ UNCHANGED <<task, browser, runs>>

\* The checks the distiller took for `verify`: those that decided the run.
VerifyOf(t) == IF task[t].candidate.run = None THEN {} ELSE runs[task[t].candidate.run].checks

FellBack(t, fallback, code) ==
    task' = [task EXCEPT ![t].phase = "plan", ![t].fallback = fallback, ![t].code = code]

\* runVerifiedBrowserReplay, under a run id of the executor's own.  A playbook
\* given by path has its author's verify.
ReplayPasses(t) ==
    /\ InPhase(t, "replay") /\ file[task[t].candidate.name] = "whole"
    /\ VerifyOf(t) \subseteq page[t]
    /\ Return(t, "warm", "success") /\ Seal(Warm(t), t, "success")
    /\ UNCHANGED <<effects, page, browser>>

\* Mutant of ReplayFails: a failure of the replay is the failure of the task.
ReplayDecides(t) ==
    /\ InPhase(t, "replay")
    /\ Return(t, "warm", "failure") /\ Seal(Warm(t), t, "failure")
    /\ UNCHANGED <<effects, page, browser>>

\* It fails with a code of the executor's or without one, or it throws: a
\* playbook that does not parse, a page that does not load, a disk.
ReplayFails(t) ==
    /\ InPhase(t, "replay")
    /\ \/ /\ file[task[t].candidate.name] = "whole"
          /\ \E code \in {"VERIFY_FAILED", "REPLAY_UNCLASSIFIED"} : FellBack(t, "replay_failed", code)
          /\ Seal(Warm(t), t, "failure")
       \/ FellBack(t, "replay_error", "REPLAY_THREW") /\ UNCHANGED runs
    /\ UNCHANGED <<effects, page, browser>>

-----------------------------------------------------------------------------
\* runColdBrowserTask

\* createTaggedLlmClientFromEnv throws when it does not know the provider, and the client
\* it makes when the environment lacks its key; a page that does not load is recorded as a
\* failed run.
MakePlanner(t, provider) ==
    /\ InPhase(t, "plan")
    /\ \/ Raise(t) /\ UNCHANGED runs
       \/ /\ provider \in Providers
          /\ \/ /\ task' = [task EXCEPT ![t].phase = "brief", ![t].llm = provider]
                /\ UNCHANGED runs
             \/ /\ task' = [task EXCEPT ![t].phase = "finally", ![t].result = "error", ![t].llm = provider]
                /\ SealFailure(t)
    /\ UNCHANGED <<effects, page, browser>>

\* The site brief, and the earlier runs of the task.  A partition that cannot be
\* read raises, unless the caller turned the brief off, and so does a directory of runs
\* that cannot be listed; a run that cannot be read is left out.
ReadBrief(t) ==
    /\ InPhase(t, "brief")
    /\ \E brief \in BOOLEAN : \/ brief /\ MemoryThrows(task[t].env) /\ Raise(t)
                              \/ ~ (brief /\ MemoryThrows(task[t].env)) /\ (Raise(t) \/ Enter(t, "agent"))
    /\ UNCHANGED <<effects, page, browser, runs>>

\* It looks at the page, time and again, and in between the work reaches the
\* application, if at all.
AgentActs(t) ==
    /\ InPhase(t, "agent")
    /\ \/ UNCHANGED effects
       \/ ~ Did(t, "agent") /\ effects' = [effects EXCEPT ![t] = Append(@, "agent")]
    /\ \E seen \in SUBSET Check : page' = [page EXCEPT ![t] = seen]
    /\ task' = [task EXCEPT ![t].planned = TRUE]
    /\ UNCHANGED <<browser, runs>>

\* Mutant of Passes: the agent is taken at its word.
NothingToPass(t) == TRUE

\* The verifier the agent is given: every check of the caller's.
Passes(t) == task[t].checks \subseteq page[t]

\* runBrowserAgent returns, or rethrows after it finished the recorder.
AgentEnds(t) ==
    /\ InPhase(t, "agent")
    /\ \/ Passes(t) /\ task[t].planned /\ Return(t, "cold", "success") /\ Seal(Cold(t), t, "success")
       \/ Return(t, "cold", "failure") /\ Seal(Cold(t), t, "failure")
       \/ Raise(t) /\ SealFailure(t)
    /\ UNCHANGED <<effects, page, browser>>

\* Mutant of Cleanup: the backend is closed after a result only.
CleanupOnReturn(t) ==
    /\ InPhase(t, "finally") /\ Enter(t, "over")
    /\ browser' = [browser EXCEPT ![t] = IF task[t].result = "error" THEN @ ELSE "closed"]
    /\ UNCHANGED <<effects, page, runs>>

\* backend.close: Chrome is stopped.  A profile that cannot be removed raises, which
\* takes the place of the result.
Cleanup(t) ==
    /\ InPhase(t, "finally") /\ (Enter(t, "over") \/ Refuse(t))
    /\ browser' = [browser EXCEPT ![t] = "closed"]
    /\ UNCHANGED <<effects, page, runs>>

\* The process ends, and what it was doing stays as it is.
TaskDies(t) ==
    /\ task[t].phase \notin {"idle", "over", "died"} /\ Enter(t, "died")
    /\ UNCHANGED <<effects, page, browser, runs>>

TaskStep(t) == \/ Select(t) \/ OpenPage(t)
               \/ ReplayActs(t) \/ ReplayPasses(t) \/ ReplayFails(t)
               \/ ReadBrief(t) \/ AgentActs(t) \/ AgentEnds(t) \/ Cleanup(t)

-----------------------------------------------------------------------------

Over(t) == InPhase(t, "over")

\* A replay that fails never decides the task: from there the agent gets its
\* turn, and only what stops any cold run can stop it: a provider, a page, a
\* partition or the disk.  The result says that the task fell back, and why.
ReplayNeverStrands ==
    \A t \in Attempt :
        /\ (task[t].fallback # None) <=> (task[t].code # None)
        /\ Over(t) /\ task[t].phase_of = "warm" => task[t].result # "failure" /\ task[t].fallback = None
        /\ Did(t, "replay") /\ Did(t, "agent") => task[t].fallback \in {"replay_failed", "replay_error"}
        /\ Over(t) /\ task[t].fallback # None => task[t].phase_of = "cold" \/ task[t].result = "error"

\* The work of a task is committed by a replay at most once and by the agent at
\* most once: a task that fell back after the replay acted commits it twice.
CommitsTwiceOnlyByFallback ==
    \A t \in Attempt :
        /\ Len(effects[t]) <= 2
        /\ Len(effects[t]) = 2 => task[t].fallback \in {"replay_failed", "replay_error"}

\* A replay acts in the environment its playbook was proved in, and nowhere else:
\* through the library, through a candidate file, and after the library has grown.
ReplayStaysHome ==
    \A t \in Attempt : Did(t, "replay") =>
        /\ task[t].candidate.env = task[t].env
        /\ ~ task[t].explicit => /\ runs[task[t].candidate.run].env = task[t].env
                                 /\ runs[task[t].candidate.run].status = "success"

\* A success was verified on the page it left, by the caller's checks when the
\* agent did the work, by the checks of the recorded run when a playbook did.
SuccessIsVerified ==
    \A t \in Attempt : task[t].result = "success" =>
        /\ task[t].phase_of = "cold" => task[t].checks \subseteq page[t]
        /\ task[t].phase_of = "warm" => VerifyOf(t) \subseteq page[t]
        /\ runs[IF task[t].phase_of = "warm" THEN Warm(t) ELSE Cold(t)].status = "success"

\* browserVerificationChecks: the one list is used "to decide success".
CallersChecksDecide ==
    \A t \in Attempt : task[t].result = "success" => task[t].checks \subseteq page[t]

\* However a task ends, its browser does not outlive it.
BrowserIsStopped == \A t \in Attempt : Over(t) => browser[t] = "closed"

\* A replay that fails or throws ends in a cold run and never in a task without result,
\* and that is the only way a task acts twice (run-browser-task.ts:238).
FallbackIsClean == ReplayNeverStrands /\ CommitsTwiceOnlyByFallback

\* A success was verified on the page it left, and a replay acted in the environment its
\* playbook was proved in (run-browser-task.ts:205-260, matcher/match.ts).
SuccessIsEarned == ReplayStaysHome /\ SuccessIsVerified
=============================================================================
