# A verification project for rote

rote runs browser and tool tasks at three prices.  A *cold* run lets a model plan
every step over a compact observation of the page; a *warm* run replays a
playbook that was distilled from earlier runs, with no model or with model
answers only where the playbook asks for them; and a *controlled* task is carried
on by as many sessions as it takes, from checkpoint to checkpoint.  Around these
sit the recorder, the library and the site memory that learn from runs, the
virtual sessions in which work may be speculated, the browser that is driven, and
the campaigns that measure what all of it saves.

This directory holds TLA+ models of these parts.  Those whose correctness depends on
order (what is awaited before what, what a crash leaves behind, what two callers do to
each other, what is checked before and used after an await) are state machines; those
that decide something from their inputs are operators, compared with what they
promise over bounded inputs.  All paths below are relative to `src/packages/` unless
they start with `docs/` or `scripts/`.

## 1. Inventory

| component | source | state | operations | hard behaviour |
|---|---|---|---|---|
| playbook replay | `executor/src/executor.ts` | position, attempts, world state, completed steps, bindings, a queue of events | `runPlaybook`: skip, dispatch, check, await the hook, verify, finish | retries of steps that took effect; the checkpoint hook between two effects; an event queue that fails on its own time |
| tool callers | `executor/src/browser-tool-caller.ts`, `mcp-tool-caller.ts` | pending calls | resolve, compare, dispatch, capture; ask and await | a target that is elsewhere; a server that dies |
| checkpoint log | `continuation/src/checkpoint-store.ts`, `core/src/serialize` | one append-only file per task | `latest`, `append` | a read, a look at the last byte and a write, each with an await between; crashes that leave fragments |
| resuming a task | `continuation/src/continue-task.ts`, `resume-gate.ts` | the checkpoint a session resumed from, its sequence number | read, gate, run, checkpoint, close | crashes anywhere; another caller; an application that others change |
| agent loop | `agent/src/run.ts`, `tagged-llm-planner.ts`, `file-run-recorder.ts` | page, history, repair budget, steps, usages | observe, plan, check, dispatch, verify, record, finish | planners that fail in three ways; effects before failures; accounting over every way out |
| agent context | `agent/src/context.ts`, `history-compaction.ts`, `evidence.ts` | a prefix and a compaction point per run | compact, render, verify | what a compacted history still says; evidence that contradicts itself |
| virtual sessions | `session/src/index.ts` | a map of sessions, their epochs and contexts | `openLive`, `cloneShadow`, `advanceEpoch`, `promote`, `discard`, `crash`, `evictInactive`, `closeAll` | checks before an await, used after it; ids that callers choose and use again |
| effect fence | `session/src/effect-fenced-speculation.ts` | dispatch and in-flight counters | `speculate` | a time cap that races the dispatch |
| speculative pipeline | `session/src/speculative-pipeline.ts` | a queue with dependencies, the speculations under way | `enqueue`, `cancel`, `run` | results in any order; failure and cancellation while others are under way |
| shadow prefetch | `session/src/shadow-prefetch.ts` | none that survives a call | one call | what may be done early |
| recorder proxy | `recorder/src/proxy.ts` and writers | pending requests, the queue, a manifest | two pipes, the exit of the child | output that arrives after the exit |
| settledness | `action/src/settled-page.ts`, `settledness.ts` | the window since the last mutation | act, wait, capture | a budget against a page that never rests |
| contracts and targets | `action/src/action-contract*.ts`, `element-resolution.ts`, `speculation-fence.ts` | none | pure decisions | precedence of ambiguous identities |
| CDP client, page, Chrome | `browser/src/cdp-client.ts`, `cdp-page.ts`, `cdp-backend.ts` | pending commands, frames and worlds, the child process | send, receive, the verbs, launch, close | frames that navigate between capture, check and dispatch; two first calls at once |
| perception | `perception/src` | the last observation | distil, diff, render | a delta that leaves something stale |
| library and matcher | `matcher/src/library.ts`, `match.ts` | a YAML file per version and an index | add, list, match | a crash between file and index |
| site memory | `site-memory/src` | append-only notes | append, derive, consolidate, brief, mine | torn batches; the order of the records |
| distiller, templates | `distiller/src`, `core/src/template.ts` | none | a run to a playbook | a value that is a parameter, an effect that is superseded |
| predictor, llm | `predictor/src`, `llm/src` | counts | predict; account a call | support, missing and negative numbers |
| running a task | `cli/src/run-browser-task.ts`, `distill-run.ts` | one run at a time | match, replay, fall back, run cold, clean up, learn | effects repeated by the fallback; failures at every await |
| GUI server | `cli/src/gui-server.ts` | a flag and an environment variable | HTTP requests | concurrent requests |
| campaigns | `bench/src/p2-campaign-*.ts`, `scripts/bench/p2-campaign` | the runs of a plan, their records, the child at work | plan, spawn, watch, end, record, judge | a child that hangs, or is ended too soon; a run directory that is another's, or an earlier collection's |
| reports | the rest of `bench/src` | none | audits and gates | runs that failed, repeated or missing |

How they interact.  `continueTask` calls `runPlaybook` and passes it a hook; the
hook, awaited by the run before it goes on, appends to the checkpoint log.  The
executor and the agent act on the application through tool callers and page
sessions, and on the disk through the recorder.  `run-browser-task` matches the task
against the library, tries the executor and falls back to the agent; the GUI server
and the campaign collector call it, in their own process or in a child.  The pipeline
starts fenced speculations, the fence dispatches into a shadow session and asks the
session manager to promote it.  The learning plane reads finished runs from the
disk; matching and briefs read what it wrote.

What makes each correct, in one sentence: a replay never reports success unless
every step was done, acknowledged and verified; a log is never unreadable, never
numbered wrongly, and loses nothing it held; a task never takes up a step that is
on record, and never goes on from a record that is not its own; an agent's success
was verified on a page that shows all the run did, and its record keeps up with its
effects and its spend; sessions keep to their cap, leak no context and lose no
navigation to a promotion; speculation stays within its fence and its budget,
respects dependencies, and ends; a verb acts at most once and in the document its
target was captured in; a recording is what the server said; a task that falls back
ends with a result; a playbook does what its run did, for its task only; a
campaign's records are of its own runs, and a report claims no more than they bear.

## 2. Plan

Written, in this order (section 3): CheckpointStore, PlaybookExecutor, Continuation
over both with the abstract TaskProgress, VirtualSessions, EffectFence,
SpeculativePipeline over it, AgentLoop; then RecorderProxy, LearnedStore with TaskRun
and GuiServer over it, BrowserPage and ChromeBackend, the pure decisions of the
packages (run together as MCAlgorithms), and Campaign over CampaignPlan and
CampaignGates.  All but the pure decisions have proofs.

What is left: the reports left out of section 3 (`summarizeHarnessCell`, `summarizeA4`),
the adapters that start other programs, and, with a prover that has induction, what the
folds of section 3 compute (section 6, at its end).

Abstract specifications stated: TaskProgress.  Worth stating: a run as one atomic
"effect and event" for the agent; a library as a set of versions.

## 3. Modules

A property that joins several questions of one component is a conjunction of named
parts, each with its own comment; beside a definition that a plausible bug would
change stands its mutated form, marked as a mutant.

### CheckpointStore, with CheckpointStore_proofs

`lines` is the file without its blank lines: a line is a *record*, a *torn*
fragment (a proper prefix of a record, which `isTruncatedJson` recognises and
`parseJsonl` drops) or *garbled* (anything else, on which it throws).  `cut` says
that the last line has no newline.  `append` is split where it awaits: `CheckSeq`
(the read and the sequence check), `LookAtEnd` (`endsWithoutNewline`) and `Write`.
`WriteCut` is every prefix of the write that a crash or a full disk leaves.
`Careless` are the sessions started whoever else is at work on the task; nothing in
the code refuses them, it is their callers who may.  `Undisturbed` says that none of
them has begun: what holds of a log until then, and what holds after, is told apart.

### PlaybookExecutor

One record per session holds the locals of `runPlaybook`; its `pc` is the await
the run is at.  `Dispatch`, `Land` and the three ways a call ends are separate:
an effect may land although the call is reported as failed, and is then repeated by
a retry.  The world has three fields with a value or none; `Merge` is
`mergeWorldState`, `Accepts` is an `expect` primitive.  The queue of trajectory
events is a count of those pushed and of those written.  `Order`, `Uses`, `Expect`
and `Verify` are constants: the playbook.  `Start` begins a run anywhere a
checkpoint may have left it.

### Continuation, TaskProgress and MCContinuation, with Continuation_proofs

`Continuation_proofs` holds the theorems about PlaybookExecutor (part 1) and about the
task over it (part 2).

`continueTask` composes the two: `Load`, `Gate`, `BeginRun`, then the executor's own
walk, with the hook split into the store's actions (`SaveStep` collects evidence
and calls `append`).  The four digests a checkpoint is bound to are one identity:
the gate compares each and refuses on any difference.  Evidence is the vector of
effects within a generation (a reset of the application starts the next one); the
oracle attests to nothing before the first effect, as the code does when no
adapter returns an event.  Crashes come from the executor (`Crash`), from the store
(`WriteCut`) and between the two (`Abandon`, `Leave`).  `OthersMove` is another user
of the application.

`TaskProgress` is what this promises: a set of recorded steps that grows by the next
step of the playbook, one step in hand at a time and never one on record, and a
close that comes last.  `TaskProgresses` instantiates it with what the log holds,
what the sessions are dispatching, and the status of the last record.

### VirtualSessions

`session` holds the stored sessions, `held` those in the manager's map, `page` the
contexts open in the browser with the epoch whose storage they hold.  Each method
is one action up to its first await on the adapter and one from there; `calls`
holds what is under way.  A caller may give the id of a session
(`OpenLiveOptions.sessionId`, `CloneOptions.sessionId`), nothing checks that it is new,
and the map then holds the later session: `Stored` are therefore the sessions that were
made, `Id` the ids they go by, `Store` puts one in the map in place of any of its id, and
`replaced` remembers those that had to give way.  A shadow names its base by id, so what it
is cloned from and what it is promoted into may be two sessions (`base` is the one it was
cloned from, and the promotion looks the id up).  `width` is how many calls the host has under way at
once, chosen at the start: properties of a host that awaits each call say `width = 1`.
A sweep of `closeAll` is one turn of the event loop between its awaits (`InTurn`).

### EffectFence and SpeculativePipeline, with Session_proofs

`EffectFence` is one `speculate` call per request.  `atWork` is what the injected
executor is really doing; it differs from the speculator's own count once a time cap
has rejected the wait.  `SpeculativePipeline` extends it with the queue and `run`:
one turn of the loop (`TurnStopped`, `OverTime`, `TurnScans`, the scan) is
uninterrupted, and nothing outside happens during it.  `Session_proofs` holds the theorems
about this module and about VirtualSessions.

### AgentLoop, with AgentLoop_proofs

`runBrowserAgent` with the planner that feeds it and the recorder it writes to.  A
turn of the loop awaits the capture, the planner (with its corrective calls, its
escalation and its target repair), the dispatch and the capture after it, the
verifier, and the recorder; the local variables of the turn are `cur`, `call` and
`usage`.  A page is known by how many effects of this run it shows.  `spent` counts
the model calls that completed at the provider; `usages` what the recorded steps
list.  An action may name a second control, to drop on (`drop`): it is resolved as the
first is, but the guard against look-alikes is not asked about it and it is not
remembered as dispatched to.  `trail` is the trajectory on disk, `manifest` what `finish` was given,
`sealed` whether it was written.  Left out of it: the text of the observation, the
shadow prediction (it decides the route, so the route is a choice), and what the
history shows, which is AgentContext.

### RecorderProxy, with RecorderProxy_proofs

`runProxy` between a client and a server, each behind a pipe: `toProxy`, `output`,
`toClient`.  The client is `McpToolCaller` or any other that also lists tools; the
server answers in any order, writes lines of its own (an id nobody asked for, a
fragment), and exits at any time.  The exit and the last output are reported apart
(`Exit`, `ReadLine`), the queue of appends settles on its own (`Settle`), and an
append or a stream may fail, which ends the process.

### LearnedStore, TaskRun, GuiServer and MCTaskRun, with GuiServer_proofs

`LearnedStore` is what a recorded run teaches: the exclusive create of a playbook
file, the append to the index, the append to a partition of site memory, each split
at its awaits (`Look`, then a write of which a crash leaves any prefix).  `TaskRun`
extends it with `runBrowserTask`: the preparations, the match against what `list`
returns, the replay with its ways to fail, the cold run with its brief (which a caller
may turn off), the verification, and the clean-up that must run on every way out and may
itself raise, which replaces the result.  A run that failed is sealed unless the disk
refuses that too.  The replay is what PlaybookExecutor allows it to be.  Run ids are the
process's own: that `ROTE_RUN_ID` may set them from outside is left to Campaign.  `GuiServer` extends that with the
flag and the environment variable that requests of one process share, beside
commands that have processes of their own.  `Casts` bounds which actors take part.

### BrowserPage, ChromeBackend and MCBrowser, with Browser_proofs

`BrowserPage` has a caller that runs one verb at a time and a verb one command at a
time, over a socket on which replies come behind the events before them.  Chrome
carries a command out at any moment (`Execute`); frames navigate, change and vanish
at any other.  A document is the number of its load, which is its loader id.  The
checks of `cdp-composed-context.ts` are steps of the verb, and so is each poll of
the settledness probe of `settled-page.ts` (`wrapped` says whether the decorator is
there).  `ChromeBackend` is the lazy launch, its retries and `close`, with processes
and profile directories numbered.  `MCBrowser` checks both, one per `scene`: they
share nothing but the process.

### Campaign over CampaignPlan and CampaignGates, with BenchStats, MCCampaign and Campaign_proofs

`CampaignPlan` is `p2-campaign-plan.ts` with preflight and cost, `CampaignGates` the
verdicts, `BenchStats` prices and statistics.  `Campaign` is the collector: it spawns
the runs of the plan one after another, looks every 250 ms for a directory with a
manifest, ends the child after it, reads back the record, and judges (the fixture's
events it posts in between are not in the model: a run's record is the same whether they
come or not).  The directory it collects into is a fixed one by default and is used as it
is, under ids that the plan fixes, so that `left` runs, each with a manifest or with half of
one, may be there at the start, and the library may be taught (`learned`).  A second
collection then never records its own distillation, which finds its playbook version
taken, and ends there by throwing.  The child replays under an id of its own when the library has a match,
and falls back under the id it was given; it may hang anywhere.

### The pure decisions, with MCAlgorithms

| module | source | what it computes |
|---|---|---|
| Perception | `perception/src`, `browser/src/static-backend.ts` | nodes with stable ids, the delta of two observations, what is shown, the nesting of a page in a file |
| ActionPlane | `action/src`, `core/src/action-contract.ts` | the target of an action, whether contracts are compatible, what may run early, what counts as evidence |
| ReplayTools | `executor/src/browser-tool-caller.ts`, `expect-evaluator.ts` | one browser step of a playbook, over ActionPlane |
| AgentContext | `agent/src` | compaction, the prefix of a request, the evidence gate |
| Distiller | `core/src/template.ts`, `distiller/src`, `core/src/schemas`, `executor/src/topo-order.ts` | a run to a valid playbook, and its order |
| Matching | `matcher/src/match.ts` | the match of a task |
| SiteLearning | `site-memory/src` | facts, their consolidation, briefs, subflows |
| Predictor | `predictor/src` | the next action, and its simulation over a corpus |
| LlmUsage | `llm/src` | what a call is accounted at |
| BenchCells, CurveReport, HeadToHead, RunEvidence | `bench/src`, `scripts/bench` | the reports and their gates |

`MCAlgorithms` asks them questions: a state is a `topic` and an `input` from
a bounded set, and an invariant compares the answer with what it promises: a
reference definition, or a relation between the answers to two inputs (a run more, a
record in another order, an element added elsewhere).

## 4. Runs

| run | module | question | bounds |
|---|---|---|---|
| `store_exclusive` | CheckpointStore | does the log survive crashes? | 3 sessions, one of them careless, 2 bodies, sequence numbers to 2 |
| `exec_core` | MCPlaybookExecutor | is one replay right, whatever fails, and does it end? | 3 steps, a retry, 4 answers |
| `cont_task` | MCContinuation | does a task survive its sessions, other callers and other users? | 2 sessions, 3 steps, 2 identities, 1 move of others |
| `sessions_calls` | VirtualSessions | are cap, contexts and promotions right under overlap and without, whatever ids are given? | 3 sessions, 3 ids, 2 calls, cap 2, 1 navigation |
| `pipe_run` | MCSpeculativePipeline | are budget, fence, order and end of speculation right? | 6 requests, 3 in the queue, 2 dispatches, 2 in flight |
| `pipe_cycle` (violation) | MCSpeculativePipeline | is a reported cycle a cycle? | 6 requests, 3 in the queue |
| `agent_run` | AgentLoop | is success earned, and does the record keep up? | 3 steps, 1 repair, 1 target repair, 1 corrective call, 1 control, drags onto it |
| `proxy_run` | RecorderProxy | is the recording true, and does every call settle? | 2 calls, 1 line of noise |
| `task_run` | MCTaskRun | are the library, the fallback, success and requests right? | two GUI requests; a command beside a distillation; a GUI request beside two distillations; 2 names, 2 environments, no provider in the environment |
| `browser_run` | MCBrowser | do verbs act once, in their document, and end? | 2 verbs, 2 loads, 1 change, a quiet window of 1 poll, a timeout of 2; 2 openers, 2 attempts, 4 launches |
| `campaign_run` | MCCampaign | are records of their own runs, is a pass of the whole, and does the collector end? | 4 cells, 5 selections of a gate, 1 repetition judged by protocols of 1 and of 2, 2 failing runs, 1 run left by an earlier collection |
| `algorithms` | MCAlgorithms | does each pure decision keep its promise? | the input sets of MCAlgorithms |

Why these bounds are enough to meet the interesting cases.  *Store*: a crash, then a
writer that finds its fragment, then a third that reads both.  *Executor*: one step
that may be retried, one answer that is bound, one step that uses it; a check can
pass on an observation, on a merged field, or fail.  *Continuation*: the shortest
playbook with a tool step before and after a model step; one session leaves the
task in any state it can be left in, the other finds it, and in between the
application is reset or acted in.  *Sessions*: a live session, a shadow, and
another that meets the cap, or takes the id of one of them.  *Pipeline*: three reads exhaust the dispatches while
two are in flight; a dependent, a refused and a self-dependent step.  *Agent*:
an action whose postcondition fails, its repair, and a claim of being done; one
control is enough for an identity dispatched to twice, and for a drop on one acted on.  *Proxy*: two answers that
cross, and a line between them.  *Tasks*: two requests that
may meet in one process; a run and the command that learns from it while another playbook
may have its name; a request that matches while two commands teach.  *Browser*: a document that is
replaced once while one verb is grounded in it and another follows; an attempt that
fails and one that does not, for each of two callers.  *Campaign*: one cell for each
gate, so that every dependency between runs occurs once, and failures in two of them;
judged by a protocol of two repetitions the same campaign is a smoke run, which must not
pass; what an earlier collection left is the run that is learned from, or one of a pair
that is compared.
*Algorithms*: each set holds, for every comparison in the code, inputs on both sides.
Counters have a bound in a guard or by a budget of the code: `MaxSeq`, `MaxMoves`,
`MaxEpoch`, `MaxVerbs`, `MaxLoads`, `MaxStirs`, `MaxLaunches`, `MaxCalls`, `MaxNoise`,
`MaxFailures` and `Casts` are bounds of the model; all others are the code's own.
`CHECK_DEADLOCK FALSE` is given where sessions, runs and queues end, which is
everywhere but in `algorithms`.  Symmetry is used over sessions and callers, session
ids and calls, where nothing tells them apart and no liveness is checked.

### What the runs show

* A step is never dispatched before the checkpoint of the step before it is
  durable; success is never reported over a missing step, hook or check; effects stay
  within the attempts, the manifest comes after the whole trajectory, and a run
  whose awaits settle ends (`exec_core`).
* The log stays readable and rightly numbered through any crashes of sessions that do
  not overlap (`store_exclusive`, and proved).
* A task's recorded steps are never repeated, its log refines `TaskProgress`, and
  with an oracle the only step that may take effect twice is the first tool step,
  before which there is no evidence to refer to (`cont_task`).
* Sessions exceed their cap by at most the calls under way, and an active session leaves
  the map only to another of its id; without overlap no context leaks but that of a session
  whose id was used again, and no navigation is lost, as long as the session a shadow was
  cloned from is the one its id finds (`sessions_calls`, and proved).
* Speculation's budget is neither leaked nor given back twice; nothing refused is
  carried out; nothing starts once the pipeline has stopped; every run ends with every
  step accounted for (`pipe_run`, and proved but for the end).
* An agent's success was verified on a page that shows the run's last effect; the
  trajectory lacks at most the effect under way; a run that returns has every
  model call in its manifest; a control that was acted on is not acted on again by
  likeness, which is not so of one that is dropped on (`agent_run`, and proved).
* The client reads what the server wrote, in its order; each event is the reply to its
  own request; the manifest counts what was read; a call that no one will settle has a
  dead process at one end (`proxy_run`).
* Whoever dies, the library and the site memory stay readable, no version is listed
  without its file or twice, and a command that ran to its end taught both; a
  replay that fails strands no task, and a task acts twice only by its fallback; a
  replay acts in the environment it was proved in; no task leaves a browser behind
  and no request runs under the provider of another (`task_run`).
* Of the page itself an effect is in the document its target was captured in, once;
  "settled" is said of a document that was quiet for the window; every verb ends while
  the socket is open, or when it closes under it; a backend that is closed has
  stopped what it launched, unless opens overlapped (`browser_run`).
* Every record of a campaign is of the child spawned for it, or of the run that an
  earlier collection left under its id, in an order that honours the plan's dependencies;
  a campaign that was cut short, of a selected gate, or a smoke run never passes; the
  collector ends however its children hang (`campaign_run`).
* Each pure decision keeps the promises section 3 points to (`algorithms`): a
  rendered template gives back the value it was made of, a playbook keeps every effect of
  its run that is not superseded, a match needs the environment and every parameter,
  no delta leaves an element stale, an element elsewhere redirects no target, a
  contract that is compatible changes nothing that matters, a failed run is never left
  out of a count, and losing a run never turns a verdict.

### Known divergences

`pipe_cycle` is the violation run: the scan of the queue stops at the first entry that
has left it (`session/src/speculative-pipeline.ts:136`), so a dependent is never started
and is reported as part of a cycle.  `PROJECT.json` quotes what the documents say of it.

The following properties state what a document, a comment or a name promises, are
defined in the modules, and fail when TLC is given them as an invariant or property of
the run named.  The properties of the passing runs are what does hold beside them.

| property | module (run) | what the code does |
|---|---|---|
| `WellSequenced` | CheckpointStore (`store_exclusive`) | `append` checks the sequence number and writes in separate awaits (`continuation/src/checkpoint-store.ts:59-71`): two sessions that overlap both append the same number |
| `ExitCodeIsTheStepsOwn` | PlaybookExecutor (`exec_core`, with `Expect <- ExitExpect`) | an exit code persists over a result that has none (`executor/src/world-state.ts:90`), against the comment at line 79 |
| `CompletedWorkResumes` | Continuation (`cont_task`) | a session that finds every step on record observes nothing, and its final verification fails (`continuation/src/continue-task.ts:118`) |
| `PromotedAtSource` | VirtualSessions (`sessions_calls`) | `cloneShadow` reads the source epoch after it captured the storage (`session/src/index.ts:129`) |
| `ActiveIsInMap` | VirtualSessions (`sessions_calls`) | a session whose id is used again is active but no longer in the map (`session/src/index.ts:118,130`), against "Active sessions are never evicted" (line 192) |
| `OpenIsInMap` | VirtualSessions (`sessions_calls`) | the context of such a session stays open and `closeAll` does not find it (`session/src/index.ts:207`) |
| `PromotedIntoItsBase` | VirtualSessions (`sessions_calls`) | a shadow is promoted into whichever session has the id and epoch of the one it was cloned from (`session/src/index.ts:151`) |
| `SpendOnRecord` | AgentLoop (`agent_run`) | the calls of a planner that fails at the provider after malformed output are in no record (`agent/src/tagged-llm-planner.ts:42`) |
| `NothingIsRebound` | AgentLoop (`agent_run`) | what a drag drops on is resolved by likeness without the guard (`agent/src/run.ts:459-466`), against the comment at lines 441-445 |
| `NothingAfterTheManifest` | RecorderProxy (`proxy_run`) | output read after the exit is appended behind the manifest (`recorder/src/proxy.ts:142`) |
| `CallersChecksDecide` | TaskRun (`task_run`) | a warm success is decided by the playbook's checks; those of the call are never evaluated (`cli/src/run-browser-task.ts:171,242`) |
| `DispatchIsGrounded` | BrowserPage (`browser_run`) | `SettledBrowserPageSession` does not pass the captured coordinate on (`action/src/settled-page.ts:67`), so the page makes no check of the document |
| `OnlyTeardownIsCut` | Campaign (`campaign_run`) | the manifest of a replay that failed ends the child that is about to fall back (`scripts/bench/p2-campaign/run-provider-campaign.ts:368-374`) |
| `RecordsAreOfOwnChildren` | Campaign (`campaign_run`) | a manifest of an earlier collection is found at the first poll, and the child is ended for it (`scripts/bench/p2-campaign/run-provider-campaign.ts:360-374`) |
| `NothingSpliced` | ActionPlane (`algorithms`) | a stable id that names several nodes is bypassed by role and name in another context (`action/src/element-resolution.ts:118-120`) |
| `PrefixIsShared` | SiteLearning (`algorithms`) | a candidate prefix is compared at its last step only (`site-memory/src/subflow.ts:172-180`) |

`ClosedMeansStopped` excepts overlapping opens: two that launch at once leave one Chrome
running (`browser/src/cdp-backend.ts:85`).

Seen while modelling, without a property of their own:

* *Continuation, executor.*  Overlapping sessions can run a record and a fragment together
  into a line nothing can parse; a template that uses a slot its step does not depend
  on throws out of `runPlaybook` without a coded outcome, and one in an `expect` does so
  after the dispatch (`executor.ts:137-141`); a completed step whose
  checkpoint failed may be dispatched again; a record cut inside the digits of a `\uXXXX`
  is not recognised as torn, and its log throws from then on (`json-prefix.ts:25-45`).
* *Session.*  A time-capped dispatch goes on while its slot is given to the next; an empty
  `sessionId` is refused only after the context was created, which then stays open.
* *Agent.*  What was dropped on is not among the identities remembered (`run.ts:192`), so
  it may be acted on by likeness later; the guard against look-alikes remembers the identity an action *named*, not the
  one it was resolved to; a compacted history may show up to 31 actions where the
  policy's limit is 24; the evidence gate accepts one consistent envelope beside
  contradictory ones.
* *Action.*  The speculation fence calls `press` on a button a local write, while `click` on
  it is external; evidence of a `fill` is the first matching element of any frame; a
  contract that has only a selector may be compared on the node of a frame.
* *Browser.*  A `select` of a missing option has emptied the field before it fails
  (`cdp-page.ts:99-100`); the load event awaited by a `navigate` that fails is rejected
  with no handler (`cdp-page.ts:70`), and a late one settles the next; the profile of a
  failed launch is never removed; the two walks of the static backend disagree on
  misnested pages.
* *Tool callers.*  A capture after the dispatch may throw, and the step is then reported
  as failed although it took effect (`browser-tool-caller.ts:106-121`); the values of
  inputs are keyed so that the last of several wins.
* *Distiller, templates.*  The round trip of a value fails silently when a backslash stands
  before a parameter's value, or a parameter's value is part of another's name; a
  superseded `fill` is pruned even when a submit lies between; a playbook's parameters
  are those bound at the call and not those of the run it came from.
* *Predictor, llm.*  The model of transitions is reached by no command; of several
  `turn.completed` events of Codex the last one counts.
* *Bench.*  Two records of one repetition both count; the low estimate of a cost may exceed
  the high one when the routine model is the dearer; the comparison of harnesses ignores
  tasks the subject did not run, and the phase; the M3 gate leaves cache tokens out and
  takes any readable manifest for a success; a mean over successes falls when a dear run
  fails; of two manifests of one run the G2 report reads both, and a failed attempt of the
  rival where Rote has none stays in it (`g2-report.ts:265-322`); a value called clamped is
  not (`competitor.ts:88`), and the sign of a curve's
  resample is not guarded for a slope that is not positive; the compaction
  boundaries of B4 count every step that carries the metadata; run ids lower-case the
  task, and artifacts already under one are trusted (`command-driver.ts:196`).
* *Campaign.*  The distillation is awaited without a deadline; the records are written once,
  at the end; a replay that is recorded and exits between two looks makes the collector
  throw; a fixture event that comes late is counted in the next generation.

## 5. Fairness

A continuation of the program's own is weakly fair: the event loop resumes what is
ready.  That what is awaited settles (a tool, a model, the host's promotion, a disk) is
an assumption about the outside, and each is made where the run says so.

| run | fair actions | why |
|---|---|---|
| `exec_core` | `Advance(s)`, the queue's `Flush` or `FlushFails` | the loop of `runPlaybook`; an append ends or rejects |
| `pipe_run` | `Turn`; `StepPromotes` or `StepFails`; what settles a dispatch | the loop of `run`; the fence has a deadline of its own (`withTimeout`, the action `TimesOut`) |
| `agent_run` | `Advance` | a turn of the loop, whatever each await answers; providers and pages are given no deadline by the code |
| `proxy_run` | `Settle`, `Answer`, `Pass`, `ReadLine` | the disk, a server that answers what it was asked while it is up, and the pipes; an exit is never fair |
| `browser_run` | `Client`, `Execute` | the caller's own steps (with the timeouts they have) and a Chrome that carries out what it was sent; navigations and changes are never fair |
| `campaign_run` | the collector's own steps, its timers, and a distilling child | SIGTERM ends a child of the default disposition; a spawned run may hang for ever, a distillation is awaited without a deadline, so its end is assumed |

Effects landing, crashes and everything callers may do have no fairness.

## 6. Proofs

All theorems hold for every value of the constants under the named assumptions of the
modules (finite sets of actors, budgets that are natural numbers, a playbook that lists
each of its steps once).

`CheckpointStore_proofs`, for any sessions, checkpoints and bound on sequence numbers:

* `StoreTypes`: the type invariant, with or without overlap.
* `UndisturbedLog`: while no two sessions overlap, the log is readable, its records
  are numbered without gap or repetition, and the session at work agrees with it.
* `AppendedIsFinal`: no step changes a record while no two sessions overlap, nor, when
  they do, one whose newline is on disk.

The inductive invariant `LogInv` adds three facts that the properties lack: at most
one session is at work (`Alone`), a session that is about to write has seen how the
file really ends (`Looked`: without it a write might run two lines together), and
a line without its newline is a line (`CutLine`).  Each action preserves it by one of
three lemmas: a step that leaves the file alone, a record that carries the next
number, a fragment that changes nothing that is read.  `OpenedForGood` carries it over a
behaviour of which only a beginning is undisturbed.

`Continuation_proofs`, part 1, for any playbook, any tools and any caller: `ReplayTypes`,
`CheckpointedFirst` (nothing is dispatched over a checkpoint that is not durable) and
`SuccessIsWhole` (no success over a missing step, hook or check).  `RunInv` says of each
run where it stands: what it has completed is exactly what lies behind its position
(`Placed`), all of it on record or acknowledged, with one more while it waits for the
hook; and what a reported success has seen (`Earned`).  A step touches one run, so the
argument is made once per way a record of a run can change.

`Session_proofs`, part 2, for any steps, dependencies and budgets:
`FenceAlwaysHolds` (the counters are the calls themselves, and nothing refused is at
work), `QueueIsAccounted` (each entry is where its call is, dependencies first) and
`StoppedStartsNothing`.  `PipelineInv` adds `StopInv`: a scan is made only by a
pipeline that has not stopped, and one that has stopped queues nothing.

`Session_proofs`, part 1, for any number of sessions, any cap and any adapter:

* `SessionsAreUsable`: whatever ids callers give, an active session is in the map unless
  another took its id, the cap is exceeded by at most the calls under way but one, and,
  where the host awaits each call, an active session has an open context unless its
  disposal failed.
* `NoContextLeaks`: where the host awaits each call, every open context is that of an
  active session, which is in the map unless another took its id.
* `PromotionLosesNothing`: where it does, a promoted shadow holds the storage of the epoch
  its source has, if the session it was cloned from is still the one of its id and no other
  shadow was promoted over it.

The invariant has two halves.  `Counted` is the cap under overlap: the calls that are
about to add a session are counted with the sessions held, so that the check before an
await is wrong by at most the others under way.  `Sole` is the host that awaits: there
is one call (`Single`), what it found at its start still holds after its await
(`Relies`), and `World` says how sessions and contexts belong together: sources live,
contexts distinct and used once, pages at the epoch of their session.  None of the three
theorems follows from the properties alone: that a promotion loses nothing needs that
a shadow's context was captured from the epoch it is stamped with, which needs that no
navigation came between, which is what `Relies` says of the call that clones.

`AgentLoop_proofs` proves all that `agent_run` checks of a run except that it ends,
for any controls and any budgets of steps, repairs and corrective calls (of the
repairs of a target the code has none or one, and so has `AgentAssumption`):

* `AgentTypes`: the type invariant.
* `SuccessIsEarned`, `VerifierSeesAll`: success follows a verdict of the last step, on a
  page that shows every effect of the run.
* `RepairsStaySafe`, with its parts `RepairsAreBounded` (a failed postcondition buys a
  repair, at most MaxRepairs in all) and `LookalikesAreRefused` (a control that was
  acted on is never acted on by likeness; what a drag drops on has no such guard).
* `RecordsAreWhole`, with its parts `EffectsAreRecorded` (the trajectory is at most one
  effect behind) and `ReturnedSpend` (the spend of a run that returns is whole).

None of these is inductive: each speaks of the steps listed, and what is listed was
known before of the turn under way.  `LoopInv` is their conjunction with that
knowledge.  `Shape` ties the loop's counter to the lengths of the list and of the
trajectory; `TurnInv` says that the page a turn was planned on is not behind; `ListInv`
that only postconditions failed before this turn; `EffectsInv` and `RepairsInv` count the
effects and repairs of the list and of the turn; `LikenessInv` has an answered dispatch
remembered before its step is listed; `SpendInv` says, for each place in the loop, where
a completed call is kept.  The proofs about the list share one lemma, `StepKinds`: all
that a step can do to it is to leave the loop, begin a turn, go on within it, list its
step or continue after it; the argument is made once per kind instead of once per action.

`EffectsAreAccounted`, in the same part 1 as the replay's other theorems, bounds the effects of each step by the
attempts of the sessions that did not find it on record.  Summing over sessions would
take an induction; counting does not.  `AccountInv` says that a step took effect at most
as often as there are pairs of a session and an attempt that may have (`SpentOn`), and
that no attempt is taken back; the set of pairs is within the product the property
counts.  `Tries` and `Pushes` keep the attempts and the queue of one run.

`Continuation_proofs`, part 2, for any playbook, sessions, identities and crashes, under
`Careless = {}` (no two sessions of a task at once; what happens when they do is in the
table above), uses the theorems about the store and the executor it composes:

* `CheckpointsContinue`: each record extends the one before it by one step.
* `RecordIsGoodToGoOn`: what is on record was done in the application and is not taken up
  again, and no template lacks a binding.  The last needs `UsesInOrder`: a playbook in
  which no step uses a later answer.  Nothing in the code refuses one that does.
* `ContinuationProgresses`: the refinement of `TaskProgress`, by mapping `Recorded`,
  `InHand` and `Closed`; a write of a checkpoint is the step, everything else stutters.
* `OracleStopsRepeats`: with an oracle, only the first tool step may be repeated beyond
  the attempts of one session.

`TaskInv` ties three things that only agree at some moments: what the log says is done,
what the run at work has completed, and what the append under way is about to write
(`Following`: behind the gate the log's steps are the run's, and lag by one while the
hook waits).  `LogHolds` allows a log that a crash has left unreadable, which no session
then gets past.  `TruthInv` adds that a tool call that came to the hook took effect, and
`OracleInv` that effects come in the order of the playbook, that the latest checkpoint
refers to evidence in which nothing unrecorded had happened, and that what a session past
the gate finds without a record is its own doing: without it the gate's comparison says
nothing of sessions that died between an effect and its record.

`GuiServer_proofs`, for any tasks, requests, distill commands, names and runs:

* `MatchesAreLicensed`: the entry `matchPlaybook` returns is of the library and the
  environment, is covered and bound, and has no rival within the margin.
* `FallbacksAreClean`, `SuccessesAreEarned`: a failed replay decides no task, and only a
  fallback acts twice; a success was verified on its page, and a replay acts where its
  playbook was proved.
* `RequestsStayApart`: one request at a time, under its own provider, and no browser left.
* `TheLibraryIsSound`: the files stay readable, list only what is whole, and a command that
  came to its end taught both tiers, unless commands overlap and one of them dies.

`TaskInv` says of a task what it did (`Conduct`), how it came where it is (`Course`), and
that what it knows of its candidate is still so (`Informed`).  The last rests on a fact of
the whole composition: a run directory that says success is never written again, so what
the library and the memory say of a run stays true while others write (`StoreInv`).
`CalmInv` is about the files themselves: as long as commands are alone or none dies, no
writer's view of the end of a file is stale (`Sees`, `Uncut`), hence no two lines run
together, and each file that exists is listed or in the hands of a command (`Taking`).

`Browser_proofs`, for any number of verbs, loads, changes and callers:

* `RepliesFit`: a reply under way is that of the command that is awaited.
* `VerbsActOnceWhereAimed`: of the page itself, one effect per verb, in its document.
* `SettledIsQuiet`: a settled page was one document that nothing stirred in.
* `ClosedBackendsAreStopped`: a closed backend has no process left, unless opens overlapped.

`Shape` (types, `WireInv`, `StageInv`) places each command in its verb and allows one
reply on the wire.  `OnceInv` counts effects by verb and says which commands come before
the evaluation.  `QuietInv` is the argument of the settling wait: Chrome announces each
change of the document by an event, so while the page's count of events stands still
behind a sample, the sample is of the document there is, although replies and events
are read later than they were sent.  `BackendInv` is conditional on no overlap so far, a
flag that is only ever set: what runs is then the child that the backend or `close` knows.

`RecorderProxy_proofs`, for any number of calls, any server, any noise and any way the pipes
are read: `RecordingsAreTrue`.  What is recorded depends on what the recorder remembers
of an id when a reply comes, so `RecorderInv` follows each id through the queues.  A
request on its way says how the client asked (`SentHold`); one the server has may still
be answered, so the recorder remembers it or has recorded its reply (`InboxHolds`, with
`Owed`); the same holds of each reply that waits to be read (`OutputHolds`), which is
what a reply that is forwarded finds (`ForwardedHold`).  An id that the recorder takes for a
list is that of a list (`ListsHold`): without it a reply to a call could go by
unrecorded.  `EventsHold` carries the increasing map from the events to the forwarded
lines and extends it by one line at a time, and has the recorder's own memory of an
error agree with the events.  `ManifestHolds` freezes what the manifest counted while
events that were read later still land behind it.

`Campaign_proofs`, for any gate, any plan that is in order, whatever earlier collections
left, and children that fail, die, hang or are cut short anywhere:
`CampaignsCollectTheirRuns`.  `CollectInv` says whose a manifest is: each id on disk is one
that only its run may write, or is what was left under it (`DiskHolds`), so that
what a child writes changes no other run's; while a run is watched, the child is its own
and what is seen is its manifest (`Standing`); and each run behind the collector was recorded,
or, if it distils, has taught the library (`Behind`).  `RawHolds` keeps the list in the
order of the plan with every row true to the disk, which gives that no run is recorded
twice.  The proof rests on `CampaignAssumption`: the list of runs that `executionPhases` makes
is `InOrder` (the ids of runs that record are distinct, dependencies come earlier, and so
does the distillation for whoever depends on anything), and no earlier collection left a
directory under an id that a replay gives itself.  The list is made by folds over
the protocol's cells, so that this is an induction over data and is assumed of the
constants; the code refuses a plan with a dependency that is not earlier
(`preflightP2CampaignPlan`), the ids are built from the cell, the kind and the repetition,
and TLC evaluates the assumption on the plan of `campaign_run` for every gate.  A distillation
has the id of the run it learns from: that only ids of runs that record are distinct is a
correction this proof made to what had been taken for granted.

Assumptions on constants beside those of the runs' bounds: a value that stands for "none"
is no member of the set it is told from (`NoCheckpointAssumption`, `NoneAssumption`,
`RunAssumption`, `BackendAssumption`); run ids of attempts are their own and texts have
finitely many tokens (`RunAssumption`); GUI requests are tasks (`GuiAssumption`); the plan is in order (`CampaignAssumption`).  TLC
evaluates each on the runs.

Only model-checked, each for a reason:

* The liveness properties `RunEnds` (of the agent and of the pipeline), `EveryRunEnds`,
  `VerbsEnd`, `CallsSettle` and `CampaignEnds`: they rest on fairness, which needs ENABLED.
* `PassesWhole`: that a selected gate or a collection cut short never passes is what the
  selections and folds of `EvaluateCampaign` compute from the records, and that the records
  are all the plan bills is a sum; both are inductions over data.
* `LearningIsSound`, `ReplaysReachAlike`, `RequestsAreHonest`, `CampaignsAreFair` and
  `ReportsAreHonest` of `algorithms`: their operators recurse or fold over data, and what
  those compute for every input is an induction (of Matching, which does neither, the
  promise is proved).

## 7. Not modelled

`PROJECT.json` lists every part with what is left out of it and why.  In short:

* Text: rendering of observations, prompts and reports, labels of static pages, argument
  parsing, the terminal interface and the web app's static pages.  None of it decides
  anything.
* Input and output without logic: the SDKs of the providers, the servers of test pages
  (also the enterprise oracle's), adapters that start other programs.
* Digests, fingerprints and scope hashes are identities: equal when what they are made
  from is.
* Blobs and the fields of recorded events beyond their identity.
* The Wilson interval, `summarizeHarnessCell`, `summarizeA4` and the qualification
  reports: single formulas over sums, or reports assembled from those modelled.
* JSON paths and the scanner of `isTruncatedJson`: a lookup of fields, and what it decides
  on a line.
* `MemoryCheckpointStore`, which only tests use.
