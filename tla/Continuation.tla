---------------------------- MODULE Continuation ----------------------------
(***************************************************************************)
(* continueTask (packages/continuation/src/continue-task.ts): the sessions *)
(* that carry one task to its end, each a process of its own that may die  *)
(* anywhere.  A session reads the latest checkpoint, proves at the resume  *)
(* gate that it may go on from there, runs the playbook (PlaybookExecutor) *)
(* with a hook that appends a checkpoint after every step (CheckpointStore)*)
(* and closes the log when the run succeeds.                               *)
(*                                                                         *)
(* Identity stands for the four digests a checkpoint is bound to (fingerprint, *)
(* principal, procedure, caller bindings).  The oracle is authoritative    *)
(* evidence of the application's state: the effects, within a generation.  *)
(***************************************************************************)
EXTENDS PlaybookExecutor

CONSTANTS
    Identity,
    Oracle,     \* TRUE when the task has an evidence adapter
    Careless,   \* the sessions started whoever is at work on the task
    MaxSeq,     \* bound on sequence numbers
    MaxMoves    \* bound on what others do to the application

ASSUME ContinuationAssumption ==
    Oracle \in BOOLEAN /\ Careless \subseteq Session /\ MaxSeq \in Nat /\ MaxMoves \in Nat

Evidence == [generation : Nat, effects : [Step -> Nat]]
Checkpoint == [who : Identity, done : SUBSET Step,
               bound : SUBSET (Step \ Deterministic),
               status : {"in_progress", "completed"}, refs : Evidence \cup {None}]

\* A task without a checkpoint is told from one with a checkpoint, and a checkpoint without
\* evidence from one with evidence.
ASSUME NoCheckpointAssumption == None \notin Checkpoint /\ None \notin Evidence

VARIABLES
    lines, cut, io,  \* the checkpoint file and the sessions' use of it
    task,            \* task[s]: the local state of session s's continueTask
    generation,      \* how often the application was reset
    moves            \* what others did to it so far

vars == <<run, effects, lines, cut, io, task, generation, moves>>
fileVars == <<lines, cut, io>>
outside == <<generation, moves>>

Store == INSTANCE CheckpointStore WITH Body <- Checkpoint, NoBody <- None

NewTask == [who |-> None, from |-> None, gated |-> FALSE, closing |-> FALSE]

\* The log of a new task, or one that two sessions ran together (CheckpointStore).
LogInit == \/ Store!StoreInit
           \/ /\ lines = <<Store!Garbled>> /\ cut = FALSE
              /\ io = [s \in Session |-> Store!Unopened]

TaskInit == /\ Init
            /\ LogInit
            /\ task = [s \in Session |-> NewTask]
            /\ generation = 0
            /\ moves = 0

\* collectEvidence: an oracle that attests to no effect yields no envelope.
Attested ==
    IF Oracle /\ \E x \in Step : effects[x] > 0
    THEN [generation |-> generation, effects |-> effects] ELSE None

\* The latest checkpoint, None before the first one.
Last == IF Store!Records = {} THEN None ELSE Store!Latest.body

\* Mutants of Resumable: the evidence, or the identity, is not compared.
ResumableBlind(who, ck) == ck.who = who /\ ck.status # "completed"
ResumableByAnyone(who, ck) ==
    (ck.refs # None => ck.refs = Attested) /\ ck.status # "completed"

\* assertResumable.  Evidence is compared only where the checkpoint refers to it.
Resumable(who, ck) ==
    /\ ck.who = who
    /\ ck.refs # None => ck.refs = Attested
    /\ ck.status # "completed"

-----------------------------------------------------------------------------
(* Before the run. *)

\* A session of some caller reads the latest checkpoint.
Load(s) ==
    /\ Store!Open(s)
    /\ \E who \in Identity :
         task' = [task EXCEPT ![s].who = who, ![s].from = Last]
    /\ UNCHANGED <<execVars, outside>>

LoadThrows(s) == Store!OpenThrows(s) /\ UNCHANGED <<execVars, task, outside>>

AtGate(s) == io[s].phase = "open" /\ ~ task[s].gated

\* A fresh task has no gate to pass.
Gate(s) ==
    /\ AtGate(s)
    /\ task[s].from # None => Resumable(task[s].who, task[s].from)
    /\ task' = [task EXCEPT ![s].gated = TRUE]
    /\ UNCHANGED <<execVars, fileVars, outside>>

\* ContinuationMismatchError, before any action.
Mismatch(s) ==
    /\ AtGate(s)
    /\ task[s].from # None /\ ~ Resumable(task[s].who, task[s].from)
    /\ Store!Close(s)
    /\ UNCHANGED <<execVars, task, outside>>

\* What a run resumes with.  Mutant: the completed steps are not handed on.
DoneForgotten(ck) == {}
Done(ck) == IF ck = None THEN {} ELSE ck.done
Bindings(ck) == IF ck = None THEN {} ELSE ck.bound

\* prepareSession opened the page: the run begins where the checkpoint stood.
BeginRun(s) ==
    /\ task[s].gated /\ io[s].phase = "open"
    /\ \E stop \in StopAfter :
         Begin(s, Done(task[s].from), Bindings(task[s].from), stop)
    /\ UNCHANGED <<fileVars, task, outside>>

\* The oracle or the browser fails, or the process dies, before the run.
Abandon(s) ==
    /\ run[s].pc = "idle"
    /\ Store!Close(s)
    /\ UNCHANGED <<execVars, task, outside>>

-----------------------------------------------------------------------------
(* The run and its checkpoints. *)

Replay(s) == Walk(s) /\ UNCHANGED <<fileVars, task, outside>>

\* Mutants of NewCheckpoint: the run's outcome for the status; only the steps this
\* session's hook has seen; the bindings the session began with.
NewCheckpointOutcome(s, bound, status) ==
    [who |-> task[s].who, done |-> run[s].completed, bound |-> bound,
     status |-> run[s].outcome, refs |-> Attested]
NewCheckpointHooked(s, bound, status) ==
    [who |-> task[s].who, done |-> run[s].hooked \cup {Cur(s)}, bound |-> bound,
     status |-> status, refs |-> Attested]
NewCheckpointOldBindings(s, bound, status) ==
    [who |-> task[s].who, done |-> run[s].completed,
     bound |-> Bindings(task[s].from), status |-> status, refs |-> Attested]

NewCheckpoint(s, bound, status) ==
    [who |-> task[s].who, done |-> run[s].completed, bound |-> bound,
     status |-> status, refs |-> Attested]

\* writeCheckpoint, up to the append: evidence is collected after the step.
SaveStep(s) ==
    /\ run[s].pc = "hook"
    /\ Store!CallAppend(s, NewCheckpoint(s, run[s].bound, "in_progress"))
    /\ UNCHANGED <<execVars, task, outside>>

\* The oracle cannot be read: the checkpoint is not written.
SaveThrows(s) ==
    /\ Oracle /\ io[s].phase = "open"
    /\ HookThrows(s)
    /\ UNCHANGED <<fileVars, task, outside>>

\* The record that closes the log carries the bindings the session began with.
SaveCompleted(s) ==
    /\ run[s].pc = "ended" /\ run[s].outcome = "success" /\ ~ task[s].closing
    /\ Store!CallAppend(s, NewCheckpoint(s, Bindings(task[s].from), "completed"))
    /\ task' = [task EXCEPT ![s].closing = TRUE]
    /\ UNCHANGED <<execVars, outside>>

Writing(s) == run[s].pc \in {"hook", "ended"}

AppendGoesOn(s) ==
    /\ Writing(s)
    /\ Store!CheckSeq(s) \/ Store!LookAtEnd(s)
    /\ UNCHANGED <<execVars, task, outside>>

AppendDone(s) ==
    /\ Store!Write(s)
    /\ \/ HookResolves(s)
       \/ run[s].pc = "ended" /\ UNCHANGED execVars
    /\ UNCHANGED <<task, outside>>

\* The append is refused or cut short; the process may or may not survive it.
AppendThrows(s) ==
    /\ Store!RefuseSeq(s) \/ Store!WriteCut(s)
    /\ \/ HookThrows(s)
       \/ run[s].pc = "hook" /\ Crash(s)
       \/ run[s].pc = "ended" /\ UNCHANGED execVars
    /\ UNCHANGED <<task, outside>>

\* continueTask returns or throws, or the dead process is gone.
Leave(s) ==
    /\ run[s].pc \in {"ended", "threw", "crashed"}
    /\ Store!Close(s)
    /\ UNCHANGED <<execVars, task, outside>>

\* Somebody else resets the application, or acts in it.
OthersMove ==
    /\ moves < MaxMoves
    /\ moves' = moves + 1
    /\ \/ effects' = [x \in Step |-> 0] /\ generation' = generation + 1
       \/ \E x \in Deterministic : effects' = [effects EXCEPT ![x] = @ + 1]
                                   /\ UNCHANGED generation
    /\ UNCHANGED <<run, fileVars, task>>

TaskNext ==
    \/ \E s \in Session :
         \/ Load(s) \/ LoadThrows(s) \/ Gate(s) \/ Mismatch(s) \/ BeginRun(s)
         \/ Abandon(s) \/ Replay(s) \/ SaveStep(s) \/ SaveThrows(s)
         \/ SaveCompleted(s) \/ AppendGoesOn(s) \/ AppendDone(s)
         \/ AppendThrows(s) \/ Leave(s)
    \/ OthersMove

TaskSpec == TaskInit /\ [][TaskNext]_vars

-----------------------------------------------------------------------------
(* Properties. *)

TaskTypeOK ==
    /\ TypeOK
    /\ Store!StoreTypeOK
    /\ task \in [Session -> [who : Identity \cup {None}, from : Checkpoint \cup {None},
                             gated : BOOLEAN, closing : BOOLEAN]]
    /\ generation \in Nat /\ moves \in Nat

Recorded == IF Last = None THEN {} ELSE Last.done
Closed == Last # None /\ Last.status = "completed"
InHand == {Cur(s) : s \in {t \in Session : Busy(t)}}

\* executor.ts:276-281 and T37 "completed steps are never dispatched again":
\* whatever crashed or was torn before, no session is at work on a step the
\* last readable checkpoint records, and none is at work on a closed task.
NoRecordedStepInHand ==
    InHand \cap Recorded = {} /\ (Closed => InHand = {})

\* Each checkpoint extends the one before it by the one step that was completed,
\* under the same identity; the record that closes the log adds none, and
\* nothing follows it (continue-task.ts:89-129).
RecordsFollow ==
    \A i, j \in Store!Records : Store!Precedes(j, i) =>
        LET old == lines[j].body
            new == lines[i].body
        IN /\ new.who = old.who
           /\ old.status = "in_progress"
           /\ old.done \subseteq new.done
           /\ Cardinality(new.done \ old.done)
                = IF new.status = "completed" THEN 0 ELSE 1
           /\ new.status = "completed" => new.done = Step

\* A checkpoint never runs ahead of the application: left to itself, it shows
\* the effect of every tool step a record lists.
RecordsAreTrue ==
    moves = 0 => \A i \in Store!Records :
        \A x \in lines[i].body.done \cap Deterministic : effects[x] > 0

\* What a session finds on record it can go on from: the step was done in the application
\* and is not taken up again, and its bindings are at hand (continue-task.ts:118-129).
RecordsHold == RecordsAreTrue /\ NoRecordedStepInHand /\ NeverUnbound

\* The oracle narrows the window in which a step may be repeated to the first
\* tool step: before it takes effect there is no evidence to refer to, and from
\* its checkpoint on every effect without a record is seen at the gate
\* (resume-gate.ts:68-78).
FirstTool(x) == \E i \in 1 .. Len(Order) :
    /\ Order[i] = x /\ x \in Deterministic
    /\ \A j \in 1 .. i - 1 : Order[j] \notin Deterministic

RepeatsOnlyFirstTool ==
    Oracle /\ moves = 0 => \A x \in Step : effects[x] <= Attempts[x] \/ FirstTool(x)

\* The abstract specification: one step at a time, each taken up only when the
\* ones before it are on record.
Progress == INSTANCE TaskProgress WITH
    recorded <- Recorded, inHand <- InHand, closed <- Closed

TaskProgresses == Progress!Spec

\* roadmap P2 item 9: checkpoints "resume an incomplete controlled workflow".
\* A session that finds every step on record does not fail the workflow.
CompletedWorkResumes ==
    \A s \in Session : run[s].outcome = "verify_failed" => run[s].resume # Step
=============================================================================
