------------------------------ MODULE GuiServer ------------------------------
(***************************************************************************)
(* createGuiServer (packages/cli/src/gui-server.ts): a local HTTP server   *)
(* that runs tasks (TaskRun) in its own process, beside commands that run  *)
(* in theirs.  The provider a request asks for reaches the planner through *)
(* an environment variable of the process, so only one task may be at work.*)
(*                                                                         *)
(* A handler runs without interruption up to its next await: the body of   *)
(* the request, and the task.                                              *)
(***************************************************************************)
EXTENDS TaskRun

CONSTANTS
    Gui,         \* the attempts asked for at the server; the others are commands
    Wants(_),    \* the provider a request names
    Provider     \* the provider in the environment of the server and the commands, or None

\* runArguments takes a name of its own list only, which is the list of the clients.
ASSUME GuiAssumption == Gui \subseteq Attempt /\ \A t \in Gui : Wants(t) \in Providers

VARIABLES
    running,     \* the flag of the server
    env,         \* process.env['ROTE_LLM_PROVIDER'] of the server's process
    request      \* request[t]: [phase, previous, status]

vars == <<learnedVars, runs, taskVars, running, env, request>>

NoRequest == [phase |-> "none", previous |-> None, status |-> 0]

Init == /\ TaskInit
        /\ running = FALSE
        /\ env = Provider
        /\ request = [t \in Gui |-> NoRequest]

Answer(t, status) == request' = [request EXCEPT ![t].phase = "answered", ![t].status = status]

\* A request with a wrong Host or the wrong headers gets 403 or 415, before the
\* flag is looked at.
Turned(t) ==
    /\ t \in cast /\ request[t].phase = "none"
    /\ \E status \in {403, 415} : Answer(t, status)
    /\ UNCHANGED <<learnedVars, runs, taskVars, running, env>>

\* Mutant of Accept: the flag is raised when the body is there.
AcceptLate(t) ==
    /\ t \in cast /\ request[t].phase = "none" /\ ~ running
    /\ request' = [request EXCEPT ![t] = [phase |-> "body", previous |-> env, status |-> 0]]
    /\ UNCHANGED <<learnedVars, runs, taskVars, running, env>>

Accept(t) ==
    /\ t \in cast /\ request[t].phase = "none" /\ ~ running
    /\ running' = TRUE
    /\ request' = [request EXCEPT ![t] = [phase |-> "body", previous |-> env, status |-> 0]]
    /\ UNCHANGED <<learnedVars, runs, taskVars, env>>

Busy(t) ==
    /\ t \in cast /\ request[t].phase = "none" /\ running
    /\ Answer(t, 409)
    /\ UNCHANGED <<learnedVars, runs, taskVars, running, env>>

\* runArguments, and the task that its argv starts: --verify-text is required.
BodyArrives(t) ==
    /\ request[t].phase = "body"
    /\ env' = Wants(t)
    /\ request' = [request EXCEPT ![t].phase = "task"]
    /\ \E text \in Text, e \in Env, c \in Check : Start(t, text, e, {c}, FALSE)
    /\ UNCHANGED <<learnedVars, running>>

\* The body is too large, is no JSON, lacks a field, or never comes in full.
BodyFails(t) ==
    /\ request[t].phase = "body"
    /\ Answer(t, 200) /\ running' = FALSE /\ env' = request[t].previous
    /\ UNCHANGED <<learnedVars, runs, taskVars>>

\* Mutant of TaskReturns: the environment is restored after a result only.
TaskReturnsRestoring(t) ==
    /\ request[t].phase = "task" /\ Over(t)
    /\ Answer(t, 200) /\ running' = FALSE
    /\ env' = IF task[t].result = "error" THEN env ELSE request[t].previous
    /\ UNCHANGED <<learnedVars, runs, taskVars>>

TaskReturns(t) ==
    /\ request[t].phase = "task" /\ Over(t)
    /\ Answer(t, 200) /\ running' = FALSE /\ env' = request[t].previous
    /\ UNCHANGED <<learnedVars, runs, taskVars>>

\* A command has its own environment.
Command(t) ==
    /\ t \notin Gui
    /\ \E text \in Text, e \in Env, checks \in SUBSET Check, explicit \in BOOLEAN :
         Start(t, text, e, checks, explicit)
    /\ UNCHANGED <<learnedVars, running, env, request>>

\* ROTE_LLM_PROVIDER of an environment, "openai" when it is not set.
ProviderIn(environment) == IF environment = None THEN "openai" ELSE environment

Plan(t) ==
    /\ MakePlanner(t, ProviderIn(IF t \in Gui THEN env ELSE Provider))
    /\ UNCHANGED <<learnedVars, running, env, request>>

Next ==
    \/ \E t \in Gui : \/ Turned(t) \/ Accept(t) \/ Busy(t) \/ BodyArrives(t) \/ BodyFails(t)
                      \/ TaskReturns(t)
    \/ \E t \in Attempt : \/ Command(t) \/ Plan(t)
                          \/ /\ TaskStep(t) \/ (t \notin Gui /\ TaskDies(t))
                             /\ UNCHANGED <<learnedVars, running, env, request>>
    \/ Distills /\ UNCHANGED <<taskVars, running, env, request>>

Spec == Init /\ [][Next]_vars

-----------------------------------------------------------------------------

\* At most one request's task is at work in the server, the agent of every task
\* talks to the provider its request named, and a server at rest has its own
\* environment back.
RequestsDoNotMix ==
    /\ \A t, u \in Gui : request[t].phase \in {"body", "task"} /\ request[u].phase \in {"body", "task"} => t = u
    /\ \A t \in Gui : task[t].llm # None => task[t].llm = Wants(t)
    /\ (running <=> \E t \in Gui : request[t].phase \in {"body", "task"})
    /\ ~ running => env = Provider

\* Requests at the GUI server run one at a time and with the provider they asked for, and
\* a task that is over leaves no browser running (gui-server.ts:113).
RequestsAreApart == RequestsDoNotMix /\ BrowserIsStopped
=============================================================================
