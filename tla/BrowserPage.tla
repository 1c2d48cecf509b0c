----------------------------- MODULE BrowserPage -----------------------------
(***************************************************************************)
(* A page session over the Chrome DevTools Protocol: CdpClient, CdpPage,   *)
(* the composed capture and the check before a dispatch (packages/browser  *)
(* /src/cdp-client.ts, cdp-page.ts, cdp-composed-context.ts), and the      *)
(* decorator that waits for the page to settle after each verb             *)
(* (packages/action/src/settled-page.ts, settledness.ts).                  *)
(*                                                                         *)
(* The caller runs one verb at a time and a verb one command at a time.    *)
(* Chrome carries a command out at some moment and its reply comes over    *)
(* the socket behind the events before it.  A document is the number of    *)
(* its load, which is its loader id; an isolated world lives as long as    *)
(* the document it was made in.  A navigation makes a request, so its      *)
(* network events come first; changes of the DOM are those of the top      *)
(* document, the only one the probe observes.  Time passes in polls.       *)
(***************************************************************************)
EXTENDS Naturals, SequencesExt, FiniteSetsExt

CONSTANTS
    Top, Child,   \* the top frame and one below it
    MaxVerbs,     \* bound on the verbs of the caller
    MaxLoads,     \* bound on the documents
    MaxStirs,     \* bound on the changes of the DOM and the requests besides navigation
    Quiet,        \* quietWindowMs, in polls
    Timeout,      \* timeoutMs, in polls
    None

ASSUME PageAssumption == MaxLoads \in Nat \ {0} /\ Quiet \in Nat \ {0} /\ Timeout \in Nat

\* What the client sends, and what it waits for besides a reply.
Commands == {"tree", "world", "serialize", "check", "href", "evaluate", "sample", "navigate"}
Pauses == {"loaded", "sleep"}

Frames == {Top, Child}
Order == <<Top, Child>>     \* the frame tree, flattened
Acts == {"fill", "click"}   \* fill stands for every verb that evaluates once
Verbs == Acts \cup {"navigate", "capture"}

\* What is undefined is told from every document, verb, command and state of a wait.
ASSUME NoneAssumption == None \notin Nat /\ None \notin Verbs \cup Commands \cup Pauses \cup {"armed", "fired"}

VARIABLES
    wrapped,    \* whether the caller holds the SettledBrowserPageSession
    frames,     \* the document of each frame
    chrome,     \* [loads, fired, observed, requests, stirs]: of the top document the mutation
                \* version, None until a probe installed it; the unanswered requests
    socket,     \* "open", "closing" or "closed"
    wire,       \* what Chrome has sent and the client has not handled
    command,    \* the command whose reply is awaited
    verb,       \* the verb that runs
    load,       \* [own, stray]: the waits for a load event of this verb, of failed ones
    page,       \* [contexts, version, pending]: the fields of the page
    settle,     \* the state of waitForSettled
    alive,      \* the process
    ends,       \* how each verb ended
    effects     \* what the evaluations did: [aim, hit, verb]

vars == <<wrapped, frames, chrome, socket, wire, command, verb, load, page, settle, alive, ends, effects>>
world == <<wrapped, alive>>

NoCommand == [do |-> None, frame |-> None, doc |-> None, then |-> None, at |-> "settled"]
NoVerb == [name |-> None, aim |-> None, link |-> FALSE, tree |-> None, made |-> <<>>]
NoWait == [own |-> None, stray |-> FALSE]
NoSettle == [clock |-> 0, changed |-> 0, last |-> None, due |-> 0, from |-> None]
NoContexts == [f \in {} |-> None]

Init == /\ wrapped \in BOOLEAN
        /\ frames = [f \in Frames |-> 1]
        /\ chrome = [loads |-> 1, fired |-> 1, observed |-> None, requests |-> 0, stirs |-> 0]
        /\ socket = "open"
        /\ wire = <<>>
        /\ command = NoCommand
        /\ verb = NoVerb
        /\ load = NoWait
        /\ page = [contexts |-> NoContexts, version |-> 0, pending |-> 0]
        /\ settle = NoSettle
        /\ alive = TRUE
        /\ ends = <<>>
        /\ effects = {}

-----------------------------------------------------------------------------
(* Chrome and the site. *)

Event(kind) == [kind |-> kind]
Reply(ok, value) == [kind |-> "reply", ok |-> ok, value |-> value]

\* A navigation of the top frame replaces the documents of both.
Navigated(f, n) == IF f = Top THEN [g \in Frames |-> n] ELSE [frames EXCEPT ![f] = n]
Replaced(f) == IF f = Top THEN None ELSE chrome.observed

\* The site loads another document in a frame.
SiteNavigates(f) ==
    /\ socket = "open" /\ chrome.loads < MaxLoads
    /\ frames' = Navigated(f, chrome.loads + 1)
    /\ chrome' = [chrome EXCEPT !.loads = @ + 1, !.observed = Replaced(f)]
    /\ wire' = Append(wire, Event("edge"))
    /\ UNCHANGED <<world, socket, command, verb, load, page, settle, ends, effects>>

Mutate ==
    /\ socket = "open" /\ chrome.stirs < MaxStirs
    /\ chrome' = [chrome EXCEPT !.stirs = @ + 1, !.observed = IF @ = None THEN None ELSE @ + 1]
    /\ UNCHANGED <<world, frames, socket, wire, command, verb, load, page, settle, ends, effects>>

\* A request starts, and the server answers it.
Request ==
    /\ socket = "open" /\ chrome.stirs < MaxStirs
    /\ chrome' = [chrome EXCEPT !.stirs = @ + 1, !.requests = @ + 1]
    /\ wire' = Append(wire, Event("request"))
    /\ UNCHANGED <<world, frames, socket, command, verb, load, page, settle, ends, effects>>
Respond ==
    /\ socket = "open" /\ chrome.requests > 0
    /\ chrome' = [chrome EXCEPT !.requests = @ - 1]
    /\ wire' = Append(wire, Event("response"))
    /\ UNCHANGED <<world, frames, socket, command, verb, load, page, settle, ends, effects>>

\* The load event of the top document: whoever waits takes it for its own.
FiresLoad ==
    /\ socket = "open" /\ chrome.fired < frames[Top]
    /\ chrome' = [chrome EXCEPT !.fired = frames[Top]]
    /\ wire' = Append(wire, Event("load"))
    /\ UNCHANGED <<world, frames, socket, command, verb, load, page, settle, ends, effects>>

Answers(ok, value) == /\ wire' = Append(wire, Reply(ok, value))
                      /\ command' = [command EXCEPT !.at = "answered"]
Untouched == UNCHANGED <<frames, chrome, effects>>

\* An evaluation in a world of document `doc` of the frame: without it, an error.
Effect(f, doc) == [aim |-> verb.aim, hit |-> [frame |-> f, doc |-> doc], verb |-> Len(ends)]
\* A click on a link may load another document before the reply is made.
MayLeave(f) ==
    \/ UNCHANGED <<frames, chrome>> /\ Answers(TRUE, None)
    \/ /\ verb.link /\ chrome.loads < MaxLoads
       /\ frames' = Navigated(f, chrome.loads + 1)
       /\ chrome' = [chrome EXCEPT !.loads = @ + 1, !.observed = Replaced(f)]
       /\ wire' = wire \o <<Event("edge"), Reply(FALSE, None)>>
       /\ command' = [command EXCEPT !.at = "answered"]

Execute ==
    /\ socket = "open" /\ command.at = "chrome"
    /\ CASE command.do \in {"tree", "check"} -> Answers(TRUE, frames) /\ Untouched
         [] command.do = "world" -> Answers(TRUE, frames[command.frame]) /\ Untouched
         [] command.do \in {"serialize", "href"} /\ command.doc # None ->
              Answers(frames[command.frame] = command.doc, None) /\ Untouched
         \* without a context the script runs in the top document there is
         [] command.do = "href" /\ command.doc = None ->
              \E ok \in BOOLEAN : Answers(ok, None) /\ Untouched
         [] command.do = "evaluate" /\ command.doc = None ->
              \/ Answers(FALSE, None) /\ Untouched
              \/ effects' = effects \cup {Effect(Top, frames[Top])} /\ MayLeave(Top)
         [] command.do = "evaluate" /\ command.doc # None ->
              IF frames[command.frame] = command.doc
              THEN \/ Answers(FALSE, None) /\ Untouched
                   \/ effects' = effects \cup {Effect(command.frame, command.doc)} /\ MayLeave(command.frame)
              ELSE Answers(FALSE, None) /\ Untouched
         [] command.do = "sample" ->
              LET seen == IF chrome.observed = None THEN 0 ELSE chrome.observed
              IN  /\ Answers(TRUE, [mutations |-> seen, doc |-> frames[Top]])
                  /\ chrome' = [chrome EXCEPT !.observed = seen]
                  /\ UNCHANGED <<frames, effects>>
         [] command.do = "navigate" ->
              \/ Answers(FALSE, None) /\ Untouched
              \/ /\ chrome.loads < MaxLoads
                 /\ frames' = Navigated(Top, chrome.loads + 1)
                 /\ chrome' = [chrome EXCEPT !.loads = @ + 1, !.observed = None]
                 /\ wire' = wire \o <<Event("edge"), Reply(TRUE, None)>>
                 /\ command' = [command EXCEPT !.at = "answered"]
                 /\ UNCHANGED effects
    /\ UNCHANGED <<world, socket, verb, load, page, settle, ends>>

\* The target is closed, or Chrome is gone.
ChromeGone ==
    /\ socket = "open" /\ socket' = "closing"
    /\ UNCHANGED <<world, frames, chrome, wire, command, verb, load, page, settle, ends, effects>>

-----------------------------------------------------------------------------
(* CdpClient. *)

\* send enters the command among the pending ones, then writes it.  A socket
\* that is no longer open drops it; once it has closed nothing settles it.
Sent(c) == [c EXCEPT !.at = CASE socket = "open" -> "chrome"
                              [] socket = "closing" -> "dropped"
                              [] OTHER -> "never"]
Command(do, f, doc) == [NoCommand EXCEPT !.do = do, !.frame = f, !.doc = doc]

\* The wait of a verb that fails before it awaited the load is left behind.
Left == [own |-> None, stray |-> load.stray \/ load.own = "armed"]
EndsWith(ok, quiet) == /\ ends' = Append(ends, [verb |-> verb.name, link |-> verb.link, ok |-> ok, quiet |-> quiet])
                       /\ verb' = NoVerb /\ command' = NoCommand /\ settle' = NoSettle
Ended(ok) == EndsWith(ok, None)
Fails == Ended(FALSE) /\ load' = Left /\ UNCHANGED page

\* The close event rejects every pending command.
SocketClosed ==
    /\ alive /\ socket = "closing"
    /\ socket' = "closed" /\ wire' = <<>>
    /\ IF command.at \in {"chrome", "answered", "dropped"} THEN Fails
       ELSE UNCHANGED <<command, verb, load, page, settle, ends>>
    /\ UNCHANGED <<world, frames, chrome, effects>>

\* The page counts every edge of the network; a request is pending until it is
\* answered.
Counted(kind) ==
    [page EXCEPT !.version = @ + 1,
                 !.pending = CASE kind = "request" -> @ + 1 [] kind = "response" -> @ - 1 [] OTHER -> @]

\* Network events reach the page, a load event whoever waits for one.
Hear ==
    /\ alive /\ wire # <<>> /\ Head(wire).kind # "reply"
    /\ wire' = Tail(wire)
    /\ IF Head(wire).kind = "load"
       THEN load' = [own |-> IF load.own = "armed" THEN "fired" ELSE load.own, stray |-> FALSE] /\ UNCHANGED page
       ELSE page' = Counted(Head(wire).kind) /\ UNCHANGED load
    /\ UNCHANGED <<world, frames, chrome, socket, command, verb, settle, ends, effects>>

-----------------------------------------------------------------------------
(* The verbs. *)

Start(c) ==
    /\ alive /\ verb = NoVerb /\ Len(ends) < MaxVerbs
    /\ command' = Sent(c)
    /\ UNCHANGED <<world, frames, chrome, socket, wire, page, settle, ends, effects>>

\* navigate waits for the load event before it sends the command.
Navigate ==
    /\ Start(Command("navigate", Top, None))
    /\ verb' = [NoVerb EXCEPT !.name = "navigate"]
    /\ load' = [load EXCEPT !.own = "armed"]

Capture ==
    /\ Start(Command("tree", Top, None))
    /\ verb' = [NoVerb EXCEPT !.name = "capture"]
    /\ UNCHANGED load

\* The contexts are those of the last capture, as is the element the caller aims
\* at: one that the capture read in document `made` of the frame.
Aim(f) == [frame |-> f, doc |-> page.contexts[f].made]
FirstEvaluation(name) == IF name = "click" THEN "href" ELSE "evaluate"
\* With a coordinate the frame tree is asked for first.  The decorator forwards
\* the selector only: the page then evaluates in the top document.
DispatchOf(do, f) == IF wrapped THEN Command(do, Top, None)
                     ELSE [Command("check", f, None) EXCEPT !.then = do]

Act(name) ==
    \E f \in DOMAIN page.contexts, link \in BOOLEAN :
        /\ link => name = "click"
        /\ Start(DispatchOf(FirstEvaluation(name), f))
        /\ verb' = [NoVerb EXCEPT !.name = name, !.aim = Aim(f), !.link = link]
        /\ UNCHANGED load

Close ==
    /\ alive /\ verb = NoVerb /\ socket = "open" /\ ends # <<>>
    /\ socket' = "closing"
    /\ UNCHANGED <<world, frames, chrome, wire, command, verb, load, page, settle, ends, effects>>

-----------------------------------------------------------------------------
(* Their steps, one for each reply. *)

Replied(do) == /\ alive /\ wire # <<>> /\ Head(wire).kind = "reply" /\ command.do = do
               /\ wire' = Tail(wire)
               /\ UNCHANGED <<world, frames, chrome, socket, effects>>
Value == Head(wire).value
Ok == Head(wire).ok

\* A verb has done its part: the decorator lets the page settle.
Done == IF wrapped /\ verb.name # "capture"
        THEN /\ command' = Sent(Command("sample", Top, None))
             /\ load' = [load EXCEPT !.own = None]
             /\ UNCHANGED <<verb, page, settle, ends>>
        ELSE /\ Ended(TRUE) /\ load' = [load EXCEPT !.own = None] /\ UNCHANGED page

\* navigate: first the reply, then the event.
NavigateReplied ==
    /\ Replied("navigate")
    /\ IF Ok THEN /\ command' = [NoCommand EXCEPT !.do = "loaded"]
                  /\ UNCHANGED <<verb, load, page, settle, ends>>
       ELSE Fails
Loaded ==
    /\ alive /\ command.do = "loaded" /\ load.own = "fired"
    /\ Done
    /\ UNCHANGED <<world, frames, chrome, socket, wire, effects>>
\* The wait for the event is over.  Its rejection is the verb's, when the verb
\* awaits it already; if not nobody handles it, and the process ends.
LoadTimesOut ==
    /\ alive
    /\ \/ /\ load.own = "armed" /\ command.do = "loaded"
          /\ Ended(FALSE) /\ load' = [load EXCEPT !.own = None] /\ UNCHANGED <<page, alive>>
       \/ /\ load.stray \/ (load.own = "armed" /\ command.do = "navigate")
          /\ alive' = FALSE /\ UNCHANGED <<command, verb, load, page, settle, ends>>
    /\ UNCHANGED <<wrapped, frames, chrome, socket, wire, effects>>

\* captureComposedPage: the frame tree, then of each frame a world and its document.
TreeRead ==
    /\ Replied("tree")
    /\ verb' = [verb EXCEPT !.tree = Value]
    /\ command' = Sent(Command("world", Order[1], None))
    /\ UNCHANGED <<load, page, settle, ends>>
WorldMade ==
    /\ Replied("world")
    /\ command' = Sent(Command("serialize", command.frame, Value))
    /\ UNCHANGED <<verb, load, page, settle, ends>>
\* The token is from the tree, the world of the document there was by then.
ContextsOf(made) == [f \in Frames |-> [token |-> verb.tree[f], made |-> made[CHOOSE i \in DOMAIN Order : Order[i] = f]]]
Serialized ==
    /\ Replied("serialize")
    /\ LET made == Append(verb.made, command.doc)
       IN  IF ~ Ok THEN Fails
           ELSE IF Len(made) < Len(Order)
           THEN /\ verb' = [verb EXCEPT !.made = made]
                /\ command' = Sent(Command("world", Order[Len(made) + 1], None))
                /\ UNCHANGED <<load, page, settle, ends>>
           ELSE /\ page' = [page EXCEPT !.contexts = ContextsOf(made)]
                /\ Ended(TRUE) /\ UNCHANGED load

\* Mutant of InWorld: the script runs in the frame, whatever its document is.
InFrame(do, f) == Command(do, f, frames[f])
InWorld(do, f) == Command(do, f, page.contexts[f].made)

\* resolveLiveBrowserContext: the document must still be that of the token.
Checked ==
    /\ Replied("check")
    /\ LET f == command.frame
       IN  IF Value[f] # page.contexts[f].token THEN Fails
           ELSE /\ command' = Sent(InWorld(command.then, f))
                /\ UNCHANGED <<verb, load, page, settle, ends>>
\* A click asks for the address of a link first.
HrefRead ==
    /\ Replied("href")
    /\ IF ~ Ok THEN Fails
       ELSE /\ command' = Sent(DispatchOf("evaluate", command.frame))
            /\ UNCHANGED <<verb, load, page, settle, ends>>
\* Mutant of Evaluated: what fails is tried again.
EvaluatedAgain ==
    /\ Replied("evaluate")
    /\ IF Ok THEN Done
       ELSE IF verb.made = <<>>
       THEN /\ command' = Sent(Command("evaluate", command.frame, command.doc))
            /\ verb' = [verb EXCEPT !.made = <<None>>]
            /\ UNCHANGED <<load, page, settle, ends>>
       ELSE Fails

\* What fails after that on a link of the top page is done by navigating.
Evaluated ==
    /\ Replied("evaluate")
    /\ IF Ok THEN Done
       ELSE IF verb.link /\ (wrapped \/ verb.aim.frame = Top)
       THEN /\ command' = Sent(Command("navigate", Top, None))
            /\ load' = [load EXCEPT !.own = "armed"]
            /\ UNCHANGED <<verb, page, settle, ends>>
       ELSE Fails

-----------------------------------------------------------------------------
(* waitForSettled.  A sample is what Chrome evaluated, the page's count of    *)
(* unanswered requests and its version of the network when the reply came.    *)

Sample == [mutations |-> Value.mutations, version |-> page.version, pending |-> page.pending, doc |-> Value.doc]

\* Mutant of Changed: only the DOM counts.
DomChanged(s, previous) == previous = None \/ s.mutations # previous.mutations
Changed(s, previous) == previous = None \/ s.mutations # previous.mutations \/ s.version # previous.version

\* Mutant of TimedOut: the wait has no end.
NeverTimedOut == FALSE
TimedOut == settle.clock >= Timeout

Sampled ==
    /\ Replied("sample")
    /\ LET s == Sample
           stirred == Changed(s, settle.last) \/ s.pending > 0
           since == IF stirred THEN settle.clock ELSE settle.changed
           from == IF stirred THEN s ELSE settle.from
       IN  IF s.pending = 0 /\ settle.clock >= since + Quiet
           THEN EndsWith(TRUE, [from |-> from, to |-> s]) /\ UNCHANGED <<load, page>>
           ELSE IF TimedOut THEN Fails
           ELSE /\ settle' = [settle EXCEPT !.changed = since, !.from = from, !.last = s, !.due = settle.clock + 1]
                /\ command' = [NoCommand EXCEPT !.do = "sleep"]
                /\ UNCHANGED <<verb, load, page, ends>>

Settling == verb.name # None /\ command.do \in {"sample", "sleep"}
Tick ==
    /\ alive /\ Settling /\ settle.clock <= Timeout
    /\ settle' = [settle EXCEPT !.clock = @ + 1]
    /\ UNCHANGED <<world, frames, chrome, socket, wire, command, verb, load, page, ends, effects>>
Wake ==
    /\ alive /\ command.do = "sleep" /\ settle.clock >= settle.due
    /\ command' = Sent(Command("sample", Top, None))
    /\ UNCHANGED <<world, frames, chrome, socket, wire, verb, load, page, settle, ends, effects>>

-----------------------------------------------------------------------------

Site == (\E f \in Frames : SiteNavigates(f)) \/ Mutate \/ Request \/ Respond \/ FiresLoad
Client == \/ SocketClosed \/ Hear \/ NavigateReplied \/ Loaded \/ LoadTimesOut
          \/ TreeRead \/ WorldMade \/ Serialized \/ Checked \/ HrefRead \/ Evaluated
          \/ Sampled \/ Tick \/ Wake
Caller == Navigate \/ Capture \/ (\E name \in Acts : Act(name)) \/ Close
Next == Site \/ Execute \/ ChromeGone \/ Client \/ Caller

Spec == Init /\ [][Next]_vars
\* The process handles what is ready, and Chrome carries out what it was sent.
FairSpec == Spec /\ WF_vars(Client) /\ WF_vars(Execute)

-----------------------------------------------------------------------------

Grounded(e) == e.hit = e.aim

\* "Stale documents, context splicing [...] stop before dispatch": an effect is
\* in the document the element was captured in, however the frames navigate
\* between the capture, the check and the dispatch.  Of the page itself it holds,
\* of the session the task runner uses it does not.
DispatchIsGrounded == \A e \in effects : Grounded(e)
PageDispatchIsGrounded == ~ wrapped => DispatchIsGrounded

\* A verb has at most one effect, and if it reports success just one; only a
\* click on a link may have navigated instead.
EffectsOnce ==
    \A i \in 1 .. Len(ends) :
        LET mine == {e \in effects : e.verb = i - 1}
        IN  /\ Cardinality(mine) <= 1
            /\ ends[i].ok /\ ends[i].verb \in Acts /\ ~ ends[i].link => mine # {}

\* A verb acts at most once, and in the document its element was captured in, whatever the
\* frames do between the capture, the check and the dispatch (cdp-page.ts:83-281).
EffectsAreGrounded == PageDispatchIsGrounded /\ EffectsOnce

\* A verb that let the page settle returned after a quiet window: from its first
\* sample to its last one the top document is the same one, has not changed,
\* nothing happened on the network and no request is unanswered.
SettledMeansQuiet ==
    \A i \in DOMAIN ends :
        ends[i].quiet # None =>
            /\ ends[i].quiet.from.doc = ends[i].quiet.to.doc
            /\ ends[i].quiet.from.mutations = ends[i].quiet.to.mutations
            /\ ends[i].quiet.from.version = ends[i].quiet.to.version
            /\ ends[i].quiet.to.pending = 0

\* Every verb ends, by its result or by an error, whatever the page does: unless
\* it sent a command after the socket had closed, which nothing ever settles.
VerbsEnd == verb # NoVerb ~> (verb = NoVerb \/ ~ alive \/ command.at = "never")
=============================================================================
