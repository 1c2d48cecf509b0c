---------------------------- MODULE Browser_proofs ----------------------------
(***************************************************************************)
(* What a page session and the launches of Chrome guarantee, for any       *)
(* number of verbs, documents and changes, any windows and any callers.    *)
(***************************************************************************)
EXTENDS BrowserPage, ChromeBackend, Integers, FiniteSetTheorems, TLAPS

-----------------------------------------------------------------------------
(* Types.                                                                   *)

Notices == {"edge", "request", "response", "load"}
Reading == [mutations : Nat, doc : Nat]
Answer == {None} \cup Nat \cup [Frames -> Nat] \cup Reading
Message == [kind : Notices] \cup [kind : {"reply"}, ok : BOOLEAN, value : Answer]
Place == Frames \cup {None}
Document == Nat \cup {None}
Deed == Commands \cup Pauses \cup {None}
Contexts == UNION {[F -> [token : Nat, made : Nat]] : F \in SUBSET Frames}
Samples == [mutations : Nat, version : Nat, pending : Int, doc : Nat]
Chrome == [loads : Nat, fired : Nat, observed : Document, requests : Nat, stirs : Nat]
Verb == [name : Verbs \cup {None}, aim : [frame : Frames, doc : Nat] \cup {None}, link : BOOLEAN,
         tree : [Frames -> Nat] \cup {None}, made : Seq(Nat)]
Ending == [verb : Verbs \cup {None}, link : BOOLEAN, ok : BOOLEAN,
           quiet : [from : Samples \cup {None}, to : Samples] \cup {None}]
CommandState == [do : Deed, frame : Place, doc : Document, then : {None, "href", "evaluate"},
                 at : {"settled", "chrome", "answered", "dropped", "never"}]
LoadState == [own : {None, "armed", "fired"}, stray : BOOLEAN]
PageState == [contexts : Contexts, version : Nat, pending : Int]
SettleState == [clock : Nat, changed : Nat, last : Samples \cup {None}, due : Nat, from : Samples \cup {None}]

PageTypes ==
    /\ wrapped \in BOOLEAN /\ alive \in BOOLEAN
    /\ frames \in [Frames -> Nat]
    /\ chrome \in Chrome
    /\ socket \in {"open", "closing", "closed"}
    /\ wire \in Seq(Message)
    /\ command \in CommandState
    /\ verb \in Verb
    /\ load \in LoadState
    /\ page \in PageState
    /\ settle \in SettleState
    /\ ends \in Seq(Ending)

-----------------------------------------------------------------------------
(* Which command belongs to which verb, and which reply to which command.   *)

IsReply(m) == m.kind = "reply"

\* What a reply says is what its command asks for.
Fits(c, m) ==
    /\ c.at = "answered"
    /\ c.do \in {"tree", "check"} => m.value \in [Frames -> Nat]
    /\ c.do = "world" => m.value \in Nat
    /\ c.do = "sample" => m.value \in Reading

\* At most one reply is under way, that of the command at hand.
WireInv ==
    /\ \A i \in DOMAIN wire : IsReply(wire[i]) => Fits(command, wire[i])
    /\ \A i, j \in DOMAIN wire : IsReply(wire[i]) /\ IsReply(wire[j]) => i = j
    /\ socket = "closed" => wire = <<>>

\* An element of a page is dispatched to where the last capture found it.
Aimed(c, v, contexts) ==
    /\ c.frame \in DOMAIN contexts
    /\ v.aim = [frame |-> c.frame, doc |-> contexts[c.frame].made]
    /\ c.do # "check" => c.doc = contexts[c.frame].made

StageInv ==
    /\ verb.name = None => verb = NoVerb /\ command = NoCommand
    /\ verb.link => verb.name = "click"
    /\ command.at = "settled" => command.do \in Pauses \cup {None}
    /\ command.at # "settled" => command.do \in Commands
    /\ command.do = None => verb.name = None
    /\ command.do \in {"tree", "world", "serialize"} => verb.name = "capture"
    /\ command.do \in {"world", "serialize", "check", "href", "evaluate"} => command.frame \in Frames
    /\ command.do = "serialize" => command.doc \in Nat
    /\ command.do \in {"world", "serialize"} => verb.tree \in [Frames -> Nat]
    /\ command.do \in {"navigate", "loaded"} => verb.name = "navigate" \/ verb.link
    /\ command.do \in {"check", "href", "evaluate"} => verb.name \in Acts
    /\ command.do \in {"sample", "sleep"} => verb.name \in Acts \cup {"navigate"}
    /\ command.do = "check" => ~ wrapped /\ command.then \in {"href", "evaluate"}
    /\ command.do \in {"check", "href", "evaluate"} /\ ~ wrapped => Aimed(command, verb, page.contexts)
    /\ settle.last # None => command.do \in {"sample", "sleep"}

-----------------------------------------------------------------------------
(* The effects.                                                             *)

\* What has not evaluated yet.
Unevaluated(c) == c.do \in {None, "tree", "world", "serialize", "check", "href"} \/ (c.do = "evaluate" /\ c.at # "answered")
Evaluates(v) == v.name \in Acts /\ ~ v.link

OnceInv ==
    /\ \A e \in effects : e.verb \in 0 .. Len(ends)
    /\ \A d, e \in effects : d.verb = e.verb => d = e
    /\ Unevaluated(command) => \A e \in effects : e.verb # Len(ends)
    /\ command.do = "evaluate" => \A i \in DOMAIN wire : IsReply(wire[i]) /\ wire[i].ok => \E e \in effects : e.verb = Len(ends)
    /\ command.do \in {"sample", "sleep"} /\ Evaluates(verb) => \E e \in effects : e.verb = Len(ends)
    /\ \A i \in DOMAIN ends : ends[i].ok /\ ends[i].verb \in Acts /\ ~ ends[i].link => \E e \in effects : e.verb = i - 1

-----------------------------------------------------------------------------
(* The wait for a page that is settled.                                     *)

\* What the page counts.
IsEdge(m) == m.kind \in {"edge", "request", "response"}
\* What Chrome has sent behind a place of the wire, and before it.
StillAfter(k) == \A i \in DOMAIN wire : i > k => ~ IsEdge(wire[i])
StillBefore(k) == \A i \in DOMAIN wire : i < k => ~ IsEdge(wire[i])

\* The document changes only behind an edge, so a count that stands still means that it is
\* the one of the sample: the one that is read, or that was when the reply was sent.
QuietInv ==
    /\ socket # "closed" /\ command.do = "sample" =>
          \A k \in DOMAIN wire : IsReply(wire[k]) /\ StillAfter(k) => wire[k].value.doc = frames[Top]
    /\ settle.last # None =>
          /\ page.version >= settle.last.version
          /\ settle.from # None
          /\ settle.from.doc = settle.last.doc
          /\ settle.from.mutations = settle.last.mutations
          /\ settle.from.version = settle.last.version
    /\ settle.last # None /\ socket # "closed" /\ page.version = settle.last.version =>
          /\ command.at = "answered" =>
                \A k \in DOMAIN wire : IsReply(wire[k]) /\ StillBefore(k) => wire[k].value.doc = settle.last.doc
          /\ command.at # "answered" /\ StillAfter(0) => settle.last.doc = frames[Top]

SettledInv == QuietInv /\ SettledMeansQuiet

-----------------------------------------------------------------------------
(* Types hold.                                                              *)

USE DEF Frames, Acts, Verbs, Commands, Pauses, Place, Document, Deed

\* What a client may send is a command.
LEMMA SentIsTyped ==
    ASSUME NEW do \in Commands, NEW f \in Place, NEW doc \in Document, NEW then \in {None, "href", "evaluate"},
           NEW c, c = [Command(do, f, doc) EXCEPT !.then = then]
    PROVE  /\ Sent(c).do = do /\ Sent(c).frame = f /\ Sent(c).doc = doc /\ Sent(c).then = then
           /\ Sent(c).at \in {"chrome", "dropped", "never"}
           /\ Sent(c) \in CommandState
PROOF BY DEF Command, NoCommand, Sent, CommandState

\* What is sent on the wire comes last.
LEMMA SendsOne ==
    ASSUME NEW s \in Seq(Message), NEW m \in Message
    PROVE  /\ Append(s, m) \in Seq(Message) /\ Len(Append(s, m)) = Len(s) + 1
           /\ DOMAIN Append(s, m) = 1 .. Len(s) + 1 /\ DOMAIN s = 1 .. Len(s) /\ Len(s) \in Nat
           /\ \A i \in 1 .. Len(s) : Append(s, m)[i] = s[i]
           /\ Append(s, m)[Len(s) + 1] = m
PROOF OBVIOUS

LEMMA SendsTwo ==
    ASSUME NEW s \in Seq(Message), NEW m \in Message, NEW n \in Message
    PROVE  /\ s \o <<m, n>> \in Seq(Message) /\ Len(s \o <<m, n>>) = Len(s) + 2
           /\ DOMAIN (s \o <<m, n>>) = 1 .. Len(s) + 2 /\ DOMAIN s = 1 .. Len(s) /\ Len(s) \in Nat
           /\ \A i \in 1 .. Len(s) : (s \o <<m, n>>)[i] = s[i]
           /\ (s \o <<m, n>>)[Len(s) + 1] = m /\ (s \o <<m, n>>)[Len(s) + 2] = n
<1>1. <<m, n>> \in Seq(Message) /\ Len(<<m, n>>) = 2 /\ <<m, n>>[1] = m /\ <<m, n>>[2] = n
  OBVIOUS
<1>2. s \o <<m, n>> \in Seq(Message) /\ Len(s \o <<m, n>>) = Len(s) + 2
  BY <1>1
<1>3. \A i \in 1 .. Len(s) + 2 : (s \o <<m, n>>)[i] = IF i <= Len(s) THEN s[i] ELSE <<m, n>>[i - Len(s)]
  BY <1>1
<1> QED BY <1>1, <1>2, <1>3

\* What is read comes first.
LEMMA Takes ==
    ASSUME NEW s \in Seq(Message), s # <<>>
    PROVE  /\ Tail(s) \in Seq(Message) /\ Len(Tail(s)) = Len(s) - 1 /\ Len(s) \in Nat \ {0}
           /\ DOMAIN Tail(s) = 1 .. Len(s) - 1 /\ DOMAIN s = 1 .. Len(s)
           /\ \A i \in 1 .. Len(s) - 1 : Tail(s)[i] = s[i + 1]
           /\ Head(s) = s[1] /\ Head(s) \in Message
PROOF OBVIOUS

LEMMA MessagesAre ==
    /\ \A k \in Notices : Event(k) \in Message /\ Event(k).kind = k
    /\ \A ok \in BOOLEAN, v \in Answer : /\ Reply(ok, v) \in Message /\ IsReply(Reply(ok, v))
                                        /\ Reply(ok, v).ok = ok /\ Reply(ok, v).value = v
    /\ \A m \in Message : IsReply(m) => m.ok \in BOOLEAN /\ m.value \in Answer
    /\ \A m \in Message : ~ IsReply(m) => m.kind \in Notices
PROOF BY DEF Message, Notices, Event, Reply, IsReply


\* A verb that ends leaves nothing behind.
LEMMA EndIsTyped ==
    ASSUME PageTypes, NEW ok \in BOOLEAN, NEW quiet \in [from : Samples \cup {None}, to : Samples] \cup {None}, EndsWith(ok, quiet)
    PROVE  /\ verb' \in Verb /\ verb' = NoVerb
           /\ command' = NoCommand
           /\ command' \in CommandState
           /\ settle' = NoSettle
           /\ settle' \in SettleState
           /\ ends' \in Seq(Ending)
           /\ ends' = Append(ends, [verb |-> verb.name, link |-> verb.link, ok |-> ok, quiet |-> quiet])
<1>1. [verb |-> verb.name, link |-> verb.link, ok |-> ok, quiet |-> quiet] \in Ending
  BY DEF PageTypes, Verb, Ending
<1>2. NoVerb \in Verb
  BY DEF NoVerb, Verb
<1> QED BY <1>1, <1>2 DEF PageTypes, EndsWith, NoCommand, NoSettle, CommandState, SettleState

LEMMA InitTypes == Init => PageTypes
<1> SUFFICES ASSUME Init PROVE PageTypes
  OBVIOUS
<1>1. NoVerb \in Verb
  BY DEF NoVerb, Verb
<1>2. NoContexts \in [{} -> [token : Nat, made : Nat]]
  BY DEF NoContexts
<1>3. NoContexts \in Contexts
  BY <1>2 DEF Contexts
<1> QED BY <1>1, <1>3 DEF Init, PageTypes, Chrome, NoCommand, NoWait, NoSettle, CommandState, SettleState, LoadState, PageState

\* Each way the state of Chrome changes.
LEMMA ChromeIsTyped ==
    ASSUME NEW c \in Chrome, NEW d \in Document, NEW n \in Nat, NEW m \in Nat
    PROVE  /\ [c EXCEPT !.loads = n, !.observed = d] \in Chrome
           /\ [c EXCEPT !.stirs = n, !.observed = d] \in Chrome
           /\ [c EXCEPT !.stirs = n, !.requests = m] \in Chrome
           /\ [c EXCEPT !.requests = n] \in Chrome
           /\ [c EXCEPT !.fired = n] \in Chrome
           /\ [c EXCEPT !.observed = d] \in Chrome
PROOF BY DEF Chrome

LEMMA ChromeHas ==
    ASSUME NEW c \in Chrome
    PROVE  /\ c.loads \in Nat /\ c.fired \in Nat /\ c.observed \in Document /\ c.requests \in Nat /\ c.stirs \in Nat
           /\ c.loads + 1 \in Nat /\ c.stirs + 1 \in Nat /\ c.requests + 1 \in Nat
PROOF BY DEF Chrome

\* What the site and Chrome may send of themselves.
LEMMA SiteTypes ==
    ASSUME PageTypes, Site \/ ChromeGone \/ Close
    PROVE  PageTypes'
<1> USE MessagesAre DEF PageTypes, Notices
<1>1. ASSUME NEW f \in Frames, SiteNavigates(f) PROVE PageTypes'
  <2>1. Event("edge") \in Message
    OBVIOUS
  <2>2. frames' \in [Frames -> Nat]
    BY <1>1, ChromeHas DEF SiteNavigates, Navigated
  <2>3. chrome.loads + 1 \in Nat /\ Replaced(f) \in Document
    BY ChromeHas DEF Replaced
  <2>4. chrome' \in Chrome
    BY <1>1, <2>3, ChromeIsTyped DEF SiteNavigates
  <2> QED BY <1>1, <2>1, <2>2, <2>4, SendsOne DEF SiteNavigates, world
<1>2. CASE Mutate
  <2> DEFINE seen == IF chrome.observed = None THEN None ELSE chrome.observed + 1
  <2>1. seen \in Document /\ chrome.stirs + 1 \in Nat
    BY ChromeHas
  <2>2. chrome' = [chrome EXCEPT !.stirs = chrome.stirs + 1, !.observed = seen]
    BY <1>2 DEF Mutate
  <2> HIDE DEF seen
  <2>3. chrome' \in Chrome
    BY <2>1, <2>2, ChromeIsTyped
  <2> QED BY <1>2, <2>3 DEF Mutate, world
<1>3. CASE Request
  <2>1. Event("request") \in Message
    OBVIOUS
  <2>2. chrome.stirs + 1 \in Nat /\ chrome.requests + 1 \in Nat
    BY <1>3, ChromeHas DEF Request
  <2>3. chrome' \in Chrome
    BY <1>3, <2>2, ChromeIsTyped DEF Request
  <2> QED BY <1>3, <2>1, <2>3, SendsOne DEF Request, world
<1>4. CASE Respond
  <2>1. Event("response") \in Message
    OBVIOUS
  <2>2. chrome.requests - 1 \in Nat
    BY <1>4, ChromeHas DEF Respond
  <2>3. chrome' \in Chrome
    BY <1>4, <2>2, ChromeIsTyped DEF Respond
  <2> QED BY <1>4, <2>1, <2>3, SendsOne DEF Respond, world
<1>5. CASE FiresLoad
  <2>1. Event("load") \in Message
    OBVIOUS
  <2>2. frames[Top] \in Nat
    BY <1>5, ChromeHas DEF FiresLoad
  <2>3. chrome' \in Chrome
    BY <1>5, <2>2, ChromeIsTyped DEF FiresLoad
  <2> QED BY <1>5, <2>1, <2>3, SendsOne DEF FiresLoad, world
<1>6. CASE ChromeGone
  BY <1>6 DEF ChromeGone, world
<1>7. CASE Close
  BY <1>7 DEF Close, world
<1> QED BY <1>1, <1>2, <1>3, <1>4, <1>5, <1>6, <1>7 DEF Site

\* What carrying out a command may do: it is answered once, with what it asks for, and the
\* documents change only behind an edge.
Carried(ok, value) ==
    /\ socket = "open" /\ command.at = "chrome"
    /\ command' = [command EXCEPT !.at = "answered"]
    /\ ok \in BOOLEAN /\ value \in Answer
    /\ Fits(command', Reply(ok, value))
    /\ \/ wire' = Append(wire, Reply(ok, value)) /\ frames' = frames
       \/ wire' = wire \o <<Event("edge"), Reply(ok, value)>> /\ command.do # "sample"
    /\ command.do = "sample" => value.doc = frames[Top]
    /\ \/ effects' = effects /\ (command.do = "evaluate" => ~ ok)
       \/ /\ command.do = "evaluate"
          /\ \E f \in Place, d \in Document :
                /\ effects' = effects \cup {[aim |-> verb.aim, hit |-> [frame |-> f, doc |-> d], verb |-> Len(ends)]}
                /\ command.doc # None => f = command.frame /\ d = command.doc

LEMMA ExecuteCarries ==
    ASSUME PageTypes, StageInv, Execute
    PROVE  /\ \E ok \in BOOLEAN, value \in Answer : Carried(ok, value)
           /\ frames' \in [Frames -> Nat]
           /\ chrome' \in Chrome
           /\ UNCHANGED <<wrapped, alive, socket, verb, load, page, settle, ends>>
<1> DEFINE Documents == frames' \in [Frames -> Nat]
           Chromes == chrome' \in Chrome
           Goal == (\E ok \in BOOLEAN, value \in Answer : Carried(ok, value)) /\ Documents /\ Chromes
<1>0. /\ socket = "open" /\ command.at = "chrome" /\ command.do \in Commands
      /\ UNCHANGED <<wrapped, alive, socket, verb, load, page, settle, ends>>
      /\ frames \in Answer /\ None \in Answer /\ \A n \in Nat : n \in Answer
      /\ frames \in [Frames -> Nat] /\ Top \in Frames
  BY DEF Execute, world, StageInv, PageTypes, Answer
<1>a. ASSUME NEW ok \in BOOLEAN, NEW value \in Answer, Answers(ok, value), Untouched,
             command.do \in {"tree", "check"} => value \in [Frames -> Nat],
             command.do = "world" => value \in Nat,
             command.do # "sample", command.do = "evaluate" => ~ ok
      PROVE  Goal
  <2>1. Fits(command', Reply(ok, value))
    BY <1>0, <1>a DEF Fits, Answers, Reply, PageTypes, CommandState
  <2>2. Carried(ok, value)
    BY <1>0, <1>a, <2>1 DEF Carried, Answers, Untouched
  <2> QED BY <1>a, <2>2 DEF Untouched, PageTypes
<1>b. ASSUME NEW f \in Frames, chrome.loads < MaxLoads, frames' = Navigated(f, chrome.loads + 1),
             chrome' = [chrome EXCEPT !.loads = @ + 1, !.observed = Replaced(f)] \/ chrome' = [chrome EXCEPT !.loads = @ + 1, !.observed = None]
      PROVE  Documents /\ Chromes
  <2>1. Documents
    BY <1>b, ChromeHas DEF Navigated, PageTypes
  <2>2. chrome.loads + 1 \in Nat /\ Replaced(f) \in Document /\ None \in Document
    BY ChromeHas DEF Replaced, PageTypes
  <2>a. PICK d \in Document : chrome' = [chrome EXCEPT !.loads = chrome.loads + 1, !.observed = d]
    BY <1>b, <2>2
  <2>3. Chromes
    BY <2>2, <2>a, ChromeIsTyped DEF PageTypes
  <2> QED BY <2>1, <2>3
<1>c. ASSUME NEW f \in Frames, NEW d \in Document, command.do = "evaluate",
             effects' = effects \cup {Effect(f, d)}, MayLeave(f),
             command.doc # None => f = command.frame /\ d = command.doc
      PROVE  Goal
  <2>1. CASE UNCHANGED <<frames, chrome>> /\ Answers(TRUE, None)
    <3>1. Fits(command', Reply(TRUE, None))
      BY <1>0, <1>c, <2>1 DEF Fits, Answers, Reply, PageTypes, CommandState
    <3>2. Carried(TRUE, None)
      BY <1>0, <1>c, <2>1, <3>1 DEF Carried, Answers, Effect
    <3> QED BY <1>0, <2>1, <3>2 DEF PageTypes
  <2>2. CASE /\ chrome.loads < MaxLoads
             /\ frames' = Navigated(f, chrome.loads + 1)
             /\ chrome' = [chrome EXCEPT !.loads = @ + 1, !.observed = Replaced(f)]
             /\ wire' = wire \o <<Event("edge"), Reply(FALSE, None)>>
             /\ command' = [command EXCEPT !.at = "answered"]
    <3>1. Fits(command', Reply(FALSE, None))
      BY <1>0, <1>c, <2>2 DEF Fits, Reply, PageTypes, CommandState
    <3>2. Carried(FALSE, None)
      BY <1>0, <1>c, <2>2, <3>1 DEF Carried, Effect
    <3> QED BY <1>0, <1>b, <2>2, <3>2
  <2> QED BY <1>c, <2>1, <2>2 DEF MayLeave
<1>1. CASE command.do \in {"tree", "check"}
  BY <1>0, <1>1, <1>a DEF Execute
<1>2. CASE command.do = "world"
  <2>1. frames[command.frame] \in Nat
    BY <1>0, <1>2 DEF StageInv
  <2>2. Answers(TRUE, frames[command.frame]) /\ Untouched
    BY <1>2 DEF Execute
  <2> QED BY <1>0, <1>2, <2>1, <2>2, <1>a
<1>3. CASE command.do = "serialize" \/ (command.do = "href" /\ command.doc # None)
  <2>1. command.doc # None
    BY <1>3, NoneAssumption DEF StageInv
  <2>2. Answers(frames[command.frame] = command.doc, None) /\ Untouched
    BY <1>3, <2>1 DEF Execute
  <2>3. (frames[command.frame] = command.doc) \in BOOLEAN
    OBVIOUS
  <2> QED BY <1>0, <1>3, <2>2, <2>3, <1>a
<1>4. CASE command.do = "href" /\ command.doc = None
  <2>1. PICK ok \in BOOLEAN : Answers(ok, None) /\ Untouched
    BY <1>4 DEF Execute
  <2> QED BY <1>0, <1>4, <2>1, <1>a
<1>5. CASE command.do = "evaluate" /\ command.doc = None
  <2>1. \/ Answers(FALSE, None) /\ Untouched
        \/ effects' = effects \cup {Effect(Top, frames[Top])} /\ MayLeave(Top)
    BY <1>5 DEF Execute
  <2>2. frames[Top] \in Document
    BY <1>0
  <2> QED BY <1>0, <1>5, <2>1, <2>2, <1>a, <1>c
<1>6. CASE command.do = "evaluate" /\ command.doc # None
  <2>1. \/ Answers(FALSE, None) /\ Untouched
        \/ /\ frames[command.frame] = command.doc
           /\ effects' = effects \cup {Effect(command.frame, command.doc)} /\ MayLeave(command.frame)
    BY <1>6 DEF Execute
  <2>2. command.frame \in Frames /\ command.doc \in Document
    BY <1>6 DEF StageInv, PageTypes, CommandState
  <2> QED BY <1>0, <1>6, <2>1, <2>2, <1>a, <1>c
<1>7. CASE command.do = "sample"
  <2> DEFINE seen == IF chrome.observed = None THEN 0 ELSE chrome.observed
             value == [mutations |-> seen, doc |-> frames[Top]]
  <2>1. /\ Answers(TRUE, value) /\ chrome' = [chrome EXCEPT !.observed = seen]
        /\ UNCHANGED <<frames, effects>>
    BY <1>7 DEF Execute
  <2>2. seen \in Nat /\ seen \in Document
    BY ChromeHas DEF PageTypes
  <2>3. value \in Reading /\ value.doc = frames[Top]
    BY <1>0, <2>2 DEF Reading
  <2>4. value \in Answer
    BY <2>3 DEF Answer
  <2> HIDE DEF value, seen
  <2>5. Chromes
    BY <2>1, <2>2, ChromeIsTyped DEF PageTypes
  <2>6. Fits(command', Reply(TRUE, value))
    BY <1>0, <1>7, <2>1, <2>3 DEF Fits, Answers, Reply, PageTypes, CommandState
  <2>7. Carried(TRUE, value)
    BY <1>0, <1>7, <2>1, <2>3, <2>4, <2>6 DEF Carried, Answers
  <2> QED BY <1>0, <2>1, <2>4, <2>5, <2>7
<1>8. CASE command.do = "navigate"
  <2>1. CASE Answers(FALSE, None) /\ Untouched
    BY <1>0, <1>8, <2>1, <1>a
  <2>2. CASE /\ chrome.loads < MaxLoads
             /\ frames' = Navigated(Top, chrome.loads + 1)
             /\ chrome' = [chrome EXCEPT !.loads = @ + 1, !.observed = None]
             /\ wire' = wire \o <<Event("edge"), Reply(TRUE, None)>>
             /\ command' = [command EXCEPT !.at = "answered"]
             /\ UNCHANGED effects
    <3>1. Fits(command', Reply(TRUE, None))
      BY <1>0, <1>8, <2>2 DEF Fits, Reply, PageTypes, CommandState
    <3>2. Carried(TRUE, None)
      BY <1>0, <1>8, <2>2, <3>1 DEF Carried
    <3> QED BY <1>0, <1>b, <2>2, <3>2
  <2>3. \/ Answers(FALSE, None) /\ Untouched
        \/ /\ chrome.loads < MaxLoads
           /\ frames' = Navigated(Top, chrome.loads + 1)
           /\ chrome' = [chrome EXCEPT !.loads = @ + 1, !.observed = None]
           /\ wire' = wire \o <<Event("edge"), Reply(TRUE, None)>>
           /\ command' = [command EXCEPT !.at = "answered"]
           /\ UNCHANGED effects
    BY <1>8 DEF Execute
  <2> QED BY <2>1, <2>2, <2>3
<1>9. Goal
  BY <1>0, <1>1, <1>2, <1>3, <1>4, <1>5, <1>6, <1>7, <1>8
<1> QED BY <1>0, <1>9

-----------------------------------------------------------------------------
(* Commands and replies belong together.                                    *)

Shape == PageTypes /\ WireInv /\ StageInv
Silent == \A i \in DOMAIN wire : ~ IsReply(wire[i])

LEMMA PlainIsSent ==
    ASSUME NEW do \in Commands, NEW f \in Place, NEW doc \in Document
    PROVE  /\ Sent(Command(do, f, doc)).do = do /\ Sent(Command(do, f, doc)).frame = f
           /\ Sent(Command(do, f, doc)).doc = doc /\ Sent(Command(do, f, doc)).then = None
           /\ Sent(Command(do, f, doc)).at \in {"chrome", "dropped", "never"}
           /\ Sent(Command(do, f, doc)) \in CommandState
PROOF BY DEF Command, NoCommand, Sent, CommandState

LEMMA PauseIsTyped ==
    ASSUME NEW do \in Pauses
    PROVE  /\ [NoCommand EXCEPT !.do = do] \in CommandState
           /\ [NoCommand EXCEPT !.do = do].do = do /\ [NoCommand EXCEPT !.do = do].at = "settled"
PROOF BY DEF NoCommand, CommandState

LEMMA SampleIsSent ==
    /\ Sent(Command("sample", Top, None)).do = "sample" /\ Sent(Command("sample", Top, None)).at # "settled"
    /\ Sent(Command("sample", Top, None)).at # "answered" /\ Sent(Command("sample", Top, None)) \in CommandState
<1>1. "sample" \in Commands /\ Top \in Place /\ None \in Document
  OBVIOUS
<1> HIDE DEF Commands, Place, Document
<1> QED BY <1>1, PlainIsSent

LEMMA VerbIsTyped ==
    ASSUME NEW name \in Verbs, NEW aim \in [frame : Frames, doc : Nat] \cup {None}, NEW link \in BOOLEAN
    PROVE  /\ [NoVerb EXCEPT !.name = name, !.aim = aim, !.link = link] \in Verb
           /\ [NoVerb EXCEPT !.name = name] \in Verb
           /\ [NoVerb EXCEPT !.name = name].name = name /\ [NoVerb EXCEPT !.name = name].link = FALSE
           /\ [NoVerb EXCEPT !.name = name, !.aim = aim, !.link = link].name = name
           /\ [NoVerb EXCEPT !.name = name, !.aim = aim, !.link = link].aim = aim
           /\ [NoVerb EXCEPT !.name = name, !.aim = aim, !.link = link].link = link
<1>1. <<>> \in Seq(Nat)
  OBVIOUS
<1> QED BY <1>1 DEF NoVerb, Verb

LEMMA SettleIsTyped ==
    ASSUME NEW s \in SettleState, NEW n \in Nat
    PROVE  [s EXCEPT !.clock = n] \in SettleState /\ [s EXCEPT !.clock = n].last = s.last /\ s.clock + 1 \in Nat
PROOF BY DEF SettleState

LEMMA LoadIsTyped ==
    ASSUME NEW l \in LoadState, NEW own \in {None, "armed", "fired"}
    PROVE  [l EXCEPT !.own = own] \in LoadState
PROOF BY DEF LoadState

\* What is read as a reply is that of the command, and none follows.
LEMMA RepliedIsLast ==
    ASSUME Shape, NEW do \in Commands, Replied(do)
    PROVE  /\ Silent' /\ wire' \in Seq(Message)
           /\ command.do = do /\ command.at = "answered" /\ verb.name # None
           /\ Ok \in BOOLEAN /\ Value \in Answer /\ Fits(command, Head(wire))
           /\ socket # "closed" /\ alive
           /\ UNCHANGED <<wrapped, alive, frames, chrome, socket, effects>>
<1>1. wire # <<>> /\ IsReply(Head(wire)) /\ wire' = Tail(wire)
  BY DEF Replied, IsReply
<1>2. /\ Tail(wire) \in Seq(Message) /\ Len(Tail(wire)) = Len(wire) - 1 /\ Len(wire) \in Nat \ {0}
      /\ DOMAIN Tail(wire) = 1 .. Len(wire) - 1 /\ DOMAIN wire = 1 .. Len(wire)
      /\ \A i \in 1 .. Len(wire) - 1 : Tail(wire)[i] = wire[i + 1]
      /\ Head(wire) = wire[1] /\ Head(wire) \in Message
  BY <1>1, Takes DEF Shape, PageTypes
<1>3. Silent'
  <2> SUFFICES ASSUME NEW i \in 1 .. Len(wire) - 1, IsReply(wire[i + 1]) PROVE FALSE
    BY <1>1, <1>2 DEF Silent
  <2>1. 1 = i + 1
    BY <1>1, <1>2 DEF Shape, WireInv
  <2> QED BY <2>1
<1>4. Fits(command, Head(wire))
  BY <1>1, <1>2 DEF Shape, WireInv
<1>5. command.at = "answered" /\ verb.name # None
  BY <1>4 DEF Fits, Shape, StageInv, NoCommand
<1>6. Ok \in BOOLEAN /\ Value \in Answer
  BY <1>1, <1>2, MessagesAre DEF Ok, Value
<1>7. socket # "closed"
  BY <1>1 DEF Shape, WireInv
<1> QED BY <1>1, <1>2, <1>3, <1>4, <1>5, <1>6, <1>7 DEF Replied, world

LEMMA NobodyReplied ==
    ASSUME Shape, command.at # "answered"
    PROVE  Silent
PROOF BY DEF Shape, WireInv, Fits, Silent

LEMMA NoVerbNoCommand ==
    ASSUME Shape, verb = NoVerb
    PROVE  command = NoCommand /\ Silent /\ command.at = "settled" /\ command.do = None /\ settle.last = None
<1>1. command = NoCommand
  BY DEF Shape, StageInv, NoVerb
<1>2. command.at = "settled" /\ command.do = None
  BY <1>1 DEF NoCommand
<1>3. settle.last = None
  BY <1>2, NoneAssumption DEF Shape, StageInv
<1> QED BY <1>1, <1>2, <1>3, NobodyReplied

\* Where no reply is under way, any command may be next.
LEMMA SilentWire ==
    ASSUME Silent', socket' = "closed" => wire' = <<>>
    PROVE  WireInv'
PROOF BY DEF Silent, WireInv

LEMMA EndKeepsShape ==
    ASSUME Shape, NEW ok \in BOOLEAN, NEW quiet \in [from : Samples \cup {None}, to : Samples] \cup {None}, EndsWith(ok, quiet),
           Silent', wire' \in Seq(Message), socket' \in {"open", "closing", "closed"}, socket' = "closed" => wire' = <<>>,
           load' \in LoadState, page' \in PageState, UNCHANGED <<wrapped, alive, frames, chrome>>
    PROVE  Shape'
<1>1. /\ verb' \in Verb /\ verb' = NoVerb /\ command' = NoCommand /\ command' \in CommandState
      /\ settle' = NoSettle /\ settle' \in SettleState /\ ends' \in Seq(Ending)
  BY EndIsTyped DEF Shape
<1>2. PageTypes'
  BY <1>1 DEF PageTypes, Shape
<1>3. StageInv'
  BY <1>1, NoneAssumption DEF StageInv, NoVerb, NoCommand, NoSettle
<1> QED BY <1>2, <1>3, SilentWire DEF Shape

LEMMA GoKeepsShape ==
    ASSUME Shape, Silent', wire' \in Seq(Message), socket' = "closed" => wire' = <<>>,
           command' \in CommandState, verb' \in Verb, load' \in LoadState, page' \in PageState, settle' \in SettleState, StageInv',
           UNCHANGED <<wrapped, alive, socket, frames, chrome, ends>>
    PROVE  Shape'
PROOF BY SilentWire DEF Shape, PageTypes

LEMMA FailKeepsShape ==
    ASSUME Shape, Fails, Silent', wire' \in Seq(Message), socket' \in {"open", "closing", "closed"}, socket' = "closed" => wire' = <<>>,
           UNCHANGED <<wrapped, alive, frames, chrome>>
    PROVE  Shape'
<1>1. Left \in LoadState /\ page' \in PageState
  BY DEF Left, LoadState, Shape, PageTypes, Fails
<1> QED BY <1>1, EndKeepsShape DEF Fails, Ended

LEMMA DoneKeepsShape ==
    ASSUME Shape, Done, Silent', wire' \in Seq(Message), socket' = "closed" => wire' = <<>>,
           verb.name \in Acts \cup {"navigate"},
           UNCHANGED <<wrapped, alive, socket, frames, chrome>>
    PROVE  Shape'
<1>0. [load EXCEPT !.own = None] \in LoadState /\ page \in PageState /\ None \notin Commands
  BY NoneAssumption DEF LoadState, Shape, PageTypes
<1>1. CASE wrapped
  <2>1. /\ command' = Sent(Command("sample", Top, None)) /\ load' = [load EXCEPT !.own = None]
        /\ UNCHANGED <<verb, page, settle, ends>>
    BY <1>1 DEF Done
  <2>2. command' \in CommandState /\ command'.do = "sample" /\ command'.at # "settled"
    BY <2>1, SampleIsSent
  <2>3. StageInv'
    BY <2>1, <2>2, <1>0, NoneAssumption DEF Shape, StageInv
  <2> QED BY <2>1, <2>2, <2>3, <1>0, GoKeepsShape DEF Shape, PageTypes
<1>2. CASE ~ wrapped
  <2>1. Ended(TRUE) /\ load' = [load EXCEPT !.own = None] /\ UNCHANGED page
    BY <1>2 DEF Done
  <2> QED BY <2>1, <1>0, EndKeepsShape DEF Ended, Shape, PageTypes
<1> QED BY <1>1, <1>2

LEMMA SiteKeepsShape ==
    ASSUME Shape, Site \/ ChromeGone \/ Close
    PROVE  Shape'
<1>1. PageTypes'
  BY SiteTypes DEF Shape
<1>2. /\ UNCHANGED <<wrapped, command, verb, page, settle>>
      /\ socket' # "closed"
      /\ wire' = wire \/ \E k \in Notices : wire' = Append(wire, Event(k))
  BY DEF Site, SiteNavigates, Mutate, Request, Respond, FiresLoad, ChromeGone, Close, world, Notices
<1>3. StageInv'
  BY <1>2 DEF Shape, StageInv
<1>4. WireInv'
  <2>1. CASE wire' = wire
    BY <1>2, <2>1 DEF Shape, WireInv
  <2>2. ASSUME NEW k \in Notices, wire' = Append(wire, Event(k)) PROVE WireInv'
    <3>1. Event(k) \in Message /\ Event(k).kind = k /\ ~ IsReply(Event(k))
      BY MessagesAre DEF Notices, IsReply
    <3>2. /\ DOMAIN wire' = 1 .. Len(wire) + 1 /\ DOMAIN wire = 1 .. Len(wire) /\ Len(wire) \in Nat
          /\ \A i \in 1 .. Len(wire) : wire'[i] = wire[i]
          /\ wire'[Len(wire) + 1] = Event(k)
      BY <2>2, <3>1, SendsOne DEF Shape, PageTypes
    <3>3. \A i \in DOMAIN wire' : IsReply(wire'[i]) => i \in DOMAIN wire /\ wire'[i] = wire[i]
      BY <3>1, <3>2
    <3> QED BY <1>2, <3>3 DEF Shape, WireInv, IsReply
  <2> QED BY <1>2, <2>1, <2>2
<1> QED BY <1>1, <1>3, <1>4 DEF Shape

LEMMA CarriedCommand ==
    ASSUME Shape, NEW ok \in BOOLEAN, NEW value \in Answer, Carried(ok, value)
    PROVE  /\ command' \in CommandState /\ command'.at = "answered" /\ command.at = "chrome"
           /\ command'.do = command.do /\ command'.frame = command.frame /\ command'.doc = command.doc /\ command'.then = command.then
PROOF BY DEF Carried, CommandState, Shape, PageTypes

\* The reply is the last there is on the wire, and the only one.
LEMMA CarriedReply ==
    ASSUME Shape, NEW ok \in BOOLEAN, NEW value \in Answer, Carried(ok, value)
    PROVE  /\ wire' \in Seq(Message)
           /\ \A i \in DOMAIN wire' : IsReply(wire'[i]) => i = Len(wire') /\ wire'[i] = Reply(ok, value)
<1>4. Silent
  BY CarriedCommand, NobodyReplied
<1>5. Reply(ok, value) \in Message /\ Event("edge") \in Message /\ ~ IsReply(Event("edge"))
  BY MessagesAre DEF Notices, IsReply
<1>1. CASE wire' = Append(wire, Reply(ok, value))
  BY <1>1, <1>4, <1>5, SendsOne DEF Silent, Shape, PageTypes
<1>2. CASE wire' = wire \o <<Event("edge"), Reply(ok, value)>>
  BY <1>2, <1>4, <1>5, SendsTwo DEF Silent, Shape, PageTypes
<1> QED BY <1>1, <1>2 DEF Carried

LEMMA ExecuteKeepsShape ==
    ASSUME Shape, Execute
    PROVE  Shape'
<1>1. PICK ok \in BOOLEAN, value \in Answer : Carried(ok, value)
  BY ExecuteCarries DEF Shape
<1>2. /\ frames' \in [Frames -> Nat] /\ chrome' \in Chrome
      /\ UNCHANGED <<wrapped, alive, socket, verb, load, page, settle, ends>>
  BY ExecuteCarries DEF Shape
<1>3. /\ command' \in CommandState /\ command'.at = "answered" /\ command.at = "chrome"
      /\ command'.do = command.do /\ command'.frame = command.frame /\ command'.doc = command.doc /\ command'.then = command.then
  BY <1>1, CarriedCommand
<1>6. wire' \in Seq(Message) /\ \A i \in DOMAIN wire' : IsReply(wire'[i]) => i = Len(wire') /\ wire'[i] = Reply(ok, value)
  BY <1>1, CarriedReply
<1>7. WireInv'
  BY <1>1, <1>2, <1>6 DEF WireInv, Carried
<1>8. PageTypes'
  BY <1>2, <1>3, <1>6 DEF Shape, PageTypes
<1>9. StageInv'
  <2>1. command' # NoCommand /\ command.at # "settled"
    BY <1>3 DEF NoCommand
  <2>2. verb.name # None
    BY <1>3 DEF Shape, StageInv, NoCommand
  <2> QED BY <1>2, <1>3, <2>1, <2>2 DEF Shape, StageInv, Aimed
<1> QED BY <1>7, <1>8, <1>9 DEF Shape

LEMMA HearKeepsShape ==
    ASSUME Shape, Hear
    PROVE  Shape'
<1>1. /\ Tail(wire) \in Seq(Message) /\ Len(Tail(wire)) = Len(wire) - 1 /\ Len(wire) \in Nat \ {0}
      /\ DOMAIN Tail(wire) = 1 .. Len(wire) - 1 /\ DOMAIN wire = 1 .. Len(wire)
      /\ \A i \in 1 .. Len(wire) - 1 : Tail(wire)[i] = wire[i + 1]
      /\ Head(wire) = wire[1] /\ Head(wire) \in Message
  BY Takes DEF Hear, Shape, PageTypes
<1>2. wire' = Tail(wire) /\ UNCHANGED <<wrapped, alive, frames, chrome, socket, command, verb, settle, ends>>
  BY DEF Hear, world
<1>3. load' \in LoadState /\ page' \in PageState /\ page'.contexts = page.contexts
  <2>1. CASE Head(wire).kind = "load"
    <3> DEFINE own == IF load.own = "armed" THEN "fired" ELSE load.own
    <3>1. own \in {None, "armed", "fired"}
      BY DEF LoadState, Shape, PageTypes
    <3>2. load' = [own |-> own, stray |-> FALSE] /\ page' = page
      BY <2>1 DEF Hear
    <3> HIDE DEF own
    <3>3. load' \in LoadState
      BY <3>1, <3>2 DEF LoadState
    <3> QED BY <3>2, <3>3 DEF Shape, PageTypes
  <2>2. CASE Head(wire).kind # "load"
    <3>1. page' = Counted(Head(wire).kind) /\ UNCHANGED load
      BY <2>2 DEF Hear
    <3> DEFINE n == IF Head(wire).kind = "request" THEN page.pending + 1 ELSE IF Head(wire).kind = "response" THEN page.pending - 1 ELSE page.pending
    <3>2. n \in Int /\ page.version + 1 \in Nat
      BY DEF Shape, PageTypes, PageState
    <3>3. page' = [page EXCEPT !.version = page.version + 1, !.pending = n]
      BY <3>1, <2>2 DEF Counted
    <3> HIDE DEF n
    <3> QED BY <3>1, <3>2, <3>3 DEF Shape, PageTypes, PageState
  <2> QED BY <2>1, <2>2
<1>4. WireInv'
  <2>1. \A i \in DOMAIN wire' : i + 1 \in DOMAIN wire /\ wire'[i] = wire[i + 1] /\ i \in Nat
    BY <1>1, <1>2
  <2>2. wire # <<>>
    BY DEF Hear
  <2> QED BY <1>2, <2>1, <2>2 DEF Shape, WireInv
<1>5. StageInv'
  BY <1>2, <1>3 DEF Shape, StageInv, Aimed
<1>6. PageTypes'
  BY <1>1, <1>2, <1>3 DEF Shape, PageTypes
<1> QED BY <1>4, <1>5, <1>6 DEF Shape

\* A verb starts with a command of its own.
LEMMA StartKeepsShape ==
    ASSUME Shape, Navigate \/ Capture \/ \E name \in Acts : Act(name)
    PROVE  Shape'
<1>0. /\ verb = NoVerb /\ command = NoCommand /\ Silent
      /\ settle.last = None /\ command.do = None /\ verb.link = FALSE
      /\ UNCHANGED <<wrapped, alive, frames, chrome, socket, wire, page, settle, ends>>
  <2>1. verb = NoVerb /\ UNCHANGED <<wrapped, alive, frames, chrome, socket, wire, page, settle, ends>>
    BY DEF Navigate, Capture, Act, Start, world
  <2> QED BY <2>1, NoVerbNoCommand DEF NoVerb
<1>1. Silent' /\ wire' \in Seq(Message) /\ (socket' = "closed" => wire' = <<>>)
  BY <1>0 DEF Silent, Shape, PageTypes, WireInv
<1>2. page' \in PageState /\ settle' \in SettleState
  BY <1>0 DEF Shape, PageTypes
<1>3. CASE Navigate
  <2>1. /\ command' = Sent(Command("navigate", Top, None))
        /\ verb' = [NoVerb EXCEPT !.name = "navigate"] /\ load' = [load EXCEPT !.own = "armed"]
    BY <1>3 DEF Navigate, Start
  <2>2. /\ command'.do = "navigate" /\ command'.at # "settled" /\ command' \in CommandState
    BY <2>1, PlainIsSent
  <2>3. verb' \in Verb /\ verb'.name = "navigate" /\ verb'.link = FALSE /\ load' \in LoadState
    BY <2>1, VerbIsTyped, LoadIsTyped DEF Shape, PageTypes
  <2>4. StageInv'
    BY <1>0, <2>2, <2>3, NoneAssumption DEF StageInv
  <2> QED BY <1>0, <1>1, <1>2, <2>2, <2>3, <2>4, GoKeepsShape
<1>4. CASE Capture
  <2>1. /\ command' = Sent(Command("tree", Top, None))
        /\ verb' = [NoVerb EXCEPT !.name = "capture"] /\ load' = load
    BY <1>4 DEF Capture, Start
  <2>2. /\ command'.do = "tree" /\ command'.at # "settled" /\ command' \in CommandState
    BY <2>1, PlainIsSent
  <2>3. verb' \in Verb /\ verb'.name = "capture" /\ verb'.link = FALSE /\ load' \in LoadState
    BY <2>1, VerbIsTyped DEF Shape, PageTypes
  <2>4. StageInv'
    BY <1>0, <2>2, <2>3, NoneAssumption DEF StageInv
  <2> QED BY <1>0, <1>1, <1>2, <2>2, <2>3, <2>4, GoKeepsShape
<1>5. ASSUME NEW name \in Acts, Act(name) PROVE Shape'
  <2>1. PICK f \in DOMAIN page.contexts, link \in BOOLEAN :
           /\ link => name = "click"
           /\ command' = Sent(DispatchOf(FirstEvaluation(name), f))
           /\ verb' = [NoVerb EXCEPT !.name = name, !.aim = Aim(f), !.link = link]
           /\ load' = load
    BY <1>5 DEF Act, Start
  <2>2. f \in Frames /\ page.contexts[f].made \in Nat
    BY DEF Shape, PageTypes, PageState, Contexts
  <2>3. Aim(f) \in [frame : Frames, doc : Nat]
    BY <2>2 DEF Aim
  <2>4. /\ verb' \in Verb /\ verb'.name = name /\ verb'.link = link /\ verb'.aim = [frame |-> f, doc |-> page.contexts[f].made]
        /\ load' \in LoadState
    <3>1. name \in Verbs /\ Aim(f) \in [frame : Frames, doc : Nat] \cup {None} /\ load' \in LoadState
      BY <2>1, <2>3 DEF Shape, PageTypes
    <3> HIDE DEF Verbs
    <3>2. /\ verb' \in Verb /\ verb'.name = name /\ verb'.link = link /\ verb'.aim = Aim(f)
      <4>1. <<>> \in Seq(Nat)
        OBVIOUS
      <4> QED BY <2>1, <3>1, <4>1 DEF NoVerb, Verb
    <3> QED BY <3>1, <3>2 DEF Aim
  <2>5. FirstEvaluation(name) \in {"href", "evaluate"}
    BY DEF FirstEvaluation
  <2>6. CASE wrapped
    <3>1. /\ command'.do \in {"href", "evaluate"} /\ command'.frame = Top /\ command'.at # "settled" /\ command' \in CommandState
      BY <2>1, <2>5, <2>6, PlainIsSent DEF DispatchOf
    <3>2. StageInv'
      BY <1>0, <2>1, <2>4, <2>6, <3>1, NoneAssumption DEF StageInv
    <3> QED BY <1>0, <1>1, <1>2, <2>4, <3>1, <3>2, GoKeepsShape
  <2>7. CASE ~ wrapped
    <3>1. DispatchOf(FirstEvaluation(name), f) = [Command("check", f, None) EXCEPT !.then = FirstEvaluation(name)]
      BY <2>7 DEF DispatchOf
    <3>2. /\ command'.do = "check" /\ command'.frame = f /\ command'.then \in {"href", "evaluate"}
          /\ command'.at # "settled" /\ command' \in CommandState
      BY <2>1, <2>2, <2>5, <3>1, SentIsTyped
    <3>3. Aimed(command', verb', page'.contexts)
      BY <1>0, <2>1, <2>4, <3>2 DEF Aimed
    <3>4. StageInv'
      BY <1>0, <2>1, <2>2, <2>4, <2>7, <3>2, <3>3, NoneAssumption DEF StageInv
    <3> QED BY <1>0, <1>1, <1>2, <2>4, <3>2, <3>4, GoKeepsShape
  <2> QED BY <2>6, <2>7
<1> QED BY <1>3, <1>4, <1>5

LEMMA PausesKeepShape ==
    ASSUME Shape, Tick \/ Wake \/ Loaded
    PROVE  Shape'
<1>1. CASE Tick
  <2>1. /\ settle' \in SettleState /\ settle'.last = settle.last
        /\ UNCHANGED <<wrapped, alive, frames, chrome, socket, wire, command, verb, load, page, ends>>
    BY <1>1, SettleIsTyped DEF Tick, Shape, PageTypes, world
  <2>2. WireInv' /\ StageInv'
    BY <2>1 DEF Shape, WireInv, StageInv
  <2>3. PageTypes'
    BY <2>1 DEF Shape, PageTypes
  <2> QED BY <2>2, <2>3 DEF Shape
<1>2. CASE Wake
  <2>1. /\ command.do = "sleep" /\ command' = Sent(Command("sample", Top, None))
        /\ UNCHANGED <<wrapped, alive, frames, chrome, socket, wire, verb, load, page, settle, ends>>
    BY <1>2 DEF Wake, world
  <2>2. /\ command'.do = "sample" /\ command'.at # "settled" /\ command' \in CommandState
    BY <2>1, SampleIsSent
  <2>3. Silent
    BY <2>1, NobodyReplied DEF Shape, StageInv
  <2>4. Silent' /\ wire' \in Seq(Message) /\ (socket' = "closed" => wire' = <<>>)
    BY <2>1, <2>3 DEF Silent, Shape, PageTypes, WireInv
  <2>5. StageInv'
    BY <2>1, <2>2, NoneAssumption DEF Shape, StageInv, NoCommand
  <2> QED BY <2>1, <2>2, <2>4, <2>5, GoKeepsShape DEF Shape, PageTypes
<1>3. CASE Loaded
  <2>1. /\ command.do = "loaded" /\ Done
        /\ UNCHANGED <<wrapped, alive, frames, chrome, socket, wire>>
    BY <1>3 DEF Loaded, world
  <2>2. Silent
    BY <2>1, NobodyReplied DEF Shape, StageInv
  <2>3. Silent' /\ wire' \in Seq(Message) /\ (socket' = "closed" => wire' = <<>>)
    BY <2>1, <2>2 DEF Silent, Shape, PageTypes, WireInv
  <2>4. verb.name \in Acts \cup {"navigate"}
    BY <2>1 DEF Shape, StageInv
  <2> QED BY <2>1, <2>3, <2>4, DoneKeepsShape
<1> QED BY <1>1, <1>2, <1>3

LEMMA ContextsAreTyped ==
    ASSUME NEW made \in Seq(Nat), ~ Len(made) < Len(Order), verb.tree \in [Frames -> Nat]
    PROVE  ContextsOf(made) \in Contexts
<1>1. Order = <<Top, Child>> /\ Len(Order) = 2 /\ DOMAIN Order = 1 .. 2 /\ Order[1] = Top /\ Order[2] = Child
  BY DEF Order
<1>2. ASSUME NEW f \in Frames PROVE made[CHOOSE i \in DOMAIN Order : Order[i] = f] \in Nat
  <2>1. \E i \in DOMAIN Order : Order[i] = f
    BY <1>1
  <2>2. PICK i \in 1 .. 2 : i = CHOOSE n \in DOMAIN Order : Order[n] = f
    BY <1>1, <2>1
  <2>3. Len(made) \in Nat /\ Len(made) >= 2
    BY <1>1
  <2>3a. \A j \in 1 .. 2 : made[j] \in Nat
    BY <2>3
  <2>4. made[i] \in Nat
    BY <2>3a
  <2> QED BY <2>2, <2>4
<1>3. \A f \in Frames : [token |-> verb.tree[f], made |-> made[CHOOSE i \in DOMAIN Order : Order[i] = f]] \in [token : Nat, made : Nat]
  BY <1>2
<1>4. ContextsOf(made) \in [Frames -> [token : Nat, made : Nat]]
  BY <1>3 DEF ContextsOf
<1> QED BY <1>4 DEF Contexts

\* The replies that lead to another command.
LEMMA CaptureKeepsShape ==
    ASSUME Shape, TreeRead \/ WorldMade \/ Serialized
    PROVE  Shape'
<1> USE NoneAssumption
<1>1. CASE TreeRead
  <2>1. /\ Replied("tree")
        /\ verb' = [verb EXCEPT !.tree = Value] /\ command' = Sent(Command("world", Order[1], None))
        /\ UNCHANGED <<load, page, settle, ends>>
    BY <1>1 DEF TreeRead
  <2>2. /\ Silent' /\ wire' \in Seq(Message) /\ command.do = "tree" /\ command.at = "answered" /\ Value \in [Frames -> Nat]
        /\ socket # "closed" /\ UNCHANGED <<wrapped, alive, frames, chrome, socket>>
    BY <2>1, RepliedIsLast DEF Fits, Value
  <2>3. /\ command'.do = "world" /\ command'.frame = Top /\ command'.at # "settled" /\ command' \in CommandState
    BY <2>1, PlainIsSent DEF Order
  <2>4. verb' \in Verb /\ verb'.name = verb.name /\ verb'.link = verb.link /\ verb'.tree \in [Frames -> Nat]
    BY <2>1, <2>2 DEF Verb, Shape, PageTypes
  <2>5. StageInv'
    BY <2>1, <2>2, <2>3, <2>4 DEF Shape, StageInv
  <2> QED BY <2>1, <2>2, <2>3, <2>4, <2>5, GoKeepsShape DEF Shape, PageTypes
<1>2. CASE WorldMade
  <2>1. /\ Replied("world")
        /\ command' = Sent(Command("serialize", command.frame, Value))
        /\ UNCHANGED <<verb, load, page, settle, ends>>
    BY <1>2 DEF WorldMade
  <2>2. /\ Silent' /\ wire' \in Seq(Message) /\ command.do = "world" /\ command.at = "answered" /\ Value \in Nat
        /\ socket # "closed" /\ UNCHANGED <<wrapped, alive, frames, chrome, socket>>
    BY <2>1, RepliedIsLast DEF Fits, Value
  <2>3. command.frame \in Frames
    BY <2>2 DEF Shape, StageInv
  <2>4. /\ command'.do = "serialize" /\ command'.frame \in Frames /\ command'.doc \in Nat
        /\ command'.at # "settled" /\ command' \in CommandState
    <3>1. "serialize" \in Commands /\ command.frame \in Place /\ Value \in Document
      BY <2>2, <2>3
    <3> HIDE DEF Commands, Place, Document
    <3> QED BY <2>1, <2>2, <2>3, <3>1, PlainIsSent
  <2>5. StageInv'
    BY <2>1, <2>2, <2>4 DEF Shape, StageInv
  <2> QED BY <2>1, <2>2, <2>4, <2>5, GoKeepsShape DEF Shape, PageTypes
<1>3. CASE Serialized
  <2> DEFINE made == Append(verb.made, command.doc)
  <2>1. /\ Replied("serialize")
        /\ IF ~ Ok THEN Fails
           ELSE IF Len(made) < Len(Order)
           THEN /\ verb' = [verb EXCEPT !.made = made]
                /\ command' = Sent(Command("world", Order[Len(made) + 1], None))
                /\ UNCHANGED <<load, page, settle, ends>>
           ELSE /\ page' = [page EXCEPT !.contexts = ContextsOf(made)]
                /\ Ended(TRUE) /\ UNCHANGED load
    BY <1>3 DEF Serialized
  <2>2. /\ Silent' /\ wire' \in Seq(Message) /\ command.do = "serialize" /\ command.at = "answered" /\ Ok \in BOOLEAN
        /\ socket # "closed" /\ UNCHANGED <<wrapped, alive, frames, chrome, socket>>
    BY <2>1, RepliedIsLast
  <2>3. socket' \in {"open", "closing", "closed"} /\ socket' # "closed"
    BY <2>2 DEF Shape, PageTypes
  <2>4. command.doc \in Nat /\ verb.tree \in [Frames -> Nat] /\ verb.made \in Seq(Nat)
    BY <2>2 DEF Shape, StageInv, PageTypes, Verb
  <2>5. made \in Seq(Nat) /\ Len(made) >= 1
    BY <2>4
  <2> HIDE DEF made
  <2>6. CASE ~ Ok
    BY <2>1, <2>2, <2>3, <2>6, FailKeepsShape
  <2>7. CASE Ok /\ Len(made) < Len(Order)
    <3>1. /\ verb' = [verb EXCEPT !.made = made]
          /\ command' = Sent(Command("world", Order[Len(made) + 1], None))
          /\ UNCHANGED <<load, page, settle, ends>>
      BY <2>1, <2>7
    <3>2. Len(made) = 1 /\ Order[Len(made) + 1] = Child
      <4>1. Len(Order) = 2 /\ Order[2] = Child /\ Len(made) \in Nat
        BY <2>5 DEF Order
      <4>2. Len(made) = 1
        <5>1. Len(made) < Len(Order)
          BY <2>7
        <5>2. Len(made) >= 1
          BY <2>5
        <5> QED BY ONLY <4>1, <5>1, <5>2
      <4> QED BY <4>1, <4>2
    <3>3. /\ command'.do = "world" /\ command'.frame \in Frames /\ command'.at # "settled" /\ command' \in CommandState
      BY <3>1, <3>2, PlainIsSent
    <3>4. verb' \in Verb /\ verb'.name = verb.name /\ verb'.link = verb.link /\ verb'.tree = verb.tree
      BY <3>1, <2>5 DEF Verb, Shape, PageTypes
    <3>5. StageInv'
      BY <2>2, <2>4, <3>1, <3>3, <3>4 DEF Shape, StageInv
    <3> QED BY <2>2, <3>1, <3>3, <3>4, <3>5, GoKeepsShape DEF Shape, PageTypes
  <2>8. CASE Ok /\ ~ Len(made) < Len(Order)
    <3>1. /\ page' = [page EXCEPT !.contexts = ContextsOf(made)]
          /\ Ended(TRUE) /\ UNCHANGED load
      BY <2>1, <2>8
    <3>2. ContextsOf(made) \in Contexts
      BY <2>4, <2>5, <2>8, ContextsAreTyped
    <3>3. page' \in PageState /\ load' \in LoadState
      BY <3>1, <3>2 DEF PageState, Shape, PageTypes
    <3> QED BY <2>2, <2>3, <3>1, <3>3, EndKeepsShape DEF Ended
  <2> QED BY <2>2, <2>6, <2>7, <2>8
<1> QED BY <1>1, <1>2, <1>3

LEMMA DispatchKeepsShape ==
    ASSUME Shape, Checked \/ HrefRead \/ Evaluated
    PROVE  Shape'
<1>1. CASE Checked
  <2> DEFINE f == command.frame
  <2>1. /\ Replied("check")
        /\ IF Value[f] # page.contexts[f].token THEN Fails
           ELSE /\ command' = Sent(InWorld(command.then, f))
                /\ UNCHANGED <<verb, load, page, settle, ends>>
    BY <1>1 DEF Checked
  <2>2. /\ Silent' /\ wire' \in Seq(Message) /\ command.do = "check" /\ command.at = "answered"
        /\ socket # "closed" /\ UNCHANGED <<wrapped, alive, frames, chrome, socket>>
        /\ socket' \in {"open", "closing", "closed"}
    BY <2>1, RepliedIsLast DEF Shape, PageTypes
  <2>3. CASE Fails
    BY <2>2, <2>3, FailKeepsShape
  <2>4. CASE command' = Sent(InWorld(command.then, f)) /\ UNCHANGED <<verb, load, page, settle, ends>>
    <3>1. /\ f \in DOMAIN page.contexts /\ f \in Frames /\ page.contexts[f].made \in Nat
          /\ command.then \in {"href", "evaluate"} /\ ~ wrapped
          /\ verb.aim = [frame |-> f, doc |-> page.contexts[f].made] /\ verb.name \in Acts
      BY <2>2 DEF Shape, StageInv, Aimed, PageTypes, PageState, Contexts
    <3>2. command.then \in Commands /\ f \in Place /\ page.contexts[f].made \in Document
      BY <3>1
    <3>3. /\ command'.do = command.then /\ command'.frame = f /\ command'.doc = page.contexts[f].made
          /\ command'.at # "settled" /\ command' \in CommandState
      <4> HIDE DEF Commands, Place, Document
      <4> QED BY <2>4, <3>2, PlainIsSent DEF InWorld
    <3>4. Aimed(command', verb', page'.contexts)
      BY <2>4, <3>1, <3>3 DEF Aimed
    <3>5. StageInv'
      BY <2>2, <2>4, <3>1, <3>3, <3>4, NoneAssumption DEF Shape, StageInv
    <3> QED BY <2>2, <2>4, <3>3, <3>5, GoKeepsShape DEF Shape, PageTypes
  <2> QED BY <2>1, <2>3, <2>4
<1>2. CASE HrefRead
  <2>1. /\ Replied("href")
        /\ IF ~ Ok THEN Fails
           ELSE /\ command' = Sent(DispatchOf("evaluate", command.frame))
                /\ UNCHANGED <<verb, load, page, settle, ends>>
    BY <1>2 DEF HrefRead
  <2>2. /\ Silent' /\ wire' \in Seq(Message) /\ command.do = "href" /\ command.at = "answered"
        /\ socket # "closed" /\ UNCHANGED <<wrapped, alive, frames, chrome, socket>>
        /\ socket' \in {"open", "closing", "closed"}
    BY <2>1, RepliedIsLast DEF Shape, PageTypes
  <2>3. CASE Fails
    BY <2>2, <2>3, FailKeepsShape
  <2>4. CASE command' = Sent(DispatchOf("evaluate", command.frame)) /\ UNCHANGED <<verb, load, page, settle, ends>>
    <3>1. command.frame \in Frames /\ verb.name \in Acts /\ settle.last = None
      BY <2>2 DEF Shape, StageInv
    <3>2. CASE wrapped
      <4>1. DispatchOf("evaluate", command.frame) = Command("evaluate", Top, None)
        BY <3>2 DEF DispatchOf
      <4>2. /\ command'.do = "evaluate" /\ command'.frame = Top /\ command'.at # "settled" /\ command' \in CommandState
        <5>1. "evaluate" \in Commands /\ Top \in Place /\ None \in Document
          OBVIOUS
        <5> HIDE DEF Commands, Place, Document
        <5> QED BY <2>4, <4>1, <5>1, PlainIsSent
      <4>3. StageInv'
        BY <2>2, <2>4, <3>1, <3>2, <4>2, NoneAssumption DEF Shape, StageInv
      <4> QED BY <2>2, <2>4, <4>2, <4>3, GoKeepsShape DEF Shape, PageTypes
    <3>3. CASE ~ wrapped
      <4>1. DispatchOf("evaluate", command.frame) = [Command("check", command.frame, None) EXCEPT !.then = "evaluate"]
        BY <3>3 DEF DispatchOf
      <4>2. "check" \in Commands /\ command.frame \in Place /\ None \in Document
        BY <3>1
      <4>3. /\ command'.do = "check" /\ command'.frame = command.frame /\ command'.then = "evaluate"
            /\ command'.at # "settled" /\ command' \in CommandState
        <5> HIDE DEF Commands, Place, Document
        <5> QED BY <2>4, <4>1, <4>2, SentIsTyped
      <4>4. Aimed(command', verb', page'.contexts)
        BY <2>2, <2>4, <3>3, <4>3 DEF Aimed, Shape, StageInv
      <4>5. StageInv'
        BY <2>2, <2>4, <3>1, <3>3, <4>3, <4>4, NoneAssumption DEF Shape, StageInv
      <4> QED BY <2>2, <2>4, <4>3, <4>5, GoKeepsShape DEF Shape, PageTypes
    <3> QED BY <3>2, <3>3
  <2> QED BY <2>1, <2>3, <2>4
<1>3. CASE Evaluated
  <2>1. /\ Replied("evaluate")
        /\ \/ Done \/ Fails
           \/ /\ verb.link
              /\ command' = Sent(Command("navigate", Top, None)) /\ load' = [load EXCEPT !.own = "armed"]
              /\ UNCHANGED <<verb, page, settle, ends>>
    BY <1>3 DEF Evaluated
  <2>2. /\ Silent' /\ wire' \in Seq(Message) /\ command.do = "evaluate" /\ command.at = "answered"
        /\ socket # "closed" /\ UNCHANGED <<wrapped, alive, frames, chrome, socket>>
        /\ socket' \in {"open", "closing", "closed"}
    BY <2>1, RepliedIsLast DEF Shape, PageTypes
  <2>3. verb.name \in Acts
    BY <2>2 DEF Shape, StageInv
  <2>4. CASE verb.link /\ command' = Sent(Command("navigate", Top, None)) /\ load' = [load EXCEPT !.own = "armed"]
             /\ UNCHANGED <<verb, page, settle, ends>>
    <3>1. /\ command'.do = "navigate" /\ command'.at # "settled" /\ command' \in CommandState
      BY <2>4, PlainIsSent
    <3>2. load' \in LoadState
      BY <2>4, LoadIsTyped DEF Shape, PageTypes
    <3>3. StageInv'
      BY <2>2, <2>3, <2>4, <3>1, NoneAssumption DEF Shape, StageInv
    <3> QED BY <2>2, <2>4, <3>1, <3>2, <3>3, GoKeepsShape DEF Shape, PageTypes
  <2> QED BY <2>1, <2>2, <2>3, <2>4, FailKeepsShape, DoneKeepsShape
<1> QED BY <1>1, <1>2, <1>3

LEMMA SamplesAreTyped ==
    ASSUME Shape, Replied("sample")
    PROVE  Sample \in Samples /\ Sample.version = page.version /\ Sample.doc = Value.doc /\ Value \in Reading
           /\ Sample.mutations = Value.mutations /\ Sample.pending = page.pending
<1>1. Value \in Reading
  BY RepliedIsLast DEF Fits, Value
<1>2. page.version \in Nat /\ page.pending \in Int
  BY DEF Shape, PageTypes, PageState
<1> QED BY <1>1, <1>2 DEF Sample, Samples, Reading

LEMMA WaitKeepsShape ==
    ASSUME Shape, NavigateReplied \/ Sampled
    PROVE  Shape'
<1>1. CASE NavigateReplied
  <2>1. /\ Replied("navigate")
        /\ \/ Fails
           \/ command' = [NoCommand EXCEPT !.do = "loaded"] /\ UNCHANGED <<verb, load, page, settle, ends>>
    BY <1>1 DEF NavigateReplied
  <2>2. /\ Silent' /\ wire' \in Seq(Message) /\ command.do = "navigate" /\ command.at = "answered"
        /\ socket # "closed" /\ UNCHANGED <<wrapped, alive, frames, chrome, socket>>
        /\ socket' \in {"open", "closing", "closed"} /\ verb.name # None
    BY <2>1, RepliedIsLast DEF Shape, PageTypes
  <2>3. CASE Fails
    BY <2>2, <2>3, FailKeepsShape
  <2>4. CASE command' = [NoCommand EXCEPT !.do = "loaded"] /\ UNCHANGED <<verb, load, page, settle, ends>>
    <3>1. command' \in CommandState /\ command'.do = "loaded" /\ command'.at = "settled"
      BY <2>4, PauseIsTyped
    <3>2. StageInv'
      BY <2>2, <2>4, <3>1, NoneAssumption DEF Shape, StageInv
    <3> QED BY <2>2, <2>4, <3>1, <3>2, GoKeepsShape DEF Shape, PageTypes
  <2> QED BY <2>1, <2>3, <2>4
<1>2. CASE Sampled
  <2> DEFINE s == Sample
             stirred == Changed(s, settle.last) \/ s.pending > 0
             since == IF stirred THEN settle.clock ELSE settle.changed
             from == IF stirred THEN s ELSE settle.from
  <2>1. /\ Replied("sample")
        /\ \/ EndsWith(TRUE, [from |-> from, to |-> s]) /\ UNCHANGED <<load, page>>
           \/ Fails
           \/ /\ settle' = [settle EXCEPT !.changed = since, !.from = from, !.last = s, !.due = settle.clock + 1]
              /\ command' = [NoCommand EXCEPT !.do = "sleep"]
              /\ UNCHANGED <<verb, load, page, ends>>
    BY <1>2 DEF Sampled
  <2>2. /\ Silent' /\ wire' \in Seq(Message) /\ command.do = "sample" /\ command.at = "answered"
        /\ socket # "closed" /\ UNCHANGED <<wrapped, alive, frames, chrome, socket>>
        /\ socket' \in {"open", "closing", "closed"} /\ verb.name # None
    BY <2>1, RepliedIsLast DEF Shape, PageTypes
  <2>3. s \in Samples /\ since \in Nat /\ from \in Samples \cup {None} /\ settle.clock + 1 \in Nat
    BY <2>1, SamplesAreTyped DEF Shape, PageTypes, SettleState
  <2> HIDE DEF s, since, from
  <2>4. CASE EndsWith(TRUE, [from |-> from, to |-> s]) /\ UNCHANGED <<load, page>>
    <3>1. [from |-> from, to |-> s] \in [from : Samples \cup {None}, to : Samples] \cup {None}
      BY <2>3
    <3> QED BY <2>2, <2>4, <3>1, EndKeepsShape DEF Shape, PageTypes
  <2>5. CASE Fails
    BY <2>2, <2>5, FailKeepsShape
  <2>6. CASE /\ settle' = [settle EXCEPT !.changed = since, !.from = from, !.last = s, !.due = settle.clock + 1]
             /\ command' = [NoCommand EXCEPT !.do = "sleep"]
             /\ UNCHANGED <<verb, load, page, ends>>
    <3>1. command' \in CommandState /\ command'.do = "sleep" /\ command'.at = "settled"
      BY <2>6, PauseIsTyped
    <3>2. settle' \in SettleState
      BY <2>3, <2>6 DEF Shape, PageTypes, SettleState
    <3>3. StageInv'
      BY <2>2, <2>6, <3>1, NoneAssumption DEF Shape, StageInv
    <3> QED BY <2>2, <2>6, <3>1, <3>2, <3>3, GoKeepsShape DEF Shape, PageTypes
  <2> QED BY <2>1, <2>4, <2>5, <2>6
<1> QED BY <1>1, <1>2

LEMMA LossKeepsShape ==
    ASSUME Shape, SocketClosed \/ LoadTimesOut
    PROVE  Shape'
<1>1. CASE SocketClosed
  <2>1. /\ socket' = "closed" /\ wire' = <<>> /\ UNCHANGED <<wrapped, alive, frames, chrome>>
        /\ Fails \/ UNCHANGED <<command, verb, load, page, settle, ends>>
    BY <1>1 DEF SocketClosed, world
  <2>2. Silent' /\ wire' \in Seq(Message)
    BY <2>1 DEF Silent
  <2>3. CASE Fails
    BY <2>1, <2>2, <2>3, FailKeepsShape
  <2>4. CASE UNCHANGED <<command, verb, load, page, settle, ends>>
    <3>1. StageInv' /\ WireInv'
      BY <2>1, <2>2, <2>4, SilentWire DEF Shape, StageInv
    <3>2. PageTypes'
      BY <2>1, <2>2, <2>4 DEF Shape, PageTypes
    <3> QED BY <3>1, <3>2 DEF Shape
  <2> QED BY <2>1, <2>3, <2>4
<1>2. CASE LoadTimesOut
  <2>1. UNCHANGED <<wrapped, frames, chrome, socket, wire>>
    BY <1>2 DEF LoadTimesOut
  <2>2. CASE /\ load.own = "armed" /\ command.do = "loaded"
             /\ Ended(FALSE) /\ load' = [load EXCEPT !.own = None] /\ UNCHANGED <<page, alive>>
    <3>1. Silent
      BY <2>2, NobodyReplied DEF Shape, StageInv
    <3>2. Silent' /\ wire' \in Seq(Message) /\ (socket' = "closed" => wire' = <<>>) /\ socket' \in {"open", "closing", "closed"}
      BY <2>1, <3>1 DEF Silent, Shape, PageTypes, WireInv
    <3>3. load' \in LoadState /\ page' \in PageState
      BY <2>2, LoadIsTyped DEF Shape, PageTypes
    <3> QED BY <2>1, <2>2, <3>2, <3>3, EndKeepsShape DEF Ended
  <2>3. CASE alive' = FALSE /\ UNCHANGED <<command, verb, load, page, settle, ends>>
    <3>1. StageInv' /\ WireInv'
      BY <2>1, <2>3 DEF Shape, StageInv, WireInv
    <3>2. PageTypes'
      BY <2>1, <2>3 DEF Shape, PageTypes
    <3> QED BY <3>1, <3>2 DEF Shape
  <2> QED BY <1>2, <2>2, <2>3 DEF LoadTimesOut
<1> QED BY <1>1, <1>2

LEMMA InitShape == Init => Shape
<1> SUFFICES ASSUME Init PROVE Shape
  OBVIOUS
<1>1. WireInv
  BY DEF Init, WireInv
<1>2. StageInv
  BY NoneAssumption DEF Init, StageInv, NoVerb, NoCommand, NoSettle
<1> QED BY <1>1, <1>2, InitTypes DEF Shape

LEMMA ShapeSteps == Shape /\ [Next]_vars => Shape'
<1> SUFFICES ASSUME Shape, [Next]_vars PROVE Shape'
  OBVIOUS
<1>1. CASE Site \/ ChromeGone \/ Close
  BY <1>1, SiteKeepsShape
<1>2. CASE Execute
  BY <1>2, ExecuteKeepsShape
<1>3. CASE Client
  BY <1>3, LossKeepsShape, HearKeepsShape, PausesKeepShape, CaptureKeepsShape, DispatchKeepsShape, WaitKeepsShape DEF Client
<1>4. CASE Navigate \/ Capture \/ \E name \in Acts : Act(name)
  BY <1>4, StartKeepsShape
<1>5. CASE UNCHANGED vars
  BY <1>5 DEF vars, Shape, PageTypes, WireInv, StageInv
<1> QED BY <1>1, <1>2, <1>3, <1>4, <1>5 DEF Next, Caller

\* Every command is answered for the verb that sent it and by what it asks for, and at
\* most one answer is under way (cdp-client.ts, CdpClient.send and its message handler).
THEOREM RepliesFit == Spec => []Shape
<1> QED BY InitShape, ShapeSteps, PTL DEF Spec

-----------------------------------------------------------------------------
(* The effects.                                                             *)

\* Only Chrome acts, and the session stays what it is.
LEMMA OthersDoNotAct ==
    ASSUME Next, ~ Execute
    PROVE  UNCHANGED <<effects, wrapped>>
<1>1. CASE Site \/ ChromeGone
  BY <1>1 DEF Site, SiteNavigates, Mutate, Request, Respond, FiresLoad, ChromeGone, world
<1>2. CASE Caller
  BY <1>2 DEF Caller, Navigate, Capture, Act, Start, Close, world
<1>3. CASE Client
  <2>1. ASSUME NEW do \in Commands, Replied(do) PROVE UNCHANGED <<effects, wrapped>>
    BY <2>1 DEF Replied, world
  <2>2. CASE NavigateReplied \/ TreeRead \/ WorldMade \/ Serialized \/ Checked \/ HrefRead \/ Evaluated \/ Sampled
    BY <2>1, <2>2 DEF NavigateReplied, TreeRead, WorldMade, Serialized, Checked, HrefRead, Evaluated, Sampled
  <2>3. CASE SocketClosed \/ Hear \/ Loaded \/ LoadTimesOut \/ Tick \/ Wake
    BY <2>3 DEF SocketClosed, Hear, Loaded, LoadTimesOut, Tick, Wake, world
  <2> QED BY <1>3, <2>2, <2>3 DEF Client
<1> QED BY <1>1, <1>2, <1>3 DEF Next

LEMMA GroundSteps == Shape /\ PageDispatchIsGrounded /\ [Next]_vars => PageDispatchIsGrounded'
<1> SUFFICES ASSUME Shape, PageDispatchIsGrounded, [Next]_vars PROVE PageDispatchIsGrounded'
  OBVIOUS
<1> USE DEF PageDispatchIsGrounded, DispatchIsGrounded, Grounded
<1>1. CASE Execute
  <2>1. PICK ok \in BOOLEAN, value \in Answer : Carried(ok, value)
    BY <1>1, ExecuteCarries DEF Shape
  <2>2. wrapped' = wrapped
    BY <1>1 DEF Execute, world
  <2>3. SUFFICES ASSUME ~ wrapped, NEW e \in effects', e \notin effects PROVE e.hit = e.aim
    BY <2>2
  <2>4. PICK f \in Place, d \in Document :
           /\ command.do = "evaluate"
           /\ e = [aim |-> verb.aim, hit |-> [frame |-> f, doc |-> d], verb |-> Len(ends)]
           /\ command.doc # None => f = command.frame /\ d = command.doc
    BY <2>1, <2>3 DEF Carried
  <2>5. Aimed(command, verb, page.contexts)
    BY <2>3, <2>4 DEF Shape, StageInv
  <2>6. /\ verb.aim = [frame |-> command.frame, doc |-> command.doc]
        /\ command.doc \in Nat
    <3>1. command.doc = page.contexts[command.frame].made /\ command.frame \in DOMAIN page.contexts
      BY <2>4, <2>5 DEF Aimed
    <3>2. page.contexts \in Contexts
      BY DEF Shape, PageTypes, PageState
    <3>3. page.contexts[command.frame].made \in Nat
      BY <3>1, <3>2 DEF Contexts
    <3> QED BY <2>5, <3>1, <3>3 DEF Aimed
  <2>7. command.doc # None
    BY <2>6, NoneAssumption
  <2> QED BY <2>4, <2>6, <2>7
<1>2. CASE Next /\ ~ Execute
  BY <1>2, OthersDoNotAct
<1>3. CASE UNCHANGED vars
  BY <1>3 DEF vars
<1> QED BY <1>1, <1>2, <1>3

LEMMA SampledFrom ==
    ASSUME Shape, Sampled
    PROVE  /\ Replied("sample")
           /\ \/ \E from \in Samples \cup {None} : EndsWith(TRUE, [from |-> from, to |-> Sample])
              \/ Fails
              \/ command' = [NoCommand EXCEPT !.do = "sleep"] /\ UNCHANGED <<verb, ends>>
           /\ Sample \in Samples
<1>1. Replied("sample") /\ Sample \in Samples
  BY SamplesAreTyped DEF Sampled
<1>2. settle.from \in Samples \cup {None}
  BY DEF Shape, PageTypes, SettleState
<1> QED BY <1>1, <1>2 DEF Sampled

\* A verb that ends has acted if it says so.
LEMMA EndKeepsOnce ==
    ASSUME Shape, OnceInv, NEW ok \in BOOLEAN, NEW quiet \in [from : Samples \cup {None}, to : Samples] \cup {None}, EndsWith(ok, quiet),
           effects' = effects, ok /\ Evaluates(verb) => \E e \in effects : e.verb = Len(ends)
    PROVE  OnceInv'
<1> DEFINE end == [verb |-> verb.name, link |-> verb.link, ok |-> ok, quiet |-> quiet]
<1>1. command' = NoCommand /\ ends' = Append(ends, end) /\ ends \in Seq(Ending) /\ ends' \in Seq(Ending)
  BY EndIsTyped DEF Shape, PageTypes
<1>2. Len(ends) \in Nat /\ Len(ends') = Len(ends) + 1 /\ DOMAIN ends = 1 .. Len(ends) /\ DOMAIN ends' = 1 .. Len(ends) + 1
  BY <1>1
<1>3. ends'[Len(ends) + 1] = end /\ \A i \in 1 .. Len(ends) : ends'[i] = ends[i]
  BY <1>1
<1>4. command'.do = None /\ command'.do \notin {"evaluate", "sample", "sleep"}
  BY <1>1, NoneAssumption DEF NoCommand
<1>5. \A e \in effects : e.verb \in 0 .. Len(ends)
  BY DEF OnceInv
<1>6. \A i \in DOMAIN ends' : ends'[i].ok /\ ends'[i].verb \in Acts /\ ~ ends'[i].link => \E e \in effects : e.verb = i - 1
  <2> SUFFICES ASSUME NEW i \in 1 .. Len(ends) + 1, ends'[i].ok, ends'[i].verb \in Acts, ~ ends'[i].link
               PROVE  \E e \in effects : e.verb = i - 1
    BY <1>2
  <2>1. CASE i \in 1 .. Len(ends)
    BY <2>1, <1>2, <1>3 DEF OnceInv
  <2>2. CASE i = Len(ends) + 1
    <3>1. ok /\ Evaluates(verb)
      BY <2>2, <1>3 DEF Evaluates
    <3> QED BY <3>1, <2>2, <1>2
  <2> QED BY <2>1, <2>2, <1>2
<1>7. \A e \in effects' : e.verb \in 0 .. Len(ends') /\ e.verb # Len(ends')
  BY <1>2, <1>5
<1>8. \A d, e \in effects' : d.verb = e.verb => d = e
  BY DEF OnceInv
<1> QED BY <1>4, <1>6, <1>7, <1>8 DEF OnceInv

\* A verb that goes on does not evaluate again.
LEMMA GoKeepsOnce ==
    ASSUME OnceInv, effects' = effects, ends' = ends,
           Unevaluated(command') => Unevaluated(command),
           command'.do = "evaluate" => \A i \in DOMAIN wire' : IsReply(wire'[i]) /\ wire'[i].ok => \E e \in effects : e.verb = Len(ends),
           command'.do \in {"sample", "sleep"} /\ Evaluates(verb') => \E e \in effects : e.verb = Len(ends)
    PROVE  OnceInv'
PROOF BY DEF OnceInv

LEMMA DoneKeepsOnce ==
    ASSUME Shape, OnceInv, Done, effects' = effects, Evaluates(verb) => \E e \in effects : e.verb = Len(ends)
    PROVE  OnceInv'
<1>1. CASE /\ command' = Sent(Command("sample", Top, None))
           /\ UNCHANGED <<verb, page, settle, ends>>
  <2>1. command'.do = "sample"
    BY <1>1, SampleIsSent
  <2>2. ~ Unevaluated(command')
    BY <2>1, NoneAssumption DEF Unevaluated
  <2>3. verb' = verb /\ ends' = ends
    BY <1>1
  <2> QED BY <2>1, <2>2, <2>3, GoKeepsOnce
<1>2. CASE Ended(TRUE)
  BY <1>2, EndKeepsOnce DEF Ended
<1> QED BY <1>1, <1>2 DEF Done

LEMMA ExecuteKeepsOnce ==
    ASSUME Shape, OnceInv, Execute
    PROVE  OnceInv'
<1>1. PICK ok \in BOOLEAN, value \in Answer : Carried(ok, value)
  BY ExecuteCarries DEF Shape
<1>2. UNCHANGED <<verb, ends>>
  BY ExecuteCarries DEF Shape
<1>3. command'.at = "answered" /\ command.at = "chrome" /\ command'.do = command.do
  BY <1>1, CarriedCommand
<1>4. \A i \in DOMAIN wire' : IsReply(wire'[i]) => wire'[i].ok = ok
  BY <1>1, CarriedReply, MessagesAre
<1>5. Unevaluated(command') => Unevaluated(command) /\ command.do # "evaluate"
  BY <1>3, NoneAssumption DEF Unevaluated
<1>6. CASE effects' = effects /\ (command.do = "evaluate" => ~ ok)
  BY <1>2, <1>3, <1>4, <1>5, <1>6, GoKeepsOnce DEF OnceInv
<1>7. ASSUME command.do = "evaluate", NEW f \in Place, NEW d \in Document,
             effects' = effects \cup {[aim |-> verb.aim, hit |-> [frame |-> f, doc |-> d], verb |-> Len(ends)]}
      PROVE  OnceInv'
  <2> DEFINE one == [aim |-> verb.aim, hit |-> [frame |-> f, doc |-> d], verb |-> Len(ends)]
  <2>1. one \in effects' /\ one.verb = Len(ends) /\ effects' = effects \cup {one}
    BY <1>7
  <2> HIDE DEF one
  <2>2. \A e \in effects : e.verb # Len(ends)
    BY <1>3, <1>7 DEF OnceInv, Unevaluated
  <2>3. Len(ends) \in Nat
    BY DEF Shape, PageTypes
  <2>4. \A e \in effects' : e.verb \in 0 .. Len(ends)
    BY <2>1, <2>3 DEF OnceInv
  <2>5. \A d1, e \in effects' : d1.verb = e.verb => d1 = e
    BY <2>1, <2>2 DEF OnceInv
  <2>6. \E e \in effects' : e.verb = Len(ends)
    BY <2>1
  <2>7. \A i \in DOMAIN ends : ends[i].ok /\ ends[i].verb \in Acts /\ ~ ends[i].link => \E e \in effects' : e.verb = i - 1
    BY <2>1 DEF OnceInv
  <2> QED BY <1>2, <1>3, <1>5, <1>7, <2>4, <2>5, <2>6, <2>7 DEF OnceInv
<1> QED BY <1>1, <1>6, <1>7 DEF Carried

LEMMA OnceSteps == Shape /\ OnceInv /\ [Next]_vars => OnceInv'
<1> SUFFICES ASSUME Shape, OnceInv, [Next]_vars PROVE OnceInv'
  OBVIOUS
<1> USE NoneAssumption
<1>0. ASSUME NEW do \in Commands, Replied(do)
      PROVE  /\ Silent' /\ command.do = do /\ command.at = "answered" /\ effects' = effects
             /\ ~ (\A i \in DOMAIN wire : ~ (IsReply(wire[i]) /\ wire[i] = Head(wire)))
  <2>1. wire # <<>> /\ IsReply(Head(wire)) /\ Head(wire) = wire[1] /\ 1 \in DOMAIN wire
    BY <1>0, Takes DEF Replied, IsReply, Shape, PageTypes
  <2> QED BY <1>0, <2>1, RepliedIsLast
<1>a. ASSUME Fails, effects' = effects PROVE OnceInv'
  BY <1>a, EndKeepsOnce DEF Fails, Ended
<1>b. ASSUME Silent', effects' = effects, ends' = ends, verb' = verb,
             command'.do \in Commands \cup Pauses, command'.do \in {"sample", "sleep"} => command.do \in {"sample", "sleep"},
             Unevaluated(command') => Unevaluated(command)
      PROVE  OnceInv'
  BY <1>b, GoKeepsOnce DEF Silent, OnceInv
<1>1. CASE Execute
  BY <1>1, ExecuteKeepsOnce
<1>2. CASE Site \/ ChromeGone \/ Close
  <2>1. /\ UNCHANGED <<effects, ends, command, verb>>
        /\ wire' = wire \/ \E k \in Notices : wire' = Append(wire, Event(k))
    BY <1>2 DEF Site, SiteNavigates, Mutate, Request, Respond, FiresLoad, ChromeGone, Close, world, Notices
  <2>2. \A i \in DOMAIN wire' : IsReply(wire'[i]) => i \in DOMAIN wire /\ wire'[i] = wire[i]
    <3>1. ASSUME NEW k \in Notices, wire' = Append(wire, Event(k)) PROVE \A i \in DOMAIN wire' : IsReply(wire'[i]) => i \in DOMAIN wire /\ wire'[i] = wire[i]
      <4>1. Event(k) \in Message /\ Event(k).kind = k /\ ~ IsReply(Event(k))
        BY MessagesAre DEF Notices, IsReply
      <4> QED BY <3>1, <4>1, SendsOne DEF Shape, PageTypes
    <3> QED BY <2>1, <3>1
  <2> QED BY <2>1, <2>2, GoKeepsOnce DEF OnceInv
<1>3. CASE Hear
  <2>1. wire # <<>> /\ wire' = Tail(wire) /\ UNCHANGED <<effects, ends, command, verb>>
    BY <1>3 DEF Hear
  <2>2. \A i \in DOMAIN wire' : i + 1 \in DOMAIN wire /\ wire'[i] = wire[i + 1]
    BY <2>1, Takes DEF Shape, PageTypes
  <2> QED BY <2>1, <2>2, GoKeepsOnce DEF OnceInv
<1>4. CASE Navigate \/ Capture \/ \E name \in Acts : Act(name)
  <2>1. verb = NoVerb /\ UNCHANGED <<effects, ends, wire>>
    BY <1>4 DEF Navigate, Capture, Act, Start
  <2>2. command.do = None /\ Silent
    BY <2>1, NoVerbNoCommand
  <2>3. Silent' /\ Unevaluated(command)
    BY <2>1, <2>2 DEF Silent, Unevaluated
  <2>4. command'.do \notin {"sample", "sleep"}
    <3>1. CASE Navigate
      BY <3>1, PlainIsSent DEF Navigate, Start
    <3>2. CASE Capture
      BY <3>2, PlainIsSent DEF Capture, Start
    <3>3. ASSUME NEW name \in Acts, Act(name) PROVE command'.do \notin {"sample", "sleep"}
      <4>1. PICK f \in DOMAIN page.contexts : command' = Sent(DispatchOf(FirstEvaluation(name), f))
        BY <3>3 DEF Act, Start
      <4>2. DispatchOf(FirstEvaluation(name), f).do \in {"check", "href", "evaluate"}
        BY DEF DispatchOf, FirstEvaluation, Command, NoCommand
      <4>3. command'.do = DispatchOf(FirstEvaluation(name), f).do
        BY <4>1 DEF Sent, DispatchOf, FirstEvaluation, Command, NoCommand
      <4> QED BY <4>2, <4>3
    <3> QED BY <1>4, <3>1, <3>2, <3>3
  <2> QED BY <2>1, <2>3, <2>4, GoKeepsOnce DEF Silent
<1>5. CASE SocketClosed
  <2>1. CASE Fails
    BY <1>5, <2>1, <1>a DEF SocketClosed
  <2>2. CASE UNCHANGED <<command, verb, load, page, settle, ends>>
    <3>1. Silent' /\ UNCHANGED <<command, verb, ends, effects>>
      BY <1>5, <2>2 DEF SocketClosed, Silent
    <3> QED BY <3>1, GoKeepsOnce DEF Silent, OnceInv
  <2> QED BY <1>5, <2>1, <2>2 DEF SocketClosed
<1>6. CASE LoadTimesOut
  <2>1. CASE Ended(FALSE)
    BY <1>6, <2>1, EndKeepsOnce DEF LoadTimesOut, Ended
  <2>2. CASE UNCHANGED <<command, verb, load, page, settle, ends>>
    <3>1. UNCHANGED <<command, verb, ends, effects, wire>>
      BY <1>6, <2>2 DEF LoadTimesOut
    <3> QED BY <3>1, GoKeepsOnce DEF OnceInv
  <2> QED BY <1>6, <2>1, <2>2 DEF LoadTimesOut
<1>7. CASE Tick
  <2>1. UNCHANGED <<command, verb, ends, effects, wire>>
    BY <1>7 DEF Tick
  <2> QED BY <2>1, GoKeepsOnce DEF OnceInv
<1>8. CASE Wake
  <2>1. /\ command.do = "sleep" /\ command' = Sent(Command("sample", Top, None)) /\ UNCHANGED <<verb, ends, effects, wire>>
    BY <1>8 DEF Wake
  <2>2. command'.do = "sample" /\ ~ Unevaluated(command')
    BY <2>1, SampleIsSent DEF Unevaluated
  <2> QED BY <2>1, <2>2, GoKeepsOnce DEF OnceInv
<1>9. CASE Loaded
  <2>1. command.do = "loaded" /\ Done /\ effects' = effects
    BY <1>9 DEF Loaded
  <2>2. ~ Evaluates(verb)
    BY <2>1 DEF Evaluates, Shape, StageInv
  <2> QED BY <2>1, <2>2, DoneKeepsOnce
<1>10. CASE NavigateReplied
  <2>1. /\ Replied("navigate")
        /\ \/ Fails
           \/ command' = [NoCommand EXCEPT !.do = "loaded"] /\ UNCHANGED <<verb, load, page, settle, ends>>
    BY <1>10 DEF NavigateReplied
  <2>2. CASE Fails
    BY <2>1, <2>2, <1>0, <1>a
  <2>3. CASE command' = [NoCommand EXCEPT !.do = "loaded"] /\ UNCHANGED <<verb, load, page, settle, ends>>
    <3>1. command'.do = "loaded" /\ ~ Unevaluated(command')
      BY <2>3, PauseIsTyped DEF Unevaluated
    <3> QED BY <2>1, <2>3, <3>1, <1>0, <1>b
  <2> QED BY <2>1, <2>2, <2>3
<1>11. CASE TreeRead
  <2>1. Replied("tree") /\ command' = Sent(Command("world", Order[1], None)) /\ ends' = ends
    BY <1>11 DEF TreeRead
  <2>2. command'.do = "world"
    BY <2>1, PlainIsSent DEF Order
  <2>3. Unevaluated(command) /\ Silent' /\ effects' = effects
    BY <2>1, <1>0 DEF Unevaluated
  <2> QED BY <2>1, <2>2, <2>3, GoKeepsOnce
<1>12. CASE WorldMade
  <2>1. Replied("world") /\ command' = Sent(Command("serialize", command.frame, Value)) /\ ends' = ends
    BY <1>12 DEF WorldMade
  <2>2. command'.do = "serialize"
    BY <2>1 DEF Sent, Command, NoCommand
  <2>3. Unevaluated(command) /\ Silent' /\ effects' = effects
    BY <2>1, <1>0 DEF Unevaluated
  <2> QED BY <2>1, <2>2, <2>3, GoKeepsOnce
<1>13. CASE Serialized
  <2> DEFINE made == Append(verb.made, command.doc)
  <2>1. /\ Replied("serialize")
        /\ \/ Fails
           \/ command' = Sent(Command("world", Order[Len(made) + 1], None)) /\ ends' = ends
           \/ Ended(TRUE)
    BY <1>13 DEF Serialized
  <2>2. Unevaluated(command) /\ Silent' /\ effects' = effects /\ command.do = "serialize"
    BY <2>1, <1>0 DEF Unevaluated
  <2>3. CASE command' = Sent(Command("world", Order[Len(made) + 1], None)) /\ ends' = ends
    <3>1. command'.do = "world"
      BY <2>3 DEF Sent, Command, NoCommand
    <3> QED BY <2>2, <2>3, <3>1, GoKeepsOnce
  <2>4. CASE Ended(TRUE)
    <3>1. ~ Evaluates(verb)
      BY <2>2 DEF Evaluates, Shape, StageInv
    <3> QED BY <2>2, <2>4, <3>1, EndKeepsOnce DEF Ended
  <2> QED BY <2>1, <2>2, <2>3, <2>4, <1>a
<1>14. CASE Checked
  <2>1. /\ Replied("check")
        /\ \/ Fails
           \/ command' = Sent(InWorld(command.then, command.frame)) /\ ends' = ends
    BY <1>14 DEF Checked
  <2>2. Unevaluated(command) /\ Silent' /\ effects' = effects /\ command.do = "check"
    BY <2>1, <1>0 DEF Unevaluated
  <2>3. CASE command' = Sent(InWorld(command.then, command.frame)) /\ ends' = ends
    <3>1. command'.do \in {"href", "evaluate"}
      BY <2>2, <2>3 DEF Sent, InWorld, Command, NoCommand, Shape, StageInv
    <3> QED BY <2>2, <2>3, <3>1, GoKeepsOnce DEF Silent
  <2> QED BY <2>1, <2>2, <2>3, <1>a
<1>15. CASE HrefRead
  <2>1. /\ Replied("href")
        /\ \/ Fails
           \/ command' = Sent(DispatchOf("evaluate", command.frame)) /\ ends' = ends
    BY <1>15 DEF HrefRead
  <2>2. Unevaluated(command) /\ Silent' /\ effects' = effects
    BY <2>1, <1>0 DEF Unevaluated
  <2>3. CASE command' = Sent(DispatchOf("evaluate", command.frame)) /\ ends' = ends
    <3>1. command'.do \in {"check", "evaluate"}
      BY <2>3 DEF Sent, DispatchOf, Command, NoCommand
    <3> QED BY <2>2, <2>3, <3>1, GoKeepsOnce DEF Silent
  <2> QED BY <2>1, <2>2, <2>3, <1>a
<1>16. CASE Evaluated
  <2>1. /\ Replied("evaluate")
        /\ \/ Ok /\ Done
           \/ Fails
           \/ command' = Sent(Command("navigate", Top, None)) /\ ends' = ends
    BY <1>16 DEF Evaluated
  <2>2. Silent' /\ effects' = effects /\ command.do = "evaluate"
    BY <2>1, <1>0
  <2>3. CASE Ok /\ Done
    <3>1. PICK i \in DOMAIN wire : IsReply(wire[i]) /\ wire[i] = Head(wire)
      BY <2>1, <1>0
    <3>2. \E e \in effects : e.verb = Len(ends)
      BY <2>2, <2>3, <3>1 DEF OnceInv, Ok
    <3> QED BY <2>2, <2>3, <3>2, DoneKeepsOnce
  <2>4. CASE command' = Sent(Command("navigate", Top, None)) /\ ends' = ends
    <3>1. command'.do = "navigate"
      BY <2>4 DEF Sent, Command, NoCommand
    <3>2. ~ Unevaluated(command')
      BY <3>1 DEF Unevaluated
    <3> QED BY <2>2, <2>4, <3>1, <3>2, GoKeepsOnce
  <2> QED BY <2>1, <2>2, <2>3, <2>4, <1>a
<1>17. CASE Sampled
  <2>1. /\ Replied("sample")
        /\ \/ \E from \in Samples \cup {None}, to \in Samples : EndsWith(TRUE, [from |-> from, to |-> to])
           \/ Fails
           \/ command' = [NoCommand EXCEPT !.do = "sleep"] /\ UNCHANGED <<verb, ends>>
    BY <1>17, SampledFrom
  <2>2. Silent' /\ effects' = effects /\ command.do = "sample"
    BY <2>1, <1>0
  <2>3. Evaluates(verb) => \E e \in effects : e.verb = Len(ends)
    BY <2>2 DEF OnceInv
  <2>4. ASSUME NEW from \in Samples \cup {None}, NEW to \in Samples, EndsWith(TRUE, [from |-> from, to |-> to])
        PROVE  OnceInv'
    <3> DEFINE quiet == [from |-> from, to |-> to]
    <3>1. quiet \in [from : Samples \cup {None}, to : Samples] \cup {None}
      OBVIOUS
    <3>2. EndsWith(TRUE, quiet)
      BY <2>4
    <3> HIDE DEF quiet
    <3> QED BY <2>2, <2>3, <3>1, <3>2, EndKeepsOnce
  <2>5. CASE command' = [NoCommand EXCEPT !.do = "sleep"] /\ UNCHANGED <<verb, ends>>
    <3>1. command'.do = "sleep" /\ ~ Unevaluated(command')
      BY <2>5, PauseIsTyped DEF Unevaluated
    <3> QED BY <2>2, <2>3, <2>5, <3>1, GoKeepsOnce
  <2> QED BY <2>1, <2>2, <2>4, <2>5, <1>a
<1>18. CASE UNCHANGED vars
  BY <1>18, GoKeepsOnce DEF vars, OnceInv
<1>19. CASE Client
  BY <1>19, <1>3, <1>5, <1>6, <1>7, <1>8, <1>9, <1>10, <1>11, <1>12, <1>13, <1>14, <1>15, <1>16, <1>17 DEF Client
<1> QED BY <1>1, <1>2, <1>4, <1>18, <1>19 DEF Next, Caller

LEMMA OnceIsOnce ==
    ASSUME PageTypes, OnceInv
    PROVE  EffectsOnce
<1> SUFFICES ASSUME NEW i \in 1 .. Len(ends)
             PROVE  LET mine == {e \in effects : e.verb = i - 1}
                    IN  /\ Cardinality(mine) <= 1
                        /\ ends[i].ok /\ ends[i].verb \in Acts /\ ~ ends[i].link => mine # {}
  BY DEF EffectsOnce
<1> DEFINE mine == {e \in effects : e.verb = i - 1}
<1>1. Cardinality(mine) <= 1
  <2>1. CASE mine = {}
    BY <2>1, FS_EmptySet
  <2>2. CASE mine # {}
    <3>1. PICK e \in mine : TRUE
      BY <2>2
    <3>2. mine = {e}
      BY <3>1 DEF OnceInv
    <3>3. Cardinality({e}) = 1
      BY FS_Singleton
    <3> HIDE DEF mine
    <3> QED BY <3>2, <3>3
  <2> QED BY <2>1, <2>2
<1>2. ends[i].ok /\ ends[i].verb \in Acts /\ ~ ends[i].link => mine # {}
  BY DEF OnceInv, PageTypes
<1> QED BY <1>1, <1>2

\* Every effect is in the document that its element was captured in, and every verb has at
\* most one, and one if it says so, however the frames navigate between the capture, the
\* check and the dispatch (cdp-page.ts:83-281, cdp-composed-context.ts:112-128).
THEOREM VerbsActOnceWhereAimed == Spec => []EffectsAreGrounded
<1>1. Init => Shape /\ PageDispatchIsGrounded /\ OnceInv
  <2> SUFFICES ASSUME Init PROVE Shape /\ PageDispatchIsGrounded /\ OnceInv
    OBVIOUS
  <2>1. effects = {} /\ ends = <<>> /\ wire = <<>> /\ command = NoCommand
    BY DEF Init
  <2>2. OnceInv
    BY <2>1, NoneAssumption DEF OnceInv, NoCommand
  <2> QED BY <2>1, <2>2, InitShape DEF PageDispatchIsGrounded, DispatchIsGrounded
<1>2. Shape /\ PageDispatchIsGrounded /\ OnceInv /\ [Next]_vars => (Shape /\ PageDispatchIsGrounded /\ OnceInv)'
  BY ShapeSteps, GroundSteps, OnceSteps
<1>3. Shape /\ PageDispatchIsGrounded /\ OnceInv => EffectsAreGrounded
  BY OnceIsOnce DEF EffectsAreGrounded, Shape
<1> QED BY <1>1, <1>2, <1>3, PTL DEF Spec

-----------------------------------------------------------------------------
(* The wait for a page that is settled.                                     *)

LEMMA EndKeepsSettled ==
    ASSUME Shape, SettledInv, NEW ok \in BOOLEAN, NEW quiet \in [from : Samples \cup {None}, to : Samples] \cup {None}, EndsWith(ok, quiet),
           quiet # None => /\ quiet.from.doc = quiet.to.doc
                           /\ quiet.from.mutations = quiet.to.mutations
                           /\ quiet.from.version = quiet.to.version
                           /\ quiet.to.pending = 0
    PROVE  SettledInv'
<1>1. command' = NoCommand /\ settle' = NoSettle /\ ends' = Append(ends, [verb |-> verb.name, link |-> verb.link, ok |-> ok, quiet |-> quiet])
  BY EndIsTyped DEF Shape
<1>2. command'.do # "sample" /\ settle'.last = None
  BY <1>1, NoneAssumption DEF NoCommand, NoSettle
<1>3. SettledMeansQuiet'
  <2> DEFINE end == [verb |-> verb.name, link |-> verb.link, ok |-> ok, quiet |-> quiet]
  <2>1. ends \in Seq(Ending) /\ ends' = Append(ends, end) /\ ends' \in Seq(Ending)
    BY <1>1, EndIsTyped DEF Shape, PageTypes
  <2>2. end.quiet = quiet
    OBVIOUS
  <2> HIDE DEF end
  <2>3. /\ Len(ends) \in Nat /\ DOMAIN ends = 1 .. Len(ends) /\ DOMAIN ends' = 1 .. Len(ends) + 1
        /\ ends'[Len(ends) + 1] = end /\ \A i \in 1 .. Len(ends) : ends'[i] = ends[i]
    BY <2>1
  <2>4. \A i \in DOMAIN ends' : (i \in DOMAIN ends /\ ends'[i] = ends[i]) \/ ends'[i].quiet = quiet
    BY <2>2, <2>3
  <2> QED BY <2>4 DEF SettledInv, SettledMeansQuiet
<1> QED BY <1>2, <1>3 DEF SettledInv, QuietInv

\* Where nothing has been sampled yet, nothing is claimed.
LEMMA UnsampledIsSettled ==
    ASSUME SettledInv, ends' = ends, settle'.last = None, Silent' \/ command'.do # "sample"
    PROVE  SettledInv'
PROOF BY DEF SettledInv, QuietInv, SettledMeansQuiet, Silent

LEMMA SampledKeepsSettled ==
    ASSUME Shape, SettledInv, Sampled
    PROVE  SettledInv'
<1> DEFINE s == Sample
           stirred == Changed(s, settle.last) \/ s.pending > 0
           since == IF stirred THEN settle.clock ELSE settle.changed
           from == IF stirred THEN s ELSE settle.from
<1>1. /\ Replied("sample")
      /\ \/ /\ s.pending = 0 /\ settle.clock >= since + Quiet
            /\ EndsWith(TRUE, [from |-> from, to |-> s])
         \/ Fails
         \/ /\ settle' = [settle EXCEPT !.changed = since, !.from = from, !.last = s, !.due = settle.clock + 1]
            /\ command' = [NoCommand EXCEPT !.do = "sleep"]
            /\ UNCHANGED <<verb, load, page, ends>>
  BY DEF Sampled
<1>2. /\ wire # <<>> /\ wire' = Tail(wire) /\ IsReply(Head(wire)) /\ Head(wire) = wire[1] /\ 1 \in DOMAIN wire
      /\ DOMAIN wire = 1 .. Len(wire) /\ Len(wire) \in Nat /\ DOMAIN wire' = 1 .. Len(wire) - 1
      /\ \A i \in 1 .. Len(wire) - 1 : wire'[i] = wire[i + 1]
  BY <1>1, Takes DEF Replied, IsReply, Shape, PageTypes
<1>3. /\ Silent' /\ command.do = "sample" /\ command.at = "answered" /\ socket # "closed" /\ UNCHANGED <<socket, frames>>
  BY <1>1, RepliedIsLast
<1>4. s \in Samples /\ s.version = page.version /\ s.doc = Value.doc
  BY <1>1, SamplesAreTyped
<1>5. settle.clock \in Nat /\ from \in Samples \cup {None} /\ settle.last \in Samples \cup {None}
  BY <1>4 DEF Shape, PageTypes, SettleState
\* A count that stands still means the document of the sample before.
<1>6. settle.last # None /\ s.version = settle.last.version => s.doc = settle.last.doc
  <2> SUFFICES ASSUME settle.last # None, s.version = settle.last.version PROVE s.doc = settle.last.doc
    OBVIOUS
  <2>1. \A k \in DOMAIN wire : IsReply(wire[k]) /\ StillBefore(k) => wire[k].value.doc = settle.last.doc
    BY <1>3, <1>4 DEF SettledInv, QuietInv
  <2>2. StillBefore(1)
    BY <1>2 DEF StillBefore
  <2> QED BY <1>2, <1>4, <2>1, <2>2 DEF Value
<1>7. ~ stirred => /\ settle.last # None /\ from = settle.from /\ from # None /\ s.version = settle.last.version /\ s.mutations = settle.last.mutations
                   /\ from.doc = s.doc /\ from.mutations = s.mutations /\ from.version = s.version
  BY <1>6 DEF SettledInv, QuietInv, Changed
<1>8. stirred => from = s /\ since = settle.clock
  OBVIOUS
<1> HIDE DEF stirred, from, since, s
<1>9. CASE s.pending = 0 /\ settle.clock >= since + Quiet /\ EndsWith(TRUE, [from |-> from, to |-> s])
  <2>1. ~ stirred
    BY <1>5, <1>8, <1>9, PageAssumption
  <2> DEFINE quiet == [from |-> from, to |-> s]
  <2>2. quiet \in [from : Samples \cup {None}, to : Samples] \cup {None}
    BY <1>4, <1>5
  <2>3. /\ quiet.from.doc = quiet.to.doc /\ quiet.from.mutations = quiet.to.mutations
        /\ quiet.from.version = quiet.to.version /\ quiet.to.pending = 0
    BY <1>7, <1>9, <2>1
  <2>4. EndsWith(TRUE, quiet)
    BY <1>9
  <2> HIDE DEF quiet
  <2> QED BY <2>2, <2>3, <2>4, EndKeepsSettled
<1>10. CASE Fails
  BY <1>10, EndKeepsSettled DEF Fails, Ended
<1>11. CASE /\ settle' = [settle EXCEPT !.changed = since, !.from = from, !.last = s, !.due = settle.clock + 1]
            /\ command' = [NoCommand EXCEPT !.do = "sleep"]
            /\ UNCHANGED <<verb, load, page, ends>>
  <2>1. command'.do # "sample" /\ command'.at # "answered"
    BY <1>11, PauseIsTyped
  <2>2. settle'.last = s /\ settle'.from = from /\ page' = page /\ ends' = ends
    BY <1>11 DEF Shape, PageTypes, SettleState
  <2>3. s # None => from # None /\ from.doc = s.doc /\ from.mutations = s.mutations /\ from.version = s.version
    BY <1>7, <1>8
  <2>4. StillAfter(0)' => s.doc = frames[Top]
    <3> SUFFICES ASSUME StillAfter(0)' PROVE s.doc = frames[Top]
      OBVIOUS
    <3>1. ASSUME NEW i \in DOMAIN wire, i > 1 PROVE ~ IsEdge(wire[i])
      <4>1. i - 1 \in 1 .. Len(wire) - 1 /\ i - 1 > 0
        BY <1>2, <3>1
      <4>2. wire'[i - 1] = wire[i]
        BY <1>2, <4>1, <3>1
      <4> QED BY <1>2, <4>1, <4>2 DEF StillAfter
    <3>2. StillAfter(1)
      BY <3>1 DEF StillAfter
    <3> QED BY <1>2, <1>3, <1>4, <3>2 DEF SettledInv, QuietInv, Value
  <2>5. page.version >= s.version
    BY <1>4 DEF Samples
  <2> QED BY <1>3, <2>1, <2>2, <2>3, <2>4, <2>5 DEF SettledInv, QuietInv, SettledMeansQuiet
<1> QED BY <1>1, <1>9, <1>10, <1>11

\* The site: the document changes only behind an edge.
LEMMA SiteKeepsSettled ==
    ASSUME Shape, SettledInv, Site \/ ChromeGone \/ Close
    PROVE  SettledInv'
<1>1. /\ UNCHANGED <<ends, command, settle, page>> /\ socket = "open"
      /\ \/ wire' = wire /\ frames' = frames
         \/ wire' = Append(wire, Event("edge"))
         \/ \E k \in Notices : wire' = Append(wire, Event(k)) /\ frames' = frames
  BY DEF Site, SiteNavigates, Mutate, Request, Respond, FiresLoad, ChromeGone, Close, Notices
<1>2. CASE wire' = wire /\ frames' = frames
  BY <1>1, <1>2 DEF SettledInv, QuietInv, SettledMeansQuiet, StillAfter, StillBefore
<1>3. ASSUME NEW k \in Notices, wire' = Append(wire, Event(k)), k = "edge" \/ frames' = frames
      PROVE  SettledInv'
  <2>1. Event(k) \in Message /\ Event(k).kind = k /\ ~ IsReply(Event(k))
    BY MessagesAre DEF Notices, IsReply
  <2>2. /\ DOMAIN wire' = 1 .. Len(wire) + 1 /\ DOMAIN wire = 1 .. Len(wire) /\ Len(wire) \in Nat
        /\ \A i \in 1 .. Len(wire) : wire'[i] = wire[i]
        /\ wire'[Len(wire) + 1] = Event(k)
    BY <1>3, <2>1, SendsOne DEF Shape, PageTypes
  <2>3. \A i \in DOMAIN wire' : IsReply(wire'[i]) => i \in DOMAIN wire /\ wire'[i] = wire[i]
    BY <2>1, <2>2
  <2>4. ASSUME NEW n \in 0 .. Len(wire), StillAfter(n)' PROVE StillAfter(n) /\ frames' = frames
    <3>1. StillAfter(n)
      BY <2>2, <2>4 DEF StillAfter
    <3>2. ~ IsEdge(wire'[Len(wire) + 1])
      BY <2>2, <2>4 DEF StillAfter
    <3>3. k # "edge"
      BY <2>1, <2>2, <3>2 DEF IsEdge
    <3> QED BY <1>3, <3>1, <3>3
  <2>5. ASSUME NEW n \in 0 .. Len(wire), StillBefore(n)' PROVE StillBefore(n)
    BY <2>2, <2>5 DEF StillBefore
  <2>6. \A n \in DOMAIN wire : n \in 0 .. Len(wire)
    BY <2>2
  <2>7. command.do = "sample" => \A n \in DOMAIN wire' : IsReply(wire'[n]) /\ StillAfter(n)' => wire'[n].value.doc = frames'[Top]
    BY <1>1, <2>3, <2>4, <2>6 DEF SettledInv, QuietInv
  <2>8. settle.last # None /\ page.version = settle.last.version =>
          /\ command.at = "answered" =>
                \A n \in DOMAIN wire' : IsReply(wire'[n]) /\ StillBefore(n)' => wire'[n].value.doc = settle.last.doc
          /\ command.at # "answered" /\ StillAfter(0)' => settle.last.doc = frames'[Top]
    <3> SUFFICES ASSUME settle.last # None, page.version = settle.last.version
                 PROVE  /\ command.at = "answered" =>
                              \A n \in DOMAIN wire' : IsReply(wire'[n]) /\ StillBefore(n)' => wire'[n].value.doc = settle.last.doc
                        /\ command.at # "answered" /\ StillAfter(0)' => settle.last.doc = frames'[Top]
      OBVIOUS
    <3>1. /\ command.at = "answered" => \A n \in DOMAIN wire : IsReply(wire[n]) /\ StillBefore(n) => wire[n].value.doc = settle.last.doc
          /\ command.at # "answered" /\ StillAfter(0) => settle.last.doc = frames[Top]
      BY <1>1 DEF SettledInv, QuietInv
    <3>2. 0 \in 0 .. Len(wire)
      BY <2>2
    <3> QED BY <2>3, <2>4, <2>5, <2>6, <3>1, <3>2
  <2> QED BY <1>1, <2>7, <2>8 DEF SettledInv, QuietInv, SettledMeansQuiet
<1> QED BY <1>1, <1>2, <1>3 DEF Notices

LEMMA ExecuteKeepsSettled ==
    ASSUME Shape, SettledInv, Execute
    PROVE  SettledInv'
<1>1. PICK ok \in BOOLEAN, value \in Answer : Carried(ok, value)
  BY ExecuteCarries DEF Shape
<1>2. UNCHANGED <<socket, page, settle, ends>> /\ socket = "open"
  BY <1>1, ExecuteCarries DEF Shape, Carried
<1>3. command'.at = "answered" /\ command.at = "chrome" /\ command'.do = command.do
  BY <1>1, CarriedCommand
<1>4. \A i \in DOMAIN wire' : IsReply(wire'[i]) => i = Len(wire') /\ wire'[i].value = value
  BY <1>1, CarriedReply, MessagesAre
<1>5. CASE command.do = "sample"
  <2>1. wire' = Append(wire, Reply(ok, value)) /\ frames' = frames /\ value.doc = frames[Top]
    BY <1>1, <1>5 DEF Carried
  <2>2. settle.last # None /\ page.version = settle.last.version =>
          \A k \in DOMAIN wire' : IsReply(wire'[k]) /\ StillBefore(k)' => value.doc = settle.last.doc
    <3> SUFFICES ASSUME settle.last # None, page.version = settle.last.version,
                        NEW k \in DOMAIN wire', IsReply(wire'[k]), StillBefore(k)'
                 PROVE  value.doc = settle.last.doc
      OBVIOUS
    <3>1. /\ DOMAIN wire' = 1 .. Len(wire) + 1 /\ DOMAIN wire = 1 .. Len(wire) /\ Len(wire) \in Nat
          /\ \A i \in 1 .. Len(wire) : wire'[i] = wire[i]
          /\ Len(wire') = Len(wire) + 1
      BY <2>1, SendsOne, MessagesAre DEF Shape, PageTypes
    <3>2. k = Len(wire) + 1
      BY <1>4, <3>1
    <3>3. StillAfter(0)
      BY <3>1, <3>2 DEF StillAfter, StillBefore
    <3>4. settle.last.doc = frames[Top]
      BY <1>2, <1>3, <3>3 DEF SettledInv, QuietInv
    <3> QED BY <2>1, <3>4
  <2> QED BY <1>2, <1>3, <1>4, <2>1, <2>2 DEF SettledInv, QuietInv, SettledMeansQuiet
<1>6. CASE command.do # "sample"
  <2>1. settle.last = None
    BY <1>3, <1>6 DEF Shape, StageInv
  <2> QED BY <1>2, <1>3, <1>6, <2>1, UnsampledIsSettled
<1> QED BY <1>5, <1>6

LEMMA HearKeepsSettled ==
    ASSUME Shape, SettledInv, Hear
    PROVE  SettledInv'
<1>1. /\ wire # <<>> /\ ~ IsReply(Head(wire)) /\ Head(wire) = wire[1] /\ Head(wire) \in Message
      /\ DOMAIN wire = 1 .. Len(wire) /\ Len(wire) \in Nat \ {0} /\ DOMAIN wire' = 1 .. Len(wire) - 1
      /\ \A i \in 1 .. Len(wire) - 1 : wire'[i] = wire[i + 1]
      /\ UNCHANGED <<frames, socket, command, settle, ends>>
  BY Takes DEF Hear, IsReply, Shape, PageTypes
<1>2. page.version \in Nat /\ (page'.version = page.version + 1 \/ (page'.version = page.version /\ ~ IsEdge(wire[1])))
  <2>1. CASE Head(wire).kind = "load"
    BY <1>1, <2>1 DEF Hear, IsEdge, Shape, PageTypes, PageState
  <2>2. CASE Head(wire).kind # "load"
    BY <2>2 DEF Hear, Counted, Shape, PageTypes, PageState
  <2> QED BY <2>1, <2>2
<1>3. ASSUME NEW k \in DOMAIN wire'
      PROVE  /\ k + 1 \in DOMAIN wire /\ wire'[k] = wire[k + 1]
             /\ StillAfter(k)' => StillAfter(k + 1)
             /\ StillBefore(k)' /\ ~ IsEdge(wire[1]) => StillBefore(k + 1)
  <2>1. k \in Nat /\ k + 1 \in DOMAIN wire /\ wire'[k] = wire[k + 1]
    BY <1>1
  <2>2. \A i \in DOMAIN wire : i # 1 => i - 1 \in DOMAIN wire' /\ wire'[i - 1] = wire[i]
    BY <1>1
  <2>3. ASSUME StillAfter(k)', NEW i \in DOMAIN wire, i > k + 1 PROVE ~ IsEdge(wire[i])
    <3>1. i # 1 /\ i - 1 > k
      BY <1>1, <2>1, <2>3
    <3> QED BY <2>2, <2>3, <3>1 DEF StillAfter
  <2>4. ASSUME StillBefore(k)', ~ IsEdge(wire[1]), NEW i \in DOMAIN wire, i < k + 1 PROVE ~ IsEdge(wire[i])
    <3>1. CASE i = 1
      BY <2>4, <3>1
    <3>2. CASE i # 1
      <4>1. i - 1 < k
        BY <1>1, <2>1, <2>4
      <4> QED BY <2>2, <2>4, <3>2, <4>1 DEF StillBefore
    <3> QED BY <3>1, <3>2
  <2> QED BY <2>1, <2>3, <2>4 DEF StillAfter, StillBefore
<1>4. StillAfter(0)' /\ ~ IsEdge(wire[1]) => StillAfter(0)
  <2> SUFFICES ASSUME StillAfter(0)', ~ IsEdge(wire[1]), NEW i \in DOMAIN wire PROVE ~ IsEdge(wire[i])
    BY DEF StillAfter
  <2>1. CASE i # 1
    <3>1. i - 1 \in DOMAIN wire' /\ wire'[i - 1] = wire[i] /\ i - 1 > 0
      BY <1>1, <2>1
    <3> QED BY <3>1 DEF StillAfter
  <2> QED BY <2>1
<1>5. command.do = "sample" /\ socket # "closed" => \A k \in DOMAIN wire' : IsReply(wire'[k]) /\ StillAfter(k)' => wire'[k].value.doc = frames[Top]
  BY <1>3 DEF SettledInv, QuietInv
<1>6. CASE settle.last = None
  BY <1>1, <1>5, <1>6 DEF SettledInv, QuietInv, SettledMeansQuiet
<1>7. CASE settle.last # None
  <2>1. settle.last.version \in Nat /\ page.version >= settle.last.version
    BY <1>7 DEF Shape, PageTypes, SettleState, Samples, SettledInv, QuietInv
  <2>2. page'.version >= settle.last.version /\ (page'.version = settle.last.version => page.version = settle.last.version /\ ~ IsEdge(wire[1]))
    BY <1>2, <2>1
  <2>3. socket # "closed" /\ page'.version = settle.last.version =>
          /\ command.at = "answered" =>
                \A k \in DOMAIN wire' : IsReply(wire'[k]) /\ StillBefore(k)' => wire'[k].value.doc = settle.last.doc
          /\ command.at # "answered" /\ StillAfter(0)' => settle.last.doc = frames[Top]
    BY <1>3, <1>4, <1>7, <2>2 DEF SettledInv, QuietInv
  <2> QED BY <1>1, <1>5, <1>7, <2>2, <2>3 DEF SettledInv, QuietInv, SettledMeansQuiet
<1> QED BY <1>6, <1>7

LEMMA DoneKeepsSettled ==
    ASSUME Shape, SettledInv, Done, Silent', command.do \notin {"sample", "sleep"}
    PROVE  SettledInv'
<1>1. CASE UNCHANGED <<verb, page, settle, ends>>
  <2>1. settle'.last = None /\ ends' = ends
    BY <1>1 DEF Shape, StageInv
  <2> QED BY <2>1, UnsampledIsSettled
<1>2. CASE Ended(TRUE)
  BY <1>2, EndKeepsSettled DEF Ended
<1> QED BY <1>1, <1>2 DEF Done

LEMMA SettledSteps == Shape /\ SettledInv /\ [Next]_vars => SettledInv'
<1> SUFFICES ASSUME Shape, SettledInv, [Next]_vars PROVE SettledInv'
  OBVIOUS
<1>0. ASSUME NEW do \in Commands, Replied(do)
      PROVE  Silent' /\ command.do = do
  BY <1>0, RepliedIsLast
<1>a. ASSUME Fails \/ Ended(TRUE) \/ Ended(FALSE) PROVE SettledInv'
  BY <1>a, EndKeepsSettled DEF Fails, Ended
<1>b. ASSUME command.do \notin {"sample", "sleep"}, UNCHANGED <<ends, settle>>, Silent' \/ command'.do # "sample" PROVE SettledInv'
  <2>1. settle'.last = None
    BY <1>b DEF Shape, StageInv
  <2> QED BY <1>b, <2>1, UnsampledIsSettled
<1>1. CASE Site \/ ChromeGone \/ Close
  BY <1>1, SiteKeepsSettled
<1>2. CASE Execute
  BY <1>2, ExecuteKeepsSettled
<1>3. CASE Navigate \/ Capture \/ \E name \in Acts : Act(name)
  <2>1. verb = NoVerb /\ UNCHANGED <<ends, settle, wire>>
    BY <1>3 DEF Navigate, Capture, Act, Start
  <2>2. Silent' /\ command.do \notin {"sample", "sleep"}
    BY <2>1, NoVerbNoCommand, NoneAssumption DEF Silent
  <2> QED BY <2>1, <2>2, <1>b
<1>4. CASE SocketClosed
  <2>1. CASE UNCHANGED <<command, verb, load, page, settle, ends>>
    <3>1. socket' = "closed" /\ Silent'
      BY <1>4 DEF SocketClosed, Silent
    <3> QED BY <2>1, <3>1 DEF SettledInv, QuietInv, SettledMeansQuiet
  <2> QED BY <1>4, <2>1, <1>a DEF SocketClosed
<1>5. CASE LoadTimesOut
  <2>1. CASE UNCHANGED <<command, verb, load, page, settle, ends>>
    <3>1. UNCHANGED <<frames, socket, wire>>
      BY <1>5 DEF LoadTimesOut
    <3> QED BY <2>1, <3>1 DEF SettledInv, QuietInv, SettledMeansQuiet, StillAfter, StillBefore
  <2> QED BY <1>5, <2>1, <1>a DEF LoadTimesOut
<1>6. CASE Tick
  <2>1. /\ settle'.last = settle.last /\ settle'.from = settle.from
        /\ UNCHANGED <<frames, socket, wire, command, page, ends>>
    BY <1>6 DEF Tick, Shape, PageTypes, SettleState
  <2> QED BY <2>1 DEF SettledInv, QuietInv, SettledMeansQuiet, StillAfter, StillBefore
<1>7. CASE Wake
  <2>1. /\ command.do = "sleep" /\ command' = Sent(Command("sample", Top, None))
        /\ UNCHANGED <<frames, socket, wire, settle, page, ends>>
    BY <1>7 DEF Wake
  <2>2. command'.at # "answered"
    BY <2>1, SampleIsSent
  <2>3. command.at # "answered"
    BY <2>1 DEF Shape, StageInv
  <2>4. Silent'
    BY <2>1, <2>3, NobodyReplied DEF Silent
  <2> QED BY <2>1, <2>2, <2>3, <2>4 DEF SettledInv, QuietInv, SettledMeansQuiet, StillAfter, StillBefore, Silent
<1>8. CASE Loaded
  <2>1. command.do = "loaded" /\ Done /\ wire' = wire
    BY <1>8 DEF Loaded
  <2>2. Silent
    BY <2>1, NobodyReplied DEF Shape, StageInv
  <2>3. Silent'
    BY <2>1, <2>2 DEF Silent
  <2> QED BY <2>1, <2>3, DoneKeepsSettled
<1>9. CASE NavigateReplied
  <2>1. Replied("navigate") /\ (Fails \/ UNCHANGED <<verb, load, page, settle, ends>>)
    BY <1>9 DEF NavigateReplied
  <2> QED BY <2>1, <1>0, <1>a, <1>b
<1>10. CASE TreeRead
  <2>1. Replied("tree") /\ UNCHANGED <<settle, ends>>
    BY <1>10 DEF TreeRead
  <2> QED BY <2>1, <1>0, <1>b
<1>11. CASE WorldMade
  <2>1. Replied("world") /\ UNCHANGED <<settle, ends>>
    BY <1>11 DEF WorldMade
  <2> QED BY <2>1, <1>0, <1>b
<1>12. CASE Serialized
  <2>1. Replied("serialize") /\ (Fails \/ Ended(TRUE) \/ UNCHANGED <<settle, ends>>)
    BY <1>12 DEF Serialized
  <2> QED BY <2>1, <1>0, <1>a, <1>b
<1>13. CASE Checked
  <2>1. Replied("check") /\ (Fails \/ UNCHANGED <<settle, ends>>)
    BY <1>13 DEF Checked
  <2> QED BY <2>1, <1>0, <1>a, <1>b
<1>14. CASE HrefRead
  <2>1. Replied("href") /\ (Fails \/ UNCHANGED <<settle, ends>>)
    BY <1>14 DEF HrefRead
  <2> QED BY <2>1, <1>0, <1>a, <1>b
<1>15. CASE Evaluated
  <2>1. Replied("evaluate") /\ (Done \/ Fails \/ UNCHANGED <<settle, ends>>)
    BY <1>15 DEF Evaluated
  <2>2. Silent' /\ command.do = "evaluate"
    BY <2>1, <1>0
  <2>3. command.do \notin {"sample", "sleep"}
    BY <2>2
  <2> QED BY <2>1, <2>2, <2>3, <1>a, <1>b, DoneKeepsSettled
<1>16. CASE UNCHANGED vars
  BY <1>16 DEF vars, SettledInv, QuietInv, SettledMeansQuiet, StillAfter, StillBefore
<1>17. CASE Client
  BY <1>17, <1>4, <1>5, <1>6, <1>7, <1>8, <1>9, <1>10, <1>11, <1>12, <1>13, <1>14, <1>15, HearKeepsSettled, SampledKeepsSettled DEF Client
<1> QED BY <1>1, <1>2, <1>3, <1>16, <1>17 DEF Next, Caller

\* A verb that let the page settle returned after a window in which the top document was
\* one and the same, did not change, and neither did the network, however the replies of
\* the samples and the events of the page interleave (settledness.ts:45-75).
THEOREM SettledIsQuiet == Spec => []SettledMeansQuiet
<1>1. Init => Shape /\ SettledInv
  <2> SUFFICES ASSUME Init PROVE Shape /\ SettledInv
    OBVIOUS
  <2>1. ends = <<>> /\ wire = <<>> /\ settle.last = None
    BY DEF Init, NoSettle
  <2> QED BY <2>1, InitShape DEF SettledInv, QuietInv, SettledMeansQuiet
<1>2. Shape /\ SettledInv /\ [Next]_vars => (Shape /\ SettledInv)'
  BY ShapeSteps, SettledSteps
<1>3. SettledInv => SettledMeansQuiet
  BY DEF SettledInv
<1> QED BY <1>1, <1>2, <1>3, PTL DEF Spec

-----------------------------------------------------------------------------
(* The launched browser.                                                    *)

ProcessState == {"up", "told", "gone"}
Known == Nat \cup {Nobody}
OpenerState == [pc : {"idle", "profile", "waiting", "stopping", "opened", "failed"}, attempt : Nat, child : Known]

BackendTypes ==
    /\ chromes \in Seq(ProcessState)
    /\ profiles \subseteq DOMAIN chromes
    /\ backend \in [child : Known, userDataDir : Known, endpoint : Known]
    /\ opener \in [Openers -> OpenerState]
    /\ closer \in [pc : {"idle", "stopping", "closed"}, child : Known]
    /\ overlap \in BOOLEAN

\* One caller at a time launches, and whatever runs is the child it or the closer knows of.
OneAtATime ==
    /\ \A o, p \in Openers : Busy(o) /\ Busy(p) => o = p
    /\ closer.pc # "idle" => backend.child = Nobody /\ \A o \in Openers : ~ Busy(o)
    /\ \A c \in DOMAIN chromes : ~ Terminated(c) => c = backend.child \/ (closer.pc = "stopping" /\ c = closer.child)
    /\ \A o \in Openers : Busy(o) =>
          /\ backend.endpoint = Nobody
          /\ opener[o].pc = "profile" => backend.child = Nobody
          /\ opener[o].pc # "profile" => backend.child = opener[o].child /\ backend.child # Nobody
    /\ closer.pc = "idle" /\ (\A o \in Openers : ~ Busy(o)) /\ backend.child # Nobody => backend.endpoint # Nobody
    /\ closer.pc # "closed" /\ chromes # <<>> => backend.userDataDir = Len(chromes)
    /\ closer.pc = "closed" /\ chromes # <<>> => Len(chromes) \notin profiles

BackendInv == BackendTypes /\ (~ overlap => OneAtATime)

\* Telling a process to end, or its end.
LEMMA ProcessChanges ==
    ASSUME NEW s \in Seq(ProcessState), NEW c, NEW v \in ProcessState
    PROVE  /\ [s EXCEPT ![c] = v] \in Seq(ProcessState) /\ Len([s EXCEPT ![c] = v]) = Len(s)
           /\ DOMAIN [s EXCEPT ![c] = v] = DOMAIN s /\ DOMAIN s = 1 .. Len(s) /\ Len(s) \in Nat
           /\ \A i \in DOMAIN s : [s EXCEPT ![c] = v][i] = IF i = c THEN v ELSE s[i]
<1>1. /\ DOMAIN [s EXCEPT ![c] = v] = DOMAIN s /\ DOMAIN s = 1 .. Len(s) /\ Len(s) \in Nat
      /\ \A i \in DOMAIN s : [s EXCEPT ![c] = v][i] = IF i = c THEN v ELSE s[i]
  OBVIOUS
<1>2. [s EXCEPT ![c] = v] \in [1 .. Len(s) -> ProcessState]
  <2>1. s \in [1 .. Len(s) -> ProcessState]
    BY <1>1
  <2> QED BY <1>1, <2>1
<1> QED BY <1>1, <1>2

\* The states of a process in which it has not ended.
LEMMA ProcessStays ==
    ASSUME NEW s \in Seq(ProcessState), NEW c
    PROVE  /\ [s EXCEPT ![c] = IF @ = "up" THEN "told" ELSE @] \in Seq(ProcessState)
           /\ Len([s EXCEPT ![c] = IF @ = "up" THEN "told" ELSE @]) = Len(s)
           /\ DOMAIN [s EXCEPT ![c] = IF @ = "up" THEN "told" ELSE @] = DOMAIN s
           /\ \A i \in DOMAIN s : [s EXCEPT ![c] = IF @ = "up" THEN "told" ELSE @][i] = "gone" <=> s[i] = "gone"
<1> DEFINE t == [s EXCEPT ![c] = IF @ = "up" THEN "told" ELSE @]
<1>1. DOMAIN t = DOMAIN s /\ DOMAIN s = 1 .. Len(s) /\ Len(s) \in Nat /\ \A i \in DOMAIN s : s[i] \in ProcessState
  OBVIOUS
<1>2. \A i \in DOMAIN s : t[i] = s[i] \/ (s[i] = "up" /\ t[i] = "told")
  <2> SUFFICES ASSUME NEW i \in DOMAIN s PROVE t[i] = s[i] \/ (s[i] = "up" /\ t[i] = "told")
    OBVIOUS
  <2>1. CASE i # c
    BY <2>1
  <2>2. CASE i = c /\ s[c] = "up"
    BY <2>2
  <2>3. CASE i = c /\ s[c] # "up"
    BY <2>3
  <2> QED BY <2>1, <2>2, <2>3
<1>3. t \in [1 .. Len(s) -> ProcessState]
  <2>1. \A i \in 1 .. Len(s) : t[i] \in ProcessState
    BY <1>1, <1>2 DEF ProcessState
  <2> QED BY <1>1, <2>1
<1> HIDE DEF t
<1>4. t \in Seq(ProcessState) /\ Len(t) = Len(s)
  BY <1>1, <1>3
<1>5. \A i \in DOMAIN s : t[i] = "gone" <=> s[i] = "gone"
  BY <1>2
<1> QED BY <1>1, <1>4, <1>5 DEF t

\* A caller goes on, or waits for another process.
LEMMA OpenerGoes ==
    ASSUME BackendInv, NEW o \in Openers,
           NEW pc \in {"idle", "profile", "waiting", "stopping", "opened", "failed"}
    PROVE  opener[o] \in OpenerState /\ [opener EXCEPT ![o].pc = pc] \in [Openers -> OpenerState]
<1>1. opener \in [Openers -> OpenerState] /\ opener[o] \in OpenerState
  BY DEF BackendInv, BackendTypes
<1>2. [opener[o] EXCEPT !.pc = pc] \in OpenerState
  BY <1>1 DEF OpenerState
<1>3. [opener EXCEPT ![o].pc = pc] = [opener EXCEPT ![o] = [opener[o] EXCEPT !.pc = pc]]
  BY <1>1
<1> QED BY <1>1, <1>2, <1>3

LEMMA OpenerWaits ==
    ASSUME BackendInv, NEW o \in Openers, NEW child \in Known,
           NEW pc \in {"idle", "profile", "waiting", "stopping", "opened", "failed"}
    PROVE  [opener EXCEPT ![o].pc = pc, ![o].child = child] \in [Openers -> OpenerState]
<1>1. opener \in [Openers -> OpenerState] /\ opener[o] \in OpenerState
  BY DEF BackendInv, BackendTypes
<1>2. [opener[o] EXCEPT !.pc = pc, !.child = child] \in OpenerState
  BY <1>1 DEF OpenerState
<1>3. [opener EXCEPT ![o].pc = pc, ![o].child = child] = [opener EXCEPT ![o] = [opener[o] EXCEPT !.pc = pc, !.child = child]]
  BY <1>1
<1> QED BY <1>1, <1>2, <1>3

LEMMA ChromeInitHolds == ChromeInit => BackendInv
<1> SUFFICES ASSUME ChromeInit PROVE BackendInv
  OBVIOUS
<1>1. BackendTypes
  <2>1. chromes \in Seq(ProcessState) /\ profiles \subseteq DOMAIN chromes
    BY DEF ChromeInit
  <2>2. backend \in [child : Known, userDataDir : Known, endpoint : Known] /\ overlap \in BOOLEAN
    BY DEF ChromeInit, Known
  <2>3. opener \in [Openers -> OpenerState]
    BY DEF ChromeInit, Known, OpenerState
  <2>4. closer \in [pc : {"idle", "stopping", "closed"}, child : Known]
    BY DEF ChromeInit, Known
  <2> QED BY <2>1, <2>2, <2>3, <2>4 DEF BackendTypes
<1>2. OneAtATime
  BY DEF ChromeInit, OneAtATime, Busy
<1> QED BY <1>1, <1>2 DEF BackendInv

LEMMA OpenKeeps ==
    ASSUME BackendInv, NEW o \in Openers, Open(o)
    PROVE  BackendInv'
<1> DEFINE pc == IF backend.endpoint # Nobody THEN "opened" ELSE "profile"
<1>1. /\ opener[o].pc = "idle" /\ opener' = [opener EXCEPT ![o].pc = pc]
      /\ UNCHANGED <<backend, chromes, profiles, closer>>
      /\ overlap' = (overlap \/ closer.pc # "idle" \/ \E other \in Openers : Busy(other))
  BY DEF Open, Moves
<1>2. (backend.endpoint # Nobody /\ pc = "opened") \/ (backend.endpoint = Nobody /\ pc = "profile")
  OBVIOUS
<1> HIDE DEF pc
<1>3. BackendTypes'
  <2>1. overlap' \in BOOLEAN
    BY <1>1
  <2>2. opener' \in [Openers -> OpenerState]
    BY <1>1, <1>2, OpenerGoes
  <2> QED BY <1>1, <2>1, <2>2 DEF BackendInv, BackendTypes
<1>4. ASSUME ~ overlap' PROVE OneAtATime'
  <2>1. OneAtATime /\ closer.pc = "idle" /\ \A p \in Openers : ~ Busy(p)
    BY <1>1, <1>4 DEF BackendInv
  <2>2. opener'[o].pc = pc /\ \A p \in Openers \ {o} : opener'[p] = opener[p]
    BY <1>1 DEF BackendInv, BackendTypes
  <2>3. \A p \in Openers : Busy(p)' => p = o /\ pc = "profile"
    <3>1. \A p \in Openers \ {o} : ~ Busy(p)'
      BY <2>1, <2>2 DEF Busy
    <3>2. Busy(o)' => pc = "profile"
      BY <1>2, <2>2 DEF Busy
    <3> QED BY <3>1, <3>2
  <2>4. \A c \in DOMAIN chromes' : Terminated(c)' <=> Terminated(c)
    BY <1>1 DEF Terminated
  <2>5. backend.endpoint = Nobody => backend.child = Nobody
    BY <2>1 DEF OneAtATime
  <2>6. pc = "opened" => backend.endpoint # Nobody
    BY <1>2
  <2>7. \A p \in Openers : Busy(p)' => backend.endpoint = Nobody /\ backend.child = Nobody /\ opener'[p].pc = "profile"
    BY <1>2, <2>2, <2>3, <2>5
  <2>8. (\A p \in Openers : ~ Busy(p)') => (backend.child # Nobody => backend.endpoint # Nobody)
    BY <2>5
  <2> QED BY <1>1, <2>1, <2>3, <2>4, <2>7, <2>8 DEF OneAtATime
<1> QED BY <1>3, <1>4 DEF BackendInv

LEMMA LaunchKeeps ==
    ASSUME BackendInv, NEW o \in Openers, Launch(o)
    PROVE  BackendInv'
<1> DEFINE c == Len(chromes) + 1
<1>1. /\ opener[o].pc = "profile" /\ chromes' = Append(chromes, "up") /\ profiles' = profiles \cup {c}
      /\ backend' = [backend EXCEPT !.child = c, !.userDataDir = c]
      /\ opener' = [opener EXCEPT ![o].pc = "waiting", ![o].child = c]
      /\ UNCHANGED <<closer, overlap>>
  BY DEF Launch
<1>2. /\ Len(chromes) \in Nat /\ DOMAIN chromes = 1 .. Len(chromes) /\ DOMAIN chromes' = 1 .. c /\ Len(chromes') = c
      /\ chromes' \in Seq(ProcessState) /\ chromes'[c] = "up" /\ \A i \in DOMAIN chromes : chromes'[i] = chromes[i]
  BY <1>1 DEF BackendInv, BackendTypes, ProcessState
<1>3. c \in Known /\ c # Nobody /\ c \in Nat
  BY <1>2, BackendAssumption DEF Known
<1> HIDE DEF c
<1>4. BackendTypes'
  <2>1. DOMAIN chromes' = DOMAIN chromes \cup {c}
    BY <1>2 DEF c
  <2>2. backend' \in [child : Known, userDataDir : Known, endpoint : Known]
    BY <1>1, <1>3 DEF BackendInv, BackendTypes
  <2>3. opener' \in [Openers -> OpenerState]
    BY <1>1, <1>3, OpenerWaits
  <2>4. profiles' \subseteq DOMAIN chromes'
    BY <1>1, <2>1 DEF BackendInv, BackendTypes
  <2> QED BY <1>1, <1>2, <2>2, <2>3, <2>4 DEF BackendInv, BackendTypes
<1>5. ASSUME ~ overlap' PROVE OneAtATime'
  <2>1. OneAtATime /\ Busy(o)
    BY <1>1, <1>5 DEF BackendInv, Busy
  <2>2. /\ opener'[o].pc = "waiting" /\ opener'[o].child = c /\ \A p \in Openers \ {o} : opener'[p] = opener[p]
        /\ backend'.child = c /\ backend'.userDataDir = c /\ backend'.endpoint = backend.endpoint
    BY <1>1 DEF BackendInv, BackendTypes
  <2>3. \A p \in Openers : Busy(p)' => p = o
    BY <2>1, <2>2 DEF Busy, OneAtATime
  <2>4. backend.child = Nobody /\ backend.endpoint = Nobody /\ closer.pc = "idle"
    BY <1>1, <2>1 DEF OneAtATime
  <2>5. \A i \in DOMAIN chromes' : ~ Terminated(i)' => i = c
    <3> SUFFICES ASSUME NEW i \in DOMAIN chromes, chromes[i] # "gone" PROVE FALSE
      BY <1>2 DEF Terminated, c
    <3>1. i = backend.child
      BY <2>1, <2>4 DEF OneAtATime, Terminated
    <3> QED BY <1>2, <2>4, <3>1, BackendAssumption
  <2>6. Busy(o)'
    BY <2>2 DEF Busy
  <2> QED BY <1>1, <1>2, <1>3, <2>2, <2>3, <2>4, <2>5, <2>6 DEF OneAtATime
<1> QED BY <1>4, <1>5 DEF BackendInv

LEMMA ListensKeeps ==
    ASSUME BackendInv, NEW o \in Openers, Listens(o)
    PROVE  BackendInv'
<1>1. /\ opener[o].pc = "waiting" /\ backend' = [backend EXCEPT !.endpoint = opener[o].child]
      /\ opener' = [opener EXCEPT ![o].pc = "opened"] /\ UNCHANGED <<chromes, profiles, closer, overlap>>
  BY DEF Listens, Moves
<1>2. BackendTypes'
  <2>1. opener' \in [Openers -> OpenerState] /\ opener[o] \in OpenerState
    BY <1>1, OpenerGoes
  <2>2. backend' \in [child : Known, userDataDir : Known, endpoint : Known]
    BY <1>1, <2>1 DEF BackendInv, BackendTypes, OpenerState
  <2> QED BY <1>1, <2>1, <2>2 DEF BackendInv, BackendTypes
<1>3. ASSUME ~ overlap' PROVE OneAtATime'
  <2>1. OneAtATime /\ Busy(o)
    BY <1>1, <1>3 DEF BackendInv, Busy
  <2>2. /\ opener'[o].pc = "opened" /\ \A p \in Openers \ {o} : opener'[p] = opener[p]
        /\ backend'.child = backend.child /\ backend'.userDataDir = backend.userDataDir /\ backend'.endpoint = opener[o].child
    BY <1>1 DEF BackendInv, BackendTypes
  <2>3. \A p \in Openers : ~ Busy(p)'
    BY <2>1, <2>2 DEF Busy, OneAtATime
  <2>4. backend'.endpoint # Nobody
    BY <1>1, <2>1, <2>2 DEF OneAtATime
  <2>5. \A c \in DOMAIN chromes' : Terminated(c)' <=> Terminated(c)
    BY <1>1 DEF Terminated
  <2> QED BY <1>1, <2>1, <2>2, <2>3, <2>4, <2>5 DEF OneAtATime
<1> QED BY <1>2, <1>3 DEF BackendInv

LEMMA GivesUpKeeps ==
    ASSUME BackendInv, NEW o \in Openers, GivesUp(o)
    PROVE  BackendInv'
<1> DEFINE c == backend.child
<1>1. opener[o].pc = "waiting" /\ UNCHANGED <<backend, profiles, closer, overlap>>
  BY DEF GivesUp
<1>2. CASE c = Nobody
  <2>1. UNCHANGED chromes /\ opener' = [opener EXCEPT ![o].pc = "failed"]
    BY <1>2 DEF GivesUp, Moves
  <2>2. BackendTypes'
    <3>1. opener' \in [Openers -> OpenerState]
      BY <2>1, OpenerGoes
    <3> QED BY <1>1, <2>1, <3>1 DEF BackendInv, BackendTypes
  <2>3. overlap
    BY <1>1, <1>2 DEF BackendInv, OneAtATime, Busy
  <2> QED BY <1>1, <2>2, <2>3 DEF BackendInv
<1>3. CASE c # Nobody
  <2>1. /\ chromes' = [chromes EXCEPT ![c] = IF @ = "up" THEN "told" ELSE @]
        /\ opener' = [opener EXCEPT ![o].pc = "stopping", ![o].child = c]
    BY <1>3 DEF GivesUp
  <2>2. c \in Known /\ chromes \in Seq(ProcessState)
    BY DEF BackendInv, BackendTypes
  <2> HIDE DEF c
  <2>3. /\ chromes' \in Seq(ProcessState) /\ Len(chromes') = Len(chromes) /\ DOMAIN chromes' = DOMAIN chromes
        /\ \A i \in DOMAIN chromes : chromes'[i] = "gone" <=> chromes[i] = "gone"
    BY <2>1, <2>2, ProcessStays
  <2>4. BackendTypes'
    <3>1. opener' \in [Openers -> OpenerState]
      BY <2>1, <2>2, OpenerWaits
    <3> QED BY <1>1, <2>3, <3>1 DEF BackendInv, BackendTypes
  <2>5. ASSUME ~ overlap' PROVE OneAtATime'
    <3>1. OneAtATime /\ Busy(o)
      BY <1>1, <2>5 DEF BackendInv, Busy
    <3>2. opener'[o].pc = "stopping" /\ opener'[o].child = c /\ \A p \in Openers \ {o} : opener'[p] = opener[p]
      BY <2>1 DEF BackendInv, BackendTypes
    <3>3. \A p \in Openers : Busy(p)' <=> p = o
      BY <3>1, <3>2 DEF Busy, OneAtATime
    <3>4. \A i \in DOMAIN chromes' : Terminated(i)' <=> Terminated(i)
      BY <2>3 DEF Terminated
    <3>5. backend.endpoint = Nobody /\ closer.pc = "idle"
      BY <3>1 DEF OneAtATime
    <3>6. chromes' # <<>> => chromes # <<>>
      BY <2>2, <2>3
    <3> QED BY <1>1, <1>3, <2>3, <3>1, <3>2, <3>3, <3>4, <3>5, <3>6 DEF OneAtATime, c
  <2> QED BY <2>4, <2>5 DEF BackendInv
<1> QED BY <1>2, <1>3

LEMMA RetriesKeeps ==
    ASSUME BackendInv, NEW o \in Openers, Retries(o)
    PROVE  BackendInv'
<1> DEFINE pc == IF opener[o].attempt < LaunchAttempts THEN "profile" ELSE "failed"
           n  == opener[o].attempt + 1
<1>1. /\ opener[o].pc = "stopping" /\ Terminated(opener[o].child)
      /\ backend' = [backend EXCEPT !.child = Nobody]
      /\ UNCHANGED <<chromes, profiles, closer, overlap>>
  BY DEF Retries
<1>2. opener' = [opener EXCEPT ![o] = [pc |-> pc, attempt |-> n, child |-> Nobody]]
  BY DEF Retries, BackendInv, BackendTypes
<1>3. pc \in {"profile", "failed"}
  OBVIOUS
<1>4. n \in Nat
  <2>1. opener[o].attempt \in Nat
    BY DEF BackendInv, BackendTypes, OpenerState
  <2> QED BY <2>1
<1> HIDE DEF pc, n
<1>5. BackendTypes'
  <2>1. opener' \in [Openers -> OpenerState]
    <3>1. [pc |-> pc, attempt |-> n, child |-> Nobody] \in OpenerState
      BY <1>3, <1>4 DEF OpenerState, Known
    <3> QED BY <1>2, <3>1 DEF BackendInv, BackendTypes
  <2>2. backend' \in [child : Known, userDataDir : Known, endpoint : Known]
    BY <1>1 DEF BackendInv, BackendTypes, Known
  <2> QED BY <1>1, <2>1, <2>2 DEF BackendInv, BackendTypes
<1>6. ASSUME ~ overlap' PROVE OneAtATime'
  <2>1. OneAtATime /\ Busy(o)
    BY <1>1, <1>6 DEF BackendInv, Busy
  <2>2. /\ opener'[o].pc = pc /\ \A p \in Openers \ {o} : opener'[p] = opener[p]
        /\ backend'.child = Nobody /\ backend'.userDataDir = backend.userDataDir /\ backend'.endpoint = backend.endpoint
    BY <1>1, <1>2 DEF BackendInv, BackendTypes
  <2>3. \A p \in Openers : Busy(p)' => p = o /\ opener'[p].pc = "profile"
    <3>1. \A p \in Openers \ {o} : ~ Busy(p)'
      BY <2>1, <2>2 DEF Busy, OneAtATime
    <3>2. Busy(o)' => opener'[o].pc = "profile"
      BY <1>3, <2>2 DEF Busy
    <3> QED BY <3>1, <3>2
  <2>4. backend.endpoint = Nobody /\ closer.pc = "idle" /\ backend.child = opener[o].child
    BY <1>1, <2>1 DEF OneAtATime
  <2>5. \A c \in DOMAIN chromes' : Terminated(c)'
    BY <1>1, <2>1, <2>4 DEF Terminated, OneAtATime
  <2> QED BY <1>1, <2>1, <2>2, <2>3, <2>4, <2>5 DEF OneAtATime
<1> QED BY <1>5, <1>6 DEF BackendInv

LEMMA CloseBackendKeeps ==
    ASSUME BackendInv, CloseBackend
    PROVE  BackendInv'
<1> DEFINE c == backend.child
<1>1. /\ closer.pc = "idle" /\ closer' = [pc |-> "stopping", child |-> c]
      /\ chromes' = IF c = Nobody THEN chromes ELSE [chromes EXCEPT ![c] = IF @ = "up" THEN "told" ELSE @]
      /\ backend' = [backend EXCEPT !.child = Nobody]
      /\ overlap' = (overlap \/ \E o \in Openers : Busy(o)) /\ UNCHANGED <<profiles, opener>>
  BY DEF CloseBackend
<1>2. c \in Known /\ chromes \in Seq(ProcessState)
  BY DEF BackendInv, BackendTypes
<1>3. /\ chromes' \in Seq(ProcessState) /\ Len(chromes') = Len(chromes) /\ DOMAIN chromes' = DOMAIN chromes
      /\ \A i \in DOMAIN chromes : chromes'[i] = "gone" <=> chromes[i] = "gone"
  <2>1. CASE c = Nobody
    <3>1. chromes' = chromes
      BY <1>1, <2>1
    <3> QED BY <1>2, <3>1
  <2>2. CASE c # Nobody
    <3>1. chromes' = [chromes EXCEPT ![c] = IF @ = "up" THEN "told" ELSE @]
      BY <1>1, <2>2
    <3> HIDE DEF c
    <3> QED BY <1>2, <3>1, ProcessStays
  <2> QED BY <2>1, <2>2
<1> HIDE DEF c
<1>4. BackendTypes'
  <2>1. backend' \in [child : Known, userDataDir : Known, endpoint : Known]
    BY <1>1 DEF BackendInv, BackendTypes, Known
  <2>2. closer' \in [pc : {"idle", "stopping", "closed"}, child : Known] /\ overlap' \in BOOLEAN
    BY <1>1, <1>2
  <2> QED BY <1>1, <1>3, <2>1, <2>2 DEF BackendInv, BackendTypes
<1>5. ASSUME ~ overlap' PROVE OneAtATime'
  <2>1. OneAtATime /\ \A o \in Openers : ~ Busy(o)
    BY <1>1, <1>5 DEF BackendInv
  <2>2. \A o \in Openers : ~ Busy(o)'
    BY <1>1, <2>1 DEF Busy
  <2>3. backend'.child = Nobody /\ backend'.userDataDir = backend.userDataDir /\ closer'.pc = "stopping" /\ closer'.child = c
    BY <1>1 DEF BackendInv, BackendTypes
  <2>4. \A i \in DOMAIN chromes' : ~ Terminated(i)' => i = c
    BY <1>1, <1>3, <2>1 DEF Terminated, OneAtATime, c
  <2>5. chromes' # <<>> => backend'.userDataDir = Len(chromes')
    <3>1. chromes' # <<>> => chromes # <<>>
      BY <1>2, <1>3
    <3> QED BY <1>1, <1>3, <2>1, <2>3, <3>1 DEF OneAtATime
  <2> QED BY <2>2, <2>3, <2>4, <2>5 DEF OneAtATime
<1> QED BY <1>4, <1>5 DEF BackendInv

LEMMA RemovesKeeps ==
    ASSUME BackendInv, Removes
    PROVE  BackendInv'
<1>1. /\ closer.pc = "stopping" /\ (closer.child # Nobody => Terminated(closer.child))
      /\ profiles' = profiles \ {backend.userDataDir}
      /\ backend' = [backend EXCEPT !.userDataDir = Nobody, !.endpoint = Nobody]
      /\ closer' = [closer EXCEPT !.pc = "closed"] /\ UNCHANGED <<chromes, opener, overlap>>
  BY DEF Removes
<1>2. BackendTypes'
  <2>1. backend' \in [child : Known, userDataDir : Known, endpoint : Known]
    BY <1>1 DEF BackendInv, BackendTypes, Known
  <2>2. closer' \in [pc : {"idle", "stopping", "closed"}, child : Known]
    BY <1>1 DEF BackendInv, BackendTypes
  <2>3. profiles' \subseteq DOMAIN chromes'
    BY <1>1 DEF BackendInv, BackendTypes
  <2> QED BY <1>1, <2>1, <2>2, <2>3 DEF BackendInv, BackendTypes
<1>3. ASSUME ~ overlap' PROVE OneAtATime'
  <2>1. OneAtATime
    BY <1>1, <1>3 DEF BackendInv
  <2>2. backend.child = Nobody /\ \A o \in Openers : ~ Busy(o)
    BY <1>1, <2>1 DEF OneAtATime
  <2>3. \A o \in Openers : ~ Busy(o)'
    BY <1>1, <2>2 DEF Busy
  <2>4. backend'.child = Nobody /\ closer'.pc = "closed"
    BY <1>1, <2>2 DEF BackendInv, BackendTypes
  <2>5. \A c \in DOMAIN chromes' : Terminated(c)'
    <3> SUFFICES ASSUME NEW c \in DOMAIN chromes, chromes[c] # "gone" PROVE FALSE
      BY <1>1 DEF Terminated
    <3>1. c = closer.child \/ c = Nobody
      BY <2>1, <2>2 DEF OneAtATime, Terminated
    <3>2. c # Nobody
      BY BackendAssumption DEF BackendInv, BackendTypes
    <3> QED BY <1>1, <3>1, <3>2 DEF Terminated
  <2>6. chromes' # <<>> => Len(chromes') \notin profiles'
    BY <1>1, <2>1 DEF OneAtATime
  <2> QED BY <2>3, <2>4, <2>5, <2>6 DEF OneAtATime
<1> QED BY <1>2, <1>3 DEF BackendInv

LEMMA EndsKeeps ==
    ASSUME BackendInv, NEW c \in DOMAIN chromes, Ends(c)
    PROVE  BackendInv'
<1>1. chromes' = [chromes EXCEPT ![c] = "gone"] /\ UNCHANGED <<backend, profiles, opener, closer, overlap>>
  BY DEF Ends
<1>2. chromes \in Seq(ProcessState) /\ "gone" \in ProcessState
  BY DEF BackendInv, BackendTypes, ProcessState
<1>3. /\ chromes' \in Seq(ProcessState) /\ Len(chromes') = Len(chromes) /\ DOMAIN chromes' = DOMAIN chromes
      /\ \A i \in DOMAIN chromes : chromes[i] = "gone" => chromes'[i] = "gone"
  <2>1. \A i \in DOMAIN chromes : [chromes EXCEPT ![c] = "gone"][i] = IF i = c THEN "gone" ELSE chromes[i]
    BY <1>2, ProcessChanges
  <2> QED BY <1>1, <1>2, <2>1, ProcessChanges
<1>4. BackendTypes'
  BY <1>1, <1>3 DEF BackendInv, BackendTypes
<1>5. ASSUME ~ overlap' PROVE OneAtATime'
  <2>1. OneAtATime
    BY <1>1, <1>5 DEF BackendInv
  <2>2. \A i \in DOMAIN chromes' : ~ Terminated(i)' => i \in DOMAIN chromes /\ ~ Terminated(i)
    BY <1>3 DEF Terminated
  <2>3. \A p \in Openers : Busy(p)' <=> Busy(p)
    BY <1>1 DEF Busy
  <2>4. chromes' # <<>> => chromes # <<>>
    BY <1>2, <1>3
  <2> QED BY <1>1, <1>3, <2>1, <2>2, <2>3, <2>4 DEF OneAtATime
<1> QED BY <1>4, <1>5 DEF BackendInv

LEMMA BackendStep == BackendInv /\ [ChromeNext]_chromeVars => BackendInv'
<1> SUFFICES ASSUME BackendInv, [ChromeNext]_chromeVars PROVE BackendInv'
  OBVIOUS
<1>1. ASSUME NEW o \in Openers, Launches(o) PROVE BackendInv'
  BY <1>1, OpenKeeps, LaunchKeeps, ListensKeeps, GivesUpKeeps, RetriesKeeps DEF Launches
<1>2. CASE CloseBackend
  BY <1>2, CloseBackendKeeps
<1>3. CASE Removes
  BY <1>3, RemovesKeeps
<1>4. ASSUME NEW c \in DOMAIN chromes, Ends(c) PROVE BackendInv'
  BY <1>4, EndsKeeps
<1>5. CASE UNCHANGED chromeVars
  BY <1>5 DEF chromeVars, BackendInv, BackendTypes, OneAtATime, Busy, Terminated
<1> QED BY <1>1, <1>2, <1>3, <1>4, <1>5 DEF ChromeNext

\* What the invariant says of a closed backend.
LEMMA ClosedIsStopped == BackendInv => ClosedMeansStopped
<1> SUFFICES ASSUME BackendInv, closer.pc = "closed", ~ overlap
             PROVE  /\ \A c \in DOMAIN chromes : Terminated(c)
                    /\ Cardinality(profiles) < Len(chromes) \/ chromes = <<>>
  BY DEF ClosedMeansStopped, Closed
<1>1. OneAtATime
  BY DEF BackendInv
<1>2. \A c \in DOMAIN chromes : Terminated(c)
  BY <1>1, BackendAssumption DEF OneAtATime, BackendInv, BackendTypes
<1>3. ASSUME chromes # <<>> PROVE Cardinality(profiles) < Len(chromes)
  <2> DEFINE n == Len(chromes)
  <2>1. n \in Nat /\ n > 0 /\ DOMAIN chromes = 1 .. n
    BY <1>3 DEF BackendInv, BackendTypes
  <2>2. profiles \subseteq 1 .. n /\ n \notin profiles
    BY <1>1, <1>3, <2>1 DEF OneAtATime, BackendInv, BackendTypes
  <2> HIDE DEF n
  <2>3. profiles \subseteq 1 .. (n - 1)
    BY <2>1, <2>2
  <2>4. IsFiniteSet(1 .. (n - 1)) /\ Cardinality(1 .. (n - 1)) = n - 1
    BY <2>1, FS_Interval
  <2>5. Cardinality(profiles) \in Nat /\ Cardinality(profiles) <= n - 1
    BY <2>3, <2>4, FS_Subset, FS_CardinalityType
  <2> QED BY <2>1, <2>5 DEF n
<1> QED BY <1>2, <1>3

\* A backend that was closed when nobody was still opening it, and that no two callers had
\* opened at a time, has left no process running and has removed the profile of the last
\* attempt, whatever attempts failed, timed out or died (cdp-backend.ts:67-115).
THEOREM ClosedBackendsAreStopped == ChromeSpec => []ClosedMeansStopped
<1>1. ChromeInit => BackendInv
  BY ChromeInitHolds
<1>2. BackendInv /\ [ChromeNext]_chromeVars => BackendInv'
  BY BackendStep
<1>3. BackendInv => ClosedMeansStopped
  BY ClosedIsStopped
<1> QED BY <1>1, <1>2, <1>3, PTL DEF ChromeSpec
=============================================================================
