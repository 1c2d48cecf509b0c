---------------------------- MODULE RecorderProxy ----------------------------
(***************************************************************************)
(* runProxy (packages/recorder/src/proxy.ts): a recorder between an MCP    *)
(* client and a server it spawns.  The client is McpToolCaller             *)
(* (packages/executor/src/mcp-tool-caller.ts), or any other that also asks *)
(* for the list of tools; the server is the host's.                        *)
(*                                                                         *)
(* Lines travel through pipes, so each side may be behind.  The exit of    *)
(* the server is reported apart from its output: lines it wrote may be     *)
(* read after that.  Node ends a process that leaves a rejected promise or *)
(* a stream error unhandled.                                               *)
(***************************************************************************)
EXTENDS Naturals, SequencesExt, FiniteSetsExt

CONSTANTS
    MaxCalls,   \* bound on the requests of the client
    MaxNoise,   \* bound on the lines of the server that are no responses
    None

ASSUME ProxyAssumption == MaxCalls \in Nat /\ MaxNoise \in Nat

VARIABLES
    client,    \* [asked, pending, got, sends]: its requests, by id the methods, the ids that
               \* are unsettled, the replies it took, and whether it still sends
    toProxy,   \* the lines the client has written
    proxy,     \* the state of the recorder
    server,    \* [up, code, inbox]: whether it runs, how it has ended, and what it was sent
    output,    \* the lines of the server the recorder has not read
    written,   \* all the lines the server ever wrote
    toClient,  \* the lines the recorder has forwarded
    read,      \* how many of those the client has read
    trail,     \* the events in the trajectory
    manifest   \* [outcome, upTo, landed]: what it says, and of how many events
               \* it could know: those read before, those on disk

vars == <<client, toProxy, proxy, server, output, written, toClient, read, trail, manifest>>

NoManifest == [outcome |-> None, upTo |-> 0, landed |-> 0]
Unrecorded == [pc |-> "up", calls |-> {}, lists |-> {}, fingerprint |-> None, seq |-> 0,
               erred |-> FALSE, queue |-> <<>>, due |-> 0]

Init == /\ client = [asked |-> <<>>, pending |-> {}, got |-> <<>>, sends |-> TRUE]
        /\ toProxy = <<>>
        /\ proxy = Unrecorded
        /\ server = [up |-> TRUE, code |-> 0, inbox |-> <<>>]
        /\ output = <<>>
        /\ written = <<>>
        /\ toClient = <<>>
        /\ read = 0
        /\ trail = <<>>
        /\ manifest = NoManifest

Sent(method, id) == [method |-> method, id |-> id]
Reply(id, ok) == [id |-> id, ok |-> ok]
\* A line that is no response: no JSON, a notification, or a request of the
\* server's own, whose id may be that of a call.
Noise(id) == [id |-> id, noise |-> TRUE]
\* tryParseJsonRpcLine and isResponse
IsResponse(line) == "ok" \in DOMAIN line

-----------------------------------------------------------------------------
(* The client. *)

\* McpToolCaller.call: the pending reply is entered before the line is written.
Call(method) ==
    /\ client.sends /\ Len(client.asked) < MaxCalls
    /\ LET id == Len(client.asked) + 1
       IN  /\ toProxy' = Append(toProxy, Sent(method, id))
           /\ client' = [client EXCEPT !.asked = Append(@, method), !.pending = @ \cup {id}]
    /\ UNCHANGED <<proxy, server, output, written, toClient, read, trail, manifest>>

\* Mutants of Settle: a line of no pending call stops the reading; and the reply
\* is any line with the id.
SettleOnlyPending ==
    /\ read < Len(toClient) /\ toClient[read + 1].id \in client.pending
    /\ client' = [client EXCEPT !.pending = @ \ {toClient[read + 1].id}, !.got = Append(@, toClient[read + 1])]
    /\ read' = read + 1
    /\ UNCHANGED <<toProxy, proxy, server, output, written, toClient, trail, manifest>>

SettleAny ==
    /\ read < Len(toClient)
    /\ LET line == toClient[read + 1]
       IN client' = IF line.id \in client.pending
                    THEN [client EXCEPT !.pending = @ \ {line.id}, !.got = Append(@, line)]
                    ELSE client
    /\ read' = read + 1
    /\ UNCHANGED <<toProxy, proxy, server, output, written, toClient, trail, manifest>>

\* A line that is no response, or of no call that is pending, is ignored.
Settle ==
    /\ read < Len(toClient)
    /\ LET line == toClient[read + 1]
       IN client' = IF IsResponse(line) /\ line.id \in client.pending
                    THEN [client EXCEPT !.pending = @ \ {line.id}, !.got = Append(@, line)]
                    ELSE client
    /\ read' = read + 1
    /\ UNCHANGED <<toProxy, proxy, server, output, written, toClient, trail, manifest>>

\* close: the end of the recorder's input, which it passes on to the server.
Close ==
    /\ client.sends
    /\ client' = [client EXCEPT !.sends = FALSE]
    /\ UNCHANGED <<toProxy, proxy, server, output, written, toClient, read, trail, manifest>>

-----------------------------------------------------------------------------
(* The server. *)

\* It answers what it has been sent, in any order, or reports an error.
Answer ==
    /\ server.up
    /\ \E i \in DOMAIN server.inbox, ok \in BOOLEAN :
         /\ server' = [server EXCEPT !.inbox = RemoveAt(@, i)]
         /\ output' = Append(output, Reply(server.inbox[i].id, ok))
         /\ written' = Append(written, Reply(server.inbox[i].id, ok))
    /\ UNCHANGED <<client, toProxy, proxy, toClient, read, trail, manifest>>

Chatter ==
    /\ server.up /\ Cardinality({i \in DOMAIN written : ~ IsResponse(written[i])}) < MaxNoise
    /\ \E id \in 1 .. MaxCalls : /\ output' = Append(output, Noise(id))
                                 /\ written' = Append(written, Noise(id))
    /\ UNCHANGED <<client, toProxy, proxy, server, toClient, read, trail, manifest>>

\* It ends, by itself or because its input has.
ServerExits ==
    /\ server.up
    /\ \E code \in {0, 1} : server' = [server EXCEPT !.up = FALSE, !.code = code]
    /\ UNCHANGED <<client, toProxy, proxy, output, written, toClient, read, trail, manifest>>

-----------------------------------------------------------------------------
(* The recorder. *)

Alive == proxy.pc # "dead"
\* Until the end of the server is reported, its input is still open.
Reported == proxy.pc # "up"

\* A line from the client: a tools/call or a tools/list is remembered, and the
\* line goes on.  To a server that is gone it is lost, and the write may raise
\* an error that nobody handles.
Pass ==
    /\ Alive /\ toProxy # <<>>
    /\ LET line == Head(toProxy)
           noted == IF line.method = "tools/call" THEN [proxy EXCEPT !.calls = @ \cup {line.id}]
                    ELSE [proxy EXCEPT !.lists = @ \cup {line.id}]
       IN  \/ /\ proxy' = noted
              /\ server' = IF server.up THEN [server EXCEPT !.inbox = Append(@, line)] ELSE server
           \/ /\ ~ server.up /\ ~ Reported
              /\ proxy' = [proxy EXCEPT !.pc = "dead"] /\ UNCHANGED server
    /\ toProxy' = Tail(toProxy)
    /\ UNCHANGED <<client, output, written, toClient, read, trail, manifest>>

\* Mutant of Noted: an answer that is an error is no event.
NotedUnlessError(line) ==
    IF proxy.fingerprint = None /\ line.id \in proxy.lists
    THEN [proxy EXCEPT !.lists = @ \ {line.id}, !.fingerprint = IF line.ok THEN line.id ELSE None]
    ELSE IF line.id \in proxy.calls /\ line.ok
    THEN [proxy EXCEPT !.calls = @ \ {line.id}, !.seq = @ + 1,
                       !.queue = Append(@, [seq |-> proxy.seq, id |-> line.id, ok |-> line.ok])]
    ELSE proxy

\* What a response does to the record: the first answer to a tools/list gives
\* the fingerprint, the answer to a remembered call an event.
Noted(line) ==
    IF proxy.fingerprint = None /\ line.id \in proxy.lists
    THEN [proxy EXCEPT !.lists = @ \ {line.id},
                       !.fingerprint = IF line.ok THEN line.id ELSE None]
    ELSE IF line.id \in proxy.calls
    THEN [proxy EXCEPT !.calls = @ \ {line.id}, !.seq = @ + 1, !.erred = @ \/ ~ line.ok,
                       !.queue = Append(@, [seq |-> proxy.seq, id |-> line.id, ok |-> line.ok])]
    ELSE proxy

\* Mutant of ReadLine: only what parses is forwarded.
ReadLineParsed ==
    /\ Alive /\ output # <<>>
    /\ output' = Tail(output)
    /\ toClient' = IF IsResponse(Head(output)) THEN Append(toClient, Head(output)) ELSE toClient
    /\ proxy' = IF IsResponse(Head(output)) THEN Noted(Head(output)) ELSE proxy
    /\ UNCHANGED <<client, toProxy, server, written, read, trail, manifest>>

\* A line from the server is forwarded first, whatever it is.
ReadLine ==
    /\ Alive /\ output # <<>>
    /\ output' = Tail(output)
    /\ toClient' = Append(toClient, Head(output))
    /\ proxy' = IF IsResponse(Head(output)) THEN Noted(Head(output)) ELSE proxy
    /\ UNCHANGED <<client, toProxy, server, written, read, trail, manifest>>

\* The queue appends one event at a time, in the order they were read.
AppendEvent ==
    /\ Alive /\ proxy.queue # <<>>
    /\ trail' = Append(trail, Head(proxy.queue))
    /\ proxy' = [proxy EXCEPT !.queue = Tail(@)]
    /\ UNCHANGED <<client, toProxy, server, output, written, toClient, read, manifest>>

\* An append that fails rejects the tail of the queue.  Nobody handles that
\* before the session ends: the process dies.  While it drains, runProxy rejects.
AppendFails ==
    /\ Alive /\ proxy.queue # <<>>
    /\ proxy' = [proxy EXCEPT !.pc = "dead"]
    /\ UNCHANGED <<client, toProxy, server, output, written, toClient, read, trail, manifest>>

\* child.on('exit'): what is in the queue by now will be waited for.
ExitReported ==
    /\ proxy.pc = "up" /\ ~ server.up
    /\ proxy' = [proxy EXCEPT !.pc = "draining", !.due = proxy.seq]
    /\ UNCHANGED <<client, toProxy, server, output, written, toClient, read, trail, manifest>>

\* Mutant of Drained: nobody waits for the queue.
DrainedAnyway == TRUE
Drained == Len(trail) >= proxy.due

Outcome == IF server.code # 0 \/ proxy.erred THEN "failure" ELSE "success"

\* The recorder reads on afterwards, as long as there is output.
Seal ==
    /\ proxy.pc = "draining" /\ Drained
    /\ manifest' = [outcome |-> Outcome, upTo |-> proxy.seq, landed |-> Len(trail)]
    /\ proxy' = [proxy EXCEPT !.pc = "sealed"]
    /\ UNCHANGED <<client, toProxy, server, output, written, toClient, read, trail>>

Next == \/ \E method \in {"tools/call", "tools/list"} : Call(method)
        \/ Settle \/ Close \/ Answer \/ Chatter \/ ServerExits
        \/ Pass \/ ReadLine \/ AppendEvent \/ AppendFails \/ ExitReported \/ Seal

Spec == Init /\ [][Next]_vars

\* Node handles what is readable, and the server answers as long as it runs.
Fairness == WF_vars(Settle) /\ WF_vars(Answer) /\ WF_vars(Pass) /\ WF_vars(ReadLine)
FairSpec == Spec /\ Fairness

-----------------------------------------------------------------------------

Ids(lines) == {lines[i].id : i \in DOMAIN lines}

\* "Observationally invisible": the client reads what the server wrote, in its
\* order and up to some line, whatever is recorded; the reply it takes for a
\* call is the server's reply to that call.
Invisible ==
    /\ toClient \o output = written
    /\ \A i \in DOMAIN client.got : \E j \in 1 .. read : toClient[j] = client.got[i] /\ IsResponse(toClient[j])

\* The events are those of the forwarded replies to calls, in their order and
\* without a gap; every reply forwarded is in the record or on its way there.
RecordFollowsReplies ==
    LET all == trail \o proxy.queue
    IN  /\ \A i \in DOMAIN all : all[i].seq = i - 1
        /\ \E at \in [DOMAIN all -> DOMAIN toClient] :
             /\ \A i \in DOMAIN all : toClient[at[i]] = Reply(all[i].id, all[i].ok)
             /\ \A i, j \in DOMAIN all : i < j => at[i] < at[j]
        /\ \A i \in DOMAIN toClient :
             IsResponse(toClient[i]) /\ client.asked[toClient[i].id] = "tools/call" => toClient[i].id \in Ids(all)

\* The manifest comes after every event the recorder had read when the exit was
\* reported, and it is a success only if no reply read so far was an error.
\* Events past its count are those whose line was still in the pipe.
ManifestAccounts ==
    manifest.outcome # None =>
        LET all == trail \o proxy.queue
        IN  /\ manifest.landed >= proxy.due
            /\ manifest.outcome = "success" => server.code = 0 /\ \A i \in 1 .. manifest.upTo : all[i].ok
            /\ server.up = FALSE

\* A call settles, unless the server or the recorder is gone: nothing else, no
\* deadline, ends the wait.
CallsSettle ==
    \A id \in 1 .. MaxCalls :
        id \in client.pending ~> (id \notin client.pending \/ ~ server.up \/ ~ Alive)

\* "Resolves once the downstream process exits and every queued write has drained."
NothingAfterTheManifest == manifest.outcome # None => Len(trail) = manifest.landed

\* The recording is of the conversation: the client reads what the server wrote, the events
\* are those of the replies in their order, and the manifest counts what had been read when
\* the exit was reported (proxy.ts:86-161).
RecordingIsTrue == Invisible /\ RecordFollowsReplies /\ ManifestAccounts
=============================================================================
