------------------------- MODULE RecorderProxy_proofs -------------------------
(***************************************************************************)
(* What a recording says of the conversation, for any number of calls, any *)
(* server, any noise and any order in which the pipes are read.            *)
(*                                                                         *)
(* The invariant follows an id: what the client has asked by it, whether   *)
(* the recorder remembers the call, and where its reply is.  An id that    *)
(* the server may still answer, or has answered, is of a call that is      *)
(* remembered or already in the record.                                    *)
(***************************************************************************)
EXTENDS RecorderProxy, SequenceTheorems, TLAPS

-----------------------------------------------------------------------------
(* Types. *)

Methods == {"tools/call", "tools/list"}
Requests == [method : Methods, id : Nat]
Replies == [id : Nat, ok : BOOLEAN]
Noises == {Noise(id) : id \in 1 .. MaxCalls}
Lines == Replies \cup Noises
Events == [seq : Nat, id : Nat, ok : BOOLEAN]

Clients == [asked : Seq(Methods), pending : SUBSET Nat, got : Seq(Lines), sends : BOOLEAN]
Proxies == [pc : {"up", "draining", "sealed", "dead"}, calls : SUBSET Nat, lists : SUBSET Nat,
            fingerprint : Nat \cup {None}, seq : Nat, erred : BOOLEAN, queue : Seq(Events), due : Nat]
Servers == [up : BOOLEAN, code : {0, 1}, inbox : Seq(Requests)]
Manifests == [outcome : {None, "success", "failure"}, upTo : Nat, landed : Nat]

Typed ==
    /\ client \in Clients /\ toProxy \in Seq(Requests)
    /\ proxy \in Proxies /\ server \in Servers
    /\ output \in Seq(Lines) /\ written \in Seq(Lines) /\ toClient \in Seq(Lines)
    /\ read \in 0 .. Len(toClient)
    /\ trail \in Seq(Events) /\ manifest \in Manifests

-----------------------------------------------------------------------------
(* The invariant. *)

\* The record: what is in the trajectory and what is on its way there.
Recorded == trail \o proxy.queue

\* The client has used the id, and the recorder has not forgotten a call.
Asked(id) == id \in DOMAIN client.asked
Owed(id) == client.asked[id] = "tools/call" => id \in proxy.calls \cup Ids(Recorded)

SentHold == \A i \in DOMAIN toProxy : Asked(toProxy[i].id) /\ client.asked[toProxy[i].id] = toProxy[i].method
InboxHolds == \A i \in DOMAIN server.inbox : Asked(server.inbox[i].id) /\ Owed(server.inbox[i].id)
ListsHold == \A id \in proxy.lists : Asked(id) /\ client.asked[id] = "tools/list"
RequestsHold == SentHold /\ InboxHolds /\ ListsHold

OutputHolds == \A i \in DOMAIN output : IsResponse(output[i]) => Asked(output[i].id) /\ Owed(output[i].id)
ForwardedHold ==
    \A i \in DOMAIN toClient : IsResponse(toClient[i]) =>
        /\ Asked(toClient[i].id)
        /\ client.asked[toClient[i].id] = "tools/call" => toClient[i].id \in Ids(Recorded)
RepliesHold == OutputHolds /\ ForwardedHold

\* The events are replies among the lines, in their order.
Follows(events, lines) ==
    \E at \in [DOMAIN events -> DOMAIN lines] :
        /\ \A i \in DOMAIN events : lines[at[i]] = Reply(events[i].id, events[i].ok)
        /\ \A i, j \in DOMAIN events : i < j => at[i] < at[j]

EventsHold ==
    /\ proxy.seq = Len(Recorded)
    /\ \A i \in DOMAIN Recorded : Recorded[i].seq = i - 1
    /\ ~ proxy.erred => \A i \in DOMAIN Recorded : Recorded[i].ok
    /\ Follows(Recorded, toClient)

ManifestHolds ==
    /\ proxy.pc \in {"draining", "sealed"} => ~ server.up
    /\ manifest.outcome # None =>
         /\ proxy.pc \in {"sealed", "dead"} /\ ~ server.up
         /\ manifest.upTo <= Len(Recorded) /\ manifest.landed >= proxy.due
         /\ manifest.outcome = "success" => server.code = 0 /\ \A i \in 1 .. manifest.upTo : Recorded[i].ok

RecorderInv == Typed /\ RequestsHold /\ RepliesHold /\ EventsHold /\ ManifestHolds /\ Invisible

-----------------------------------------------------------------------------
(* Sequences. *)

\* What is read from the head of one sequence onto the end of another changes nothing of
\* the two together.
LEMMA HandedOver ==
    ASSUME NEW S, NEW s \in Seq(S), NEW t \in Seq(S), t # <<>>
    PROVE  Append(s, Head(t)) \o Tail(t) = s \o t
<1>1. /\ Head(t) \in S /\ Tail(t) \in Seq(S) /\ Len(Tail(t)) = Len(t) - 1 /\ Len(t) \in Nat \ {0} /\ Len(s) \in Nat
      /\ \A i \in 1 .. Len(Tail(t)) : Tail(t)[i] = t[i + 1]
  BY HeadTailProperties, EmptySeq, LenProperties
<1>2. Head(t) = t[1]
  OBVIOUS
<1> DEFINE h == Append(s, Head(t))
<1>3. /\ h \in Seq(S) /\ Len(h) = Len(s) + 1
      /\ \A i \in 1 .. Len(s) : h[i] = s[i]
      /\ h[Len(s) + 1] = Head(t)
  BY <1>1, AppendProperties
<1> HIDE DEF h
<1>4. /\ h \o Tail(t) \in Seq(S) /\ Len(h \o Tail(t)) = Len(s) + Len(t)
      /\ \A i \in 1 .. Len(s) + Len(t) : (h \o Tail(t))[i] = IF i <= Len(s) + 1 THEN h[i] ELSE Tail(t)[i - (Len(s) + 1)]
  <2> DEFINE r == Tail(t)
  <2>1. r \in Seq(S) /\ Len(h) + Len(r) = Len(s) + Len(t)
    BY <1>1, <1>3
  <2> HIDE DEF r
  <2>2. /\ h \o r \in Seq(S) /\ Len(h \o r) = Len(h) + Len(r)
        /\ \A i \in 1 .. Len(h) + Len(r) : (h \o r)[i] = IF i <= Len(h) THEN h[i] ELSE r[i - Len(h)]
    BY <1>3, <2>1, ConcatProperties
  <2>3. QED
    BY <1>3, <2>1, <2>2 DEF r
<1>5. /\ s \o t \in Seq(S) /\ Len(s \o t) = Len(s) + Len(t)
      /\ \A i \in 1 .. Len(s) + Len(t) : (s \o t)[i] = IF i <= Len(s) THEN s[i] ELSE t[i - Len(s)]
  BY ConcatProperties
<1>6. ASSUME NEW i \in 1 .. Len(s) + Len(t) PROVE (h \o Tail(t))[i] = (s \o t)[i]
  <2>1. CASE i <= Len(s)
    BY <1>1, <1>3, <1>4, <1>5, <2>1
  <2>2. CASE i = Len(s) + 1
    BY <1>1, <1>2, <1>3, <1>4, <1>5, <2>2
  <2>3. CASE i > Len(s) + 1
    <3>1. i - (Len(s) + 1) \in 1 .. Len(Tail(t)) /\ (i - (Len(s) + 1)) + 1 = i - Len(s)
      BY <1>1, <2>3
    <3>2. QED
      BY <1>1, <1>4, <1>5, <2>3, <3>1
  <2>4. i <= Len(s) \/ i = Len(s) + 1 \/ i > Len(s) + 1
    BY <1>1
  <2>5. QED
    BY <2>1, <2>2, <2>3, <2>4
<1>7. QED
  BY <1>4, <1>5, <1>6, SeqEqual DEF h

LEMMA AppendedLast ==
    ASSUME NEW S, NEW s \in Seq(S), NEW t \in Seq(S), NEW e \in S
    PROVE  s \o Append(t, e) = Append(s \o t, e)
<1>1. /\ Append(t, e) = t \o <<e>> /\ s \o t \in Seq(S) /\ <<e>> \in Seq(S)
  BY AppendIsConcat, ConcatProperties
<1>2. Append(s \o t, e) = (s \o t) \o <<e>>
  BY <1>1, AppendIsConcat
<1>3. QED
  BY <1>1, <1>2, ConcatAssociative

\* What is left when one is taken out was there before.
LEMMA TakenOut ==
    ASSUME NEW S, NEW s \in Seq(S), NEW i \in DOMAIN s
    PROVE  /\ RemoveAt(s, i) \in Seq(S)
           /\ \A k \in DOMAIN RemoveAt(s, i) : \E j \in DOMAIN s : RemoveAt(s, i)[k] = s[j]
<1> DEFINE a == SubSeq(s, 1, i - 1)
           b == SubSeq(s, i + 1, Len(s))
           T == {s[j] : j \in DOMAIN s}
<1>1. Len(s) \in Nat /\ DOMAIN s = 1 .. Len(s) /\ i \in 1 .. Len(s) /\ T \subseteq S
  BY LenProperties, ElementOfSeq
<1>2. a \in Seq(T)
  <2>1. 1 \in Int /\ i - 1 \in Int /\ \A j \in 1 .. i - 1 : s[j] \in T
    BY <1>1
  <2>2. QED
    BY <2>1, SubSeqProperties
<1>3. b \in Seq(T)
  <2>1. i + 1 \in Int /\ Len(s) \in Int /\ \A j \in i + 1 .. Len(s) : s[j] \in T
    BY <1>1
  <2>2. QED
    BY <2>1, SubSeqProperties
<1>4. RemoveAt(s, i) = a \o b
  BY DEF RemoveAt
<1> HIDE DEF a, b
<1>5. RemoveAt(s, i) \in Seq(T)
  BY <1>2, <1>3, <1>4, ConcatProperties
<1>6. \A k \in DOMAIN RemoveAt(s, i) : RemoveAt(s, i)[k] \in T
  BY <1>5, LenProperties, ElementOfSeq
<1>7. RemoveAt(s, i) \in Seq(S)
  BY <1>1, <1>5, SeqMonotonic
<1>8. QED
  BY <1>6, <1>7

\* Reading the head and keeping the tail.
LEMMA Taken ==
    ASSUME NEW S, NEW s \in Seq(S), s # <<>>
    PROVE  /\ Head(s) \in S /\ Tail(s) \in Seq(S) /\ Head(s) = s[1] /\ 1 \in DOMAIN s
           /\ \A i \in DOMAIN Tail(s) : i + 1 \in DOMAIN s /\ Tail(s)[i] = s[i + 1]
<1>1. /\ Head(s) \in S /\ Tail(s) \in Seq(S) /\ Len(Tail(s)) = Len(s) - 1 /\ Len(s) \in Nat \ {0}
      /\ \A i \in 1 .. Len(Tail(s)) : Tail(s)[i] = s[i + 1]
  BY HeadTailProperties, EmptySeq
<1>2. DOMAIN s = 1 .. Len(s) /\ DOMAIN Tail(s) = 1 .. Len(Tail(s))
  BY <1>1, LenProperties
<1>3. Head(s) = s[1]
  OBVIOUS
<1>4. QED
  BY <1>1, <1>2, <1>3

LEMMA Added ==
    ASSUME NEW S, NEW s \in Seq(S), NEW e \in S
    PROVE  /\ Append(s, e) \in Seq(S) /\ Len(Append(s, e)) = Len(s) + 1 /\ Len(s) \in Nat
           /\ DOMAIN s = 1 .. Len(s) /\ DOMAIN Append(s, e) = 1 .. Len(s) + 1
           /\ \A i \in DOMAIN s : Append(s, e)[i] = s[i]
           /\ Append(s, e)[Len(s) + 1] = e
  BY AppendProperties, LenProperties

-----------------------------------------------------------------------------
(* Types are kept. *)

LEMMA ResponsesAre ==
    /\ \A line \in Lines : IsResponse(line) => line \in Replies /\ line = Reply(line.id, line.ok)
    /\ \A id \in Nat, ok \in BOOLEAN : Reply(id, ok) \in Lines /\ IsResponse(Reply(id, ok)) /\ Reply(id, ok).id = id
    /\ \A id \in 1 .. MaxCalls : Noise(id) \in Lines /\ ~ IsResponse(Noise(id))
<1>1. ASSUME NEW line \in Replies PROVE line = Reply(line.id, line.ok)
  BY DEF Replies, Reply
<1>2. ASSUME NEW id \in 1 .. MaxCalls PROVE ~ IsResponse(Noise(id))
  <2>1. DOMAIN Noise(id) = {"id", "noise"}
    BY DEF Noise
  <2>2. QED
    BY <2>1 DEF IsResponse
<1>3. ASSUME NEW id \in Nat, NEW ok \in BOOLEAN PROVE Reply(id, ok) \in Replies /\ IsResponse(Reply(id, ok)) /\ Reply(id, ok).id = id
  <2>1. DOMAIN Reply(id, ok) = {"id", "ok"}
    BY DEF Reply
  <2>2. QED
    BY <2>1 DEF IsResponse, Reply, Replies
<1>4. QED
  BY <1>1, <1>2, <1>3 DEF Lines, Noises

\* What a line leaves of the record: nothing, or one event more; and of what the recorder
\* remembers.
Quiet(line) ==
    /\ proxy' \in Proxies /\ proxy'.pc = proxy.pc /\ proxy'.due = proxy.due /\ proxy'.queue = proxy.queue
    /\ proxy'.seq = proxy.seq /\ proxy'.erred = proxy.erred
    /\ proxy'.calls = proxy.calls /\ proxy'.lists \subseteq proxy.lists
    /\ IsResponse(line) => line.id \in proxy.lists \/ line.id \notin proxy.calls
Noting(line) ==
    LET event == [seq |-> proxy.seq, id |-> line.id, ok |-> line.ok]
    IN  /\ IsResponse(line) /\ event \in Events
        /\ proxy' \in Proxies /\ proxy'.pc = proxy.pc /\ proxy'.due = proxy.due /\ proxy'.queue = Append(proxy.queue, event)
        /\ proxy'.seq = proxy.seq + 1 /\ (proxy'.erred <=> proxy.erred \/ ~ line.ok)
        /\ proxy'.calls = proxy.calls \ {line.id} /\ proxy'.lists = proxy.lists

LEMMA LineIsRead ==
    ASSUME Typed, ReadLine
    PROVE  LET line == Head(output)
           IN  /\ output # <<>> /\ line \in Lines /\ output' = Tail(output) /\ toClient' = Append(toClient, line)
               /\ Quiet(line) \/ Noting(line)
               /\ UNCHANGED <<client, toProxy, server, written, read, trail, manifest>>
<1> DEFINE line == Head(output)
<1>1. /\ output # <<>> /\ output' = Tail(output) /\ toClient' = Append(toClient, line)
      /\ proxy' = IF IsResponse(line) THEN Noted(line) ELSE proxy
      /\ UNCHANGED <<client, toProxy, server, written, read, trail, manifest>>
  BY DEF ReadLine
<1>2. line \in Lines /\ proxy \in Proxies
  BY <1>1, Taken DEF Typed
<1> HIDE DEF line
<1>3. ASSUME ~ IsResponse(line) PROVE Quiet(line)
  <2>1. proxy' = proxy
    BY <1>1, <1>3
  <2>2. QED
    BY <1>2, <1>3, <2>1 DEF Quiet
<1>4. ASSUME IsResponse(line) PROVE Quiet(line) \/ Noting(line)
  <2>1. line \in Replies /\ line.id \in Nat /\ line.ok \in BOOLEAN /\ proxy' = Noted(line)
    BY <1>1, <1>2, <1>4, ResponsesAre DEF Replies
  <2>2. CASE proxy.fingerprint = None /\ line.id \in proxy.lists
    <3> DEFINE print == IF line.ok THEN line.id ELSE None
    <3>1. proxy' = [proxy EXCEPT !.lists = @ \ {line.id}, !.fingerprint = print]
      BY <2>1, <2>2 DEF Noted
    <3>2. print \in Nat \cup {None}
      BY <2>1
    <3> HIDE DEF print
    <3>3. /\ proxy' \in Proxies /\ proxy'.pc = proxy.pc /\ proxy'.due = proxy.due /\ proxy'.queue = proxy.queue
          /\ proxy'.seq = proxy.seq /\ proxy'.erred = proxy.erred
          /\ proxy'.calls = proxy.calls /\ proxy'.lists = proxy.lists \ {line.id}
      BY <1>2, <3>1, <3>2 DEF Proxies
    <3>4. Quiet(line)
      BY <2>2, <3>3 DEF Quiet
    <3>5. QED
      BY <3>4
  <2>3. CASE ~ (proxy.fingerprint = None /\ line.id \in proxy.lists) /\ line.id \in proxy.calls
    <3> DEFINE event == [seq |-> proxy.seq, id |-> line.id, ok |-> line.ok]
    <3>1. proxy' = [proxy EXCEPT !.calls = @ \ {line.id}, !.seq = @ + 1, !.erred = @ \/ ~ line.ok,
                                 !.queue = Append(@, event)]
      BY <2>1, <2>3 DEF Noted
    <3>2. event \in Events /\ proxy.queue \in Seq(Events)
      BY <1>2, <2>1 DEF Events, Proxies
    <3> HIDE DEF event
    <3>3. Append(proxy.queue, event) \in Seq(Events)
      BY <3>2, AppendProperties
    <3>4. (proxy.erred \/ ~ line.ok) \in BOOLEAN /\ proxy.seq + 1 \in Nat
      BY <1>2 DEF Proxies
    <3>5. /\ proxy' \in Proxies /\ proxy'.pc = proxy.pc /\ proxy'.due = proxy.due /\ proxy'.queue = Append(proxy.queue, event)
          /\ proxy'.seq = proxy.seq + 1 /\ proxy'.erred = (proxy.erred \/ ~ line.ok)
          /\ proxy'.calls = proxy.calls \ {line.id} /\ proxy'.lists = proxy.lists
      BY <1>2, <3>1, <3>3, <3>4 DEF Proxies
    <3>6. QED
      BY <1>4, <3>2, <3>5, Zenon DEF Noting, event
  <2>4. CASE ~ (proxy.fingerprint = None /\ line.id \in proxy.lists) /\ line.id \notin proxy.calls
    <3>1. proxy' = proxy
      BY <2>1, <2>4 DEF Noted
    <3>2. Quiet(line)
      BY <1>2, <2>4, <3>1 DEF Quiet
    <3>3. QED
      BY <3>2
  <2>5. QED
    BY <2>2, <2>3, <2>4
<1>5. QED
  BY <1>1, <1>2, <1>3, <1>4 DEF line

LEMMA TypesInit == Init => Typed
<1> SUFFICES ASSUME Init PROVE Typed
  OBVIOUS
<1>1. <<>> \in Seq(Methods) /\ <<>> \in Seq(Lines) /\ <<>> \in Seq(Requests) /\ <<>> \in Seq(Events) /\ Len(<<>>) = 0
  OBVIOUS
<1>2. QED
  BY <1>1 DEF Init, Typed, Clients, Proxies, Servers, Manifests, NoManifest, Unrecorded

LEMMA TypesNext ==
    ASSUME Typed, [Next]_vars
    PROVE  Typed'
<1> USE DEF Typed
<1>1. ASSUME NEW method \in Methods, Call(method) PROVE Typed'
  <2>1. client.asked \in Seq(Methods) /\ Len(client.asked) \in Nat /\ client \in Clients
    BY DEF Clients
  <2>2. Append(client.asked, method) \in Seq(Methods) /\ Len(client.asked) + 1 \in Nat
    BY <2>1, AppendProperties
  <2>3. client' \in Clients
    BY <1>1, <2>1, <2>2 DEF Call, Clients
  <2>4. Sent(method, Len(client.asked) + 1) \in Requests
    BY <2>2 DEF Sent, Requests
  <2>5. toProxy' \in Seq(Requests)
    BY <1>1, <2>4, AppendProperties DEF Call
  <2>6. QED
    BY <1>1, <2>3, <2>5 DEF Call
<1>2. CASE Settle
  <2>1. read + 1 \in DOMAIN toClient /\ read + 1 \in 0 .. Len(toClient) /\ toClient[read + 1] \in Lines
    <3>1. read + 1 \in 1 .. Len(toClient) /\ Len(toClient) \in Nat
      BY <1>2, LenProperties DEF Settle
    <3>2. QED
      BY <3>1, LenProperties, ElementOfSeq
  <2>2. Append(client.got, toClient[read + 1]) \in Seq(Lines)
    BY <2>1, AppendProperties DEF Clients
  <2>3. client' \in Clients
    BY <1>2, <2>2 DEF Settle, Clients
  <2>4. QED
    BY <1>2, <2>1, <2>3 DEF Settle
<1>3. CASE Close
  BY <1>3 DEF Close, Clients
<1>4. CASE Answer
  <2>1. PICK i \in DOMAIN server.inbox, ok \in BOOLEAN :
           /\ server' = [server EXCEPT !.inbox = RemoveAt(@, i)]
           /\ output' = Append(output, Reply(server.inbox[i].id, ok))
           /\ written' = Append(written, Reply(server.inbox[i].id, ok))
    BY <1>4 DEF Answer
  <2>2. server.inbox \in Seq(Requests) /\ server.inbox[i] \in Requests /\ server \in Servers
    BY LenProperties, ElementOfSeq DEF Servers
  <2>3. RemoveAt(server.inbox, i) \in Seq(Requests)
    BY <2>2, TakenOut
  <2>4. Reply(server.inbox[i].id, ok) \in Lines
    BY <2>2, ResponsesAre DEF Requests
  <2>5. output' \in Seq(Lines) /\ written' \in Seq(Lines)
    BY <2>1, <2>4, AppendProperties
  <2>6. server' \in Servers
    BY <2>1, <2>2, <2>3 DEF Servers
  <2>7. QED
    BY <1>4, <2>5, <2>6 DEF Answer
<1>5. CASE Chatter
  <2>1. PICK id \in 1 .. MaxCalls : output' = Append(output, Noise(id)) /\ written' = Append(written, Noise(id))
    BY <1>5 DEF Chatter
  <2>2. output' \in Seq(Lines) /\ written' \in Seq(Lines)
    BY <2>1, ResponsesAre, AppendProperties
  <2>3. QED
    BY <1>5, <2>2 DEF Chatter
<1>6. CASE ServerExits
  BY <1>6 DEF ServerExits, Servers
<1>7. CASE Pass
  <2>1. /\ toProxy # <<>> /\ Head(toProxy) \in Requests /\ toProxy' = Tail(toProxy) /\ toProxy' \in Seq(Requests)
        /\ UNCHANGED <<client, output, written, toClient, read, trail, manifest>>
    BY <1>7, Taken DEF Pass
  <2> DEFINE line == Head(toProxy)
  <2>2. line.id \in Nat /\ proxy \in Proxies /\ server \in Servers
    BY <2>1 DEF Requests
  <2>3. server' \in Servers
    <3>1. Append(server.inbox, line) \in Seq(Requests)
      BY <2>1, AppendProperties DEF Servers
    <3>2. QED
      BY <1>7, <2>2, <3>1 DEF Pass, Servers
  <2>4. proxy' \in Proxies
    <3>1. \/ proxy' = [proxy EXCEPT !.calls = @ \cup {line.id}]
          \/ proxy' = [proxy EXCEPT !.lists = @ \cup {line.id}]
          \/ proxy' = [proxy EXCEPT !.pc = "dead"]
      BY <1>7 DEF Pass
    <3> HIDE DEF line
    <3>2. /\ proxy.calls \cup {line.id} \in SUBSET Nat
          /\ proxy.lists \cup {line.id} \in SUBSET Nat
      <4>1. proxy.calls \in SUBSET Nat /\ proxy.lists \in SUBSET Nat
        BY <2>2 DEF Proxies
      <4>2. QED
        BY <2>2, <4>1
    <3> DEFINE calls == proxy.calls \cup {line.id}
               lists == proxy.lists \cup {line.id}
    <3>3. calls \in SUBSET Nat /\ lists \in SUBSET Nat
      BY <3>2
    <3>4. \/ proxy' = [proxy EXCEPT !.calls = calls]
          \/ proxy' = [proxy EXCEPT !.lists = lists]
          \/ proxy' = [proxy EXCEPT !.pc = "dead"]
      BY <3>1
    <3> HIDE DEF calls, lists
    <3>5. QED
      BY <2>2, <3>3, <3>4 DEF Proxies
  <2>5. QED
    BY <2>1, <2>3, <2>4
<1>8. CASE ReadLine
  <2>1. PICK line \in Lines : /\ output # <<>> /\ output' = Tail(output) /\ toClient' = Append(toClient, line)
                              /\ proxy' \in Proxies /\ UNCHANGED <<client, toProxy, server, written, read, trail, manifest>>
    BY <1>8, LineIsRead DEF Quiet, Noting
  <2>2. output' \in Seq(Lines) /\ toClient' \in Seq(Lines) /\ Len(toClient') = Len(toClient) + 1 /\ Len(toClient) \in Nat
    BY <2>1, Taken, Added
  <2>3. QED
    BY <2>1, <2>2
<1>9. CASE AppendEvent
  <2>1. proxy.queue # <<>> /\ proxy.queue \in Seq(Events) /\ proxy \in Proxies
    BY <1>9 DEF AppendEvent, Proxies
  <2>2. Head(proxy.queue) \in Events /\ Tail(proxy.queue) \in Seq(Events)
    BY <2>1, Taken
  <2>3. trail' \in Seq(Events)
    BY <1>9, <2>2, AppendProperties DEF AppendEvent
  <2>4. proxy' \in Proxies
    BY <1>9, <2>1, <2>2 DEF AppendEvent, Proxies
  <2>5. QED
    BY <1>9, <2>3, <2>4 DEF AppendEvent
<1>10. CASE AppendFails
  BY <1>10 DEF AppendFails, Proxies
<1>11. CASE ExitReported
  BY <1>11 DEF ExitReported, Proxies
<1>12. CASE Seal
  <2>1. proxy \in Proxies /\ Len(trail) \in Nat
    BY LenProperties
  <2>2. manifest' \in Manifests /\ proxy' \in Proxies
    BY <1>12, <2>1 DEF Seal, Manifests, Proxies, Outcome
  <2>3. QED
    BY <1>12, <2>2 DEF Seal
<1>13. CASE UNCHANGED vars
  BY <1>13 DEF vars
<1>14. QED
  BY <1>1, <1>2, <1>3, <1>4, <1>5, <1>6, <1>7, <1>8, <1>9, <1>10, <1>11, <1>12, <1>13 DEF Next, Methods

-----------------------------------------------------------------------------
(* What a step does to the record and to what the recorder owes. *)

LEMMA IdsOfAppend ==
    ASSUME NEW s \in Seq(Events), NEW e \in Events
    PROVE  Ids(Append(s, e)) = Ids(s) \cup {e.id}
<1>1. /\ DOMAIN s = 1 .. Len(s) /\ DOMAIN Append(s, e) = 1 .. Len(s) + 1 /\ Len(s) \in Nat
      /\ \A i \in DOMAIN s : Append(s, e)[i] = s[i]
      /\ Append(s, e)[Len(s) + 1] = e
  BY Added
<1> DEFINE t == Append(s, e)
<1> HIDE DEF t
<1>2. DOMAIN t = DOMAIN s \cup {Len(s) + 1} /\ (\A i \in DOMAIN s : t[i] = s[i]) /\ t[Len(s) + 1] = e
  BY <1>1 DEF t
<1>3. Ids(t) = Ids(s) \cup {e.id}
  BY <1>2 DEF Ids
<1>4. QED
  BY <1>3 DEF t

LEMMA RecordIs == ASSUME Typed PROVE Recorded \in Seq(Events) /\ trail \in Seq(Events) /\ proxy.queue \in Seq(Events)
<1>1. trail \in Seq(Events) /\ proxy.queue \in Seq(Events)
  BY DEF Typed, Proxies
<1>2. QED
  BY <1>1, ConcatProperties DEF Recorded

\* Only a line that is read changes the record: the queue hands over what it holds.
LEMMA RecordKept ==
    ASSUME Typed, [Next]_vars
    PROVE  ReadLine \/ Recorded' = Recorded
<1>1. CASE AppendEvent
  <2>1. /\ proxy.queue # <<>> /\ trail' = Append(trail, Head(proxy.queue))
        /\ proxy' = [proxy EXCEPT !.queue = Tail(@)] /\ proxy \in Proxies
    BY <1>1 DEF AppendEvent, Typed
  <2>2. proxy'.queue = Tail(proxy.queue)
    BY <2>1 DEF Proxies
  <2>3. QED
    BY <2>1, <2>2, RecordIs, HandedOver DEF Recorded
<1>2. CASE Pass
  <2>1. proxy'.queue = proxy.queue
    BY <1>2 DEF Pass, Typed, Proxies
  <2>2. QED
    BY <1>2, <2>1 DEF Pass, Recorded
<1>3. CASE AppendFails \/ ExitReported \/ Seal
  <2>1. proxy'.queue = proxy.queue /\ trail' = trail
    BY <1>3 DEF AppendFails, ExitReported, Seal, Typed, Proxies
  <2>2. QED
    BY <2>1 DEF Recorded
<1>4. ASSUME UNCHANGED <<proxy, trail>> PROVE Recorded' = Recorded
  BY <1>4 DEF Recorded
<1>5. CASE Settle \/ Close \/ Answer \/ Chatter \/ ServerExits \/ UNCHANGED vars
  BY <1>4, <1>5 DEF Settle, Close, Answer, Chatter, ServerExits, vars
<1>6. ASSUME NEW method \in {"tools/call", "tools/list"}, Call(method) PROVE Recorded' = Recorded
  <2>1. UNCHANGED <<proxy, trail>>
    BY <1>6 DEF Call
  <2>2. QED
    BY <1>4, <2>1
<1>7. QED
  BY <1>1, <1>2, <1>3, <1>5, <1>6 DEF Next

LEMMA RecordAdded ==
    ASSUME Typed, NEW line, Noting(line), trail' = trail
    PROVE  Recorded' = Append(Recorded, [seq |-> proxy.seq, id |-> line.id, ok |-> line.ok])
<1> DEFINE event == [seq |-> proxy.seq, id |-> line.id, ok |-> line.ok]
<1>1. event \in Events /\ proxy'.queue = Append(proxy.queue, event)
  BY DEF Noting
<1> HIDE DEF event
<1>2. trail \o Append(proxy.queue, event) = Append(trail \o proxy.queue, event)
  BY <1>1, RecordIs, AppendedLast
<1>3. Recorded' = Append(Recorded, event)
  BY <1>1, <1>2 DEF Recorded
<1>4. QED
  BY <1>3 DEF event

LEMMA RecordSame ==
    ASSUME Typed, NEW line, Quiet(line), trail' = trail
    PROVE  Recorded' = Recorded
BY DEF Quiet, Recorded

LEMMA IdsGrow ==
    ASSUME Typed, [Next]_vars
    PROVE  Ids(Recorded) \subseteq Ids(Recorded')
<1>1. CASE ReadLine
  <2> DEFINE line == Head(output)
  <2>1. (Quiet(line) \/ Noting(line)) /\ trail' = trail
    BY <1>1, LineIsRead
  <2> HIDE DEF line
  <2>2. CASE Quiet(line)
    BY <2>1, <2>2, RecordSame
  <2>3. CASE Noting(line)
    <3> DEFINE event == [seq |-> proxy.seq, id |-> line.id, ok |-> line.ok]
    <3>1. event \in Events /\ Recorded' = Append(Recorded, event)
      BY <2>1, <2>3, RecordAdded DEF Noting
    <3> HIDE DEF event
    <3>2. QED
      BY <3>1, RecordIs, IdsOfAppend
  <2>4. QED
    BY <2>1, <2>2, <2>3
<1>2. QED
  BY <1>1, RecordKept

\* What the client has asked by an id it has asked for good.
LEMMA AskedKept ==
    ASSUME Typed, [Next]_vars, NEW id, Asked(id)
    PROVE  Asked(id)' /\ client'.asked[id] = client.asked[id]
<1>1. CASE client'.asked = client.asked
  BY <1>1 DEF Asked
<1>2. ASSUME NEW method \in Methods, Call(method)
      PROVE  Asked(id)' /\ client'.asked[id] = client.asked[id]
  <2>1. client'.asked = Append(client.asked, method) /\ client.asked \in Seq(Methods)
    BY <1>2 DEF Call, Typed, Clients
  <2>2. QED
    BY <2>1, Added DEF Asked
<1>3. CASE Settle \/ Close
  BY <1>1, <1>3 DEF Settle, Close, Typed, Clients
<1>4. CASE \/ Answer \/ Chatter \/ ServerExits \/ Pass \/ ReadLine \/ AppendEvent \/ AppendFails \/ ExitReported \/ Seal
           \/ UNCHANGED vars
  BY <1>1, <1>4 DEF Answer, Chatter, ServerExits, Pass, ReadLine, AppendEvent, AppendFails, ExitReported, Seal, vars
<1>5. QED
  BY <1>2, <1>3, <1>4 DEF Next, Methods

\* A call stays remembered until its reply is in the record.
LEMMA CallsKept ==
    ASSUME Typed, [Next]_vars
    PROVE  proxy.calls \subseteq proxy'.calls \cup Ids(Recorded')
<1>1. CASE ReadLine
  <2> DEFINE line == Head(output)
  <2>1. (Quiet(line) \/ Noting(line)) /\ trail' = trail
    BY <1>1, LineIsRead
  <2> HIDE DEF line
  <2>2. CASE Quiet(line)
    BY <2>2 DEF Quiet
  <2>3. CASE Noting(line)
    <3> DEFINE event == [seq |-> proxy.seq, id |-> line.id, ok |-> line.ok]
    <3>1. event \in Events /\ event.id = line.id /\ Recorded' = Append(Recorded, event)
      BY <2>1, <2>3, RecordAdded DEF Noting
    <3>2. proxy'.calls = proxy.calls \ {line.id}
      BY <2>3 DEF Noting
    <3> HIDE DEF event
    <3>3. line.id \in Ids(Recorded')
      BY <3>1, RecordIs, IdsOfAppend
    <3>4. QED
      BY <3>2, <3>3
  <2>4. QED
    BY <2>1, <2>2, <2>3
<1>2. CASE Pass
  <2>1. proxy.calls \subseteq proxy'.calls
    BY <1>2 DEF Pass, Typed, Proxies
  <2>2. QED
    BY <2>1
<1>3. CASE AppendEvent \/ AppendFails \/ ExitReported \/ Seal
  <2>1. proxy'.calls = proxy.calls
    BY <1>3 DEF AppendEvent, AppendFails, ExitReported, Seal, Typed, Proxies
  <2>2. QED
    BY <2>1
<1>4. ASSUME NEW method \in {"tools/call", "tools/list"}, Call(method) PROVE proxy' = proxy
  BY <1>4 DEF Call
<1>5. CASE Settle \/ Close \/ Answer \/ Chatter \/ ServerExits \/ UNCHANGED vars
  BY <1>5 DEF Settle, Close, Answer, Chatter, ServerExits, vars
<1>6. QED
  BY <1>1, <1>2, <1>3, <1>4, <1>5 DEF Next

LEMMA OwedKept ==
    ASSUME Typed, [Next]_vars, NEW id, Asked(id), Owed(id)
    PROVE  Asked(id)' /\ Owed(id)'
BY AskedKept, IdsGrow, CallsKept DEF Owed

-----------------------------------------------------------------------------
(* Requests. *)

LEMMA RequestsKept ==
    ASSUME Typed, RequestsHold, [Next]_vars
    PROVE  RequestsHold'
<1> USE DEF RequestsHold, SentHold, InboxHolds, ListsHold
<1>1. SentHold'
  <2>1. ASSUME toProxy' = toProxy PROVE SentHold'
    BY <2>1, AskedKept
  <2>2. ASSUME NEW method \in Methods, Call(method) PROVE SentHold'
    <3> DEFINE id == Len(client.asked) + 1
               request == Sent(method, id)
    <3>1. /\ toProxy' = Append(toProxy, request) /\ client.asked \in Seq(Methods)
          /\ client'.asked = Append(client.asked, method) /\ toProxy \in Seq(Requests)
      BY <2>2 DEF Call, Typed, Clients
    <3>2. id \in DOMAIN client'.asked /\ client'.asked[id] = method /\ id \in Nat
      BY <3>1, Added
    <3>3. request \in Requests /\ request.id = id /\ request.method = method
      BY <3>2 DEF Sent, Requests
    <3> HIDE DEF id, request
    <3>4. /\ DOMAIN toProxy' = DOMAIN toProxy \cup {Len(toProxy) + 1} /\ toProxy'[Len(toProxy) + 1] = request
          /\ \A i \in DOMAIN toProxy : toProxy'[i] = toProxy[i]
      <4> DEFINE to == Append(toProxy, request)
      <4>1. /\ Len(toProxy) \in Nat /\ DOMAIN toProxy = 1 .. Len(toProxy) /\ DOMAIN to = 1 .. Len(toProxy) + 1
            /\ (\A i \in DOMAIN toProxy : to[i] = toProxy[i]) /\ to[Len(toProxy) + 1] = request
        BY <3>1, <3>3, Added
      <4> HIDE DEF to
      <4>2. DOMAIN to = DOMAIN toProxy \cup {Len(toProxy) + 1}
        BY <4>1
      <4>3. QED
        BY <3>1, <4>1, <4>2 DEF to
    <3>5. QED
      BY <3>2, <3>3, <3>4, AskedKept DEF Asked
  <2>3. CASE Pass
    <3>1. toProxy # <<>> /\ toProxy' = Tail(toProxy) /\ toProxy \in Seq(Requests)
      BY <2>3 DEF Pass, Typed
    <3>2. \A i \in DOMAIN toProxy' : i + 1 \in DOMAIN toProxy /\ toProxy'[i] = toProxy[i + 1]
      BY <3>1, Taken
    <3>3. QED
      BY <3>2, AskedKept
  <2>4. CASE \/ Settle \/ Close \/ Answer \/ Chatter \/ ServerExits \/ ReadLine \/ AppendEvent \/ AppendFails
             \/ ExitReported \/ Seal \/ UNCHANGED vars
    <3>1. toProxy' = toProxy
      BY <2>4 DEF Settle, Close, Answer, Chatter, ServerExits, ReadLine, AppendEvent, AppendFails, ExitReported, Seal, vars
    <3>2. QED
      BY <2>1, <3>1
  <2>5. QED
    BY <2>2, <2>3, <2>4 DEF Next, Methods
<1>2. InboxHolds'
  <2>1. ASSUME server'.inbox = server.inbox PROVE InboxHolds'
    BY <2>1, OwedKept
  <2>2. CASE Answer
    <3>1. PICK i \in DOMAIN server.inbox : server' = [server EXCEPT !.inbox = RemoveAt(@, i)]
      BY <2>2 DEF Answer
    <3>2. server'.inbox = RemoveAt(server.inbox, i) /\ server.inbox \in Seq(Requests)
      BY <3>1 DEF Typed, Servers
    <3>3. \A k \in DOMAIN server'.inbox : \E j \in DOMAIN server.inbox : server'.inbox[k] = server.inbox[j]
      BY <3>2, TakenOut
    <3>4. QED
      BY <3>3, OwedKept
  <2>3. CASE Pass
    <3>0. toProxy # <<>> /\ Head(toProxy) \in Requests /\ 1 \in DOMAIN toProxy /\ Head(toProxy) = toProxy[1]
      BY <2>3, Taken DEF Pass, Typed
    <3> PICK line \in Requests : line = Head(toProxy)
      BY <3>0
    <3>1. 1 \in DOMAIN toProxy /\ line = toProxy[1] /\ server.inbox \in Seq(Requests)
      BY <3>0 DEF Typed, Servers
    <3>2. Asked(line.id)' /\ client'.asked[line.id] = line.method
      BY <3>1, AskedKept
    <3>3. server' # server => server'.inbox = Append(server.inbox, line) /\ (line.method = "tools/call" => line.id \in proxy'.calls)
      <4>1. CASE /\ proxy' = IF line.method = "tools/call" THEN [proxy EXCEPT !.calls = @ \cup {line.id}]
                             ELSE [proxy EXCEPT !.lists = @ \cup {line.id}]
                 /\ server' = IF server.up THEN [server EXCEPT !.inbox = Append(@, line)] ELSE server
        <5>1. line.method = "tools/call" => line.id \in proxy'.calls
          BY <4>1 DEF Typed, Proxies
        <5>2. server' # server => server'.inbox = Append(server.inbox, line)
          BY <4>1 DEF Typed, Servers
        <5>3. QED
          BY <5>1, <5>2
      <4>2. CASE UNCHANGED server
        BY <4>2
      <4>3. QED
        BY <2>3, <4>1, <4>2 DEF Pass
    <3>4. CASE server' = server
      BY <2>1, <3>4
    <3>5. CASE server' # server
      <4>1. Owed(line.id)'
        BY <3>2, <3>3, <3>5 DEF Owed
      <4> DEFINE box == Append(server.inbox, line)
      <4>2. /\ Len(server.inbox) \in Nat /\ DOMAIN server.inbox = 1 .. Len(server.inbox)
            /\ DOMAIN box = 1 .. Len(server.inbox) + 1
            /\ (\A i \in DOMAIN server.inbox : box[i] = server.inbox[i]) /\ box[Len(server.inbox) + 1] = line
        BY <3>1, Added
      <4>3. server'.inbox = box
        BY <3>3, <3>5
      <4> HIDE DEF box
      <4>4. \A i \in DOMAIN box : (i \in DOMAIN server.inbox /\ box[i] = server.inbox[i]) \/ box[i] = line
        BY <4>2
      <4>5. QED
        BY <3>2, <4>1, <4>3, <4>4, OwedKept
    <3>6. QED
      BY <3>4, <3>5
  <2>4. CASE ServerExits
    <3>1. server'.inbox = server.inbox
      BY <2>4 DEF ServerExits, Typed, Servers
    <3>2. QED
      BY <2>1, <3>1
  <2>5. CASE Settle \/ Close \/ Chatter \/ ReadLine \/ AppendEvent \/ AppendFails \/ ExitReported \/ Seal \/ UNCHANGED vars
    <3>1. server' = server
      BY <2>5 DEF Settle, Close, Chatter, ReadLine, AppendEvent, AppendFails, ExitReported, Seal, vars
    <3>2. QED
      BY <2>1, <3>1
  <2>6. ASSUME NEW method \in Methods, Call(method) PROVE server' = server
    BY <2>6 DEF Call
  <2>7. QED
    BY <2>1, <2>2, <2>3, <2>4, <2>5, <2>6 DEF Next, Methods
<1>3. ListsHold'
  <2>1. ASSUME proxy'.lists \subseteq proxy.lists PROVE ListsHold'
    BY <2>1, AskedKept
  <2>2. CASE Pass
    <3>0. toProxy # <<>> /\ Head(toProxy) \in Requests /\ 1 \in DOMAIN toProxy /\ Head(toProxy) = toProxy[1]
      BY <2>2, Taken DEF Pass, Typed
    <3> PICK line \in Requests : line = Head(toProxy)
      BY <3>0
    <3>1. 1 \in DOMAIN toProxy /\ line = toProxy[1]
      BY <3>0
    <3>2. Asked(line.id)' /\ client'.asked[line.id] = line.method
      BY <3>1, AskedKept
    <3>3. proxy'.lists \subseteq proxy.lists \/ (line.method = "tools/list" /\ proxy'.lists = proxy.lists \cup {line.id})
      <4>1. \/ proxy' = [proxy EXCEPT !.calls = @ \cup {line.id}]
            \/ line.method # "tools/call" /\ proxy' = [proxy EXCEPT !.lists = @ \cup {line.id}]
            \/ proxy' = [proxy EXCEPT !.pc = "dead"]
        BY <2>2 DEF Pass
      <4>2. line.method \in Methods
        BY DEF Requests
      <4>3. QED
        BY <4>1, <4>2 DEF Typed, Proxies, Methods
    <3>4. QED
      BY <2>1, <3>2, <3>3, AskedKept
  <2>3. CASE ReadLine
    <3>1. proxy'.lists \subseteq proxy.lists
      BY <2>3, LineIsRead DEF Quiet, Noting
    <3>2. QED
      BY <2>1, <3>1
  <2>4. CASE AppendEvent \/ AppendFails \/ ExitReported \/ Seal
    <3>1. proxy'.lists = proxy.lists
      BY <2>4 DEF AppendEvent, AppendFails, ExitReported, Seal, Typed, Proxies
    <3>2. QED
      BY <2>1, <3>1
  <2>5. CASE Settle \/ Close \/ Answer \/ Chatter \/ ServerExits \/ UNCHANGED vars
    <3>1. proxy' = proxy
      BY <2>5 DEF Settle, Close, Answer, Chatter, ServerExits, vars
    <3>2. QED
      BY <2>1, <3>1
  <2>6. ASSUME NEW method \in Methods, Call(method) PROVE proxy' = proxy
    BY <2>6 DEF Call
  <2>7. QED
    BY <2>1, <2>2, <2>3, <2>4, <2>5, <2>6 DEF Next, Methods
<1>4. QED
  BY <1>1, <1>2, <1>3

-----------------------------------------------------------------------------
(* Replies. *)

\* The server writes a line: a reply is to what it was sent.
Writes(line) ==
    /\ output' = Append(output, line) /\ written' = Append(written, line)
    /\ IsResponse(line) => \E i \in DOMAIN server.inbox : line.id = server.inbox[i].id

\* The lines of the server: it writes one, the recorder forwards one, or they stay.
LEMMA LinesMove ==
    ASSUME Typed, [Next]_vars
    PROVE  \/ ReadLine
           \/ toClient' = toClient /\ UNCHANGED <<output, written>>
           \/ toClient' = toClient /\ \E line \in Lines : Writes(line)
<1>1. CASE Answer
  <2>1. PICK i \in DOMAIN server.inbox, ok \in BOOLEAN :
           /\ output' = Append(output, Reply(server.inbox[i].id, ok))
           /\ written' = Append(written, Reply(server.inbox[i].id, ok))
    BY <1>1 DEF Answer
  <2>2. server.inbox[i].id \in Nat
    <3>1. server.inbox \in Seq(Requests)
      BY DEF Typed, Servers
    <3>2. server.inbox[i] \in Requests
      BY <3>1, LenProperties, ElementOfSeq
    <3>3. QED
      BY <3>2 DEF Requests
  <2>3. Reply(server.inbox[i].id, ok) \in Lines /\ Reply(server.inbox[i].id, ok).id = server.inbox[i].id
    BY <2>2, ResponsesAre
  <2>4. toClient' = toClient
    BY <1>1 DEF Answer
  <2>5. Writes(Reply(server.inbox[i].id, ok))
    BY <2>1, <2>3 DEF Writes
  <2>6. QED
    BY <2>3, <2>4, <2>5
<1>2. CASE Chatter
  <2>1. PICK id \in 1 .. MaxCalls : output' = Append(output, Noise(id)) /\ written' = Append(written, Noise(id))
    BY <1>2 DEF Chatter
  <2>2. Noise(id) \in Lines /\ ~ IsResponse(Noise(id))
    BY ResponsesAre
  <2>3. toClient' = toClient
    BY <1>2 DEF Chatter
  <2>4. Writes(Noise(id))
    BY <2>1, <2>2 DEF Writes
  <2>5. QED
    BY <2>2, <2>3, <2>4
<1>3. ASSUME NEW method \in Methods, Call(method) PROVE toClient' = toClient /\ UNCHANGED <<output, written>>
  BY <1>3 DEF Call
<1>4. CASE Settle \/ Close \/ ServerExits \/ Pass \/ AppendEvent \/ AppendFails \/ ExitReported \/ Seal \/ UNCHANGED vars
  BY <1>4 DEF Settle, Close, ServerExits, Pass, AppendEvent, AppendFails, ExitReported, Seal, vars
<1>5. QED
  BY <1>1, <1>2, <1>3, <1>4 DEF Next, Methods

LEMMA RepliesKept ==
    ASSUME Typed, RequestsHold, RepliesHold, [Next]_vars
    PROVE  RepliesHold'
<1> USE DEF RepliesHold, OutputHolds, ForwardedHold
<1>1. CASE ReadLine
  <2>0. output # <<>> /\ Head(output) \in Lines /\ output \in Seq(Lines) /\ toClient \in Seq(Lines)
    BY <1>1, LineIsRead DEF Typed
  <2> PICK line \in Lines : line = Head(output)
    BY <2>0
  <2>1. /\ output' = Tail(output) /\ toClient' = Append(toClient, line)
        /\ Quiet(line) \/ Noting(line)
        /\ client' = client /\ trail' = trail
    BY <1>1, LineIsRead
  <2>2. /\ line = output[1] /\ 1 \in DOMAIN output
        /\ \A i \in DOMAIN output' : i + 1 \in DOMAIN output /\ output'[i] = output[i + 1]
    BY <2>0, <2>1, Taken
  <2>3. OutputHolds'
    BY <2>2, OwedKept
  <2>4. IsResponse(line) => /\ Asked(line.id)'
                            /\ client'.asked[line.id] = "tools/call" => line.id \in Ids(Recorded')
    <3> SUFFICES ASSUME IsResponse(line)
                 PROVE  Asked(line.id)' /\ (client'.asked[line.id] = "tools/call" => line.id \in Ids(Recorded'))
      OBVIOUS
    <3>1. Asked(line.id) /\ Owed(line.id)
      BY <2>2
    <3>2. Asked(line.id)' /\ client'.asked[line.id] = client.asked[line.id]
      BY <3>1, AskedKept
    <3>3. CASE Quiet(line)
      <4>1. line.id \in proxy.lists => client.asked[line.id] = "tools/list"
        BY DEF RequestsHold, ListsHold
      <4>2. line.id \in proxy.lists \/ line.id \notin proxy.calls
        BY <3>3 DEF Quiet
      <4>3. Ids(Recorded) \subseteq Ids(Recorded')
        BY IdsGrow
      <4>4. QED
        BY <3>1, <3>2, <4>1, <4>2, <4>3 DEF Owed
    <3>4. CASE Noting(line)
      <4> DEFINE event == [seq |-> proxy.seq, id |-> line.id, ok |-> line.ok]
      <4>1. event \in Events /\ event.id = line.id /\ Recorded' = Append(Recorded, event)
        BY <2>1, <3>4, RecordAdded DEF Noting
      <4> HIDE DEF event
      <4>2. line.id \in Ids(Recorded')
        BY <4>1, RecordIs, IdsOfAppend
      <4>3. QED
        BY <3>2, <4>2
    <3>5. QED
      BY <2>1, <3>3, <3>4
  <2>5. ForwardedHold'
    <3>1. \A i \in DOMAIN toClient' : (i \in DOMAIN toClient /\ toClient'[i] = toClient[i]) \/ toClient'[i] = line
      BY <2>0, <2>1, Added
    <3>2. ASSUME NEW reply, NEW i \in DOMAIN toClient, toClient[i] = reply, IsResponse(reply)
          PROVE  Asked(reply.id)' /\ (client'.asked[reply.id] = "tools/call" => reply.id \in Ids(Recorded'))
      <4>1. Asked(reply.id) /\ (client.asked[reply.id] = "tools/call" => reply.id \in Ids(Recorded))
        BY <3>2
      <4>2. QED
        BY <4>1, AskedKept, IdsGrow
    <3>3. QED
      BY <2>4, <3>1, <3>2
  <2>6. QED
    BY <2>3, <2>5
<1>2. CASE toClient' = toClient
  <2>1. ForwardedHold'
    BY <1>2, AskedKept, IdsGrow
  <2>2. CASE output' = output
    <3>1. OutputHolds'
      BY <2>2, OwedKept
    <3>2. QED
      BY <2>1, <3>1
  <2>3. ASSUME NEW line \in Lines, Writes(line) PROVE RepliesHold'
    <3>1. IsResponse(line) => Asked(line.id)' /\ Owed(line.id)'
      BY <2>3, OwedKept DEF RequestsHold, InboxHolds, Writes
    <3>2. \A i \in DOMAIN output' : (i \in DOMAIN output /\ output'[i] = output[i]) \/ output'[i] = line
      <4>1. output \in Seq(Lines) /\ output' = Append(output, line)
        BY <2>3 DEF Typed, Writes
      <4>2. QED
        BY <4>1, Added
    <3>3. OutputHolds'
      BY <3>1, <3>2, OwedKept
    <3>4. QED
      BY <2>1, <3>3
  <2>4. QED
    BY <1>1, <2>2, <2>3, LinesMove
<1>3. QED
  BY <1>1, <1>2, LinesMove

-----------------------------------------------------------------------------
(* The client sees what the server wrote. *)

LEMMA InvisibleKept ==
    ASSUME Typed, Invisible, [Next]_vars
    PROVE  Invisible'
<1>0. output \in Seq(Lines) /\ toClient \in Seq(Lines) /\ written \in Seq(Lines) /\ toClient \o output = written
  BY DEF Typed, Invisible
<1>1. toClient' \o output' = written'
  <2>1. CASE ReadLine
    BY <1>0, <2>1, LineIsRead, HandedOver
  <2>2. CASE toClient' = toClient /\ UNCHANGED <<output, written>>
    BY <1>0, <2>2
  <2>3. ASSUME toClient' = toClient, NEW line \in Lines, Writes(line) PROVE toClient' \o output' = written'
    BY <1>0, <2>3, AppendedLast DEF Writes
  <2>4. QED
    BY <2>1, <2>2, <2>3, LinesMove
<1> DEFINE Got(c, lines, upTo) ==
             \A i \in DOMAIN c.got : \E j \in 1 .. upTo : lines[j] = c.got[i] /\ IsResponse(lines[j])
<1>2. Got(client, toClient, read)
  BY DEF Invisible
<1>3. Len(toClient) \in Nat /\ read \in 0 .. Len(toClient) /\ DOMAIN toClient = 1 .. Len(toClient)
  BY <1>0, LenProperties DEF Typed
<1>4. Got(client', toClient', read')
  <2>1. CASE client'.got = client.got /\ toClient' = toClient /\ read' = read
    BY <1>2, <2>1
  <2>2. CASE ReadLine
    <3>1. PICK line \in Lines : toClient' = Append(toClient, line) /\ client' = client /\ read' = read
      BY <2>2, LineIsRead
    <3>2. \A j \in 1 .. read : toClient'[j] = toClient[j]
      BY <1>0, <1>3, <3>1, Added
    <3>3. client' = client /\ read' = read
      BY <3>1
    <3>4. QED
      BY <1>2, <3>2, <3>3
  <2>3. CASE Settle
    <3>1. toClient' = toClient /\ read' = read + 1 /\ read + 1 \in DOMAIN toClient /\ read \in Nat
      BY <1>3, <2>3 DEF Settle
    <3> PICK line \in Lines : line = toClient[read + 1]
      BY <1>0, <3>1, LenProperties, ElementOfSeq
    <3>2. client'.got = client.got \/ (IsResponse(line) /\ client'.got = Append(client.got, line))
      BY <2>3 DEF Settle, Typed, Clients
    <3>3. client.got \in Seq(Lines)
      BY DEF Typed, Clients
    <3>4. \A i \in DOMAIN client'.got : (i \in DOMAIN client.got /\ client'.got[i] = client.got[i])
                                        \/ (IsResponse(line) /\ client'.got[i] = line)
      BY <3>2, <3>3, Added
    <3>5. read + 1 \in 1 .. read' /\ 1 .. read \subseteq 1 .. read'
      BY <3>1
    <3>6. QED
      BY <1>2, <3>1, <3>4, <3>5
  <2>4. CASE Close
    BY <2>1, <2>4 DEF Close, Typed, Clients
  <2>5. CASE Answer \/ Chatter \/ ServerExits \/ Pass \/ AppendEvent \/ AppendFails \/ ExitReported \/ Seal \/ UNCHANGED vars
    BY <2>1, <2>5 DEF Answer, Chatter, ServerExits, Pass, AppendEvent, AppendFails, ExitReported, Seal, vars
  <2>6. ASSUME NEW method \in Methods, Call(method) PROVE client'.got = client.got /\ toClient' = toClient /\ read' = read
    BY <2>6 DEF Call, Typed, Clients
  <2>7. QED
    BY <2>1, <2>2, <2>3, <2>4, <2>5, <2>6 DEF Next, Methods
<1>5. QED
  BY <1>1, <1>4 DEF Invisible

-----------------------------------------------------------------------------
(* Events. *)

\* One line more, and one event of that line.
LEMMA FollowsOn ==
    ASSUME NEW events \in Seq(Events), NEW lines \in Seq(Lines), NEW line \in Lines, Follows(events, lines)
    PROVE  Follows(events, Append(lines, line))
<1>1. PICK at \in [DOMAIN events -> DOMAIN lines] :
         /\ \A i \in DOMAIN events : lines[at[i]] = Reply(events[i].id, events[i].ok)
         /\ \A i, j \in DOMAIN events : i < j => at[i] < at[j]
  BY DEF Follows
<1>2. /\ DOMAIN lines \subseteq DOMAIN Append(lines, line)
      /\ \A i \in DOMAIN lines : Append(lines, line)[i] = lines[i]
  BY Added
<1>3. at \in [DOMAIN events -> DOMAIN Append(lines, line)]
  BY <1>2
<1>4. \A i \in DOMAIN events : Append(lines, line)[at[i]] = Reply(events[i].id, events[i].ok)
  BY <1>1, <1>2
<1>5. QED
  BY <1>1, <1>3, <1>4 DEF Follows

LEMMA FollowsNoted ==
    ASSUME NEW events \in Seq(Events), NEW lines \in Seq(Lines), NEW event \in Events, NEW line \in Lines,
           line = Reply(event.id, event.ok), Follows(events, lines)
    PROVE  Follows(Append(events, event), Append(lines, line))
<1>1. PICK at \in [DOMAIN events -> DOMAIN lines] :
         /\ \A i \in DOMAIN events : lines[at[i]] = Reply(events[i].id, events[i].ok)
         /\ \A i, j \in DOMAIN events : i < j => at[i] < at[j]
  BY DEF Follows
<1> DEFINE n == Len(events)
           m == Len(lines)
           more == Append(events, event)
           on == Append(lines, line)
<1>2. /\ n \in Nat /\ DOMAIN events = 1 .. n /\ DOMAIN more = 1 .. n + 1
      /\ (\A i \in 1 .. n : more[i] = events[i]) /\ more[n + 1] = event
  BY Added
<1>3. /\ m \in Nat /\ DOMAIN lines = 1 .. m /\ DOMAIN on = 1 .. m + 1
      /\ (\A i \in 1 .. m : on[i] = lines[i]) /\ on[m + 1] = line
  BY Added
<1> HIDE DEF n, m, more, on
<1> DEFINE to == [i \in 1 .. n + 1 |-> IF i = n + 1 THEN m + 1 ELSE at[i]]
<1>4. \A i \in 1 .. n : at[i] \in 1 .. m
  BY <1>1, <1>2, <1>3
<1>5. \A i \in 1 .. n + 1 : i \in 1 .. n \/ i = n + 1
  BY <1>2
<1>6. to \in [1 .. n + 1 -> 1 .. m + 1]
  BY <1>3, <1>4, <1>5
<1>7. \A i \in 1 .. n + 1 : to[i] = IF i = n + 1 THEN m + 1 ELSE at[i]
  OBVIOUS
<1> HIDE DEF to
<1>8. ASSUME NEW i \in 1 .. n + 1 PROVE on[to[i]] = Reply(more[i].id, more[i].ok)
  <2>1. CASE i = n + 1
    BY <1>2, <1>3, <1>7, <2>1
  <2>2. CASE i \in 1 .. n /\ i # n + 1
    <3>1. to[i] = at[i] /\ on[at[i]] = lines[at[i]] /\ more[i] = events[i]
      BY <1>2, <1>3, <1>4, <1>7, <2>2
    <3>2. QED
      BY <1>1, <1>2, <2>2, <3>1
  <2>3. QED
    BY <1>5, <2>1, <2>2
<1>9. ASSUME NEW i \in 1 .. n + 1, NEW j \in 1 .. n + 1, i < j PROVE to[i] < to[j]
  <2>1. i \in 1 .. n /\ i # n + 1 /\ to[i] = at[i] /\ at[i] \in 1 .. m
    BY <1>2, <1>4, <1>7, <1>9
  <2>2. CASE j = n + 1
    BY <1>3, <1>7, <2>1, <2>2
  <2>3. CASE j \in 1 .. n /\ j # n + 1
    <3>1. to[j] = at[j]
      BY <1>7, <2>3
    <3>2. QED
      BY <1>1, <1>2, <1>9, <2>1, <2>3, <3>1
  <2>4. QED
    BY <1>5, <2>2, <2>3
<1>10. Follows(more, on)
  BY <1>2, <1>3, <1>6, <1>8, <1>9 DEF Follows
<1>11. QED
  BY <1>10 DEF more, on

LEMMA EventsKept ==
    ASSUME Typed, EventsHold, [Next]_vars
    PROVE  EventsHold'
<1>0. Recorded \in Seq(Events) /\ toClient \in Seq(Lines) /\ Len(Recorded) \in Nat /\ DOMAIN Recorded = 1 .. Len(Recorded)
  BY RecordIs, LenProperties DEF Typed
<1>1. CASE ReadLine
  <2>0. Head(output) \in Lines
    BY <1>1, LineIsRead
  <2> PICK line \in Lines : line = Head(output)
    BY <2>0
  <2>1. toClient' = Append(toClient, line) /\ trail' = trail /\ (Quiet(line) \/ Noting(line))
    BY <1>1, LineIsRead
  <2>2. CASE Quiet(line)
    <3>1. Recorded' = Recorded /\ proxy'.seq = proxy.seq /\ proxy'.erred = proxy.erred
      BY <2>1, <2>2, RecordSame DEF Quiet
    <3>2. Follows(Recorded', toClient')
      BY <1>0, <2>1, <3>1, FollowsOn DEF EventsHold
    <3>3. QED
      BY <3>1, <3>2 DEF EventsHold
  <2>3. CASE Noting(line)
    <3> PICK event \in Events : event = [seq |-> proxy.seq, id |-> line.id, ok |-> line.ok]
      BY <2>3 DEF Noting
    <3>1. /\ Recorded' = Append(Recorded, event)
          /\ proxy'.seq = proxy.seq + 1 /\ (proxy'.erred <=> proxy.erred \/ ~ line.ok)
          /\ event.seq = proxy.seq /\ event.ok = line.ok /\ event.id = line.id /\ line = Reply(line.id, line.ok)
      <4>1. line = Reply(line.id, line.ok)
        BY <2>3, ResponsesAre DEF Noting
      <4>2. QED
        BY <2>1, <2>3, <4>1, RecordAdded DEF Noting
    <3>2. Follows(Recorded', toClient')
      BY <1>0, <2>1, <3>1, FollowsNoted DEF EventsHold
    <3>3. /\ DOMAIN Recorded' = 1 .. Len(Recorded) + 1 /\ Len(Recorded') = Len(Recorded) + 1
          /\ (\A i \in 1 .. Len(Recorded) : Recorded'[i] = Recorded[i]) /\ Recorded'[Len(Recorded) + 1] = event
      BY <1>0, <3>1, Added
    <3>4. \A i \in DOMAIN Recorded' : i \in 1 .. Len(Recorded) \/ i = Len(Recorded) + 1
      BY <1>0, <3>3
    <3>5. proxy'.seq = Len(Recorded') /\ \A i \in DOMAIN Recorded' : Recorded'[i].seq = i - 1
      BY <1>0, <3>1, <3>3, <3>4 DEF EventsHold
    <3>6. ~ proxy'.erred => \A i \in DOMAIN Recorded' : Recorded'[i].ok
      BY <1>0, <3>1, <3>3, <3>4 DEF EventsHold
    <3>7. QED
      BY <3>2, <3>5, <3>6 DEF EventsHold
  <2>4. QED
    BY <2>1, <2>2, <2>3
<1>2. ASSUME ~ ReadLine PROVE Recorded' = Recorded /\ toClient' = toClient
  BY <1>2, RecordKept, LinesMove
<1>3. ReadLine \/ (proxy'.seq = proxy.seq /\ proxy'.erred = proxy.erred)
  <2>1. CASE Pass \/ AppendEvent \/ AppendFails \/ ExitReported \/ Seal
    BY <2>1 DEF Pass, AppendEvent, AppendFails, ExitReported, Seal, Typed, Proxies
  <2>2. CASE Settle \/ Close \/ Answer \/ Chatter \/ ServerExits \/ UNCHANGED vars
    BY <2>2 DEF Settle, Close, Answer, Chatter, ServerExits, vars
  <2>3. ASSUME NEW method \in Methods, Call(method) PROVE proxy' = proxy
    BY <2>3 DEF Call
  <2>4. QED
    BY <2>1, <2>2, <2>3 DEF Next, Methods
<1>4. QED
  BY <1>1, <1>2, <1>3 DEF EventsHold

-----------------------------------------------------------------------------
(* The manifest. *)

LEMMA RecordLonger ==
    ASSUME Typed, [Next]_vars
    PROVE  /\ Len(Recorded) \in Nat /\ Len(Recorded') \in Nat /\ Len(Recorded) <= Len(Recorded')
           /\ \A i \in 1 .. Len(Recorded) : Recorded'[i] = Recorded[i]
<1>0. Recorded \in Seq(Events) /\ Len(Recorded) \in Nat
  BY RecordIs, LenProperties
<1>1. CASE ReadLine
  <2>0. Head(output) \in Lines
    BY <1>1, LineIsRead
  <2> PICK line \in Lines : line = Head(output)
    BY <2>0
  <2>1. trail' = trail /\ (Quiet(line) \/ Noting(line))
    BY <1>1, LineIsRead
  <2>2. CASE Quiet(line)
    <3>1. Recorded' = Recorded
      BY <2>1, <2>2, RecordSame
    <3>2. QED
      BY <1>0, <3>1
  <2>3. CASE Noting(line)
    <3>1. PICK event \in Events : Recorded' = Append(Recorded, event)
      BY <2>1, <2>3, RecordAdded DEF Noting
    <3>2. QED
      BY <1>0, <3>1, Added
  <2>4. QED
    BY <2>1, <2>2, <2>3
<1>2. CASE Recorded' = Recorded
  BY <1>0, <1>2
<1>3. QED
  BY <1>1, <1>2, RecordKept

\* A step that writes no manifest and reports no exit.
Keeping ==
    /\ manifest' = manifest /\ proxy'.due = proxy.due
    /\ proxy'.pc = proxy.pc \/ proxy'.pc = "dead"
    /\ ~ server.up => ~ server'.up /\ server'.code = server.code

LEMMA StepsKeep ==
    ASSUME Typed, [Next]_vars
    PROVE  Keeping \/ ExitReported \/ Seal
<1>0. proxy \in Proxies /\ server \in Servers
  BY DEF Typed
<1>1. ASSUME NEW method \in Methods, Call(method) PROVE Keeping
  BY <1>1 DEF Call, Keeping
<1>2. CASE Settle \/ Close \/ Chatter \/ UNCHANGED vars
  BY <1>2 DEF Settle, Close, Chatter, vars, Keeping
<1>3. CASE Answer
  BY <1>0, <1>3 DEF Answer, Servers, Keeping
<1>4. CASE ServerExits
  BY <1>0, <1>4 DEF ServerExits, Servers, Keeping
<1>5. CASE Pass
  <2>1. manifest' = manifest
    BY <1>5 DEF Pass
  <2>2. proxy'.due = proxy.due /\ (proxy'.pc = proxy.pc \/ proxy'.pc = "dead")
    BY <1>0, <1>5 DEF Pass, Proxies
  <2>3. ~ server.up => ~ server'.up /\ server'.code = server.code
    BY <1>5 DEF Pass
  <2>4. QED
    BY <2>1, <2>2, <2>3 DEF Keeping
<1>6. CASE ReadLine
  BY <1>6, LineIsRead DEF Quiet, Noting, Keeping
<1>7. CASE AppendEvent \/ AppendFails
  BY <1>0, <1>7 DEF AppendEvent, AppendFails, Proxies, Keeping
<1>8. QED
  BY <1>1, <1>2, <1>3, <1>4, <1>5, <1>6, <1>7 DEF Next, Methods

LEMMA ManifestKept ==
    ASSUME Typed, EventsHold, ManifestHolds, [Next]_vars
    PROVE  ManifestHolds'
<1>0. proxy \in Proxies /\ Len(trail) \in Nat /\ Recorded \in Seq(Events) /\ DOMAIN Recorded = 1 .. Len(Recorded)
  BY RecordIs, LenProperties DEF Typed
<1>1. CASE Keeping
  <2>1. proxy'.pc \in {"draining", "sealed"} => ~ server'.up
    BY <1>1 DEF Keeping, ManifestHolds
  <2>2. SUFFICES ASSUME manifest.outcome # None
                 PROVE  /\ proxy'.pc \in {"sealed", "dead"} /\ ~ server'.up
                        /\ manifest.upTo <= Len(Recorded') /\ manifest.landed >= proxy'.due
                        /\ manifest.outcome = "success" =>
                             server'.code = 0 /\ \A i \in 1 .. manifest.upTo : Recorded'[i].ok
    BY <1>1, <2>1 DEF Keeping, ManifestHolds
  <2>3. /\ proxy.pc \in {"sealed", "dead"} /\ ~ server.up
        /\ manifest.upTo <= Len(Recorded) /\ manifest.landed >= proxy.due
        /\ manifest.outcome = "success" => server.code = 0 /\ \A i \in 1 .. manifest.upTo : Recorded[i].ok
    BY <2>2 DEF ManifestHolds
  <2>4. manifest.upTo \in Nat
    BY DEF Typed, Manifests
  <2>5. manifest.upTo <= Len(Recorded') /\ \A i \in 1 .. manifest.upTo : Recorded'[i] = Recorded[i]
    BY <2>3, <2>4, RecordLonger
  <2>6. QED
    BY <1>1, <2>3, <2>5 DEF Keeping
<1>2. CASE ExitReported
  <2>1. proxy.pc = "up" /\ ~ server.up /\ manifest' = manifest /\ server' = server
    BY <1>2 DEF ExitReported
  <2>2. manifest.outcome = None
    BY <2>1 DEF ManifestHolds
  <2>3. QED
    BY <2>1, <2>2 DEF ManifestHolds
<1>3. CASE Seal
  <2>1. /\ proxy.pc = "draining" /\ Len(trail) >= proxy.due /\ server' = server
        /\ manifest' = [outcome |-> Outcome, upTo |-> proxy.seq, landed |-> Len(trail)]
        /\ proxy' = [proxy EXCEPT !.pc = "sealed"]
    BY <1>3 DEF Seal, Drained
  <2>2. proxy'.pc = "sealed" /\ proxy'.due = proxy.due /\ proxy'.queue = proxy.queue /\ trail' = trail
    BY <1>0, <1>3, <2>1 DEF Seal, Proxies
  <2>3. Recorded' = Recorded
    BY <2>2 DEF Recorded
  <2>4. ~ server.up
    BY <2>1 DEF ManifestHolds
  <2>5. manifest'.outcome = Outcome /\ manifest'.upTo = Len(Recorded) /\ manifest'.landed = Len(trail)
    BY <2>1 DEF EventsHold
  <2>6. Outcome = "success" => server.code = 0 /\ \A i \in 1 .. Len(Recorded) : Recorded[i].ok
    BY <1>0 DEF Outcome, EventsHold
  <2>7. Len(Recorded) <= Len(Recorded)
    BY <1>0, LenProperties
  <2>8. QED
    BY <2>1, <2>2, <2>3, <2>4, <2>5, <2>6, <2>7 DEF ManifestHolds
<1>4. QED
  BY <1>1, <1>2, <1>3, StepsKeep

-----------------------------------------------------------------------------
(* The recording is true. *)

LEMMA RecorderInvInit == Init => RecorderInv
<1> SUFFICES ASSUME Init PROVE RecorderInv
  OBVIOUS
<1>1. Typed
  BY TypesInit
<1>2. /\ client.got = <<>> /\ toProxy = <<>> /\ server.inbox = <<>> /\ output = <<>> /\ written = <<>> /\ toClient = <<>>
      /\ trail = <<>> /\ proxy.queue = <<>> /\ proxy.seq = 0 /\ proxy.lists = {} /\ proxy.pc = "up"
      /\ manifest.outcome = None
  BY DEF Init, Unrecorded, NoManifest
<1>3. Recorded = <<>> /\ Len(Recorded) = 0 /\ DOMAIN Recorded = {} /\ toClient \o output = written
  BY <1>2 DEF Recorded
<1>4. DOMAIN toProxy = {} /\ DOMAIN server.inbox = {} /\ DOMAIN output = {} /\ DOMAIN toClient = {} /\ DOMAIN client.got = {}
  BY <1>2
<1>5. RequestsHold /\ RepliesHold
  BY <1>2, <1>4 DEF RequestsHold, SentHold, InboxHolds, ListsHold, RepliesHold, OutputHolds, ForwardedHold
<1>6. Follows(Recorded, toClient)
  <2>1. [i \in {} |-> 0] \in [DOMAIN Recorded -> DOMAIN toClient]
    BY <1>3
  <2>2. QED
    BY <1>3, <2>1 DEF Follows
<1>7. EventsHold
  BY <1>2, <1>3, <1>6 DEF EventsHold
<1>8. ManifestHolds /\ Invisible
  BY <1>2, <1>3, <1>4 DEF ManifestHolds, Invisible
<1>9. QED
  BY <1>1, <1>5, <1>7, <1>8 DEF RecorderInv

LEMMA RecorderInvNext == RecorderInv /\ [Next]_vars => RecorderInv'
BY TypesNext, RequestsKept, RepliesKept, EventsKept, ManifestKept, InvisibleKept DEF RecorderInv

LEMMA RecorderInvIsTrue == RecorderInv => RecordingIsTrue
<1> SUFFICES ASSUME RecorderInv PROVE RecordingIsTrue
  OBVIOUS
<1>1. RecordFollowsReplies
  BY DEF RecorderInv, EventsHold, Follows, RepliesHold, ForwardedHold, Recorded, RecordFollowsReplies
<1>2. server.up \in BOOLEAN
  BY DEF RecorderInv, Typed, Servers
<1>3. ManifestAccounts
  BY <1>2 DEF RecorderInv, ManifestHolds, Recorded, ManifestAccounts
<1>4. QED
  BY <1>1, <1>3 DEF RecorderInv, RecordingIsTrue

\* Whatever the pipes do, the client reads what the server wrote, in its order and whether or
\* not it could be recorded; the events in the trajectory and in the queue are the forwarded
\* replies to calls, numbered without a gap; and the manifest comes after all of them that
\* were read before the exit was reported, a success only if none of those it counts is an
\* error (proxy.ts:86-161).
THEOREM RecordingsAreTrue == Spec => []RecordingIsTrue
<1>1. Init => RecorderInv
  BY RecorderInvInit
<1>2. RecorderInv /\ [Next]_vars => RecorderInv'
  BY RecorderInvNext
<1>3. RecorderInv => RecordingIsTrue
  BY RecorderInvIsTrue
<1>4. QED
  BY <1>1, <1>2, <1>3, PTL DEF Spec
=============================================================================
