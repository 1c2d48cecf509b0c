---------------------------- MODULE Session_proofs ----------------------------
(***************************************************************************)
(* The session package: what the session manager guarantees for any number *)
(* of sessions, any cap and any adapter, with calls that overlap and for a *)
(* host that awaits each call before the next; and what the speculative    *)
(* pipeline guarantees for any steps, dependencies and budgets.            *)
(***************************************************************************)
EXTENDS VirtualSessions, SpeculativePipeline, FiniteSetTheorems, TLAPS

-----------------------------------------------------------------------------
(* PART 1.  The session manager.                                           *)

SessionRecord == [id : Id \cup {None}, mode : {"live", "shadow"},
                  status : {"unused", "active", "promoted", "ended"}, epoch : Nat,
                  context : Stored \cup {None}, base : Stored \cup {None}, baseEpoch : Nat]
CallRecord == [op : {"idle", "open", "capture", "clone", "promote", "cleanup", "closing"},
               stored : Stored \cup {None}, live : Stored \cup {None}, context : Stored \cup {None},
               new : Stored \cup {None}, at : Nat, left : SUBSET Stored, closing : BOOLEAN]

\* The sessions a call names are sessions once it has named them.  A promotion may find its own
\* shadow under the id of the live session, and has one context twice then.
Named(r) ==
    /\ r.op \in {"open", "capture", "clone", "promote", "cleanup"} => r.stored \in Stored
    /\ r.op \in {"capture", "clone"} => r.live \in Stored \ {r.stored}
    /\ r.op = "promote" => r.live \in Stored /\ (r.live = r.stored => r.context = r.new)
TypeInv ==
    /\ TypeOK
    /\ \A c \in Call : Named(calls[c])
    /\ \A i \in Stored : session[i].mode = "shadow" => session[i].base \in Stored \ {i}

-----------------------------------------------------------------------------
(* Types. *)

LEMMA NoCallIsCall == NoCall \in CallRecord /\ Named(NoCall) /\ NoCall.op = "idle"
<1>1. FALSE \in BOOLEAN
  OBVIOUS
<1>2. QED
  BY <1>1 DEF NoCall, CallRecord, Named

LEMMA UnusedIsSession == Unused \in SessionRecord /\ Unused.mode = "live" /\ Unused.status = "unused"
  BY DEF Unused, SessionRecord

\* A step of one call keeps the types of the calls.
LEMMA OneCall ==
    ASSUME TypeInv, NEW c \in Call, NEW r \in CallRecord, Named(r), Awaiting(c, r)
    PROVE  /\ calls' \in [Call -> CallRecord]
           /\ \A d \in Call : Named(calls'[d])
           /\ calls'[c] = r /\ \A d \in Call \ {c} : calls'[d] = calls[d]
  BY DEF TypeInv, TypeOK, Awaiting, CallRecord

\* A context that is opened, and one that is closed.
LEMMA ShownFacts ==
    ASSUME TypeInv, NEW x \in Stored, NEW e \in Nat, page' = Showing(x, e)
    PROVE  /\ page' \in [open' -> Nat] /\ open' = open \cup {x} /\ open' \subseteq Stored
           /\ page'[x] = e /\ \A y \in open \ {x} : page'[y] = page[y]
<1>1. page' = [y \in open \cup {x} |-> IF y = x THEN e ELSE page[y]]
  BY DEF Showing
<1>2. open' = open \cup {x}
  BY <1>1 DEF open
<1>3. page \in [open -> Nat] /\ open \subseteq Stored
  BY DEF TypeInv, TypeOK
<1>4. QED
  BY <1>1, <1>2, <1>3

LEMMA ClosedFacts ==
    ASSUME TypeInv, NEW x, page' = Without(x)
    PROVE  /\ page' \in [open' -> Nat] /\ open' = open \ {x} /\ open' \subseteq Stored
           /\ \A y \in open' : page'[y] = page[y]
<1>1. page' = [y \in open \ {x} |-> page[y]]
  BY DEF Without
<1>2. open' = open \ {x}
  BY <1>1 DEF open
<1>3. page \in [open -> Nat] /\ open \subseteq Stored
  BY DEF TypeInv, TypeOK
<1>4. QED
  BY <1>1, <1>2, <1>3

LEMMA TypeInit == Init => TypeInv
<1> SUFFICES ASSUME Init PROVE TypeInv
  OBVIOUS
<1>1. page \in [open -> Nat] /\ open \subseteq Stored
  BY DEF Init, open
<1>2. calls \in [Call -> CallRecord] /\ \A c \in Call : Named(calls[c])
  BY NoCallIsCall DEF Init
<1>3. session \in [Stored -> SessionRecord] /\ \A i \in Stored : session[i].mode = "live"
  BY UnusedIsSession DEF Init
<1>4. QED
  BY <1>1, <1>2, <1>3 DEF Init, TypeInv, TypeOK, SessionRecord, CallRecord

LEMMA TypeFrom ==
    ASSUME TypeInv, width' = width, session' \in [Stored -> SessionRecord], held' \subseteq Stored,
           replaced' \subseteq Stored, failed' \subseteq Stored,
           page' \in [open' -> Nat], open' \subseteq Stored,
           calls' \in [Call -> CallRecord], \A c \in Call : Named(calls'[c]),
           \A i \in Stored : session'[i].mode = "shadow" => session'[i].base \in Stored \ {i}
    PROVE  TypeInv'
  BY DEF TypeInv, TypeOK, SessionRecord, CallRecord

\* What a cleanup waits for.
LEMMA CleanupCall ==
    ASSUME TypeInv, NEW c \in Call, NEW i \in Stored, NEW left \in SUBSET Stored, NEW closing \in BOOLEAN,
           Cleanup(c, i, left, closing)
    PROVE  /\ calls' \in [Call -> CallRecord] /\ \A d \in Call : Named(calls'[d])
           /\ calls'[c].op = "cleanup" /\ calls'[c].stored = i /\ calls'[c].context = session[i].context
           /\ calls'[c].left = left
           /\ \A d \in Call \ {c} : calls'[d] = calls[d]
<1> DEFINE r == [NoCall EXCEPT !.op = "cleanup", !.stored = i, !.context = session[i].context,
                               !.left = left, !.closing = closing]
<1>1. session[i].context \in Stored \cup {None}
  BY DEF TypeInv, TypeOK
<1>2. r \in CallRecord /\ r.op = "cleanup" /\ r.stored = i /\ r.context = session[i].context /\ r.left = left
  BY <1>1, NoCallIsCall DEF CallRecord
<1>3. Named(r)
  BY <1>2 DEF Named
<1>4. Awaiting(c, r)
  BY DEF Cleanup
<1>5. QED
  BY <1>2, <1>3, <1>4, OneCall

\* After a cleanup the call is over, or the sweep it belongs to goes on.
LEMMA AfterCleanupCall ==
    ASSUME TypeInv, NEW c \in Call, AfterCleanup(c)
    PROVE  /\ calls' \in [Call -> CallRecord] /\ \A d \in Call : Named(calls'[d])
           /\ calls'[c].op \in {"idle", "closing"}
           /\ calls'[c].op = "closing" => calls'[c].left = calls[c].left
           /\ \A d \in Call \ {c} : calls'[d] = calls[d]
<1> DEFINE r == [NoCall EXCEPT !.op = "closing", !.left = calls[c].left]
<1>1. calls[c].left \in SUBSET Stored
  BY DEF TypeInv, TypeOK
<1>2. r \in CallRecord /\ r.op = "closing" /\ r.left = calls[c].left
  BY <1>1, NoCallIsCall DEF CallRecord
<1>3. Named(r)
  BY <1>2 DEF Named
<1>4. Awaiting(c, r) \/ Awaiting(c, NoCall)
  BY DEF AfterCleanup
<1>5. QED
  BY <1>2, <1>3, <1>4, OneCall, NoCallIsCall

\* The calls that begin a new session.
LEMMA OpenLiveFacts ==
    ASSUME TypeInv, NEW c \in Call, NEW i \in Stored, OpenLive(c, i)
    PROVE  /\ TypeInv'
           /\ calls'[c].op = "open" /\ calls'[c].stored = i /\ \A d \in Call \ {c} : calls'[d] = calls[d]
<1> DEFINE r == [NoCall EXCEPT !.op = "open", !.stored = i]
<1>1. r \in CallRecord /\ r.op = "open" /\ r.stored = i
  BY NoCallIsCall DEF CallRecord
<1>2. Named(r)
  BY <1>1 DEF Named
<1>3. Awaiting(c, r) /\ UNCHANGED <<width, session, held, replaced, page, failed>>
  BY DEF OpenLive
<1>4. calls' \in [Call -> CallRecord] /\ \A d \in Call : Named(calls'[d])
  BY <1>1, <1>2, <1>3, OneCall
<1>5. TypeInv'
  BY <1>3, <1>4, TypeFrom DEF TypeInv, TypeOK, SessionRecord, open
<1>6. QED
  BY <1>1, <1>2, <1>3, <1>5, OneCall

LEMMA CloneShadowFacts ==
    ASSUME TypeInv, NEW c \in Call, NEW i \in Stored, NEW live \in Stored, CloneShadow(c, i, live)
    PROVE  /\ TypeInv'
           /\ calls'[c].op = "capture" /\ calls'[c].stored = i /\ calls'[c].live = live
           /\ calls'[c].context = session[live].context
           /\ \A d \in Call \ {c} : calls'[d] = calls[d]
<1> DEFINE r == [NoCall EXCEPT !.op = "capture", !.stored = i, !.live = live, !.context = session[live].context]
<1>1. session[live].context \in Stored \cup {None}
  BY DEF TypeInv, TypeOK
<1>2. r \in CallRecord /\ r.op = "capture" /\ r.stored = i /\ r.live = live /\ r.context = session[live].context
  BY <1>1, NoCallIsCall DEF CallRecord
<1>3. Named(r)
  BY <1>2 DEF Named, CloneShadow, Fresh, IsActive
<1>4. Awaiting(c, r) /\ UNCHANGED <<width, session, held, replaced, page, failed>>
  BY DEF CloneShadow
<1>5. calls' \in [Call -> CallRecord] /\ \A d \in Call : Named(calls'[d])
  BY <1>2, <1>3, <1>4, OneCall
<1>6. TypeInv'
  BY <1>4, <1>5, TypeFrom DEF TypeInv, TypeOK, SessionRecord, open
<1>7. QED
  BY <1>2, <1>3, <1>4, <1>6, OneCall

LEMMA CapturedFacts ==
    ASSUME TypeInv, NEW c \in Call, Captured(c)
    PROVE  /\ TypeInv'
           /\ calls'[c].op = "clone" /\ calls'[c].stored = calls[c].stored /\ calls'[c].live = calls[c].live
           /\ calls'[c].at = page[calls[c].context]
           /\ \A d \in Call \ {c} : calls'[d] = calls[d]
<1> DEFINE r == [calls[c] EXCEPT !.op = "clone", !.at = page[calls[c].context]]
<1>1. page[calls[c].context] \in Nat /\ calls[c] \in CallRecord /\ calls[c].stored \in Stored /\ calls[c].live \in Stored \ {calls[c].stored}
  BY DEF TypeInv, TypeOK, Captured, Awaits, Named, CallRecord
<1>2. r \in CallRecord /\ r.op = "clone" /\ r.stored = calls[c].stored /\ r.live = calls[c].live
      /\ r.at = page[calls[c].context]
  BY <1>1 DEF CallRecord
<1>3. Named(r)
  BY <1>1, <1>2 DEF Named
<1>4. Awaiting(c, r) /\ UNCHANGED <<width, session, held, replaced, page, failed>>
  BY DEF Captured
<1>5. calls' \in [Call -> CallRecord] /\ \A d \in Call : Named(calls'[d])
  BY <1>2, <1>3, <1>4, OneCall
<1>6. TypeInv'
  BY <1>4, <1>5, TypeFrom DEF TypeInv, TypeOK, SessionRecord, open
<1>7. QED
  BY <1>2, <1>3, <1>4, <1>6, OneCall

LEMMA PromoteFacts ==
    ASSUME TypeInv, NEW c \in Call, NEW i \in Stored, NEW live \in Stored, Promote(c, i, live)
    PROVE  /\ TypeInv'
           /\ calls'[c].op = "promote" /\ calls'[c].stored = i /\ calls'[c].live = live
           /\ calls'[c].context = session[live].context /\ calls'[c].new = session[i].context
           /\ calls'[c].at = session[live].epoch
           /\ \A d \in Call \ {c} : calls'[d] = calls[d]
<1> DEFINE r == [NoCall EXCEPT !.op = "promote", !.stored = i, !.live = live,
                               !.context = session[live].context, !.new = session[i].context,
                               !.at = session[live].epoch]
<1>1. /\ session[live].context \in Stored \cup {None} /\ session[i].context \in Stored \cup {None}
      /\ session[live].epoch \in Nat
  BY DEF TypeInv, TypeOK
<1>2. r \in CallRecord /\ r.op = "promote" /\ r.stored = i /\ r.live = live /\ r.context = session[live].context
      /\ r.new = session[i].context /\ r.at = session[live].epoch
  BY <1>1, NoCallIsCall DEF CallRecord
<1>3. Named(r)
  BY <1>2 DEF Named
<1>4. Awaiting(c, r) /\ UNCHANGED <<width, session, held, replaced, page, failed>>
  BY DEF Promote
<1>5. calls' \in [Call -> CallRecord] /\ \A d \in Call : Named(calls'[d])
  BY <1>2, <1>3, <1>4, OneCall
<1>6. TypeInv'
  BY <1>4, <1>5, TypeFrom DEF TypeInv, TypeOK, SessionRecord, open
<1>7. QED
  BY <1>2, <1>3, <1>4, <1>6, OneCall

\* The steps at which a session enters the map.
LEMMA StoreFacts ==
    ASSUME TypeInv, NEW i \in Stored, NEW s \in SessionRecord, Store(i, s),
           s.mode = "shadow" => s.base \in Stored \ {i}
    PROVE  /\ session' \in [Stored -> SessionRecord] /\ session'[i] = s
           /\ \A j \in Stored \ {i} : session'[j] = session[j]
           /\ held' \subseteq Stored /\ replaced' \subseteq Stored
           /\ \A j \in Stored : session'[j].mode = "shadow" => session'[j].base \in Stored \ {j}
<1>1. session \in [Stored -> SessionRecord] /\ held \subseteq Stored /\ replaced \subseteq Stored
  BY DEF TypeInv, TypeOK, SessionRecord
<1>2. session' = [session EXCEPT ![i] = s]
  BY DEF Store
<1>3. /\ session' \in [Stored -> SessionRecord] /\ session'[i] = s
      /\ \A j \in Stored \ {i} : session'[j] = session[j]
  BY <1>1, <1>2
<1>4. held' \subseteq Stored /\ replaced' \subseteq Stored
  BY <1>1 DEF Store, Under
<1>5. QED
  BY <1>3, <1>4 DEF TypeInv

LEMMA OpenedFacts ==
    ASSUME TypeInv, NEW c \in Call, Opened(c)
    PROVE  LET i == calls[c].stored IN
           /\ TypeInv' /\ i \in Stored
           /\ session'[i].mode = "live" /\ session'[i].status = "active" /\ session'[i].context = i
           /\ session'[i].epoch = 0
           /\ \A j \in Stored \ {i} : session'[j] = session[j]
           /\ held' = (held \ Under(session'[i].id)) \cup {i}
           /\ replaced' = replaced \cup Under(session'[i].id)
           /\ calls'[c].op = "idle" /\ \A d \in Call \ {c} : calls'[d] = calls[d]
<1> DEFINE i == calls[c].stored
           s(n) == [id |-> n, mode |-> "live", status |-> "active", epoch |-> 0, context |-> i,
                    base |-> None, baseEpoch |-> 0]
<1>1. i \in Stored
  BY DEF TypeInv, Named, Opened, Awaits
<1>2. PICK n \in Id : Store(i, s(n))
  BY DEF Opened
<1>3. /\ s(n) \in SessionRecord /\ s(n).mode = "live" /\ s(n).status = "active" /\ s(n).context = i
      /\ s(n).epoch = 0
  BY <1>1 DEF SessionRecord
<1>4. page' = Showing(i, 0) /\ Awaiting(c, NoCall) /\ width' = width /\ failed' = failed
  BY DEF Opened
<1> HIDE DEF s
<1>5. /\ session' \in [Stored -> SessionRecord] /\ session'[i] = s(n)
      /\ \A j \in Stored \ {i} : session'[j] = session[j]
      /\ held' \subseteq Stored /\ replaced' \subseteq Stored
      /\ \A j \in Stored : session'[j].mode = "shadow" => session'[j].base \in Stored \ {j}
  BY <1>1, <1>2, <1>3, StoreFacts
<1>6. /\ held' = (held \ Under(session'[i].id)) \cup {i} /\ replaced' = replaced \cup Under(session'[i].id)
  BY <1>2, <1>5 DEF Store
<1>7. calls' \in [Call -> CallRecord] /\ (\A d \in Call : Named(calls'[d])) /\ calls'[c].op = "idle"
      /\ \A d \in Call \ {c} : calls'[d] = calls[d]
  BY <1>4, NoCallIsCall, OneCall
<1>8. page' \in [open' -> Nat] /\ open' \subseteq Stored
  BY <1>1, <1>4, ShownFacts
<1>9. failed' \subseteq Stored
  BY <1>4 DEF TypeInv, TypeOK
<1>10. TypeInv'
  BY <1>4, <1>5, <1>7, <1>8, <1>9, TypeFrom
<1>11. QED
  BY <1>1, <1>3, <1>5, <1>6, <1>7, <1>10

LEMMA ClonedFacts ==
    ASSUME TypeInv, NEW c \in Call, Cloned(c)
    PROVE  LET i == calls[c].stored
               live == calls[c].live
           IN
           /\ TypeInv' /\ i \in Stored /\ live \in Stored /\ live # i
           /\ session'[i].mode = "shadow" /\ session'[i].status = "active" /\ session'[i].context = i
           /\ session'[i].base = live /\ session'[i].baseEpoch = session[live].epoch
           /\ \A j \in Stored \ {i} : session'[j] = session[j]
           /\ held' = (held \ Under(session'[i].id)) \cup {i}
           /\ replaced' = replaced \cup Under(session'[i].id)
           /\ calls'[c].op = "idle" /\ \A d \in Call \ {c} : calls'[d] = calls[d]
<1> DEFINE i == calls[c].stored
           live == calls[c].live
           s(n) == [id |-> n, mode |-> "shadow", status |-> "active", epoch |-> session[live].epoch,
                    context |-> i, base |-> live, baseEpoch |-> session[live].epoch]
<1>1. i \in Stored /\ live \in Stored \ {i} /\ calls[c].at \in Nat
  BY DEF TypeInv, TypeOK, Named, Cloned, Awaits
<1>2. PICK n \in Id : Store(i, s(n))
  BY DEF Cloned
<1>3. /\ s(n) \in SessionRecord /\ s(n).mode = "shadow" /\ s(n).status = "active" /\ s(n).context = i
      /\ s(n).base = live /\ s(n).baseEpoch = session[live].epoch
  BY <1>1 DEF SessionRecord, TypeInv, TypeOK
<1>4. page' = Showing(i, calls[c].at) /\ Awaiting(c, NoCall) /\ width' = width /\ failed' = failed
  BY DEF Cloned
<1> HIDE DEF s
<1>5. /\ session' \in [Stored -> SessionRecord] /\ session'[i] = s(n)
      /\ \A j \in Stored \ {i} : session'[j] = session[j]
      /\ held' \subseteq Stored /\ replaced' \subseteq Stored
      /\ \A j \in Stored : session'[j].mode = "shadow" => session'[j].base \in Stored \ {j}
  BY <1>1, <1>2, <1>3, StoreFacts
<1>6. /\ held' = (held \ Under(session'[i].id)) \cup {i} /\ replaced' = replaced \cup Under(session'[i].id)
  BY <1>2, <1>5 DEF Store
<1>7. calls' \in [Call -> CallRecord] /\ (\A d \in Call : Named(calls'[d])) /\ calls'[c].op = "idle"
      /\ \A d \in Call \ {c} : calls'[d] = calls[d]
  BY <1>4, NoCallIsCall, OneCall
<1>8. page' \in [open' -> Nat] /\ open' \subseteq Stored
  BY <1>1, <1>4, ShownFacts
<1>9. failed' \subseteq Stored
  BY <1>4 DEF TypeInv, TypeOK
<1>10. TypeInv'
  BY <1>4, <1>5, <1>7, <1>8, <1>9, TypeFrom
<1>11. QED
  BY <1>1, <1>3, <1>5, <1>6, <1>7, <1>10

\* A navigation.
LEMMA AdvanceFacts ==
    ASSUME TypeInv, NEW i \in Stored, AdvanceEpoch(i)
    PROVE  /\ TypeInv'
           /\ session'[i] = [session[i] EXCEPT !.epoch = session[i].epoch + 1]
           /\ session'[i].epoch = session[i].epoch + 1 /\ session'[i].id = session[i].id
           /\ \A j \in Stored \ {i} : session'[j] = session[j]
           /\ open' = open
<1> DEFINE s == [session[i] EXCEPT !.epoch = session[i].epoch + 1]
<1>1. /\ session' = [session EXCEPT ![i] = s] /\ UNCHANGED <<width, held, replaced, failed, calls>>
      /\ page' \in {page, Showing(session[i].context, session[i].epoch + 1)}
      /\ page' # page => session[i].context \in open
  BY DEF AdvanceEpoch, NextEpoch
<1>2. session[i] \in SessionRecord /\ session[i].epoch + 1 \in Nat
  BY DEF TypeInv, TypeOK, SessionRecord
<1>3. /\ s \in SessionRecord /\ s.epoch = session[i].epoch + 1 /\ s.id = session[i].id
      /\ s.mode = session[i].mode /\ s.base = session[i].base
  BY <1>2 DEF SessionRecord
<1>4. /\ session' \in [Stored -> SessionRecord] /\ session'[i] = s
      /\ \A j \in Stored \ {i} : session'[j] = session[j]
  BY <1>1, <1>3 DEF TypeInv, TypeOK, SessionRecord
<1>5. page' \in [open' -> Nat] /\ open' = open /\ open' \subseteq Stored
  <2>1. CASE page' = page
    BY <2>1 DEF TypeInv, TypeOK, open
  <2>2. CASE page' # page
    <3>1. session[i].context \in Stored /\ session[i].context \in open
      BY <1>1, <2>2 DEF TypeInv, TypeOK
    <3>2. page' = Showing(session[i].context, session[i].epoch + 1)
      BY <1>1, <2>2
    <3>3. page' \in [open' -> Nat] /\ open' = open \cup {session[i].context} /\ open' \subseteq Stored
      BY <1>2, <3>1, <3>2, ShownFacts
    <3>4. QED
      BY <3>1, <3>3
  <2>3. QED
    BY <2>1, <2>2
<1>6. \A j \in Stored : session'[j].mode = "shadow" => session'[j].base \in Stored \ {j}
  BY <1>3, <1>4 DEF TypeInv
<1>7. TypeInv'
  BY <1>1, <1>4, <1>5, <1>6, TypeFrom DEF TypeInv, TypeOK, SessionRecord, CallRecord
<1>8. QED
  BY <1>3, <1>4, <1>5, <1>7

\* A promotion replaces the live context.
LEMMA PromotedFacts ==
    ASSUME TypeInv, NEW c \in Call, Promoted(c)
    PROVE  LET i == calls[c].stored
               live == calls[c].live
               new == calls[c].new
           IN
           /\ TypeInv' /\ i \in Stored /\ live \in Stored /\ live # i
           /\ session'[live].context = new /\ session'[live].epoch = session[live].epoch + 1
           /\ session'[live].status = session[live].status /\ session'[live].mode = session[live].mode
           /\ session'[live].base = session[live].base /\ session'[live].baseEpoch = session[live].baseEpoch
           /\ session'[live].id = session[live].id
           /\ session'[i].status = "promoted" /\ session'[i].mode = session[i].mode
           /\ session'[i].base = session[i].base /\ session'[i].context = session[i].context
           /\ session'[i].id = session[i].id
           /\ \A j \in Stored \ {i, live} : session'[j] = session[j]
           /\ open' = open \ {calls[c].context} /\ new \in open' /\ page'[new] = session[live].epoch + 1
           /\ \A x \in open' \ {new} : page'[x] = page[x]
           /\ calls'[c].op = "idle" /\ \A d \in Call \ {c} : calls'[d] = calls[d]
<1> DEFINE i == calls[c].stored
           live == calls[c].live
           new == calls[c].new
           s == [session[i] EXCEPT !.status = "promoted"]
           l == [session[live] EXCEPT !.context = new, !.epoch = session[live].epoch + 1]
<1>1. i \in Stored /\ live \in Stored /\ new \in Stored /\ i # live
  BY DEF TypeInv, TypeOK, Named, Promoted, Awaits, open
<1>2. session[i] \in SessionRecord /\ session[live] \in SessionRecord /\ session[live].epoch + 1 \in Nat
  BY <1>1 DEF SessionRecord, TypeInv, TypeOK
<1>3. /\ s \in SessionRecord /\ s.status = "promoted" /\ s.mode = session[i].mode
      /\ s.base = session[i].base /\ s.context = session[i].context /\ s.id = session[i].id
  BY <1>2 DEF SessionRecord
<1>4. /\ l \in SessionRecord /\ l.context = new /\ l.epoch = session[live].epoch + 1
      /\ l.status = session[live].status /\ l.mode = session[live].mode
      /\ l.base = session[live].base /\ l.baseEpoch = session[live].baseEpoch
      /\ l.id = session[live].id
  BY <1>1, <1>2 DEF SessionRecord
<1>5. /\ session' = [session EXCEPT ![live].context = new, ![live].epoch = session[live].epoch + 1,
                                    ![i].status = "promoted"]
      /\ {calls[c].context, new} \subseteq open /\ calls[c].context # new
      /\ page' = [x \in open \ {calls[c].context} |->
                    IF x = new THEN session[live].epoch + 1 ELSE page[x]]
      /\ Awaiting(c, NoCall)
      /\ width' = width /\ held' = held /\ replaced' = replaced /\ failed' = failed
  BY <1>1 DEF Promoted, NextEpoch, TypeInv, TypeOK
<1>6. session' = [[session EXCEPT ![live] = l] EXCEPT ![i] = s]
  BY <1>1, <1>5 DEF TypeInv, TypeOK
<1> HIDE DEF s, l
<1>7. /\ session' \in [Stored -> SessionRecord] /\ session'[i] = s /\ session'[live] = l
      /\ \A j \in Stored \ {i, live} : session'[j] = session[j]
  BY <1>1, <1>3, <1>4, <1>6 DEF TypeInv, TypeOK, SessionRecord
<1>9. calls' \in [Call -> CallRecord] /\ (\A d \in Call : Named(calls'[d])) /\ calls'[c].op = "idle"
      /\ \A d \in Call \ {c} : calls'[d] = calls[d]
  BY <1>5, NoCallIsCall, OneCall
<1>10. page' \in [open' -> Nat] /\ open' = open \ {calls[c].context} /\ open' \subseteq Stored
  BY <1>2, <1>5 DEF open, TypeInv, TypeOK
<1>11. \A j \in Stored : session'[j].mode = "shadow" => session'[j].base \in Stored \ {j}
  BY <1>3, <1>4, <1>7 DEF TypeInv
<1>12. TypeInv'
  <2>1. held' \subseteq Stored /\ replaced' \subseteq Stored /\ failed' \subseteq Stored
    BY <1>5, Zenon DEF TypeInv, TypeOK
  <2>2. QED
    BY <1>5, <1>7, <1>9, <1>10, <1>11, <2>1, TypeFrom, ZenonT(40)
<1>13. /\ new \in open' /\ page'[new] = session[live].epoch + 1
       /\ \A x \in open' \ {new} : page'[x] = page[x]
  BY <1>5, <1>10
<1>15. QED
  BY <1>1, <1>3, <1>4, <1>7, <1>9, <1>10, <1>12, <1>13

\* A cleanup that succeeds, and one that fails.
LEMMA DisposedFacts ==
    ASSUME TypeInv, NEW c \in Call, Disposed(c)
    PROVE  LET i == calls[c].stored IN
           /\ TypeInv' /\ i \in Stored
           /\ session'[i].status = "ended" /\ session'[i].mode = session[i].mode
           /\ session'[i].base = session[i].base /\ session'[i].id = session[i].id
           /\ \A j \in Stored \ {i} : session'[j] = session[j]
           /\ open' = open \ {calls[c].context} /\ \A x \in open' : page'[x] = page[x]
           /\ calls'[c].op \in {"idle", "closing"}
           /\ calls'[c].op = "closing" => calls'[c].left = calls[c].left
           /\ \A d \in Call \ {c} : calls'[d] = calls[d]
<1> DEFINE i == calls[c].stored
           s == [session[i] EXCEPT !.status = "ended"]
<1>1. i \in Stored
  BY DEF TypeInv, Named, Disposed, Awaits
<1>2. /\ s \in SessionRecord /\ s.status = "ended" /\ s.mode = session[i].mode /\ s.base = session[i].base
      /\ s.id = session[i].id
  BY <1>1 DEF SessionRecord, TypeInv, TypeOK
<1>3. /\ session' = [session EXCEPT ![i] = s] /\ page' = Without(calls[c].context)
      /\ AfterCleanup(c) /\ UNCHANGED <<width, held, replaced, failed>>
  BY DEF Disposed, Ended
<1> HIDE DEF s
<1>4. /\ session' \in [Stored -> SessionRecord] /\ session'[i] = s
      /\ \A j \in Stored \ {i} : session'[j] = session[j]
  BY <1>1, <1>2, <1>3 DEF TypeInv, TypeOK, SessionRecord
<1>5. /\ page' \in [open' -> Nat] /\ open' = open \ {calls[c].context} /\ open' \subseteq Stored
      /\ \A x \in open' : page'[x] = page[x]
  BY <1>3, ClosedFacts
<1>6. calls' \in [Call -> CallRecord] /\ \A d \in Call : Named(calls'[d])
  BY <1>3, AfterCleanupCall
<1>7. \A j \in Stored : session'[j].mode = "shadow" => session'[j].base \in Stored \ {j}
  BY <1>2, <1>4 DEF TypeInv
<1>8. TypeInv'
  BY <1>3, <1>4, <1>5, <1>6, <1>7, TypeFrom DEF TypeInv, TypeOK
<1>9. QED
  BY <1>1, <1>2, <1>3, <1>4, <1>5, <1>8, AfterCleanupCall

LEMMA DisposeFailsFacts ==
    ASSUME TypeInv, NEW c \in Call, DisposeFails(c)
    PROVE  /\ TypeInv' /\ calls[c].stored \in Stored
           /\ \/ failed' = failed /\ open' = open
              \/ failed' = failed \cup {calls[c].stored} /\ open' = open \ {calls[c].context}
           /\ \A x \in open' : page'[x] = page[x]
           /\ calls'[c].op \in {"idle", "closing"}
           /\ calls'[c].op = "closing" => calls'[c].left = calls[c].left
           /\ \A d \in Call \ {c} : calls'[d] = calls[d]
<1>1. calls[c].stored \in Stored
  BY DEF TypeInv, Named, DisposeFails, Awaits
<1>2. /\ \/ UNCHANGED <<page, failed>>
         \/ page' = Without(calls[c].context) /\ failed' = failed \cup {calls[c].stored}
      /\ AfterCleanup(c) /\ UNCHANGED <<width, session, held, replaced>>
  BY DEF DisposeFails
<1>3. /\ \/ failed' = failed /\ open' = open
         \/ failed' = failed \cup {calls[c].stored} /\ open' = open \ {calls[c].context}
      /\ page' \in [open' -> Nat] /\ open' \subseteq Stored /\ \A x \in open' : page'[x] = page[x]
  <2>1. CASE UNCHANGED <<page, failed>>
    BY <2>1 DEF open, TypeInv, TypeOK
  <2>2. CASE page' = Without(calls[c].context) /\ failed' = failed \cup {calls[c].stored}
    BY <2>2, ClosedFacts
  <2>3. QED
    BY <1>2, <2>1, <2>2
<1>4. calls' \in [Call -> CallRecord] /\ \A d \in Call : Named(calls'[d])
  BY <1>2, AfterCleanupCall
<1>5. TypeInv'
  BY <1>1, <1>2, <1>3, <1>4, TypeFrom DEF TypeInv, TypeOK, SessionRecord
<1>6. QED
  BY <1>1, <1>2, <1>3, <1>5, AfterCleanupCall

\* The steps at which only a call changes.
Quiet == UNCHANGED <<width, session, held, replaced, page, failed>>

LEMMA QuietTypes ==
    ASSUME TypeInv, Quiet, calls' \in [Call -> CallRecord], \A d \in Call : Named(calls'[d])
    PROVE  TypeInv'
  BY TypeFrom DEF Quiet, TypeInv, TypeOK, SessionRecord, open

LEMMA CloseAllFacts ==
    ASSUME TypeInv, NEW c \in Call, CloseAll(c)
    PROVE  /\ TypeInv'
           /\ calls'[c].op = "closing" /\ calls'[c].left = {i \in held : IsActive(i)}
           /\ \A d \in Call \ {c} : calls'[d] = calls[d]
<1> DEFINE left == {i \in held : IsActive(i)}
           r == [NoCall EXCEPT !.op = "closing", !.left = left]
<1>1. left \in SUBSET Stored
  BY DEF TypeInv, TypeOK
<1>2. r \in CallRecord /\ r.op = "closing" /\ r.left = left
  <2> HIDE DEF left
  <2>1. QED
    BY <1>1, NoCallIsCall DEF CallRecord
<1>3. Named(r)
  BY <1>2 DEF Named
<1>4. Awaiting(c, r) /\ Quiet
  BY DEF CloseAll, Quiet
<1>5. QED
  BY <1>2, <1>3, <1>4, OneCall, QuietTypes

\* A cleanup of an id that is one begins.
LEMMA CleanupTypes ==
    ASSUME TypeInv, NEW c \in Call, NEW i \in Stored, NEW left \in SUBSET Stored, NEW closing \in BOOLEAN,
           Cleanup(c, i, left, closing), Quiet
    PROVE  TypeInv'
  BY CleanupCall, QuietTypes

\* evictInactive, and the end of closeAll.
LEMMA KeptTypes ==
    ASSUME TypeInv, held' = Kept, UNCHANGED <<width, session, replaced, page, failed>>,
           calls' \in [Call -> CallRecord], \A d \in Call : Named(calls'[d])
    PROVE  TypeInv'
  BY TypeFrom DEF Kept, TypeInv, TypeOK, SessionRecord, open

LEMMA TypeNext == TypeInv /\ [Next]_vars => TypeInv'
<1> SUFFICES ASSUME TypeInv, [Next]_vars PROVE TypeInv'
  OBVIOUS
<1>0. calls \in [Call -> CallRecord] /\ (\A d \in Call : Named(calls[d])) /\ FALSE \in BOOLEAN /\ TRUE \in BOOLEAN
  BY DEF TypeInv, TypeOK, CallRecord
<1>1. ASSUME NEW c \in Call, Opened(c) PROVE TypeInv'
  BY <1>1, OpenedFacts
<1>2. ASSUME NEW c \in Call, Captured(c) PROVE TypeInv'
  BY <1>2, CapturedFacts
<1>3. ASSUME NEW c \in Call, Cloned(c) PROVE TypeInv'
  BY <1>3, ClonedFacts
<1>4. ASSUME NEW c \in Call, AdapterFails(c) PROVE TypeInv'
  BY <1>4, NoCallIsCall, OneCall, QuietTypes DEF AdapterFails, Quiet
<1>5. ASSUME NEW c \in Call, Promoted(c) PROVE TypeInv'
  BY <1>5, PromotedFacts
<1>6. ASSUME NEW c \in Call, PromoteFails(c) PROVE TypeInv'
  <2>1. calls[c].stored \in Stored /\ Cleanup(c, calls[c].stored, {}, FALSE) /\ Quiet
    BY <1>6 DEF PromoteFails, Awaits, TypeInv, Named, Quiet
  <2>2. QED
    BY <1>0, <2>1, CleanupTypes
<1>7. ASSUME NEW c \in Call, Disposed(c) PROVE TypeInv'
  BY <1>7, DisposedFacts
<1>8. ASSUME NEW c \in Call, DisposeFails(c) PROVE TypeInv'
  BY <1>8, DisposeFailsFacts
<1>9. ASSUME NEW c \in Call, CloseAll(c) PROVE TypeInv'
  BY <1>9, CloseAllFacts
<1>10. ASSUME NEW c \in Call, CloseNext(c) PROVE TypeInv'
  <2>1. PICK i \in calls[c].left : Cleanup(c, i, calls[c].left \ {i}, TRUE)
    BY <1>10 DEF CloseNext
  <2>2. i \in Stored /\ calls[c].left \ {i} \in SUBSET Stored /\ Quiet
    BY <1>10, <2>1 DEF CloseNext, TypeInv, TypeOK, Quiet
  <2>3. QED
    BY <1>0, <2>1, <2>2, CleanupTypes
<1>11. ASSUME NEW c \in Call, CloseDone(c) PROVE TypeInv'
  BY <1>11, NoCallIsCall, OneCall, KeptTypes DEF CloseDone
<1>12. ASSUME NEW c \in Call, NEW i \in Stored, OpenLive(c, i) PROVE TypeInv'
  BY <1>12, OpenLiveFacts
<1>13. ASSUME NEW c \in Call, NEW i \in Stored, NEW live \in Stored, CloneShadow(c, i, live) PROVE TypeInv'
  BY <1>13, CloneShadowFacts
<1>14. ASSUME NEW c \in Call, NEW i \in Stored, NEW live \in Stored, Promote(c, i, live) PROVE TypeInv'
  BY <1>14, PromoteFacts
<1>15. ASSUME NEW c \in Call, NEW i \in Stored, NEW live \in Stored, PromoteStale(c, i, live) PROVE TypeInv'
  BY <1>0, <1>15, CleanupTypes DEF PromoteStale, Quiet
<1>16. ASSUME NEW c \in Call, NEW i \in Stored, DiscardOrCrash(c, i) PROVE TypeInv'
  BY <1>0, <1>16, CleanupTypes DEF DiscardOrCrash, Quiet
<1>17. ASSUME NEW i \in Stored, AdvanceEpoch(i) PROVE TypeInv'
  BY <1>17, AdvanceFacts
<1>18. CASE EvictInactive
  BY <1>0, <1>18, KeptTypes DEF EvictInactive
<1>19. CASE UNCHANGED vars
  BY <1>0, <1>19, QuietTypes DEF vars, Quiet
<1>20. QED
  BY <1>1, <1>2, <1>3, <1>4, <1>5, <1>6, <1>7, <1>8, <1>9, <1>10, <1>11, <1>12, <1>13, <1>14, <1>15,
     <1>16, <1>17, <1>18, <1>19 DEF Next

-----------------------------------------------------------------------------
(* However calls overlap, an active session is in the map unless another took its id, and no  *)
(* two sessions are in the map under one.                                                     *)

OnePerId == \A i, j \in held : session[i].id = session[j].id => i = j
InMap == ActiveIsHeld /\ OnePerId

\* A session is stored under an id.
LEMMA StoredInMap ==
    ASSUME TypeInv, InMap, NEW i \in Stored, \A j \in Stored \ {i} : session'[j] = session[j],
           held' = (held \ Under(session'[i].id)) \cup {i},
           replaced' = replaced \cup Under(session'[i].id)
    PROVE  InMap'
<1>0. held \subseteq Stored
  BY DEF TypeInv, TypeOK
<1>1. ActiveIsHeld'
  BY DEF InMap, ActiveIsHeld
<1>2. \A j \in held' \ {i} : j \in held /\ session'[j] = session[j] /\ session[j].id # session'[i].id
  BY <1>0 DEF Under
<1>3. OnePerId'
  BY <1>2 DEF InMap, OnePerId
<1>4. QED
  BY <1>1, <1>3 DEF InMap

\* The sessions change, but not their ids, and those that are active were.
LEMMA SameMap ==
    ASSUME TypeInv, InMap, held' = held, replaced' = replaced,
           \A j \in Stored : session'[j].id = session[j].id,
           \A j \in Stored : session'[j].status = "active" => session[j].status = "active"
    PROVE  InMap'
<1>1. held \subseteq Stored
  BY DEF TypeInv, TypeOK
<1>2. ASSUME NEW i \in Stored, session'[i].status = "active" PROVE i \in held' \cup replaced'
  BY <1>2, Zenon DEF InMap, ActiveIsHeld
<1>3. ASSUME NEW i \in held', NEW j \in held', session'[i].id = session'[j].id PROVE i = j
  <2>1. i \in held /\ j \in held /\ i \in Stored /\ j \in Stored
    BY <1>1
  <2>2. session'[i].id = session[i].id /\ session'[j].id = session[j].id
    BY <2>1, Zenon
  <2>3. session[i].id = session[j].id
    BY <1>3, <2>2, Zenon
  <2>4. QED
    BY <2>1, <2>3, Zenon DEF InMap, OnePerId
<1>4. QED
  BY <1>2, <1>3, Zenon DEF InMap, ActiveIsHeld, OnePerId

LEMMA HeldNext == TypeInv /\ InMap /\ [Next]_vars => InMap'
<1> SUFFICES ASSUME TypeInv, InMap, [Next]_vars PROVE InMap'
  OBVIOUS
<1>1. ASSUME UNCHANGED <<session, held, replaced>> PROVE InMap'
  BY <1>1, SameMap
<1>2. ASSUME UNCHANGED <<session, replaced>>, held' = Kept PROVE InMap'
  BY <1>2 DEF InMap, ActiveIsHeld, OnePerId, Kept
<1>3. ASSUME NEW c \in Call, Opened(c) \/ Cloned(c) PROVE InMap'
  <2>1. PICK i \in Stored : i = calls[c].stored
    BY <1>3, OpenedFacts, ClonedFacts
  <2>2. /\ \A j \in Stored \ {i} : session'[j] = session[j]
        /\ held' = (held \ Under(session'[i].id)) \cup {i}
        /\ replaced' = replaced \cup Under(session'[i].id)
    BY <1>3, <2>1, OpenedFacts, ClonedFacts
  <2>3. QED
    BY <2>2, StoredInMap
<1>5. ASSUME NEW i \in Stored, AdvanceEpoch(i) PROVE InMap'
  <2>1. held' = held /\ replaced' = replaced /\ session[i].status = "active"
    BY <1>5 DEF AdvanceEpoch, IsActive
  <2>2. /\ \A j \in Stored : session'[j].id = session[j].id
        /\ \A j \in Stored : session'[j].status = "active" => session[j].status = "active"
    BY <1>5, <2>1, AdvanceFacts
  <2>3. QED
    BY <2>1, <2>2, SameMap
<1>6. ASSUME NEW c \in Call, Promoted(c) PROVE InMap'
  <2>1. held' = held /\ replaced' = replaced
    BY <1>6 DEF Promoted
  <2>2. PICK i \in Stored, live \in Stored : i = calls[c].stored /\ live = calls[c].live
    BY <1>6, PromotedFacts
  <2>3. /\ session'[i].id = session[i].id /\ session'[i].status = "promoted"
        /\ session'[live].id = session[live].id /\ session'[live].status = session[live].status
        /\ \A j \in Stored \ {i, live} : session'[j] = session[j]
    BY <1>6, <2>2, PromotedFacts
  <2>4. /\ \A j \in Stored : session'[j].id = session[j].id
        /\ \A j \in Stored : session'[j].status = "active" => session[j].status = "active"
    BY <2>3
  <2>5. QED
    BY <2>1, <2>4, SameMap
<1>7. ASSUME NEW c \in Call, Disposed(c) PROVE InMap'
  <2>1. held' = held /\ replaced' = replaced
    BY <1>7 DEF Disposed
  <2>2. /\ \A j \in Stored : session'[j].id = session[j].id
        /\ \A j \in Stored : session'[j].status = "active" => session[j].status = "active"
    BY <1>7, DisposedFacts
  <2>3. QED
    BY <2>1, <2>2, SameMap
<1>8. ASSUME NEW c \in Call,
             Captured(c) \/ AdapterFails(c) \/ PromoteFails(c) \/ DisposeFails(c) \/ CloseAll(c) \/ CloseNext(c)
      PROVE  InMap'
  BY <1>1, <1>8 DEF Captured, AdapterFails, PromoteFails, DisposeFails, CloseAll, CloseNext
<1>9. ASSUME NEW c \in Call, NEW i \in Stored,
             \/ OpenLive(c, i) \/ DiscardOrCrash(c, i)
             \/ \E live \in Stored :
                  CloneShadow(c, i, live) \/ Promote(c, i, live) \/ PromoteStale(c, i, live)
      PROVE  InMap'
  <2>1. CASE OpenLive(c, i) \/ DiscardOrCrash(c, i)
    BY <1>1, <2>1 DEF OpenLive, DiscardOrCrash
  <2>2. ASSUME NEW live \in Stored,
               CloneShadow(c, i, live) \/ Promote(c, i, live) \/ PromoteStale(c, i, live)
        PROVE  InMap'
    BY <1>1, <2>2 DEF CloneShadow, Promote, PromoteStale
  <2>3. QED
    BY <1>9, <2>1, <2>2
<1>10. ASSUME NEW c \in Call, CloseDone(c) PROVE InMap'
  BY <1>2, <1>10 DEF CloseDone
<1>11. CASE EvictInactive
  BY <1>2, <1>11 DEF EvictInactive
<1>12. CASE UNCHANGED vars
  BY <1>1, <1>12 DEF vars
<1>13. QED
  BY <1>3, <1>5, <1>6, <1>7, <1>8, <1>9, <1>10, <1>11, <1>12 DEF Next

-----------------------------------------------------------------------------
(* A host that awaits each call before the next. *)

Used(i) == session[i].status # "unused"
Active(i) == session[i].status = "active"

\* The navigation whose storage the context of session i holds.
Shown(i) == IF session[i].mode = "live" THEN session[i].epoch ELSE session[i].baseEpoch

\* A live session, and a shadow over which no other was promoted: one that was can only be
\* found under the id of a live session, which it took.
Intact(i) == session[i].mode = "live" \/ session[i].context = i

\* How sessions and contexts belong together.  A context that is not its session's own was
\* that of a shadow which has been promoted.
World ==
    /\ \A i \in Stored : session[i].mode = "shadow" =>
           session[session[i].base].mode = "live" /\ Used(session[i].base)
    /\ \A i \in Stored : Active(i) => session[i].context \in Stored /\ Used(session[i].context)
    /\ \A i, j \in Stored : Active(i) /\ Active(j) /\ session[i].context = session[j].context => i = j
    /\ \A x \in open : \E i \in Stored : Active(i) /\ session[i].context = x
    /\ \A i \in Stored \ failed : Active(i) => session[i].context \in open
    /\ \A i \in Stored : Active(i) /\ session[i].context # i => ~ Active(session[i].context)
    /\ \A i \in Stored : Active(i) /\ session[i].context \in open /\ Intact(i) =>
           page[session[i].context] = Shown(i)

\* What a call found at its start still holds when its await is over.
Relies(c) ==
    LET r == calls[c]
        i == r.stored
        live == r.live
    IN
    /\ r.op \in {"open", "capture", "clone"} => ~ Used(i)
    /\ r.op = "capture" => Active(live) /\ session[live].mode = "live" /\ r.context = session[live].context
    /\ r.op = "clone" => Used(live) /\ session[live].mode = "live" /\ r.at = session[live].epoch
    /\ r.op = "promote" =>
           /\ Active(i) /\ session[i].mode = "shadow" /\ Active(live)
           /\ session[live].epoch = session[i].baseEpoch
           /\ r.context = session[live].context /\ r.new = session[i].context
           /\ session[i].base \in held => session[i].base = live
    /\ r.op = "cleanup" =>
           Active(i) /\ r.context = session[i].context /\ i \notin r.left /\ \A j \in r.left : Active(j)
    /\ r.op = "closing" => \A j \in r.left : Active(j)

Single == \A c, d \in Call : calls[c].op # "idle" /\ calls[d].op # "idle" => c = d
Alone(c) == \A d \in Call \ {c} : calls[d].op = "idle"

Awaited == Single /\ (\A c \in Call : Relies(c)) /\ World
Sole == width = 1 => Awaited

LEMMA SoleInit == Init => Sole
<1> SUFFICES ASSUME Init PROVE Awaited
  BY DEF Sole
<1>1. \A c \in Call : calls[c].op = "idle"
  BY NoCallIsCall DEF Init
<1>2. \A i \in Stored : session[i].mode = "live" /\ session[i].status = "unused"
  BY UnusedIsSession DEF Init
<1>3. open = {}
  BY DEF Init, open
<1>4. World
  BY <1>2, <1>3 DEF World, Active, Used
<1>5. QED
  BY <1>1, <1>4 DEF Awaited, Single, Relies

\* With no room for another call none is under way.
LEMMA NoneUnderWay ==
    ASSUME TypeInv, width = 1, MayCall
    PROVE  \A c \in Call : calls[c].op = "idle"
<1> DEFINE Busy == {c \in Call : calls[c].op # "idle"}
<1>1. IsFiniteSet(Busy)
  BY SessionsAssumption, FS_Subset
<1>2. Cardinality(Busy) \in Nat /\ Cardinality(Busy) < 1
  BY <1>1, FS_CardinalityType DEF MayCall
<1>3. Busy = {}
  BY <1>1, <1>2, FS_EmptySet
<1>4. QED
  BY <1>3

\* A step of one call while no other is under way.
LEMMA OneRelies ==
    ASSUME NEW c \in Call, Alone(c), \A d \in Call \ {c} : calls'[d] = calls[d], Relies(c)', World'
    PROVE  Awaited'
<1>1. \A d \in Call \ {c} : calls'[d].op = "idle"
  BY DEF Alone
<1>2. \A d \in Call : Relies(d)'
  BY <1>1 DEF Relies
<1>3. QED
  BY <1>1, <1>2 DEF Awaited, Single

\* The world stays as it is when sessions and contexts do.
LEMMA SameWorld == ASSUME World, UNCHANGED <<session, page, failed>> PROVE World'
  BY DEF World, Active, Used, Shown, Intact, open

\* A session begins with a context of its own.
LEMMA BeginWorld ==
    ASSUME TypeInv, World, NEW i \in Stored, ~ Used(i), NEW e \in Nat, page' = Showing(i, e), failed' = failed,
           \A j \in Stored \ {i} : session'[j] = session[j],
           session'[i].status = "active", session'[i].context = i, Shown(i)' = e,
           session'[i].mode = "shadow" => /\ session'[i].base \in Stored \ {i}
                                          /\ session[session'[i].base].mode = "live"
                                          /\ session[session'[i].base].status # "unused"
    PROVE  World'
<1>1. /\ open' = open \cup {i} /\ page'[i] = e /\ \A y \in open \ {i} : page'[y] = page[y]
  BY ShownFacts
<1>2. Active(i)' /\ Used(i)' /\ \A j \in Stored \ {i} : (Active(j)' <=> Active(j)) /\ (Used(j)' <=> Used(j)) /\ Shown(j)' = Shown(j)
  BY DEF Active, Used, Shown
<1>3. \A j \in Stored : Active(j) => j # i /\ session[j].context # i /\ session[j].context \in Stored
  BY DEF World, Active, Used
<1>4. i \notin open
  BY <1>3 DEF World
<1>5. \A j \in Stored : session'[j].mode = "shadow" =>
          session'[session'[j].base].mode = "live" /\ Used(session[j].base)'
  <2> SUFFICES ASSUME NEW j \in Stored, session'[j].mode = "shadow"
               PROVE  session'[session'[j].base].mode = "live" /\ Used(session[j].base)'
    OBVIOUS
  <2>1. CASE j = i
    BY <2>1 DEF Used
  <2>2. CASE j # i
    <3>1. session'[j] = session[j] /\ session[j].base \in Stored /\ session[session[j].base].mode = "live"
          /\ Used(session[j].base)
      BY <2>2 DEF World, TypeInv
    <3>2. session[j].base # i
      BY <3>1
    <3>3. QED
      BY <3>1, <3>2 DEF Used
  <2>3. QED
    BY <2>1, <2>2
<1>6. \A j \in Stored : Active(j)' => session'[j].context \in Stored /\ Used(session[j].context)'
  <2> SUFFICES ASSUME NEW j \in Stored, Active(j)' PROVE session'[j].context \in Stored /\ Used(session[j].context)'
    OBVIOUS
  <2>1. CASE j = i
    BY <1>2, <2>1
  <2>2. CASE j # i
    BY <1>2, <1>3, <2>2 DEF World
  <2>3. QED
    BY <2>1, <2>2
<1>7. \A j, m \in Stored : Active(j)' /\ Active(m)' /\ session'[j].context = session'[m].context => j = m
  <2> SUFFICES ASSUME NEW j \in Stored, NEW m \in Stored, Active(j)', Active(m)', session'[j].context = session'[m].context
               PROVE  j = m
    OBVIOUS
  <2>1. CASE j # i /\ m # i
    BY <1>2, <2>1 DEF World
  <2>2. CASE j = i \/ m = i
    BY <1>2, <1>3, <2>2
  <2>3. QED
    BY <2>1, <2>2
<1>8. \A x \in open' : \E j \in Stored : Active(j)' /\ session'[j].context = x
  <2> SUFFICES ASSUME NEW x \in open' PROVE \E j \in Stored : Active(j)' /\ session'[j].context = x
    OBVIOUS
  <2>1. CASE x = i
    BY <1>2, <2>1
  <2>2. CASE x # i
    <3>1. PICK j \in Stored : Active(j) /\ session[j].context = x
      BY <1>1, <2>2 DEF World
    <3>2. QED
      BY <1>2, <1>3, <3>1
  <2>3. QED
    BY <2>1, <2>2
<1>9. \A j \in Stored \ failed' : Active(j)' => session'[j].context \in open'
  BY <1>1, <1>2 DEF World
<1>9a. \A j \in Stored : Active(j)' /\ session'[j].context # j => ~ Active(session[j].context)'
  <2> SUFFICES ASSUME NEW j \in Stored, Active(j)', session'[j].context # j PROVE ~ Active(session[j].context)'
    OBVIOUS
  <2>1. j # i /\ Active(j) /\ session'[j].context = session[j].context
    BY <1>2
  <2>2. session[j].context \in Stored \ {i} /\ ~ Active(session[j].context)
    BY <1>3, <2>1 DEF World
  <2>3. QED
    BY <1>2, <2>1, <2>2 DEF Active
<1>10. \A j \in Stored : Active(j)' /\ session'[j].context \in open' /\ Intact(j)' =>
           page'[session'[j].context] = Shown(j)'
  <2> SUFFICES ASSUME NEW j \in Stored, Active(j)', session'[j].context \in open', Intact(j)'
               PROVE  page'[session'[j].context] = Shown(j)'
    OBVIOUS
  <2>1. CASE j = i
    BY <1>1, <2>1
  <2>2. CASE j # i
    <3>1. session'[j] = session[j] /\ Active(j) /\ Shown(j)' = Shown(j) /\ Intact(j)
      BY <1>2, <2>2 DEF Intact
    <3>2. session[j].context # i /\ session[j].context \in open
      BY <1>1, <1>3, <3>1
    <3>3. QED
      BY <1>1, <3>1, <3>2 DEF World
  <2>3. QED
    BY <2>1, <2>2
<1> HIDE DEF Active, Used, Shown, Intact
<1>11. QED
  BY <1>5, <1>6, <1>7, <1>8, <1>9, <1>9a, <1>10 DEF World

\* A navigation of a session moves the storage of its own context only.
LEMMA AdvanceWorld ==
    ASSUME TypeInv, World, NEW i \in Stored, AdvanceEpoch(i)
    PROVE  World'
<1>1. /\ session'[i].epoch = session[i].epoch + 1 /\ \A j \in Stored \ {i} : session'[j] = session[j]
      /\ session'[i] = [session[i] EXCEPT !.epoch = session[i].epoch + 1] /\ open' = open
  BY AdvanceFacts
<1>2. /\ session'[i].mode = session[i].mode /\ session'[i].status = session[i].status
      /\ session'[i].context = session[i].context /\ session'[i].base = session[i].base
      /\ session'[i].baseEpoch = session[i].baseEpoch
  BY <1>1 DEF TypeInv, TypeOK
<1>3. \A j \in Stored : /\ session'[j].mode = session[j].mode /\ (Active(j)' <=> Active(j)) /\ (Used(j)' <=> Used(j))
                    /\ session'[j].context = session[j].context /\ session'[j].base = session[j].base
  BY <1>1, <1>2 DEF Active, Used
<1>4. failed' = failed
  BY DEF AdvanceEpoch
<1>5. \A j \in Stored : Active(j) /\ session[j].context \in open /\ Intact(j) =>
          page'[session[j].context] = Shown(j)'
  <2> SUFFICES ASSUME NEW j \in Stored, Active(j), session[j].context \in open, Intact(j)
               PROVE  page'[session[j].context] = Shown(j)'
    OBVIOUS
  <2>0. page[session[j].context] = Shown(j) /\ session[j].context \in Stored
    BY DEF World
  <2>1. CASE session[i].mode = "live" /\ session[i].context \in open
    <3>1. page' = Showing(session[i].context, session[i].epoch + 1)
      BY <2>1 DEF AdvanceEpoch, NextEpoch
    <3>2. session[i].context \in Stored /\ session[i].epoch + 1 \in Nat /\ Active(i)
      BY <2>1 DEF TypeInv, TypeOK, AdvanceEpoch, IsActive, Active
    <3>3. /\ page'[session[i].context] = session[i].epoch + 1
          /\ \A y \in open \ {session[i].context} : page'[y] = page[y]
      BY <3>1, <3>2, ShownFacts
    <3>4. CASE j = i
      BY <1>1, <1>2, <2>1, <3>3, <3>4 DEF Shown
    <3>5. CASE j # i
      <4>1. session[j].context # session[i].context
        BY <3>2, <3>5 DEF World
      <4>2. QED
        BY <1>1, <2>0, <3>3, <3>5, <4>1 DEF Shown
    <3>6. QED
      BY <3>4, <3>5
  <2>2. CASE ~ (session[i].mode = "live" /\ session[i].context \in open)
    <3>1. page' = page
      BY <2>2 DEF AdvanceEpoch
    <3>2. Shown(j)' = Shown(j)
      BY <1>1, <1>2, <2>2 DEF Shown
    <3>3. QED
      BY <2>0, <3>1, <3>2
  <2>3. QED
    BY <2>1, <2>2
<1>6. \A j \in Stored : Intact(j)' <=> Intact(j)
  BY <1>3 DEF Intact
<1>7. \A j \in Stored : Active(j) => session[j].context \in Stored
  BY DEF World
<1>8. \A j \in Stored : Active(j)' /\ session'[j].context # j => ~ Active(session[j].context)'
  BY <1>3, <1>7 DEF World, Active
<1> HIDE DEF Active, Used, Shown, Intact
<1>9. QED
  BY <1>1, <1>3, <1>4, <1>5, <1>6, <1>8 DEF World, TypeInv

\* A promotion passes the shadow's context to its live session.
LEMMA PromoteWorld ==
    ASSUME TypeInv, World, NEW c \in Call, Relies(c), Promoted(c),
           NEW i \in Stored, i = calls[c].stored, NEW live \in Stored, live = calls[c].live,
           NEW new, new = calls[c].new, NEW old, old = calls[c].context
    PROVE  World'
<1>1. i # live /\ new \in open' /\ open' = open \ {old}
  BY PromotedFacts
<1>2. /\ Active(i) /\ Active(live) /\ old = session[live].context /\ new = session[i].context
  BY DEF Relies, Promoted, Awaits
<1>3. old # new /\ new \in open' /\ old \in Stored /\ new \in Stored /\ Used(new)
  BY <1>1, <1>2 DEF World
<1>4. /\ session'[live].context = new /\ session'[live].epoch = session[live].epoch + 1
      /\ session'[live].status = session[live].status /\ session'[live].mode = session[live].mode
      /\ session'[live].base = session[live].base
      /\ session'[i].status = "promoted" /\ session'[i].mode = session[i].mode
      /\ session'[i].base = session[i].base
      /\ \A j \in Stored \ {i, live} : session'[j] = session[j]
      /\ page'[new] = session[live].epoch + 1 /\ \A x \in open' \ {new} : page'[x] = page[x]
  BY PromotedFacts
<1>5. failed' = failed
  BY DEF Promoted
<1>6. \A j \in Stored : /\ session'[j].mode = session[j].mode /\ session'[j].base = session[j].base
                    /\ (Used(j)' <=> Used(j))
  BY <1>1, <1>2, <1>4 DEF Used, Active
<1>7. ~ Active(i)' /\ Active(live)' /\ \A j \in Stored \ {i, live} : (Active(j)' <=> Active(j)) /\ Shown(j)' = Shown(j)
  BY <1>1, <1>2, <1>4 DEF Active, Shown
<1>8. \A j \in Stored \ {i, live} : Active(j) => session[j].context \notin {old, new}
  BY <1>1, <1>2 DEF World
<1>9. \A j \in Stored : session'[j].mode = "shadow" =>
          (session[session[j].base].mode = "live" /\ Used(session[j].base))'
  BY <1>6 DEF World, TypeInv
<1>10. \A j \in Stored : Active(j)' => session'[j].context \in Stored /\ Used(session[j].context)'
  <2> SUFFICES ASSUME NEW j \in Stored, Active(j)' PROVE session'[j].context \in Stored /\ Used(session[j].context)'
    OBVIOUS
  <2>1. CASE j = live
    BY <1>3, <1>4, <1>6, <2>1
  <2>2. CASE j # live
    BY <1>4, <1>6, <1>7, <2>2 DEF World
  <2>3. QED
    BY <2>1, <2>2
<1>11. \A j, m \in Stored : Active(j)' /\ Active(m)' /\ session'[j].context = session'[m].context => j = m
  <2> SUFFICES ASSUME NEW j \in Stored, NEW m \in Stored, Active(j)', Active(m)', session'[j].context = session'[m].context
               PROVE  j = m
    OBVIOUS
  <2>1. CASE j # live /\ m # live
    BY <1>4, <1>7, <2>1 DEF World
  <2>2. CASE j = live \/ m = live
    BY <1>4, <1>7, <1>8, <2>2
  <2>3. QED
    BY <2>1, <2>2
<1>12. \A x \in open' : \E j \in Stored : Active(j)' /\ session'[j].context = x
  <2> SUFFICES ASSUME NEW x \in open' PROVE \E j \in Stored : Active(j)' /\ session'[j].context = x
    OBVIOUS
  <2>1. CASE x = new
    BY <1>1, <1>4, <1>7, <2>1
  <2>2. CASE x # new
    <3>1. PICK j \in Stored : Active(j) /\ session[j].context = x
      BY <1>1 DEF World
    <3>2. j # i /\ j # live
      BY <1>1, <1>2, <2>2, <3>1
    <3>3. QED
      BY <1>4, <1>7, <3>1, <3>2
  <2>3. QED
    BY <2>1, <2>2
<1>13. \A j \in Stored \ failed' : Active(j)' => session'[j].context \in open'
  <2> SUFFICES ASSUME NEW j \in Stored \ failed', Active(j)' PROVE session'[j].context \in open'
    OBVIOUS
  <2>1. CASE j = live
    BY <1>3, <1>4, <2>1
  <2>2. CASE j # live
    BY <1>1, <1>4, <1>5, <1>7, <1>8, <2>2 DEF World
  <2>3. QED
    BY <2>1, <2>2
<1>13a. new # i => ~ Active(new)
  BY <1>2 DEF World
<1>13b. \A j \in Stored : Active(j)' /\ session'[j].context # j => ~ Active(session[j].context)'
  <2> SUFFICES ASSUME NEW j \in Stored, Active(j)', session'[j].context # j PROVE ~ Active(session[j].context)'
    OBVIOUS
  <2>0. \A m \in Stored : Active(m)' => Active(m) /\ m # i
    BY <1>2, <1>7
  <2>1. CASE j = live
    <3>1. session'[j].context = new
      BY <1>4, <2>1
    <3>2. ~ Active(new)'
      BY <1>3, <1>13a, <2>0
    <3>3. QED
      BY <3>1, <3>2 DEF Active
  <2>2. CASE j # live
    <3>1. session'[j] = session[j] /\ Active(j)
      BY <1>4, <1>7, <2>2
    <3>2. session[j].context \in Stored /\ ~ Active(session[j].context)
      BY <3>1 DEF World
    <3>3. QED
      BY <2>0, <3>1, <3>2 DEF Active
  <2>3. QED
    BY <2>1, <2>2
<1>14. \A j \in Stored : Active(j)' /\ session'[j].context \in open' /\ Intact(j)' =>
           page'[session'[j].context] = Shown(j)'
  <2> SUFFICES ASSUME NEW j \in Stored, Active(j)', session'[j].context \in open', Intact(j)'
               PROVE  page'[session'[j].context] = Shown(j)'
    OBVIOUS
  <2>1. CASE j = live
    <3>1. session'[live].mode = "live"
      BY <1>1, <1>2, <1>4, <1>13a, <2>1 DEF Intact
    <3>2. QED
      BY <1>4, <2>1, <3>1 DEF Shown
  <2>2. CASE j # live
    <3>1. j # i /\ session'[j] = session[j] /\ Active(j) /\ Shown(j)' = Shown(j) /\ Intact(j)
      BY <1>4, <1>7, <2>2 DEF Intact
    <3>2. session[j].context # new /\ session[j].context \in open
      BY <1>1, <1>8, <2>2, <3>1
    <3>3. QED
      BY <1>4, <3>1, <3>2 DEF World
  <2>3. QED
    BY <2>1, <2>2
<1> HIDE DEF Active, Used, Shown, Intact
<1>15. QED
  BY <1>9, <1>10, <1>11, <1>12, <1>13, <1>13b, <1>14 DEF World

\* A cleanup closes the context of the session it ends, and no other.
LEMMA DisposeWorld ==
    ASSUME TypeInv, World, NEW c \in Call, Relies(c), Disposed(c),
           NEW i \in Stored, i = calls[c].stored, NEW old, old = calls[c].context
    PROVE  World'
<1>1. /\ session'[i].status = "ended" /\ session'[i].mode = session[i].mode
      /\ session'[i].base = session[i].base
      /\ \A j \in Stored \ {i} : session'[j] = session[j]
      /\ open' = open \ {old} /\ \A x \in open' : page'[x] = page[x]
  BY DisposedFacts
<1>2. Active(i) /\ old = session[i].context
  BY DEF Relies, Disposed, Awaits
<1>3. failed' = failed
  BY DEF Disposed
<1>4. \A j \in Stored : /\ session'[j].mode = session[j].mode /\ session'[j].base = session[j].base
                    /\ (Used(j)' <=> Used(j))
  BY <1>1, <1>2 DEF Used, Active
<1>5. ~ Active(i)' /\ \A j \in Stored \ {i} : (Active(j)' <=> Active(j)) /\ Shown(j)' = Shown(j)
  BY <1>1 DEF Active, Shown
<1>6. \A j \in Stored \ {i} : Active(j) => session[j].context # old
  BY <1>1, <1>2 DEF World
<1>7. \A j \in Stored : session'[j].mode = "shadow" =>
          (session[session[j].base].mode = "live" /\ Used(session[j].base))'
  BY <1>4 DEF World, TypeInv
<1>8. \A j \in Stored : Active(j)' => session'[j].context \in Stored /\ Used(session[j].context)'
  BY <1>1, <1>4, <1>5 DEF World
<1>9. \A j, m \in Stored : Active(j)' /\ Active(m)' /\ session'[j].context = session'[m].context => j = m
  BY <1>1, <1>5 DEF World
<1>10. \A x \in open' : \E j \in Stored : Active(j)' /\ session'[j].context = x
  <2> SUFFICES ASSUME NEW x \in open' PROVE \E j \in Stored : Active(j)' /\ session'[j].context = x
    OBVIOUS
  <2>1. PICK j \in Stored : Active(j) /\ session[j].context = x
    BY <1>1 DEF World
  <2>2. j # i
    BY <1>1, <1>2, <2>1
  <2>3. QED
    BY <1>1, <1>5, <2>1, <2>2
<1>11. \A j \in Stored \ failed' : Active(j)' => session'[j].context \in open'
  BY <1>1, <1>3, <1>5, <1>6 DEF World
<1>12. \A j \in Stored : Active(j)' /\ session'[j].context # j => ~ Active(session[j].context)'
  <2> SUFFICES ASSUME NEW j \in Stored, Active(j)', session'[j].context # j PROVE ~ Active(session[j].context)'
    OBVIOUS
  <2>1. session'[j] = session[j] /\ Active(j)
    BY <1>1, <1>5
  <2>2. session[j].context \in Stored /\ ~ Active(session[j].context)
    BY <2>1 DEF World
  <2>3. \A m \in Stored : Active(m)' => Active(m)
    BY <1>5
  <2>4. QED
    BY <2>1, <2>2, <2>3 DEF Active
<1>13. \A j \in Stored : Active(j)' /\ session'[j].context \in open' /\ Intact(j)' =>
           page'[session'[j].context] = Shown(j)'
  BY <1>1, <1>5 DEF World, Intact
<1> HIDE DEF Active, Used, Shown, Intact
<1>14. QED
  BY <1>7, <1>8, <1>9, <1>10, <1>11, <1>12, <1>13 DEF World

\* One that fails may have closed it.
LEMMA DisposeFailsWorld ==
    ASSUME TypeInv, World, NEW c \in Call, Relies(c), DisposeFails(c),
           NEW i \in Stored, i = calls[c].stored, NEW old, old = calls[c].context
    PROVE  World'
<1>1. /\ \/ failed' = failed /\ open' = open
         \/ failed' = failed \cup {i} /\ open' = open \ {old}
      /\ \A x \in open' : page'[x] = page[x]
  BY DisposeFailsFacts
<1>2. Active(i) /\ old = session[i].context
  BY DEF Relies, DisposeFails, Awaits
<1>3. session' = session
  BY DEF DisposeFails
<1>4. \A j \in Stored : /\ (Active(j)' <=> Active(j)) /\ (Used(j)' <=> Used(j)) /\ Shown(j)' = Shown(j)
                       /\ (Intact(j)' <=> Intact(j))
  BY <1>3 DEF Active, Used, Shown, Intact
<1>5. \A j \in Stored \ {i} : Active(j) => session[j].context # old
  BY <1>1, <1>2 DEF World
<1>6. \A j \in Stored : session'[j].mode = "shadow" =>
          (session[session[j].base].mode = "live" /\ Used(session[j].base))'
  BY <1>3 DEF World, Used
<1>7. \A j \in Stored : Active(j)' => session'[j].context \in Stored /\ Used(session[j].context)'
  BY <1>3, <1>4 DEF World
<1>8. \A j, m \in Stored : Active(j)' /\ Active(m)' /\ session'[j].context = session'[m].context => j = m
  BY <1>3, <1>4 DEF World
<1>9. \A x \in open' : \E j \in Stored : Active(j)' /\ session'[j].context = x
  BY <1>1, <1>3, <1>4 DEF World
<1>10. \A j \in Stored \ failed' : Active(j)' => session'[j].context \in open'
  BY <1>1, <1>3, <1>4, <1>5 DEF World
<1>11. \A j \in Stored : Active(j)' /\ session'[j].context # j => ~ Active(session[j].context)'
  BY <1>3 DEF World, Active
<1>12. \A j \in Stored : Active(j)' /\ session'[j].context \in open' /\ Intact(j)' =>
           page'[session'[j].context] = Shown(j)'
  BY <1>1, <1>3, <1>4 DEF World
<1> HIDE DEF Active, Used, Shown, Intact
<1>13. QED
  BY <1>6, <1>7, <1>8, <1>9, <1>10, <1>11, <1>12 DEF World

LEMMA Starts == ASSUME TypeInv, width = 1, NEW c \in Call, Idle(c) PROVE Alone(c)
  BY NoneUnderWay DEF Idle, Alone

LEMMA GoesOn == ASSUME Awaited, NEW c \in Call, calls[c].op # "idle" PROVE Alone(c)
  BY DEF Awaited, Single, Alone

\* A step of call c that changes only what it awaits.
LEMMA QuietStep ==
    ASSUME Awaited, NEW c \in Call, Alone(c), Quiet, \A d \in Call \ {c} : calls'[d] = calls[d], Relies(c)'
    PROVE  Awaited'
<1>1. World'
  BY SameWorld DEF Awaited, Quiet
<1>2. QED
  BY <1>1, OneRelies

\* A cleanup of an active session begins.
LEMMA CleanupStep ==
    ASSUME TypeInv, Awaited, NEW c \in Call, Alone(c), Quiet, NEW i \in Stored, Active(i),
           NEW left \in SUBSET Stored, i \notin left, \A j \in left : Active(j),
           NEW closing \in BOOLEAN, Cleanup(c, i, left, closing)
    PROVE  Awaited'
<1>1. /\ calls'[c].op = "cleanup" /\ calls'[c].stored = i /\ calls'[c].context = session[i].context
      /\ calls'[c].left = left /\ \A d \in Call \ {c} : calls'[d] = calls[d]
  BY CleanupCall
<1>2. Relies(c)'
  BY <1>1 DEF Relies, Active, Quiet
<1>3. QED
  BY <1>1, <1>2, QuietStep

LEMMA OpenedStep == ASSUME TypeInv, Awaited, NEW c \in Call, Opened(c) PROVE Awaited'
<1>1. Alone(c) /\ World /\ Relies(c) /\ calls[c].op = "open"
  BY GoesOn DEF Awaited, Opened, Awaits
<1>2. PICK i \in Stored : i = calls[c].stored
  BY OpenedFacts
<1>3. /\ session'[i].mode = "live" /\ session'[i].status = "active" /\ session'[i].context = i
      /\ session'[i].epoch = 0 /\ \A j \in Stored \ {i} : session'[j] = session[j]
      /\ calls'[c].op = "idle" /\ \A d \in Call \ {c} : calls'[d] = calls[d]
  BY <1>2, OpenedFacts
<1>4. page' = Showing(i, 0) /\ failed' = failed /\ ~ Used(i) /\ Shown(i)' = 0
  BY <1>1, <1>2, <1>3 DEF Opened, Relies, Shown
<1>5. World'
  BY <1>1, <1>3, <1>4, BeginWorld
<1>6. Relies(c)'
  BY <1>3 DEF Relies
<1>7. QED
  BY <1>1, <1>3, <1>5, <1>6, OneRelies

LEMMA ClonedStep == ASSUME TypeInv, Awaited, NEW c \in Call, Cloned(c) PROVE Awaited'
<1>1. Alone(c) /\ World /\ Relies(c) /\ calls[c].op = "clone"
  BY GoesOn DEF Awaited, Cloned, Awaits
<1>2. PICK i \in Stored, live \in Stored : i = calls[c].stored /\ live = calls[c].live
  BY ClonedFacts
<1>3. /\ session'[i].mode = "shadow" /\ session'[i].status = "active" /\ session'[i].context = i
      /\ session'[i].base = live /\ session'[i].baseEpoch = session[live].epoch /\ live # i
      /\ \A j \in Stored \ {i} : session'[j] = session[j]
      /\ calls'[c].op = "idle" /\ \A d \in Call \ {c} : calls'[d] = calls[d]
  BY <1>2, ClonedFacts
<1>4. /\ page' = Showing(i, calls[c].at) /\ failed' = failed /\ ~ Used(i)
      /\ session[live].mode = "live" /\ session[live].status # "unused" /\ calls[c].at = session[live].epoch
  BY <1>1, <1>2 DEF Cloned, Relies, Used
<1>5. Shown(i)' = calls[c].at /\ session[live].epoch \in Nat
  BY <1>3, <1>4 DEF Shown, TypeInv, TypeOK
<1>6. World'
  BY <1>1, <1>3, <1>4, <1>5, BeginWorld
<1>7. Relies(c)'
  BY <1>3 DEF Relies
<1>8. QED
  BY <1>1, <1>3, <1>6, <1>7, OneRelies

LEMMA CapturedStep == ASSUME TypeInv, Awaited, NEW c \in Call, Captured(c) PROVE Awaited'
<1>1. Alone(c) /\ World /\ Relies(c) /\ calls[c].op = "capture" /\ calls[c].context \in open /\ Quiet
  BY GoesOn DEF Awaited, Captured, Awaits, Quiet
<1>2. calls[c].stored \in Stored /\ calls[c].live \in Stored
  BY <1>1 DEF TypeInv, Named
<1>3. /\ calls'[c].op = "clone" /\ calls'[c].stored = calls[c].stored /\ calls'[c].live = calls[c].live
      /\ calls'[c].at = page[calls[c].context] /\ \A d \in Call \ {c} : calls'[d] = calls[d]
  BY CapturedFacts
<1>4. /\ ~ Used(calls[c].stored) /\ Active(calls[c].live) /\ session[calls[c].live].mode = "live"
      /\ page[calls[c].context] = session[calls[c].live].epoch
  BY <1>1, <1>2 DEF Relies, World, Shown, Intact
<1>5. Relies(c)'
  BY <1>1, <1>3, <1>4 DEF Relies, Used, Active, Quiet
<1>6. QED
  BY <1>1, <1>3, <1>5, QuietStep

LEMMA PromoteStep ==
    ASSUME TypeInv, InMap, Awaited, width = 1, NEW c \in Call, NEW i \in Stored, NEW live \in Stored,
           Promote(c, i, live)
    PROVE  Awaited'
<1>1. Alone(c) /\ World /\ Quiet /\ Promotable(i, live) /\ AtSource(i, live)
  BY Starts DEF Awaited, Promote, Quiet
<1>2. /\ calls'[c].op = "promote" /\ calls'[c].stored = i /\ calls'[c].live = live
      /\ calls'[c].context = session[live].context /\ calls'[c].new = session[i].context
      /\ \A d \in Call \ {c} : calls'[d] = calls[d]
  BY PromoteFacts
<1>3. /\ Active(i) /\ session[i].mode = "shadow" /\ Active(live)
      /\ session[live].epoch = session[i].baseEpoch
  BY <1>1 DEF Promotable, AtSource, IsActive, Active
<1>4. session[i].base \in held => session[i].base = live
  BY <1>1 DEF Promotable, Under, InMap, OnePerId
<1>5. Relies(c)'
  BY <1>1, <1>2, <1>3, <1>4 DEF Relies, Active, Quiet
<1>6. QED
  BY <1>1, <1>2, <1>5, QuietStep

LEMMA PromotedStep == ASSUME TypeInv, Awaited, NEW c \in Call, Promoted(c) PROVE Awaited'
<1>1. Alone(c) /\ World /\ Relies(c)
  BY GoesOn DEF Awaited, Promoted, Awaits
<1>2. PICK i \in Stored, live \in Stored : i = calls[c].stored /\ live = calls[c].live
  BY PromotedFacts
<1>3. World'
  BY <1>1, <1>2, PromoteWorld
<1>4. calls'[c].op = "idle" /\ \A d \in Call \ {c} : calls'[d] = calls[d]
  BY PromotedFacts
<1>5. Relies(c)'
  BY <1>4 DEF Relies
<1>6. QED
  BY <1>1, <1>3, <1>4, <1>5, OneRelies

LEMMA DisposedStep == ASSUME TypeInv, Awaited, NEW c \in Call, Disposed(c) PROVE Awaited'
<1>1. Alone(c) /\ World /\ Relies(c) /\ calls[c].op = "cleanup"
  BY GoesOn DEF Awaited, Disposed, Awaits
<1>2. PICK i \in Stored : i = calls[c].stored
  BY DisposedFacts
<1>3. World'
  BY <1>1, <1>2, DisposeWorld
<1>4. /\ calls'[c].op \in {"idle", "closing"}
      /\ calls'[c].op = "closing" => calls'[c].left = calls[c].left
      /\ \A d \in Call \ {c} : calls'[d] = calls[d]
      /\ \A j \in Stored \ {i} : session'[j] = session[j]
  BY <1>2, DisposedFacts
<1>5. calls[c].left \subseteq Stored /\ i \notin calls[c].left /\ \A j \in calls[c].left : Active(j)
  BY <1>1, <1>2 DEF Relies, TypeInv, TypeOK
<1>6. Relies(c)'
  BY <1>4, <1>5 DEF Relies, Active
<1>7. QED
  BY <1>1, <1>3, <1>4, <1>6, OneRelies

LEMMA DisposeFailsStep == ASSUME TypeInv, Awaited, NEW c \in Call, DisposeFails(c) PROVE Awaited'
<1>1. Alone(c) /\ World /\ Relies(c) /\ calls[c].op = "cleanup" /\ session' = session
  BY GoesOn DEF Awaited, DisposeFails, Awaits
<1>2. PICK i \in Stored : i = calls[c].stored
  BY DisposeFailsFacts
<1>3. World'
  BY <1>1, <1>2, DisposeFailsWorld
<1>4. /\ calls'[c].op \in {"idle", "closing"}
      /\ calls'[c].op = "closing" => calls'[c].left = calls[c].left
      /\ \A d \in Call \ {c} : calls'[d] = calls[d]
  BY DisposeFailsFacts
<1>5. Relies(c)'
  BY <1>1, <1>4 DEF Relies, Active
<1>6. QED
  BY <1>1, <1>3, <1>4, <1>5, OneRelies

LEMMA SoleNext == TypeInv /\ InMap /\ Sole /\ [Next]_vars => Sole'
<1> SUFFICES ASSUME TypeInv, InMap, Sole, [Next]_vars, width' = 1 PROVE Awaited'
  BY DEF Sole
<1>0. FALSE \in BOOLEAN /\ TRUE \in BOOLEAN
  OBVIOUS
<1>1. CASE UNCHANGED vars
  <2>1. UNCHANGED <<session, held, page, failed, calls>> /\ width = 1
    BY <1>1 DEF vars
  <2>2. World'
    BY <2>1, SameWorld DEF Sole, Awaited
  <2>3. QED
    BY <2>1, <2>2 DEF Sole, Awaited, Single, Relies, Active, Used
<1>2. ASSUME Next PROVE width = 1 /\ Awaited
  <2>1. ASSUME NEW c \in Call,
               \/ Opened(c) \/ Captured(c) \/ Cloned(c) \/ AdapterFails(c)
               \/ Promoted(c) \/ PromoteFails(c) \/ Disposed(c) \/ DisposeFails(c)
               \/ CloseAll(c) \/ CloseNext(c) \/ CloseDone(c)
        PROVE  width' = width
    BY <2>1 DEF Opened, Captured, Cloned, AdapterFails, Promoted, PromoteFails, Disposed, DisposeFails,
                CloseAll, CloseNext, CloseDone
  <2>2. ASSUME NEW c \in Call, NEW i \in Stored, OpenLive(c, i) \/ DiscardOrCrash(c, i) PROVE width' = width
    BY <2>2 DEF OpenLive, DiscardOrCrash
  <2>3. ASSUME NEW c \in Call, NEW i \in Stored, NEW live \in Stored,
               CloneShadow(c, i, live) \/ Promote(c, i, live) \/ PromoteStale(c, i, live)
        PROVE  width' = width
    BY <2>3 DEF CloneShadow, Promote, PromoteStale
  <2>4. ASSUME EvictInactive \/ \E i \in Stored : AdvanceEpoch(i) PROVE width' = width
    BY <2>4 DEF AdvanceEpoch, EvictInactive
  <2>5. width' = width
    BY <1>2, <2>1, <2>2, <2>3, <2>4 DEF Next
  <2>6. QED
    BY <2>5 DEF Sole
<1> SUFFICES ASSUME Next, width = 1, Awaited PROVE Awaited'
  BY <1>1, <1>2
<1>3. ASSUME NEW c \in Call,
             \/ Opened(c) \/ Captured(c) \/ Cloned(c) \/ Promoted(c) \/ Disposed(c) \/ DisposeFails(c)
      PROVE  Awaited'
  BY <1>3, OpenedStep, CapturedStep, ClonedStep, PromotedStep, DisposedStep, DisposeFailsStep
<1>4. ASSUME NEW c \in Call, AdapterFails(c) PROVE Awaited'
  <2>1. Alone(c) /\ Quiet /\ Awaiting(c, NoCall)
    BY <1>4, GoesOn DEF AdapterFails, Awaits, Quiet
  <2>2. calls'[c].op = "idle" /\ \A d \in Call \ {c} : calls'[d] = calls[d]
    BY <2>1, NoCallIsCall, OneCall
  <2>3. QED
    BY <2>1, <2>2, QuietStep DEF Relies
<1>5. ASSUME NEW c \in Call, PromoteFails(c) PROVE Awaited'
  <2>1. /\ Alone(c) /\ Quiet /\ Relies(c) /\ calls[c].op = "promote" /\ Cleanup(c, calls[c].stored, {}, FALSE)
    BY <1>5, GoesOn DEF PromoteFails, Awaits, Quiet, Awaited
  <2>2. PICK i \in Stored : i = calls[c].stored
    BY <2>1 DEF TypeInv, Named
  <2>3. Active(i) /\ {} \in SUBSET Stored
    BY <2>1, <2>2 DEF Relies
  <2>4. QED
    BY <1>0, <2>1, <2>2, <2>3, CleanupStep
<1>6. ASSUME NEW c \in Call, CloseAll(c) PROVE Awaited'
  <2>1. Alone(c) /\ Quiet
    BY <1>6, Starts DEF CloseAll, Quiet
  <2>2. /\ calls'[c].op = "closing" /\ calls'[c].left = {i \in held : IsActive(i)}
        /\ \A d \in Call \ {c} : calls'[d] = calls[d]
    BY <1>6, CloseAllFacts
  <2>3. Relies(c)'
    BY <2>1, <2>2 DEF Relies, IsActive, Active, Quiet
  <2>4. QED
    BY <2>1, <2>2, <2>3, QuietStep
<1>7. ASSUME NEW c \in Call, CloseNext(c) PROVE Awaited'
  <2>1. Alone(c) /\ Quiet /\ Relies(c) /\ calls[c].op = "closing"
    BY <1>7, GoesOn DEF CloseNext, Quiet, Awaited
  <2>2. PICK i \in calls[c].left : Cleanup(c, i, calls[c].left \ {i}, TRUE)
    BY <1>7 DEF CloseNext
  <2>3. i \in Stored /\ calls[c].left \ {i} \in SUBSET Stored /\ Active(i)
        /\ \A j \in calls[c].left \ {i} : Active(j)
    BY <2>1, <2>2 DEF TypeInv, TypeOK, Relies
  <2>4. QED
    BY <1>0, <2>1, <2>2, <2>3, CleanupStep
<1>8. ASSUME NEW c \in Call, CloseDone(c) PROVE Awaited'
  <2>1. Alone(c) /\ UNCHANGED <<session, page, failed>> /\ Awaiting(c, NoCall)
    BY <1>8, GoesOn DEF CloseDone
  <2>2. calls'[c].op = "idle" /\ \A d \in Call \ {c} : calls'[d] = calls[d]
    BY <2>1, NoCallIsCall, OneCall
  <2>3. World' /\ Relies(c)'
    BY <2>1, <2>2, SameWorld DEF Relies, Awaited
  <2>4. QED
    BY <2>1, <2>2, <2>3, OneRelies
<1>9. ASSUME NEW c \in Call, NEW i \in Stored, OpenLive(c, i) PROVE Awaited'
  <2>1. Alone(c) /\ Quiet /\ ~ Used(i)
    BY <1>9, Starts DEF OpenLive, Quiet, Fresh, Used
  <2>2. /\ calls'[c].op = "open" /\ calls'[c].stored = i /\ \A d \in Call \ {c} : calls'[d] = calls[d]
    BY <1>9, OpenLiveFacts
  <2>3. Relies(c)'
    BY <2>1, <2>2 DEF Relies, Used, Quiet
  <2>4. QED
    BY <2>1, <2>2, <2>3, QuietStep
<1>10. ASSUME NEW c \in Call, NEW i \in Stored, NEW live \in Stored, CloneShadow(c, i, live) PROVE Awaited'
  <2>1. Alone(c) /\ Quiet /\ ~ Used(i) /\ Active(live) /\ session[live].mode = "live"
    BY <1>10, Starts DEF CloneShadow, Quiet, Fresh, Used, IsActive, Active
  <2>2. /\ calls'[c].op = "capture" /\ calls'[c].stored = i /\ calls'[c].live = live
        /\ calls'[c].context = session[live].context /\ \A d \in Call \ {c} : calls'[d] = calls[d]
    BY <1>10, CloneShadowFacts
  <2>3. Relies(c)'
    BY <2>1, <2>2 DEF Relies, Used, Active, Quiet
  <2>4. QED
    BY <2>1, <2>2, <2>3, QuietStep
<1>11. ASSUME NEW c \in Call, NEW i \in Stored, NEW live \in Stored, Promote(c, i, live) PROVE Awaited'
  BY <1>11, PromoteStep
<1>12. ASSUME NEW c \in Call, NEW i \in Stored,
              DiscardOrCrash(c, i) \/ \E live \in Stored : PromoteStale(c, i, live)
       PROVE  Awaited'
  <2>1. /\ Alone(c) /\ Quiet /\ Active(i) /\ Cleanup(c, i, {}, FALSE) /\ {} \in SUBSET Stored
    BY <1>12, Starts DEF PromoteStale, DiscardOrCrash, Promotable, IsActive, Active, Quiet
  <2>2. QED
    BY <1>0, <2>1, CleanupStep
<1>13. ASSUME NEW i \in Stored, AdvanceEpoch(i) PROVE Awaited'
  <2>1. (\A c \in Call : calls[c].op = "idle") /\ calls' = calls
    BY <1>13, NoneUnderWay DEF AdvanceEpoch
  <2>2. World'
    BY <1>13, AdvanceWorld DEF Awaited
  <2>3. QED
    BY <2>1, <2>2 DEF Awaited, Single, Relies
<1>14. CASE EvictInactive
  <2>1. (\A c \in Call : calls[c].op = "idle") /\ UNCHANGED <<session, page, failed, calls>>
    BY <1>14, NoneUnderWay DEF EvictInactive
  <2>2. World'
    BY <2>1, SameWorld DEF Awaited
  <2>3. QED
    BY <2>1, <2>2 DEF Awaited, Single, Relies
<1>15. QED
  BY <1>3, <1>4, <1>5, <1>6, <1>7, <1>8, <1>9, <1>10, <1>11, <1>12, <1>13, <1>14 DEF Next

-----------------------------------------------------------------------------
(* The cap. *)

\* The calls under way, and those of them that will add a session to the map.
Busy == {c \in Call : calls[c].op # "idle"}
Adding == {c \in Call : calls[c].op \in {"open", "capture", "clone"}}

Counted ==
    /\ IsFiniteSet(held)
    /\ Cardinality(Busy) <= width
    /\ Cardinality(held) + Cardinality(Adding) <= MaxSessions + width - 1

LEMMA AddOne ==
    ASSUME NEW S, IsFiniteSet(S), NEW x
    PROVE  /\ IsFiniteSet(S \cup {x}) /\ Cardinality(S \cup {x}) \in Nat
           /\ Cardinality(S \cup {x}) <= Cardinality(S) + 1
<1>1. IsFiniteSet(S \cup {x}) /\ Cardinality(S) \in Nat
  BY FS_AddElement, FS_CardinalityType
<1>2. Cardinality(S \cup {x}) = Cardinality(S) \/ Cardinality(S \cup {x}) = Cardinality(S) + 1
  BY FS_AddElement
<1>3. QED
  BY <1>1, <1>2

LEMMA CallSets ==
    /\ IsFiniteSet(Busy) /\ IsFiniteSet(Adding) /\ Adding \subseteq Busy
    /\ Cardinality(Busy) \in Nat /\ Cardinality(Adding) \in Nat /\ Cardinality(Adding) <= Cardinality(Busy)
<1>1. IsFiniteSet(Busy) /\ IsFiniteSet(Adding) /\ Adding \subseteq Busy
  BY SessionsAssumption, FS_Subset DEF Busy, Adding
<1>2. QED
  BY <1>1, FS_Subset, FS_CardinalityType

\* The same after a step, whose calls may be other ones.
LEMMA CallSetsNext ==
    /\ IsFiniteSet(Busy') /\ IsFiniteSet(Adding') /\ Adding' \subseteq Busy'
    /\ Cardinality(Busy') \in Nat /\ Cardinality(Adding') \in Nat /\ Cardinality(Adding') <= Cardinality(Busy')
<1>1. Busy' \subseteq Call /\ Adding' \subseteq Busy'
  BY DEF Busy, Adding
<1>2. IsFiniteSet(Busy') /\ IsFiniteSet(Adding')
  BY <1>1, SessionsAssumption, FS_Subset
<1>3. QED
  BY <1>1, <1>2, FS_Subset, FS_CardinalityType

\* A step of a call that is under way and adds no session.
LEMMA CountedOn ==
    ASSUME TypeInv, Counted, NEW c \in Call, calls[c].op # "idle",
           \A d \in Call \ {c} : calls'[d] = calls[d],
           c \in Adding' => c \in Adding, held' \subseteq held, width' = width
    PROVE  Counted'
<1>1. Busy' \subseteq Busy /\ Adding' \subseteq Adding
  BY DEF Busy, Adding
<1>2. /\ IsFiniteSet(held') /\ Cardinality(held') <= Cardinality(held)
      /\ Cardinality(Busy') <= Cardinality(Busy) /\ Cardinality(Adding') <= Cardinality(Adding)
  BY <1>1, CallSets, FS_Subset DEF Counted
<1>3. /\ Cardinality(held) \in Nat /\ Cardinality(held') \in Nat /\ width \in Nat
  BY <1>2, FS_CardinalityType DEF Counted, TypeInv, TypeOK
<1>4. QED
  BY <1>2, <1>3, CallSets, CallSetsNext, SessionsAssumption DEF Counted

\* A call that adds one session as it ends.
LEMMA CountedAdds ==
    ASSUME TypeInv, Counted, NEW c \in Call, c \in Adding, calls'[c].op = "idle",
           \A d \in Call \ {c} : calls'[d] = calls[d], NEW i, held' \subseteq held \cup {i}, width' = width
    PROVE  Counted'
<1>1. Busy' \subseteq Busy /\ Adding' = Adding \ {c}
  BY DEF Busy, Adding
<1>2. /\ Cardinality(Busy') <= Cardinality(Busy) /\ Cardinality(Adding') = Cardinality(Adding) - 1
  BY <1>1, CallSets, FS_Subset, FS_RemoveElement
<1>3. IsFiniteSet(held') /\ Cardinality(held') <= Cardinality(held) + 1
  <2>1. /\ IsFiniteSet(held \cup {i}) /\ Cardinality(held \cup {i}) \in Nat
        /\ Cardinality(held \cup {i}) <= Cardinality(held) + 1
    BY AddOne DEF Counted
  <2>2. IsFiniteSet(held') /\ Cardinality(held') <= Cardinality(held \cup {i})
    BY <2>1, FS_Subset
  <2>3. Cardinality(held) \in Nat /\ Cardinality(held') \in Nat
    BY <2>2, FS_CardinalityType DEF Counted
  <2>4. QED
    BY <2>1, <2>2, <2>3
<1>4. /\ Cardinality(held) \in Nat /\ Cardinality(held') \in Nat /\ width \in Nat
  BY <1>3, FS_CardinalityType DEF Counted, TypeInv, TypeOK
<1>5. QED
  BY <1>2, <1>3, <1>4, CallSets, CallSetsNext, SessionsAssumption DEF Counted

\* A call that begins: one that adds a session had room.
LEMMA CountedBegins ==
    ASSUME TypeInv, Counted, NEW c \in Call, Idle(c), \A d \in Call \ {c} : calls'[d] = calls[d],
           c \in Adding' => HasRoom, held' = held, width' = width
    PROVE  Counted'
<1>1. Busy' \subseteq Busy \cup {c} /\ Adding' \subseteq Adding \cup {c} /\ Cardinality(Busy) < width
  BY DEF Busy, Adding, Idle, MayCall
<1>2. Cardinality(held) \in Nat /\ width \in Nat
  BY FS_CardinalityType DEF Counted, TypeInv, TypeOK
<1>3. /\ IsFiniteSet(Busy \cup {c}) /\ Cardinality(Busy \cup {c}) <= Cardinality(Busy) + 1
      /\ IsFiniteSet(Adding \cup {c}) /\ Cardinality(Adding \cup {c}) <= Cardinality(Adding) + 1
      /\ Cardinality(Busy \cup {c}) \in Nat /\ Cardinality(Adding \cup {c}) \in Nat
  BY CallSets, AddOne
<1>4. /\ Cardinality(Busy') <= Cardinality(Busy) + 1 /\ Cardinality(Adding') <= Cardinality(Adding) + 1
  <2>1. Cardinality(Busy') <= Cardinality(Busy \cup {c})
    BY <1>1, <1>3, FS_Subset
  <2>2. Cardinality(Adding') <= Cardinality(Adding \cup {c})
    BY <1>1, <1>3, FS_Subset
  <2>3. QED
    BY <2>1, <2>2, <1>3, CallSets, CallSetsNext
<1>5. Cardinality(Busy') <= width
  BY <1>1, <1>2, <1>4, CallSets, CallSetsNext
<1>6. CASE c \in Adding'
  BY <1>1, <1>2, <1>4, <1>5, <1>6, CallSets, CallSetsNext, SessionsAssumption DEF Counted, HasRoom
<1>7. CASE c \notin Adding'
  <2>1. Adding' \subseteq Adding
    BY <1>1, <1>7
  <2>2. Cardinality(Adding') <= Cardinality(Adding)
    BY <2>1, CallSets, FS_Subset
  <2>3. QED
    BY <2>2, <1>2, <1>5, CallSets, CallSetsNext, SessionsAssumption DEF Counted
<1>8. QED
  BY <1>6, <1>7

LEMMA CountedInit == Init => Counted
<1> SUFFICES ASSUME Init PROVE Counted
  OBVIOUS
<1>1. Busy = {} /\ Adding = {}
  BY NoCallIsCall DEF Init, Busy, Adding
<1>2. held = {} /\ width \in 1 .. Cardinality(Call) /\ Cardinality(Call) \in Nat
  BY SessionsAssumption, FS_CardinalityType DEF Init
<1>3. QED
  BY <1>1, <1>2, FS_EmptySet, SessionsAssumption DEF Counted

LEMMA CountedNext == TypeInv /\ Counted /\ [Next]_vars => Counted'
<1> SUFFICES ASSUME TypeInv, Counted, [Next]_vars PROVE Counted'
  OBVIOUS
<1>0. FALSE \in BOOLEAN /\ TRUE \in BOOLEAN /\ {} \in SUBSET Stored
  OBVIOUS
<1>1. ASSUME NEW c \in Call, Opened(c) PROVE Counted'
  <2>1. /\ c \in Adding /\ calls'[c].op = "idle" /\ \A d \in Call \ {c} : calls'[d] = calls[d]
    BY <1>1, OpenedFacts DEF Opened, Awaits, Adding
  <2>2. held' \subseteq held \cup {calls[c].stored} /\ width' = width
    BY <1>1, OpenedFacts DEF Opened
  <2>3. QED
    BY <2>1, <2>2, CountedAdds
<1>2. ASSUME NEW c \in Call, Cloned(c) PROVE Counted'
  <2>1. /\ c \in Adding /\ calls'[c].op = "idle" /\ \A d \in Call \ {c} : calls'[d] = calls[d]
    BY <1>2, ClonedFacts DEF Cloned, Awaits, Adding
  <2>2. held' \subseteq held \cup {calls[c].stored} /\ width' = width
    BY <1>2, ClonedFacts DEF Cloned
  <2>3. QED
    BY <2>1, <2>2, CountedAdds
<1>3. ASSUME NEW c \in Call, Captured(c) PROVE Counted'
  <2>1. /\ c \in Adding /\ calls[c].op # "idle" /\ held' = held /\ width' = width
    BY <1>3 DEF Captured, Awaits, Adding
  <2>2. QED
    BY <1>3, <2>1, CapturedFacts, CountedOn
<1>4. ASSUME NEW c \in Call, AdapterFails(c) \/ CloseDone(c) PROVE Counted'
  <2>1. /\ calls[c].op # "idle" /\ held' \subseteq held /\ width' = width /\ Awaiting(c, NoCall)
    BY <1>4 DEF AdapterFails, CloseDone, Awaits, Kept
  <2>2. c \notin Adding' /\ \A d \in Call \ {c} : calls'[d] = calls[d]
    BY <2>1, NoCallIsCall, OneCall DEF Adding
  <2>3. QED
    BY <2>1, <2>2, CountedOn
<1>5. ASSUME NEW c \in Call, Promoted(c) PROVE Counted'
  <2>1. /\ calls[c].op # "idle" /\ held' = held /\ width' = width
    BY <1>5 DEF Promoted, Awaits
  <2>2. c \notin Adding' /\ \A d \in Call \ {c} : calls'[d] = calls[d]
    BY <1>5, PromotedFacts DEF Adding
  <2>3. QED
    BY <2>1, <2>2, CountedOn
<1>6. ASSUME NEW c \in Call, NEW i \in Stored, NEW left \in SUBSET Stored, NEW closing \in BOOLEAN,
             Cleanup(c, i, left, closing), Quiet, Idle(c) \/ calls[c].op # "idle"
      PROVE  Counted'
  <2>1. c \notin Adding' /\ (\A d \in Call \ {c} : calls'[d] = calls[d]) /\ held' = held /\ width' = width
    BY <1>6, CleanupCall DEF Adding, Quiet
  <2>2. QED
    BY <1>6, <2>1, CountedOn, CountedBegins
<1>7. ASSUME NEW c \in Call, PromoteFails(c) PROVE Counted'
  <2>1. calls[c].stored \in Stored /\ Cleanup(c, calls[c].stored, {}, FALSE) /\ Quiet /\ calls[c].op # "idle"
    BY <1>7 DEF PromoteFails, Awaits, TypeInv, Named, Quiet
  <2>2. QED
    BY <1>0, <1>6, <2>1
<1>8. ASSUME NEW c \in Call, Disposed(c) \/ DisposeFails(c) PROVE Counted'
  <2>1. calls[c].op # "idle" /\ held' = held /\ width' = width /\ AfterCleanup(c)
    BY <1>8 DEF Disposed, DisposeFails, Awaits
  <2>2. c \notin Adding' /\ \A d \in Call \ {c} : calls'[d] = calls[d]
    BY <2>1, AfterCleanupCall DEF Adding
  <2>3. QED
    BY <2>1, <2>2, CountedOn
<1>9. ASSUME NEW c \in Call, CloseAll(c) PROVE Counted'
  <2>1. Idle(c) /\ held' = held /\ width' = width
    BY <1>9 DEF CloseAll
  <2>2. c \notin Adding' /\ \A d \in Call \ {c} : calls'[d] = calls[d]
    BY <1>9, CloseAllFacts DEF Adding
  <2>3. QED
    BY <2>1, <2>2, CountedBegins
<1>10. ASSUME NEW c \in Call, CloseNext(c) PROVE Counted'
  <2>1. PICK i \in calls[c].left : Cleanup(c, i, calls[c].left \ {i}, TRUE)
    BY <1>10 DEF CloseNext
  <2>2. i \in Stored /\ calls[c].left \ {i} \in SUBSET Stored /\ Quiet /\ calls[c].op # "idle"
    BY <1>10, <2>1 DEF CloseNext, TypeInv, TypeOK, Quiet
  <2>3. QED
    BY <1>0, <1>6, <2>1, <2>2
<1>11. ASSUME NEW c \in Call, NEW i \in Stored, OpenLive(c, i) PROVE Counted'
  <2>1. Idle(c) /\ HasRoom /\ held' = held /\ width' = width
    BY <1>11 DEF OpenLive
  <2>2. QED
    BY <1>11, <2>1, OpenLiveFacts, CountedBegins
<1>12. ASSUME NEW c \in Call, NEW i \in Stored, NEW live \in Stored, CloneShadow(c, i, live) PROVE Counted'
  <2>1. Idle(c) /\ HasRoom /\ held' = held /\ width' = width
    BY <1>12 DEF CloneShadow
  <2>2. QED
    BY <1>12, <2>1, CloneShadowFacts, CountedBegins
<1>13. ASSUME NEW c \in Call, NEW i \in Stored, NEW live \in Stored, Promote(c, i, live) PROVE Counted'
  <2>1. Idle(c) /\ held' = held /\ width' = width
    BY <1>13 DEF Promote
  <2>2. c \notin Adding' /\ \A d \in Call \ {c} : calls'[d] = calls[d]
    BY <1>13, PromoteFacts DEF Adding
  <2>3. QED
    BY <2>1, <2>2, CountedBegins
<1>14. ASSUME NEW c \in Call, NEW i \in Stored,
              DiscardOrCrash(c, i) \/ \E live \in Stored : PromoteStale(c, i, live)
       PROVE  Counted'
  <2>1. Cleanup(c, i, {}, FALSE) /\ Quiet /\ Idle(c)
    BY <1>14 DEF PromoteStale, DiscardOrCrash, Quiet
  <2>2. QED
    BY <1>0, <1>6, <2>1
<1>15. ASSUME held' \subseteq held, width' = width, calls' = calls PROVE Counted'
  <2>1. IsFiniteSet(held') /\ Cardinality(held') <= Cardinality(held) /\ Busy' = Busy /\ Adding' = Adding
    BY <1>15, FS_Subset DEF Counted, Busy, Adding
  <2>2. Cardinality(held) \in Nat /\ Cardinality(held') \in Nat /\ width \in Nat
    BY <2>1, FS_CardinalityType DEF Counted, TypeInv, TypeOK
  <2>3. QED
    BY <1>15, <2>1, <2>2, CallSets, SessionsAssumption DEF Counted
<1>16. CASE EvictInactive \/ UNCHANGED vars \/ \E i \in Stored : AdvanceEpoch(i)
  BY <1>15, <1>16 DEF EvictInactive, Kept, AdvanceEpoch, vars
<1>17. QED
  BY <1>1, <1>2, <1>3, <1>4, <1>5, <1>7, <1>8, <1>9, <1>10, <1>11, <1>12, <1>13, <1>14, <1>16 DEF Next

-----------------------------------------------------------------------------
(* What follows. *)

Invariant == TypeInv /\ InMap /\ Sole /\ Counted

LEMMA InvariantHolds == Spec => []Invariant
<1>1. Init => Invariant
  <2>1. Init => InMap
    BY UnusedIsSession DEF Init, InMap, ActiveIsHeld, OnePerId
  <2>2. QED
    BY <2>1, TypeInit, SoleInit, CountedInit DEF Invariant
<1>2. Invariant /\ [Next]_vars => Invariant'
  BY TypeNext, HeldNext, SoleNext, CountedNext DEF Invariant
<1>3. QED
  BY <1>1, <1>2, PTL DEF Spec

\* However calls overlap and whatever ids they give, an active session is in the manager's map
\* unless another took its id and, where each call is awaited, its context is open; the map
\* never exceeds its cap by more than the calls that were under way when it was read
\* (index.ts:78, 118, 130, 192-195, 207-213).
THEOREM SessionsAreUsable == Spec => []ActiveIsUsable
<1>1. Invariant => ActiveIsUsable
  <2> SUFFICES ASSUME Invariant PROVE ActiveIsUsable
    OBVIOUS
  <2>1. ActiveIsOpen
    BY DEF Invariant, Sole, Awaited, World, Active, ActiveIsOpen
  <2>2. Cardinality(held) \in Nat /\ width \in Nat /\ Cardinality(Adding) \in Nat
    BY CallSets, FS_CardinalityType DEF Invariant, Counted, TypeInv, TypeOK
  <2>3. CapWithinCalls
    BY <2>2, SessionsAssumption DEF Invariant, Counted, CapWithinCalls
  <2>4. QED
    BY <2>1, <2>3 DEF Invariant, InMap, ActiveIsUsable
<1>2. QED
  BY <1>1, InvariantHolds, PTL

\* A host that awaits each call leaks no context: every open one belongs to a session that is
\* active, and that is held, and so will be cleaned up (index.ts:207-213), unless another took
\* its id.
THEOREM NoContextLeaks == Spec => []NoLeak
<1>1. Invariant => NoLeak
  <2> SUFFICES ASSUME Invariant, width = 1, NEW x \in open
               PROVE  \E i \in held \cup replaced : session[i].status = "active" /\ session[i].context = x
    BY DEF NoLeak
  <2>1. PICK i \in Stored : Active(i) /\ session[i].context = x
    BY DEF Invariant, Sole, Awaited, World
  <2>2. i \in held \cup replaced
    BY <2>1 DEF Invariant, InMap, ActiveIsHeld, Active
  <2>3. QED
    BY <2>1, <2>2 DEF Active
<1>2. QED
  BY <1>1, InvariantHolds, PTL

\* A host that awaits each call loses no navigation to a promotion: the shadow's context holds
\* the storage of the live document that it replaces (README.md:3-7), as long as the session
\* it was cloned from is in the map and no other was promoted over the shadow itself.
THEOREM PromotionLosesNothing == Spec => AwaitedPromotesAtSource
<1> DEFINE AtSourceNow == width = 1 => \A i \in Stored : Promotes(i) /\ IsOwn(i) => SourceIsLive(i)
<1>1. Invariant /\ [Next]_vars => [AtSourceNow]_vars
  <2> SUFFICES ASSUME Invariant, Next, width = 1, NEW i \in Stored, Promotes(i), IsOwn(i)
               PROVE  SourceIsLive(i)
    OBVIOUS
  <2>0. TypeInv /\ Awaited /\ World
    BY DEF Invariant, Sole, Awaited
  <2>1. PICK c \in Call : Promoted(c) /\ calls[c].stored = i
    <3>1. session' # session
      BY DEF Promotes
    <3>2. ASSUME NEW c \in Call, Opened(c) PROVE FALSE
      BY <2>0, <3>2, OpenedFacts DEF Promotes
    <3>3. ASSUME NEW c \in Call, Cloned(c) PROVE FALSE
      BY <2>0, <3>3, ClonedFacts DEF Promotes
    <3>4. ASSUME NEW j \in Stored, AdvanceEpoch(j) PROVE FALSE
      <4>1. session'[j].status = session[j].status /\ \A m \in Stored \ {j} : session'[m] = session[m]
        <5>1. session'[j] = [session[j] EXCEPT !.epoch = session[j].epoch + 1]
          BY <2>0, <3>4, AdvanceFacts
        <5>2. session'[j].status = session[j].status
          BY <2>0, <5>1 DEF TypeInv, TypeOK
        <5>3. QED
          BY <2>0, <3>4, <5>2, AdvanceFacts
      <4>2. QED
        BY <4>1 DEF Promotes
    <3>5. ASSUME NEW c \in Call, Disposed(c) PROVE FALSE
      BY <2>0, <3>5, DisposedFacts DEF Promotes
    <3>6. ASSUME NEW c \in Call, Promoted(c) PROVE calls[c].stored = i
      BY <2>0, <3>6, PromotedFacts DEF Promotes
    <3>7. ASSUME NEW c \in Call,
                 \/ Captured(c) \/ AdapterFails(c) \/ PromoteFails(c) \/ DisposeFails(c)
                 \/ CloseAll(c) \/ CloseNext(c) \/ CloseDone(c)
          PROVE  FALSE
      BY <3>1, <3>7 DEF Captured, AdapterFails, PromoteFails, DisposeFails, CloseAll, CloseNext, CloseDone
    <3>8. ASSUME NEW c \in Call, NEW j \in Stored, OpenLive(c, j) \/ DiscardOrCrash(c, j) PROVE FALSE
      BY <3>1, <3>8 DEF OpenLive, DiscardOrCrash
    <3>9. ASSUME NEW c \in Call, NEW j \in Stored, NEW live \in Stored,
                 CloneShadow(c, j, live) \/ Promote(c, j, live) \/ PromoteStale(c, j, live)
          PROVE  FALSE
      BY <3>1, <3>9 DEF CloneShadow, Promote, PromoteStale
    <3>10. CASE EvictInactive
      BY <3>1, <3>10 DEF EvictInactive
    <3>11. QED
      BY <3>2, <3>3, <3>4, <3>5, <3>6, <3>7, <3>8, <3>9, <3>10 DEF Next
  <2>2. Relies(c) /\ calls[c].op = "promote" /\ calls[c].new \in open
    BY <2>0, <2>1 DEF Awaited, Promoted, Awaits
  <2>3. /\ Active(i) /\ session[i].mode = "shadow" /\ session[i].context \in open
        /\ session[session[i].base].epoch = session[i].baseEpoch
    BY <2>1, <2>2 DEF Relies, IsOwn
  <2>4. page[session[i].context] = session[i].baseEpoch
    BY <2>0, <2>3 DEF World, Shown, Intact, IsOwn
  <2>5. QED
    BY <2>3, <2>4 DEF SourceIsLive
<1>2. QED
  BY <1>1, InvariantHolds, PTL DEF Spec, AwaitedPromotesAtSource

-----------------------------------------------------------------------------
(* PART 2.  The speculative pipeline.                                      *)

Won == {x \in Request : call[x] = "promoted"}

\* The counts of the fence, as the calls themselves have it.
FenceInv == FenceTypeOK /\ BudgetKept /\ OnlyPermittedAtWork

\* The pipeline stops at the first failure and drains what is queued when it stops; a
\* scan is made only by a pipeline that has not stopped, from the first step on.
StopInv ==
    /\ k # 0
    /\ loop = "collecting" => quiesced = "no"
    /\ loop = "scan" => ~ cancelled /\ quiesced = "no"
    /\ quiesced # "no" => \A x \in Request : entry[x] # "queued"
    /\ \A x \in Request : entry[x] = "discarded" => cancelled \/ quiesced # "no"

PipelineInv == PipeTypeOK /\ BudgetKept /\ OnlyPermittedAtWork /\ StopInv /\ StepsAccounted

-----------------------------------------------------------------------------
(* The fence. *)

\* The pending calls and those that were promoted are finitely many, so they can be counted.
LEMMA Countable ==
    /\ IsFiniteSet(Pending) /\ Cardinality(Pending) \in Nat
    /\ IsFiniteSet(Won) /\ Cardinality(Won) \in Nat
<1>1. IsFiniteSet(Request)
  BY FenceAssumption
<1>2. Pending \in SUBSET Request /\ Won \in SUBSET Request
  BY DEF Pending, Won
<1>3. IsFiniteSet(Pending) /\ IsFiniteSet(Won)
  BY <1>1, <1>2, FS_Subset
<1>4. QED
  BY <1>3, FS_CardinalityType

\* A call that settles gives back one slot, and wins at most once.
LEMMA SettledCounts ==
    ASSUME FenceInv, NEW x \in Request, call[x] \in {"dispatching", "promoting"},
           NEW outcome \in {"promoted", "discarded"}, Settle(x, outcome), dispatches' = dispatches
    PROVE  BudgetKept' /\ inFlight' \in Nat
           /\ call' \in [Request -> {"none", "dispatching", "promoting", "promoted", "discarded"}]
<1>1. /\ call \in [Request -> {"none", "dispatching", "promoting", "promoted", "discarded"}]
      /\ dispatches \in Nat /\ inFlight \in Nat
  BY DEF FenceInv, FenceTypeOK
<1>2. call' = [call EXCEPT ![x] = outcome] /\ inFlight' = inFlight - 1
  BY DEF Settle, Released
<1>3. x \in Pending /\ Pending' = Pending \ {x}
  BY <1>1, <1>2 DEF Pending
<1>4. Cardinality(Pending') = Cardinality(Pending) - 1
  BY <1>3, Countable, FS_RemoveElement
<1>5. x \notin Won /\ (Won' = Won \/ Won' = Won \cup {x})
  BY <1>1, <1>2 DEF Won
<1>6. Cardinality(Won') <= Cardinality(Won) + 1 /\ Cardinality(Won') \in Nat
  <2>1. Cardinality(Won \cup {x}) = Cardinality(Won) + 1
    BY <1>5, Countable, FS_AddElement
  <2>2. QED
    BY <1>5, <2>1, Countable
<1>7. inFlight = Cardinality(Pending) /\ inFlight <= MaxInFlight /\ dispatches <= MaxDispatches
      /\ Cardinality(Won) + inFlight <= dispatches
  BY DEF FenceInv, BudgetKept, Won
<1>8. Cardinality(Pending) # 0
  BY <1>3, Countable, FS_EmptySet
<1>9. inFlight' \in Nat /\ inFlight' = Cardinality(Pending') /\ inFlight' <= MaxInFlight
  BY <1>1, <1>2, <1>4, <1>7, <1>8, FenceAssumption
<1>10. Cardinality(Won') + inFlight' <= dispatches'
  BY <1>1, <1>2, <1>6, <1>7, Countable
<1>11. call' \in [Request -> {"none", "dispatching", "promoting", "promoted", "discarded"}]
  BY <1>1, <1>2
<1>12. QED
  BY <1>7, <1>9, <1>10, <1>11 DEF BudgetKept, Won

\* A call of speculate takes a slot of both budgets, for a step the fence permits, or none.
LEMMA SpeculateKeeps ==
    ASSUME FenceInv, NEW x \in Request, Speculate(x)
    PROVE  FenceInv'
<1>1. /\ call \in [Request -> {"none", "dispatching", "promoting", "promoted", "discarded"}]
      /\ dispatches \in Nat /\ inFlight \in Nat /\ atWork \subseteq Request
      /\ atWork \subseteq Permitted
  BY DEF FenceInv, FenceTypeOK, OnlyPermittedAtWork
<1>2. inFlight = Cardinality(Pending) /\ inFlight <= MaxInFlight /\ dispatches <= MaxDispatches
      /\ Cardinality(Won) + inFlight <= dispatches
  BY DEF FenceInv, BudgetKept, Won
<1>3. CASE Dispatched(x)
  <2>1. /\ call[x] = "none" /\ x \in Permitted /\ dispatches < MaxDispatches /\ inFlight < MaxInFlight
        /\ call' = [call EXCEPT ![x] = "dispatching"]
        /\ dispatches' = dispatches + 1 /\ inFlight' = inFlight + 1 /\ atWork' = atWork \cup {x}
    BY <1>3 DEF Dispatched, Speculable, Affordable
  <2>2. FenceTypeOK' /\ OnlyPermittedAtWork'
    BY <1>1, <2>1 DEF FenceTypeOK, OnlyPermittedAtWork
  <2>3. x \notin Pending /\ Pending' = Pending \cup {x} /\ Won' = Won
    BY <1>1, <2>1 DEF Pending, Won
  <2>4. Cardinality(Pending') = Cardinality(Pending) + 1
    BY <2>3, Countable, FS_AddElement
  <2>5. inFlight' = Cardinality(Pending') /\ inFlight' <= MaxInFlight /\ dispatches' <= MaxDispatches
    BY <1>1, <1>2, <2>1, <2>4, FenceAssumption
  <2>6. Cardinality(Won') + inFlight' <= dispatches'
    BY <1>1, <1>2, <2>1, <2>3, Countable
  <2>7. QED
    BY <2>2, <2>5, <2>6 DEF FenceInv, BudgetKept, Won
<1>4. CASE Refused(x)
  <2>1. call[x] = "none" /\ call' = [call EXCEPT ![x] = "discarded"]
        /\ UNCHANGED <<dispatches, inFlight, atWork>>
    BY <1>4 DEF Refused
  <2>2. FenceTypeOK' /\ OnlyPermittedAtWork'
    BY <1>1, <2>1 DEF FenceTypeOK, OnlyPermittedAtWork
  <2>3. Pending' = Pending /\ Won' = Won
    BY <1>1, <2>1 DEF Pending, Won
  <2>4. QED
    BY <1>2, <2>1, <2>2, <2>3 DEF FenceInv, BudgetKept, Won
<1>5. QED
  BY <1>3, <1>4 DEF Speculate

\* What happens at the fence between two turns keeps the counts, and no call that was
\* promoted is lost or begun again.
LEMMA FenceKeeps ==
    ASSUME FenceInv, NEW x \in Request, FenceStep(x)
    PROVE  FenceInv' /\ \A y \in Request : call[y] = "promoted" => call'[y] = "promoted"
<1>1. /\ call \in [Request -> {"none", "dispatching", "promoting", "promoted", "discarded"}]
      /\ dispatches \in Nat /\ inFlight \in Nat /\ atWork \subseteq Request
      /\ atWork \subseteq Permitted
  BY DEF FenceInv, FenceTypeOK, OnlyPermittedAtWork
<1>2. CASE Confirmed(x)
  <2>1. call[x] = "dispatching" /\ call' = [call EXCEPT ![x] = "promoting"]
        /\ atWork' = atWork \ {x} /\ UNCHANGED <<dispatches, inFlight>>
    BY <1>2 DEF Confirmed
  <2>2. FenceTypeOK' /\ OnlyPermittedAtWork'
    BY <1>1, <2>1 DEF FenceTypeOK, OnlyPermittedAtWork
  <2>3. Pending' = Pending /\ Won' = Won
    BY <1>1, <2>1 DEF Pending, Won
  <2>4. BudgetKept'
    BY <2>1, <2>3 DEF FenceInv, BudgetKept, Won
  <2>5. QED
    BY <1>1, <2>1, <2>2, <2>4 DEF FenceInv
<1>3. CASE NotConfirmed(x) \/ TimesOut(x)
  <2>1. call[x] = "dispatching" /\ Settle(x, "discarded") /\ dispatches' = dispatches
        /\ atWork' \subseteq atWork
    BY <1>3 DEF NotConfirmed, TimesOut
  <2>2. BudgetKept' /\ inFlight' \in Nat
        /\ call' \in [Request -> {"none", "dispatching", "promoting", "promoted", "discarded"}]
    BY <2>1, SettledCounts
  <2>3. QED
    BY <1>1, <2>1, <2>2 DEF FenceInv, FenceTypeOK, OnlyPermittedAtWork, Settle
<1>4. CASE PromotionSettles(x)
  <2>1. PICK outcome \in {"promoted", "discarded"} : Settle(x, outcome)
    BY <1>4 DEF PromotionSettles
  <2>2. call[x] = "promoting" /\ UNCHANGED <<dispatches, atWork>>
    BY <1>4 DEF PromotionSettles
  <2>3. BudgetKept' /\ inFlight' \in Nat
        /\ call' \in [Request -> {"none", "dispatching", "promoting", "promoted", "discarded"}]
    BY <2>1, <2>2, SettledCounts
  <2>4. QED
    BY <1>1, <2>1, <2>2, <2>3 DEF FenceInv, FenceTypeOK, OnlyPermittedAtWork, Settle
<1>5. CASE LateEnd(x)
  <2>1. atWork' \subseteq atWork /\ UNCHANGED <<call, dispatches, inFlight>>
    BY <1>5 DEF LateEnd
  <2>2. Pending' = Pending /\ Won' = Won
    BY <2>1 DEF Pending, Won
  <2>3. BudgetKept'
    BY <2>1, <2>2 DEF FenceInv, BudgetKept, Won
  <2>4. QED
    BY <1>1, <2>1, <2>3 DEF FenceInv, FenceTypeOK, OnlyPermittedAtWork
<1>6. QED
  BY <1>2, <1>3, <1>4, <1>5 DEF FenceStep

\* A step that leaves the fence alone leaves its counts alone.
LEMMA FenceUntouched == FenceInv /\ UNCHANGED fenceVars => FenceInv'
  BY DEF fenceVars, FenceInv, FenceTypeOK, BudgetKept, OnlyPermittedAtWork, Pending

-----------------------------------------------------------------------------
(* The pipeline. *)

StepState == {"absent", "queued", "running", "promoted", "discarded"}

\* drain discards what is queued and nothing else.
LEMMA DrainedFacts ==
    ASSUME entry \in [Request -> StepState]
    PROVE  /\ Drained \in [Request -> StepState]
           /\ \A x \in Request : Drained[x] # "queued"
           /\ \A x \in Request : entry[x] # "queued" => Drained[x] = entry[x]
           /\ \A x \in Request : entry[x] = "queued" => Drained[x] = "discarded"
  BY DEF Drained, StepState

\* The first state.
LEMMA PipelineInit == PipeInit => PipelineInv
<1> SUFFICES ASSUME PipeInit PROVE PipelineInv
  OBVIOUS
<1>1. Pending = {} /\ Won = {}
  BY DEF PipeInit, FenceInit, Pending, Won
<1>2. BudgetKept
  <2>1. Cardinality(Pending) = 0 /\ Cardinality(Won) = 0
    BY <1>1, FS_EmptySet
  <2>2. dispatches = 0 /\ inFlight = 0
    BY DEF PipeInit, FenceInit
  <2>3. QED
    BY <2>1, <2>2, FenceAssumption DEF BudgetKept, Won
<1>3. FenceTypeOK /\ OnlyPermittedAtWork
  BY DEF PipeInit, FenceInit, FenceTypeOK, OnlyPermittedAtWork
<1>4. PipeTypeOK
  <2>1. cancelled \in BOOLEAN
    BY Zenon DEF PipeInit
  <2>2. QED
    BY <1>3, <2>1 DEF PipeInit, PipeTypeOK
<1>5. StopInv /\ StepsAccounted
  BY DEF PipeInit, FenceInit, StopInv, StepsAccounted, DependenciesFirst, Accounted, ScanSeesNoFailure
<1>6. QED
  BY <1>2, <1>3, <1>4, <1>5 DEF PipelineInv

\* Steps that only queue a step or move the loop on.
LEMMA QuietSteps ==
    ASSUME PipelineInv,
           \/ \E x \in Request : Enqueue(x)
           \/ Cancel \/ Run \/ TurnScans \/ ScanPasses
    PROVE  PipelineInv'
<1>1. FenceInv
  BY DEF PipelineInv, FenceInv, PipeTypeOK
<1>2. UNCHANGED fenceVars
  BY DEF Enqueue, Cancel, Run, TurnScans, ScanPasses
<1>3. FenceInv'
  BY <1>1, <1>2, FenceUntouched
<1>4. CASE \E x \in Request : Enqueue(x)
  <2>1. PICK x \in Request : Enqueue(x)
    BY <1>4
  <2>2. PipeTypeOK'
    BY <1>3, <2>1 DEF PipelineInv, FenceInv, PipeTypeOK, Enqueue
  <2>3. StopInv'
    BY <2>1 DEF PipelineInv, PipeTypeOK, StopInv, Enqueue
  <2>4. StepsAccounted'
    BY <1>2, <2>1, PipelineAssumption
       DEF PipelineInv, PipeTypeOK, StepsAccounted, DependenciesFirst, Accounted, ScanSeesNoFailure, Enqueue, fenceVars
  <2>5. QED
    BY <1>3, <2>2, <2>3, <2>4 DEF PipelineInv, FenceInv
<1>5. CASE Cancel \/ Run \/ TurnScans \/ ScanPasses
  <2>1. PipeTypeOK'
    <3>1. cancelled' \in BOOLEAN
      BY <1>5, Zenon DEF PipelineInv, PipeTypeOK, Cancel, Run, TurnScans, ScanPasses
    <3>2. QED
      BY <1>3, <1>5, <3>1 DEF PipelineInv, FenceInv, PipeTypeOK, Cancel, Run, TurnScans, ScanPasses
  <2>2. StopInv'
    BY <1>5 DEF PipelineInv, PipeTypeOK, StopInv, Cancel, Run, TurnScans, ScanPasses, AtTurn, Stopped
  <2>3. UNCHANGED <<entry, active, call>> /\ (loop' = "done" => loop = "done")
        /\ (loop' = "scan" => loop = "scan" \/ ~ Stopped)
    BY <1>2, <1>5 DEF Cancel, Run, TurnScans, ScanPasses, fenceVars
  <2>4. StepsAccounted'
    BY <2>3 DEF PipelineInv, StopInv, StepsAccounted, DependenciesFirst, Accounted, ScanSeesNoFailure, Stopped
  <2>5. QED
    BY <1>3, <2>1, <2>2, <2>4 DEF PipelineInv, FenceInv
<1>6. QED
  BY <1>4, <1>5

\* A turn that does not start anything, or has started what it can, ends the run only if
\* nothing is queued or under way.
LEMMA TurnStops ==
    ASSUME PipelineInv, TurnStopped \/ OverTime \/ ScanEnds
    PROVE  PipelineInv'
<1>1. FenceInv /\ UNCHANGED fenceVars
  BY DEF PipelineInv, FenceInv, PipeTypeOK, TurnStopped, OverTime, ScanEnds
<1>2. FenceInv'
  BY <1>1, FenceUntouched
<1>3. entry \in [Request -> StepState]
  BY DEF PipelineInv, PipeTypeOK, StepState
<1>4. loop' = (IF active = {} THEN "done" ELSE "await") /\ UNCHANGED <<order, active, k, cancelled>>
  BY DEF TurnStopped, OverTime, ScanEnds, WaitOrEnd
<1>5. \/ entry' = Drained /\ (cancelled \/ quiesced' # "no") /\ (quiesced # "no" => quiesced' # "no")
      \/ entry' = entry /\ quiesced' = quiesced /\ (active = {} => \A x \in Request : entry[x] # "queued")
  BY DEF TurnStopped, OverTime, ScanEnds, Stopped, PipelineInv, StopInv
<1>6. quiesced' \in {"no", "duration_cap", "cycle_detected", "step_failed"}
  BY DEF TurnStopped, OverTime, ScanEnds, PipelineInv, PipeTypeOK
<1>7. PipeTypeOK'
  BY <1>2, <1>3, <1>4, <1>5, <1>6, DrainedFacts DEF PipelineInv, FenceInv, PipeTypeOK, StepState
<1>8. StopInv'
  BY <1>3, <1>4, <1>5, DrainedFacts DEF PipelineInv, StopInv
<1>9. \A x \in Request : /\ entry'[x] = "running" <=> entry[x] = "running"
                         /\ entry'[x] = "promoted" <=> entry[x] = "promoted"
  BY <1>3, <1>5, DrainedFacts
<1>10. DependenciesFirst'
  BY <1>9, PipelineAssumption DEF PipelineInv, StepsAccounted, DependenciesFirst
<1>11. Accounted'
  <2>1. call' = call
    BY <1>1 DEF fenceVars
  <2>2. active' = {x \in Request : entry'[x] = "running"}
    BY <1>4, <1>9 DEF PipelineInv, StepsAccounted, Accounted
  <2>3. loop' = "done" => \A x \in Request : entry'[x] \notin {"queued", "running"}
    BY <1>3, <1>4, <1>5, <2>2, DrainedFacts
  <2>4. QED
    BY <1>9, <2>1, <2>2, <2>3 DEF PipelineInv, StepsAccounted, Accounted
<1>12. ScanSeesNoFailure'
  BY <1>4 DEF ScanSeesNoFailure
<1>13. QED
  BY <1>2, <1>7, <1>8, <1>10, <1>11, <1>12 DEF PipelineInv, FenceInv, StepsAccounted

\* The scan starts a queued step whose dependencies were promoted.
LEMMA StartKeeps == ASSUME PipelineInv, ScanStarts PROVE PipelineInv'
<1> DEFINE x == order[k]
<1>1. x \in Request /\ entry[x] = "queued" /\ \A y \in DependsOn[x] : entry[y] = "promoted"
  <2>1. k \in Nat /\ k # 0 /\ k <= Len(order) /\ order \in Seq(Request)
    BY DEF ScanStarts, Scanning, PipelineInv, PipeTypeOK, StopInv
  <2>2. x \in Request
    BY <2>1
  <2>3. QED
    BY <2>2 DEF ScanStarts, Scanning, MayStart
<1>2. /\ entry' = [entry EXCEPT ![x] = "running"] /\ active' = active \cup {x}
      /\ k' = k + 1 /\ UNCHANGED <<order, loop, cancelled, quiesced>> /\ loop = "scan"
  BY DEF ScanStarts
<1>3. FenceInv /\ Speculate(x)
  BY DEF PipelineInv, FenceInv, PipeTypeOK, ScanStarts
<1>4. FenceInv'
  BY <1>1, <1>3, SpeculateKeeps
<1>5. \A y \in Request : call[y] = "promoted" => call'[y] = "promoted"
  BY <1>1, <1>3 DEF Speculate, Dispatched, Refused, FenceInv, FenceTypeOK
<1>6. PipeTypeOK'
  BY <1>1, <1>2, <1>4 DEF PipelineInv, FenceInv, PipeTypeOK
<1>7. StopInv'
  BY <1>1, <1>2 DEF PipelineInv, PipeTypeOK, StopInv
<1>8. StepsAccounted'
  BY <1>1, <1>2, <1>5, PipelineAssumption
     DEF PipelineInv, PipeTypeOK, StepsAccounted, DependenciesFirst, Accounted, ScanSeesNoFailure
<1>9. QED
  BY <1>4, <1>6, <1>7, <1>8 DEF PipelineInv, FenceInv

\* A speculation the loop waited for has settled.
LEMMA AwaitedKeeps ==
    ASSUME PipelineInv, NEW x \in Request, StepPromotes(x) \/ StepFails(x)
    PROVE  PipelineInv'
<1>1. FenceInv /\ UNCHANGED fenceVars
  BY DEF PipelineInv, FenceInv, PipeTypeOK, StepPromotes, StepFails
<1>2. FenceInv'
  BY <1>1, FenceUntouched
<1>3. entry \in [Request -> StepState] /\ entry[x] = "running"
  BY DEF PipelineInv, PipeTypeOK, StepState, StepsAccounted, Accounted, StepPromotes, StepFails
<1>4. CASE StepPromotes(x)
  <2>1. PipeTypeOK' /\ StopInv'
    BY <1>2, <1>3, <1>4 DEF StepPromotes, PipelineInv, FenceInv, PipeTypeOK, StopInv, StepState
  <2>2. StepsAccounted'
    BY <1>1, <1>3, <1>4, PipelineAssumption
       DEF StepPromotes, PipelineInv, PipeTypeOK, StepsAccounted, DependenciesFirst, Accounted, ScanSeesNoFailure, fenceVars, StepState
  <2>3. QED
    BY <1>2, <2>1, <2>2 DEF PipelineInv, FenceInv
<1>5. CASE StepFails(x)
  <2>1. entry' = [Drained EXCEPT ![x] = "discarded"] /\ quiesced' # "no" /\ loop' = "top"
        /\ active' = active \ {x} /\ UNCHANGED <<order, k, cancelled>>
    BY <1>5 DEF StepFails, Quiesce
  <2>2. quiesced' \in {"no", "duration_cap", "cycle_detected", "step_failed"}
    BY <1>5 DEF StepFails, Quiesce, PipelineInv, PipeTypeOK
  <2>3. \A y \in Request : /\ entry'[y] # "queued"
                           /\ entry'[y] = "running" <=> entry[y] = "running" /\ y # x
                           /\ entry'[y] = "promoted" <=> entry[y] = "promoted"
    BY <1>3, <2>1, DrainedFacts
  <2>4. entry' \in [Request -> StepState]
    BY <1>3, <2>1, DrainedFacts DEF StepState
  <2>5. PipeTypeOK'
    BY <1>2, <2>1, <2>2, <2>4 DEF PipelineInv, FenceInv, PipeTypeOK, StepState
  <2>6. StopInv'
    BY <2>1, <2>3 DEF PipelineInv, StopInv
  <2>7. StepsAccounted'
    BY <1>1, <2>1, <2>3, PipelineAssumption
       DEF PipelineInv, StepsAccounted, DependenciesFirst, Accounted, ScanSeesNoFailure, fenceVars
  <2>8. QED
    BY <1>2, <2>5, <2>6, <2>7 DEF PipelineInv, FenceInv
<1>6. QED
  BY <1>4, <1>5

\* What happens at the fence between two turns.
LEMMA OutsideKeeps ==
    ASSUME PipelineInv, NEW x \in Request, Outside(x)
    PROVE  PipelineInv'
<1>1. FenceInv /\ FenceStep(x) /\ UNCHANGED <<order, entry, active, loop, k, cancelled, quiesced>>
  BY DEF PipelineInv, FenceInv, PipeTypeOK, Outside, queueVars
<1>2. FenceInv' /\ \A y \in Request : call[y] = "promoted" => call'[y] = "promoted"
  BY <1>1, FenceKeeps
<1>3. PipeTypeOK' /\ StopInv'
  BY <1>1, <1>2 DEF PipelineInv, FenceInv, PipeTypeOK, StopInv
<1>4. StepsAccounted'
  BY <1>1, <1>2 DEF PipelineInv, StepsAccounted, DependenciesFirst, Accounted, ScanSeesNoFailure
<1>5. QED
  BY <1>2, <1>3, <1>4 DEF PipelineInv, FenceInv

LEMMA PipelineNext == PipelineInv /\ [PipeNext]_pipelineVars => PipelineInv'
<1> SUFFICES ASSUME PipelineInv, [PipeNext]_pipelineVars PROVE PipelineInv'
  OBVIOUS
<1>1. CASE UNCHANGED pipelineVars
  BY <1>1 DEF pipelineVars, fenceVars, queueVars, PipelineInv, PipeTypeOK, FenceTypeOK, BudgetKept, Pending, OnlyPermittedAtWork,
              StopInv, StepsAccounted, DependenciesFirst, Accounted, ScanSeesNoFailure
<1>2. CASE Cancel \/ Run \/ TurnScans \/ ScanPasses \/ \E x \in Request : Enqueue(x)
  BY <1>2, QuietSteps
<1>3. CASE TurnStopped \/ OverTime \/ ScanEnds
  BY <1>3, TurnStops
<1>4. CASE ScanStarts
  BY <1>4, StartKeeps
<1>5. CASE \E x \in Request : StepPromotes(x) \/ StepFails(x)
  BY <1>5, AwaitedKeeps
<1>6. CASE \E x \in Request : Outside(x)
  BY <1>6, OutsideKeeps
<1>7. QED
  BY <1>1, <1>2, <1>3, <1>4, <1>5, <1>6 DEF PipeNext, Turn

LEMMA PipelineKept == PipeSpec => []PipelineInv
  BY PipelineInit, PipelineNext, PTL DEF PipeSpec

\* However the dispatches of a queue end, the fence counts them: no slot is leaked or given
\* back twice, neither cap is passed, and only what is permitted is at work
\* (effect-fenced-speculation.ts:105-138).
THEOREM FenceAlwaysHolds == PipeSpec => []FenceHolds
<1>1. PipelineInv => FenceHolds
  BY DEF PipelineInv, FenceHolds
<1>2. QED
  BY <1>1, PipelineKept, PTL

\* A step of the queue starts after the steps it depends on were promoted, a scan never
\* comes upon a failure, and at the end of a run every step is promoted or discarded
\* (speculative-pipeline.ts:105-149).
THEOREM QueueIsAccounted == PipeSpec => []StepsAccounted
<1>1. PipelineInv => StepsAccounted
  BY DEF PipelineInv
<1>2. QED
  BY <1>1, PipelineKept, PTL

\* A pipeline that was cancelled or has quiesced starts no further step
\* (speculative-pipeline.ts:97-110).
THEOREM StoppedStartsNothing == PipeSpec => NothingStartsOnceStopped
<1> DEFINE StartsNothing == cancelled \/ quiesced # "no" =>
                              \A x \in Request : entry'[x] = "running" => entry[x] = "running"
<1>1. PipelineInv /\ [PipeNext]_pipelineVars => [StartsNothing]_pipelineVars
  <2> SUFFICES ASSUME PipelineInv, PipeNext, cancelled \/ quiesced # "no",
                      NEW x \in Request, entry'[x] = "running"
               PROVE  entry[x] = "running"
    OBVIOUS
  <2>1. entry \in [Request -> StepState]
    BY DEF PipelineInv, PipeTypeOK, StepState
  <2>2. CASE ScanStarts
    BY <2>2 DEF ScanStarts, PipelineInv, StopInv
  <2>3. CASE Turn /\ ~ ScanStarts
    BY <2>1, <2>3, DrainedFacts DEF Turn, TurnStopped, OverTime, TurnScans, ScanPasses, ScanEnds
  <2>4. CASE Cancel \/ Run \/ \E y \in Request : Enqueue(y) \/ Outside(y)
    BY <2>1, <2>4 DEF Cancel, Run, Enqueue, Outside, queueVars
  <2>5. CASE \E y \in Request : StepPromotes(y) \/ StepFails(y)
    BY <2>1, <2>5, DrainedFacts DEF StepPromotes, StepFails, StepState
  <2>6. QED
    BY <2>2, <2>3, <2>4, <2>5 DEF PipeNext
<1>2. PipeSpec => [][StartsNothing]_pipelineVars
  BY <1>1, PipelineKept, PTL DEF PipeSpec
<1>3. QED
  BY <1>2 DEF NothingStartsOnceStopped
=============================================================================
