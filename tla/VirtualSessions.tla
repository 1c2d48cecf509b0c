--------------------------- MODULE VirtualSessions ---------------------------
(***************************************************************************)
(* VirtualSessionManager (packages/session/src/index.ts): live browser     *)
(* contexts, the shadows cloned from them, and the promotion of a shadow   *)
(* to its live session's context.                                          *)
(*                                                                         *)
(* A method runs without interruption up to its next await on the adapter, *)
(* so a call is split there and other calls may come in between.  The id   *)
(* of a session is the caller's or a random one, and nothing keeps two     *)
(* sessions from having the same: the map then holds the later one.  So a  *)
(* session is told from another by its StoredSession, never by its id, and *)
(* a context is named by the session it was created for.  The adapter is   *)
(* the host's: it may reject anything, and promotes only one open context  *)
(* over another, at the epoch it was told.                                 *)
(***************************************************************************)
EXTENDS Naturals, FiniteSets, TLC

CONSTANTS
    Stored,       \* the StoredSession objects that may be made
    Id,           \* the session ids
    Call,         \* as many calls as may be under way at once
    None,
    MaxSessions,  \* options.maxSessions
    MaxEpoch      \* bound on the navigations explored

ASSUME SessionsAssumption ==
    /\ None \notin Stored \cup Id
    /\ MaxSessions \in Nat \ {0}
    /\ IsFiniteSet(Call) /\ Call # {}
    /\ MaxEpoch \in Nat

VARIABLES
    width,    \* how many calls this host has under way at once; 1: it awaits each
    session,  \* session[i]: what StoredSession i says, its id included
    held,     \* the sessions that the manager's map holds, each under its id
    replaced, \* history: those that gave way to another session of their id
    page,     \* the contexts open in the browser, each with the epoch of the live
              \* document whose storage it holds
    failed,   \* the sessions with a cleanup_failed event whose context is gone
    calls     \* calls[c]: what call c awaits

vars == <<width, session, held, replaced, page, failed, calls>>

Unused == [id |-> None, mode |-> "live", status |-> "unused", epoch |-> 0,
           context |-> None, base |-> None, baseEpoch |-> 0]
NoCall == [op |-> "idle", stored |-> None, live |-> None, context |-> None,
           new |-> None, at |-> 0, left |-> {}, closing |-> FALSE]

open == DOMAIN page
Showing(x, epoch) == [y \in open \cup {x} |-> IF y = x THEN epoch ELSE page[y]]
Without(x) == [y \in open \ {x} |-> page[y]]

Init == /\ width \in 1 .. Cardinality(Call)
        /\ session = [i \in Stored |-> Unused]
        /\ held = {} /\ replaced = {}
        /\ page = <<>>
        /\ failed = {}
        /\ calls = [c \in Call |-> NoCall]

\* requireActive
IsActive(i) == i \in held /\ session[i].status = "active"

\* sessions.get(id), as a set of at most one
Under(n) == {i \in held : session[i].id = n}
\* Mutants of HasRoom: an off-by-one, and no check at all.
HasRoomForOneMore == Cardinality(held) <= MaxSessions
AlwaysRoom == TRUE

HasRoom == Cardinality(held) < MaxSessions

\* A StoredSession that is yet to be made, as each is by the call that stores it.
Fresh(i) == session[i].status = "unused" /\ \A c \in Call : calls[c].stored # i

\* sessions.set(id, { ref, context, ... })
Store(i, s) ==
    /\ session' = [session EXCEPT ![i] = s]
    /\ held' = (held \ Under(s.id)) \cup {i}
    /\ replaced' = replaced \cup Under(s.id)

\* closeAll goes from one cleanup to the next within one turn of the event loop.
InTurn == \A c \in Call : calls[c].op # "closing"
MayCall == InTurn /\ Cardinality({c \in Call : calls[c].op # "idle"}) < width
Idle(c) == MayCall /\ calls[c].op = "idle"
Awaits(c, op) == InTurn /\ calls[c].op = op

Awaiting(c, r) == calls' = [calls EXCEPT ![c] = r]

\* cleanup, up to its await.  The operation it is named by (discard, crash, promotion)
\* decides only which word for the end the session and its event carry.
Cleanup(c, i, left, closing) ==
    Awaiting(c, [NoCall EXCEPT !.op = "cleanup", !.stored = i,
                            !.context = session[i].context,
                            !.left = left, !.closing = closing])

NextEpoch(epoch) == epoch + 1

-----------------------------------------------------------------------------
(* openLive and cloneShadow. *)

OpenLive(c, i) ==
    /\ Idle(c) /\ Fresh(i) /\ HasRoom
    /\ Awaiting(c, [NoCall EXCEPT !.op = "open", !.stored = i])
    /\ UNCHANGED <<width, session, held, replaced, page, failed>>

Opened(c) ==
    LET i == calls[c].stored IN
    /\ Awaits(c, "open")
    /\ \E n \in Id : Store(i,
           [id |-> n, mode |-> "live", status |-> "active", epoch |-> 0, context |-> i,
            base |-> None, baseEpoch |-> 0])
    /\ page' = Showing(i, 0)
    /\ Awaiting(c, NoCall)
    /\ UNCHANGED <<width, failed>>

CloneShadow(c, i, live) ==
    /\ Idle(c) /\ Fresh(i) /\ IsActive(live) /\ session[live].mode = "live" /\ HasRoom
    /\ Awaiting(c, [NoCall EXCEPT !.op = "capture", !.stored = i, !.live = live,
                               !.context = session[live].context])
    /\ UNCHANGED <<width, session, held, replaced, page, failed>>

Captured(c) ==
    /\ Awaits(c, "capture") /\ calls[c].context \in open
    /\ Awaiting(c, [calls[c] EXCEPT !.op = "clone", !.at = page[calls[c].context]])
    /\ UNCHANGED <<width, session, held, replaced, page, failed>>

\* The source epoch is read here, after both awaits.  base is the session that was
\* cloned; base_live_id is the id it has.
Cloned(c) ==
    LET i == calls[c].stored
        live == calls[c].live
    IN
    /\ Awaits(c, "clone")
    /\ \E n \in Id : Store(i,
           [id |-> n, mode |-> "shadow", status |-> "active", epoch |-> session[live].epoch,
            context |-> i, base |-> live, baseEpoch |-> session[live].epoch])
    /\ page' = Showing(i, calls[c].at)
    /\ Awaiting(c, NoCall)
    /\ UNCHANGED <<width, failed>>

\* The adapter rejects: the method throws and nothing was stored.
AdapterFails(c) ==
    /\ Awaits(c, "open") \/ Awaits(c, "capture") \/ Awaits(c, "clone")
    /\ Awaiting(c, NoCall)
    /\ UNCHANGED <<width, session, held, replaced, page, failed>>

-----------------------------------------------------------------------------
(* advanceEpoch and promote. *)

AdvanceEpoch(i) ==
    /\ MayCall /\ IsActive(i) /\ session[i].epoch < MaxEpoch
    /\ session' = [session EXCEPT ![i].epoch = NextEpoch(@)]
    /\ page' = IF session[i].mode = "live" /\ session[i].context \in open
               THEN Showing(session[i].context, NextEpoch(session[i].epoch))
               ELSE page
    /\ UNCHANGED <<width, held, replaced, failed, calls>>

\* requireActive(shadow.base_live_id): whichever session has that id by now.
Promotable(i, live) ==
    /\ IsActive(i) /\ session[i].mode = "shadow"
    /\ IsActive(live) /\ live \in Under(session[session[i].base].id)

\* Mutant: the epochs are not compared.
AnyEpoch(i, live) == TRUE
AtSource(i, live) == session[live].epoch = session[i].baseEpoch

Promote(c, i, live) ==
    /\ Idle(c) /\ Promotable(i, live) /\ AtSource(i, live)
    /\ Awaiting(c, [NoCall EXCEPT !.op = "promote", !.stored = i, !.live = live,
                               !.context = session[live].context,
                               !.new = session[i].context, !.at = session[live].epoch])
    /\ UNCHANGED <<width, session, held, replaced, page, failed>>

\* promotion_rejected, stale_context
PromoteStale(c, i, live) ==
    /\ Idle(c) /\ Promotable(i, live) /\ ~ AtSource(i, live)
    /\ Cleanup(c, i, {}, FALSE)
    /\ UNCHANGED <<width, session, held, replaced, page, failed>>

Promoted(c) ==
    LET i == calls[c].stored
        live == calls[c].live
        new == calls[c].new
    IN
    /\ Awaits(c, "promote")
    /\ {calls[c].context, new} \subseteq open /\ calls[c].context # new
    /\ calls[c].at = session[live].epoch
    /\ session' = [session EXCEPT ![live].context = new, ![live].epoch = NextEpoch(@),
                                  ![i].status = "promoted"]
    /\ page' = [x \in open \ {calls[c].context} |->
                  IF x = new THEN NextEpoch(session[live].epoch) ELSE page[x]]
    /\ Awaiting(c, NoCall)
    /\ UNCHANGED <<width, held, replaced, failed>>

PromoteFails(c) ==
    /\ Awaits(c, "promote")
    /\ Cleanup(c, calls[c].stored, {}, FALSE)
    /\ UNCHANGED <<width, session, held, replaced, page, failed>>

-----------------------------------------------------------------------------
(* discard, crash, evictInactive and closeAll. *)

DiscardOrCrash(c, i) ==
    /\ Idle(c) /\ IsActive(i)
    /\ Cleanup(c, i, {}, FALSE)
    /\ UNCHANGED <<width, session, held, replaced, page, failed>>

AfterCleanup(c) ==
    Awaiting(c, IF calls[c].closing
             THEN [NoCall EXCEPT !.op = "closing", !.left = calls[c].left]
             ELSE NoCall)

\* The status after a cleanup.  Mutant: none is set.
StillActive == "active"
Ended == "ended"

Disposed(c) ==
    /\ Awaits(c, "cleanup")
    /\ session' = [session EXCEPT ![calls[c].stored].status = Ended]
    /\ page' = Without(calls[c].context)
    /\ AfterCleanup(c)
    /\ UNCHANGED <<width, held, replaced, failed>>

\* cleanup_failed: the session stays active, whether or not its context is gone.
DisposeFails(c) ==
    /\ Awaits(c, "cleanup")
    /\ \/ UNCHANGED <<page, failed>>
       \/ /\ page' = Without(calls[c].context)
          /\ failed' = failed \cup {calls[c].stored}
    /\ AfterCleanup(c)
    /\ UNCHANGED <<width, session, held, replaced>>

\* What evictInactive leaves.  Mutant: nothing.
KeptNone == {}
Kept == {i \in held : session[i].status = "active"}

EvictInactive ==
    /\ MayCall
    /\ held' = Kept
    /\ UNCHANGED <<width, session, replaced, page, failed, calls>>

CloseAll(c) ==
    /\ Idle(c)
    /\ Awaiting(c, [NoCall EXCEPT !.op = "closing", !.left = {i \in held : IsActive(i)}])
    /\ UNCHANGED <<width, session, held, replaced, page, failed>>

CloseNext(c) ==
    /\ calls[c].op = "closing"
    /\ \E i \in calls[c].left : Cleanup(c, i, calls[c].left \ {i}, TRUE)
    /\ UNCHANGED <<width, session, held, replaced, page, failed>>

CloseDone(c) ==
    /\ calls[c].op = "closing" /\ calls[c].left = {}
    /\ held' = Kept
    /\ Awaiting(c, NoCall)
    /\ UNCHANGED <<width, session, replaced, page, failed>>

Next ==
    \/ \E c \in Call :
         \/ Opened(c) \/ Captured(c) \/ Cloned(c) \/ AdapterFails(c)
         \/ Promoted(c) \/ PromoteFails(c) \/ Disposed(c) \/ DisposeFails(c)
         \/ CloseAll(c) \/ CloseNext(c) \/ CloseDone(c)
         \/ \E i \in Stored :
              \/ OpenLive(c, i) \/ DiscardOrCrash(c, i)
              \/ \E live \in Stored :
                   CloneShadow(c, i, live) \/ Promote(c, i, live) \/ PromoteStale(c, i, live)
    \/ \E i \in Stored : AdvanceEpoch(i)
    \/ EvictInactive

Spec == Init /\ [][Next]_vars

-----------------------------------------------------------------------------
(* Properties. *)

TypeOK ==
    /\ width \in 1 .. Cardinality(Call)
    /\ session \in [Stored -> [id : Id \cup {None}, mode : {"live", "shadow"},
                               status : {"unused", "active", "promoted", "ended"},
                               epoch : Nat, context : Stored \cup {None},
                               base : Stored \cup {None}, baseEpoch : Nat]]
    /\ held \subseteq Stored /\ replaced \subseteq Stored
    /\ open \subseteq Stored /\ failed \subseteq Stored
    /\ page \in [open -> Nat]
    /\ calls \in [Call -> [op : {"idle", "open", "capture", "clone", "promote",
                                 "cleanup", "closing"},
                           stored : Stored \cup {None}, live : Stored \cup {None},
                           context : Stored \cup {None}, new : Stored \cup {None},
                           at : Nat, left : SUBSET Stored, closing : BOOLEAN]]

\* index.ts:78: maxSessions is a hard cap across active and terminal refs.  Calls
\* that overlap pass the check of openLive and cloneShadow together, and exceed it
\* by no more than the calls that may be under way.
CapWithinCalls == Cardinality(held) <= MaxSessions + width - 1

\* Active sessions are never evicted (index.ts:192-195): one that owns a context
\* can be found in the map and cleaned up, until another is stored under its id
\* (index.ts:118, 130), and however calls overlap.
ActiveIsHeld ==
    \A i \in Stored : session[i].status = "active" => i \in held \cup replaced

\* An active session can be used as long as calls do not overlap, whatever ids they
\* give: its context is open, unless a cleanup that was reported as failed closed it.
ActiveIsOpen ==
    width = 1 => \A i \in Stored \ failed :
                    session[i].status = "active" => session[i].context \in open

\* However calls overlap and whatever ids they give, a session that is active is in the
\* manager's map unless another took its id and, where each call is awaited, its context is
\* open; and no more are held than the cap and the calls under way allow (index.ts:78,
\* 192-195, 207-213).
ActiveIsUsable == ActiveIsHeld /\ ActiveIsOpen /\ CapWithinCalls

\* No context leaks as long as calls do not overlap: one that is open belongs to a
\* session that is active, and that will be cleaned up (index.ts:207-213) unless another
\* took its id.
NoLeak ==
    width = 1 => \A x \in open : \E i \in held \cup replaced :
                    session[i].status = "active" /\ session[i].context = x

\* README.md:3-7: a shadow is promoted only when the live context is still at its source
\* epoch, so no navigation is lost with the context it replaces.  It holds of a host that
\* awaits each call before the next, as long as the session it was cloned from is still the
\* one of its id and the shadow still has the context it was cloned into.
Promotes(i) == session[i].status = "active" /\ session'[i].status = "promoted"
SourceIsLive(i) == page[session[i].context] = session[session[i].base].epoch
IsOwn(i) == session[i].base \in held /\ session[i].context = i

AwaitedPromotesAtSource ==
    [][width = 1 => \A i \in Stored : Promotes(i) /\ IsOwn(i) => SourceIsLive(i)]_vars

\* What the code does not hold, each without one of these exceptions: of calls that overlap,
\* and of an id that is used again.
PromotedAtSource == [][\A i \in Stored : Promotes(i) /\ IsOwn(i) => SourceIsLive(i)]_vars
ActiveIsInMap == \A i \in Stored : session[i].status = "active" => i \in held
OpenIsInMap ==
    width = 1 => \A x \in open : \E i \in held :
                    session[i].status = "active" /\ session[i].context = x
PromotedIntoItsBase ==
    [][width = 1 => \A i \in Stored :
          Promotes(i) => session'[session[i].base].context = session[i].context]_vars

\* The sessions can be exchanged for one another, and so can their ids and the calls that
\* are under way.
Exchanges == Permutations(Stored) \cup Permutations(Id) \cup Permutations(Call)
=============================================================================
