---------------------------- MODULE ChromeBackend ----------------------------
(***************************************************************************)
(* LaunchingCdpBrowserBackend (packages/browser/src/cdp-backend.ts): it    *)
(* launches Chrome for the first page that is opened, and stops it when it *)
(* is closed.  Callers open pages, one of them closes the backend; every   *)
(* await lets another in between.  The launched processes are numbered, a  *)
(* process has the profile directory of its number.  A caller that finds   *)
(* the endpoint set does not wait.                                         *)
(***************************************************************************)
EXTENDS Naturals, Sequences, FiniteSets

CONSTANTS
    Openers,          \* the callers of openPage
    LaunchAttempts,   \* launchAttempts
    MaxLaunches,      \* bound on the processes
    Nobody            \* undefined

ASSUME BackendAssumption == LaunchAttempts \in Nat /\ MaxLaunches \in Nat /\ Nobody \notin Nat

VARIABLES
    backend,   \* [child, userDataDir, endpoint]: its fields, each the number of a process
    chromes,   \* the processes: "up", "told" to terminate, "gone"
    profiles,  \* the profile directories on disk
    opener,    \* [pc, attempt, child]: where each caller is, and whom it waits for
    closer,    \* [pc, child]: where close is
    overlap    \* whether a caller started while another one, or close, was at it

chromeVars == <<backend, chromes, profiles, opener, closer, overlap>>

ChromeInit ==
    /\ backend = [child |-> Nobody, userDataDir |-> Nobody, endpoint |-> Nobody]
    /\ chromes = <<>>
    /\ profiles = {}
    /\ opener = [o \in Openers |-> [pc |-> "idle", attempt |-> 1, child |-> Nobody]]
    /\ closer = [pc |-> "idle", child |-> Nobody]
    /\ overlap = FALSE

Busy(o) == opener[o].pc \in {"profile", "waiting", "stopping"}
Terminated(c) == chromes[c] = "gone"

-----------------------------------------------------------------------------
(* openPage. *)

Moves(o, pc) == opener' = [opener EXCEPT ![o].pc = pc]

\* ensureStarted returns at once when there is an endpoint.
Open(o) ==
    /\ opener[o].pc = "idle"
    /\ Moves(o, IF backend.endpoint # Nobody THEN "opened" ELSE "profile")
    /\ overlap' = (overlap \/ closer.pc # "idle" \/ \E other \in Openers : Busy(other))
    /\ UNCHANGED <<backend, chromes, profiles, closer>>

\* mkdtemp, then spawn: the fields are those of the latest launch.
Launch(o) ==
    /\ opener[o].pc = "profile" /\ Len(chromes) < MaxLaunches
    /\ LET c == Len(chromes) + 1
       IN  /\ chromes' = Append(chromes, "up")
           /\ profiles' = profiles \cup {c}
           /\ backend' = [backend EXCEPT !.child = c, !.userDataDir = c]
           /\ opener' = [opener EXCEPT ![o].pc = "waiting", ![o].child = c]
    /\ UNCHANGED <<closer, overlap>>

\* "DevTools listening" of the process waited for.
Listens(o) ==
    /\ opener[o].pc = "waiting" /\ chromes[opener[o].child] = "up"
    /\ backend' = [backend EXCEPT !.endpoint = opener[o].child]
    /\ Moves(o, "opened")
    /\ UNCHANGED <<chromes, profiles, closer, overlap>>

\* Mutant of GivesUp: the process that did not listen is left running.
GivesUpOnly(o) ==
    /\ opener[o].pc = "waiting"
    /\ backend' = [backend EXCEPT !.child = Nobody]
    /\ opener' = [opener EXCEPT ![o].pc = IF opener[o].attempt < LaunchAttempts THEN "profile" ELSE "failed",
                                ![o].attempt = @ + 1]
    /\ UNCHANGED <<chromes, profiles, closer, overlap>>

\* It timed out or exited: the child of the backend is stopped, which is another
\* one when somebody launched since, and none when close took it.
GivesUp(o) ==
    /\ opener[o].pc = "waiting"
    /\ IF backend.child = Nobody
       THEN Moves(o, "failed") /\ UNCHANGED chromes
       ELSE /\ chromes' = [chromes EXCEPT ![backend.child] = IF @ = "up" THEN "told" ELSE @]
            /\ opener' = [opener EXCEPT ![o].pc = "stopping", ![o].child = backend.child]
    /\ UNCHANGED <<backend, profiles, closer, overlap>>

Retries(o) ==
    /\ opener[o].pc = "stopping" /\ Terminated(opener[o].child)
    /\ backend' = [backend EXCEPT !.child = Nobody]
    /\ opener' = [opener EXCEPT ![o] = [pc |-> IF @.attempt < LaunchAttempts THEN "profile" ELSE "failed",
                                        attempt |-> @.attempt + 1, child |-> Nobody]]
    /\ UNCHANGED <<chromes, profiles, closer, overlap>>

-----------------------------------------------------------------------------
(* close, and the processes. *)

CloseBackend ==
    /\ closer.pc = "idle"
    /\ LET c == backend.child
       IN  /\ chromes' = IF c = Nobody THEN chromes ELSE [chromes EXCEPT ![c] = IF @ = "up" THEN "told" ELSE @]
           /\ closer' = [pc |-> "stopping", child |-> c]
    /\ backend' = [backend EXCEPT !.child = Nobody]
    /\ overlap' = (overlap \/ \E o \in Openers : Busy(o))
    /\ UNCHANGED <<profiles, opener>>

\* The profile is removed after the process has ended; the fields are read then.
Removes ==
    /\ closer.pc = "stopping" /\ (closer.child # Nobody => Terminated(closer.child))
    /\ profiles' = profiles \ {backend.userDataDir}
    /\ backend' = [backend EXCEPT !.userDataDir = Nobody, !.endpoint = Nobody]
    /\ closer' = [closer EXCEPT !.pc = "closed"]
    /\ UNCHANGED <<chromes, opener, overlap>>

\* SIGTERM, and after two seconds SIGKILL, ends it; or it ends by itself.
Ends(c) ==
    /\ chromes[c] # "gone"
    /\ chromes' = [chromes EXCEPT ![c] = "gone"]
    /\ UNCHANGED <<backend, profiles, opener, closer, overlap>>

Launches(o) == Open(o) \/ Launch(o) \/ Listens(o) \/ GivesUp(o) \/ Retries(o)
ChromeNext == \/ \E o \in Openers : Launches(o)
              \/ CloseBackend \/ Removes
              \/ \E c \in DOMAIN chromes : Ends(c)
ChromeSpec == ChromeInit /\ [][ChromeNext]_chromeVars

-----------------------------------------------------------------------------

Closed == closer.pc = "closed"
\* A backend that was closed when no caller was still opening it, and that no
\* two had been opening at a time, has
\* left no process running, whatever attempts it took; at most the profiles of
\* the attempts that failed stay on disk.
ClosedMeansStopped ==
    Closed /\ ~ overlap =>
        /\ \A c \in DOMAIN chromes : Terminated(c)
        /\ Cardinality(profiles) < Len(chromes) \/ chromes = <<>>
=============================================================================
