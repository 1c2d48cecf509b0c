--------------------------- MODULE CheckpointStore ---------------------------
(***************************************************************************)
(* FileCheckpointStore (packages/continuation/src/checkpoint-store.ts) and *)
(* the recovery rule of parseJsonl (packages/core/src/serialize): one      *)
(* append-only file of JSON lines per task.                                *)
(*                                                                         *)
(* `append` is three I/O steps with an await between each: it reads the    *)
(* log and checks the sequence number, reads the file again to see whether *)
(* its last byte is a newline, and writes.  A process may die at any of    *)
(* them, and a write cut short leaves a prefix of what was being written.  *)
(***************************************************************************)
EXTENDS Naturals, Sequences

CONSTANTS
    Session,    \* the processes that continue one task, each used once
    Body,       \* what a checkpoint carries besides its sequence number
    NoBody,
    Careless,   \* the sessions that are started whoever is at work
    MaxSeq      \* bound on the sequence numbers explored

ASSUME StoreAssumption ==
    /\ NoBody \notin Body
    /\ Careless \subseteq Session
    /\ MaxSeq \in Nat

Line == [kind : {"record", "torn", "garbled"}, seq : Nat, body : Body \cup {NoBody}]
RecordOf(n, b) == [kind |-> "record", seq |-> n, body |-> b]
\* A proper prefix of a record, as isTruncatedJson recognises it.  It refuses one cut inside
\* the four digits of a \uXXXX (json-prefix.ts:25-45): the log then raises, as over Garbled.
\* JSON.stringify writes these only for control characters and lone surrogates, and that cut
\* is left out.
Torn == [kind |-> "torn", seq |-> 0, body |-> NoBody]
Garbled == [kind |-> "garbled", seq |-> 0, body |-> NoBody]

VARIABLES
    lines,  \* the non-blank lines of the file
    cut,    \* TRUE when the last line has no newline
    io      \* io[s]: where session s is in its use of the store

storeVars == <<lines, cut, io>>

Unopened == [phase |-> "unopened", next |-> 0, body |-> NoBody, newline |-> FALSE]

StoreInit == /\ lines = <<>>
             /\ cut = FALSE
             /\ io = [s \in Session |-> Unopened]

Records == {i \in 1 .. Len(lines) : lines[i].kind = "record"}

\* readAll drops torn fragments wherever they are and throws on anything else
\* that does not parse.
Readable == \A i \in 1 .. Len(lines) : lines[i].kind # "garbled"

IsLast(i) == i \in Records /\ \A j \in Records : j <= i
Latest == lines[CHOOSE i \in 1 .. Len(lines) : IsLast(i)]
\* Mutants of NextSeq: `latest?.seq ?? -1` without the + 1, from -1 and from 0.
NextSeqFromMinusOne == IF Records = {} THEN 0 - 1 ELSE Latest.seq
NextSeqRepeats == IF Records = {} THEN 0 ELSE Latest.seq

NextSeq == IF Records = {} THEN 0 ELSE Latest.seq + 1

AtWork(s) == io[s].phase \notin {"unopened", "over"}

\* The file after a write that starts with a newline iff `newline`.  Without
\* one, on a last line that has none either, the two run together: the result
\* is not a prefix of a record, unless the fragment ended where a value was due.
Glued(line) == IF line.kind = "torn" THEN {Torn, Garbled} ELSE {Garbled}

\* Mutant of Written: a last line without a newline is replaced.
WrittenOver(newline, line) ==
    IF cut THEN {Append(SubSeq(lines, 1, Len(lines) - 1), line)}
    ELSE {Append(lines, line)}

Written(newline, line) ==
    IF cut /\ ~ newline
    THEN {Append(SubSeq(lines, 1, Len(lines) - 1), g) : g \in Glued(lines[Len(lines)])}
    ELSE {Append(lines, line)}

-----------------------------------------------------------------------------

\* continueTask reads the latest record: the next one continues from it.  Nothing
\* in the code keeps two sessions apart; their callers may.
Open(s) ==
    /\ io[s].phase = "unopened"
    /\ s \notin Careless => \A t \in Session : ~ AtWork(t)
    /\ Readable
    /\ io' = [io EXCEPT ![s].phase = "open", ![s].next = NextSeq]
    /\ UNCHANGED <<lines, cut>>

\* A log with a line that is corrupt cannot be opened.
OpenThrows(s) ==
    /\ io[s].phase = "unopened" /\ ~ Readable
    /\ io' = [io EXCEPT ![s].phase = "over"]
    /\ UNCHANGED <<lines, cut>>

CallAppend(s, body) ==
    /\ io[s].phase = "open" /\ io[s].next <= MaxSeq
    /\ io' = [io EXCEPT ![s].phase = "called", ![s].body = body]
    /\ UNCHANGED <<lines, cut>>

CheckSeq(s) ==
    /\ io[s].phase = "called" /\ Readable /\ io[s].next = NextSeq
    /\ io' = [io EXCEPT ![s].phase = "checked"]
    /\ UNCHANGED <<lines, cut>>

\* CheckpointSequenceError, or the log became unreadable.
RefuseSeq(s) ==
    /\ io[s].phase = "called" /\ ~ (Readable /\ io[s].next = NextSeq)
    /\ io' = [io EXCEPT ![s].phase = "over"]
    /\ UNCHANGED <<lines, cut>>

\* Mutant: the end of the file is not looked at.
AssumesNewline == FALSE
EndsWithoutNewline == cut

LookAtEnd(s) ==
    /\ io[s].phase = "checked"
    /\ io' = [io EXCEPT ![s].phase = "ready", ![s].newline = EndsWithoutNewline]
    /\ UNCHANGED <<lines, cut>>

Write(s) ==
    /\ io[s].phase = "ready"
    /\ lines' \in Written(io[s].newline, RecordOf(io[s].next, io[s].body))
    /\ cut' = FALSE
    /\ io' = [io EXCEPT ![s].phase = "open", ![s].next = @ + 1]

\* What a write cut short leaves behind: a fragment, or the whole record
\* without its newline, or only the newline that was to come first.
Partial(s) ==
    \/ /\ lines' \in Written(io[s].newline, Torn)
                       \cup Written(io[s].newline, RecordOf(io[s].next, io[s].body))
       /\ cut' = TRUE
    \/ /\ io[s].newline
       /\ cut' = FALSE
       /\ UNCHANGED lines

\* The process dies, or the file system refuses, part of the way through.
WriteCut(s) ==
    /\ io[s].phase = "ready"
    /\ Partial(s) \/ UNCHANGED <<lines, cut>>
    /\ io' = [io EXCEPT ![s].phase = "over"]

Close(s) ==
    /\ AtWork(s)
    /\ io' = [io EXCEPT ![s].phase = "over"]
    /\ UNCHANGED <<lines, cut>>

\* Any client of the store that reads the latest record once and then counts.
StoreNext ==
    \E s \in Session :
        \/ Open(s) \/ OpenThrows(s) \/ CheckSeq(s) \/ RefuseSeq(s)
        \/ LookAtEnd(s) \/ Write(s) \/ WriteCut(s) \/ Close(s)
        \/ \E b \in Body : CallAppend(s, b)

StoreSpec == StoreInit /\ [][StoreNext]_storeVars

-----------------------------------------------------------------------------
(* Properties. *)

\* So far no two sessions of the task overlapped.
Undisturbed == \A s \in Careless : io[s].phase = "unopened"

StoreTypeOK ==
    /\ lines \in Seq(Line)
    /\ cut \in BOOLEAN
    /\ io \in [Session -> [phase : {"unopened", "open", "called", "checked", "ready", "over"},
                           next : Nat, body : Body \cup {NoBody}, newline : BOOLEAN]]

\* checkpoint-store.ts:59: "seq must be exactly latest+1 (or 0 for a new task)".
\* Each record of the log continues the one before it, whatever torn fragments
\* lie between the two.
Precedes(j, i) == /\ j < i
                  /\ \A k \in Records : k <= j \/ i <= k

WellSequenced ==
    \A i \in Records :
        \/ lines[i].seq = 0 /\ \A j \in Records : i <= j
        \/ \E j \in Records : Precedes(j, i) /\ lines[i].seq = lines[j].seq + 1

\* The same, as far as it holds: of a log whose sessions never overlapped.
AloneWellSequenced == Undisturbed => WellSequenced

\* checkpoint-store.ts:76-79: a line that does not parse is never made out of an
\* interrupted write and the next record, unless sessions overlap.
AloneReadable == Undisturbed => Readable

\* An interrupted write never hides what was recorded (checkpoint-store.ts:67):
\* a record, once it is on its line, is never changed.  Where sessions overlap
\* that is so from its newline on.
Whole(i) == i < Len(lines) \/ ~ cut

RecordsAreFinal ==
    [][\A i \in Records : Undisturbed' \/ Whole(i) =>
           i <= Len(lines') /\ lines'[i] = lines[i]]_storeVars

\* A session at work on the log and the log agree on what comes next.
InStep == \A s \in Session : AtWork(s) => io[s].next = NextSeq
=============================================================================
