----------------------- MODULE CheckpointStore_proofs -----------------------
(***************************************************************************)
(* What the checkpoint log guarantees for any sessions, any checkpoints    *)
(* and any number of them, as long as no two sessions of a task overlap,   *)
(* and what it guarantees when they do.                                    *)
(***************************************************************************)
EXTENDS CheckpointStore, WellFoundedInduction, TLAPS

\* A line left without its newline is a line: the writer that reads the last
\* byte of the file looks at something.
CutLine == cut => Len(lines) > 0

TypeInv == StoreTypeOK /\ CutLine

\* Every way a step can write the file: not at all, one more line, or the last
\* line run together with what was written.
LEMMA LinesAfterWrite ==
    ASSUME TypeInv, NEW s \in Session, NEW line \in Line, line.kind # "garbled",
           lines' \in Written(io[s].newline, line)
    PROVE  /\ lines' \in Seq(Line)
           /\ Len(lines') > 0
           /\ io[s].newline = cut => lines' = Append(lines, line)
<1>1. Torn \in Line /\ Garbled \in Line
  BY DEF Torn, Garbled, Line
<1>2. lines \in Seq(Line) /\ cut \in BOOLEAN
  BY DEF TypeInv, StoreTypeOK
<1>3. CASE cut /\ ~ io[s].newline
  <2>1. PICK g \in {Torn, Garbled} :
          lines' = Append(SubSeq(lines, 1, Len(lines) - 1), g)
    BY <1>3 DEF Written, Glued
  <2>2. SubSeq(lines, 1, Len(lines) - 1) \in Seq(Line)
    BY <1>2, <1>3 DEF TypeInv, CutLine
  <2>3. lines' \in Seq(Line) /\ Len(lines') > 0
    BY <1>1, <2>1, <2>2
  <2>4. ~ (io[s].newline = cut)
    BY <1>3
  <2>5. QED
    BY <2>3, <2>4
<1>4. CASE ~ (cut /\ ~ io[s].newline)
  <2>1. lines' = Append(lines, line)
    BY <1>4 DEF Written
  <2>2. QED
    BY <1>2, <2>1
<1>5. QED
  BY <1>3, <1>4

\* The record append is about to write is a line of the file (checkpoint-store.ts:66).
LEMMA RecordOfType ==
    ASSUME StoreTypeOK, NEW s \in Session
    PROVE  /\ RecordOf(io[s].next, io[s].body) \in Line
           /\ RecordOf(io[s].next, io[s].body).kind = "record"
           /\ RecordOf(io[s].next, io[s].body).seq = io[s].next
BY DEF RecordOf, Line, StoreTypeOK

-----------------------------------------------------------------------------
(* A log with a record has a last one. *)

\* A non-empty set of naturals has a least element: the library's induction principle,
\* for a relation that has a name.
LEMMA LeastOf ==
    ASSUME NEW R, IsWellFoundedOn(R, Nat), NEW T, T \subseteq Nat, T # {}
    PROVE  \E x \in T : \A y \in T : ~ (<<y, x>> \in R)
BY WFMin

\* A non-empty set of positions has a greatest one.
LEMMA GreatestOf ==
    ASSUME NEW n \in Nat, NEW S \in SUBSET (1 .. n), S # {}
    PROVE  \E i \in S : \A j \in S : j <= i
<1> DEFINE T == {n - i : i \in S}
           R == OpToRel(<, Nat)
<1>1. T \subseteq Nat
  <2>1. \A i \in S : n - i \in Nat
    OBVIOUS
  <2>2. QED
    BY <2>1
<1>2. T # {}
  OBVIOUS
<1>3. IsWellFoundedOn(R, Nat)
  BY NatLessThanWellFounded
<1>4. \A y, x \in Nat : y < x => <<y, x>> \in R
  BY DEF OpToRel
<1> HIDE DEF R, T
<1>5. PICK x \in T : \A y \in T : ~ (<<y, x>> \in R)
  BY <1>1, <1>2, <1>3, LeastOf
<1>6. PICK i \in S : x = n - i
  BY DEF T
<1>7. \A j \in S : ~ (n - j < n - i)
  BY <1>1, <1>4, <1>5, <1>6 DEF T
<1>8. QED
  BY <1>7

\* A log with a record has a latest one, which latest() returns
\* (checkpoint-store.ts:32-35).
LEMMA LastRecord ==
    ASSUME StoreTypeOK, Records # {}
    PROVE  \E i \in 1 .. Len(lines) : IsLast(i)
<1>1. Len(lines) \in Nat /\ Records \in SUBSET (1 .. Len(lines))
  BY DEF StoreTypeOK, Records
<1>2. PICK i \in Records : \A j \in Records : j <= i
  BY <1>1, GreatestOf
<1>3. QED
  BY <1>1, <1>2 DEF IsLast

\* What the next sequence number is, without the CHOOSE.
NextSeqFacts ==
    /\ NextSeq \in Nat
    /\ Records = {} => NextSeq = 0
    /\ Records # {} => \E i \in 1 .. Len(lines) :
                          IsLast(i) /\ NextSeq = lines[i].seq + 1

\* The sequence number append expects is 0 in an empty log, else one more than the
\* latest record's (checkpoint-store.ts:62).
LEMMA NextSeqIs == StoreTypeOK => NextSeqFacts
<1> SUFFICES ASSUME StoreTypeOK PROVE NextSeqFacts
  OBVIOUS
<1> USE DEF NextSeqFacts
<1>1. CASE Records = {}
  BY <1>1 DEF NextSeq
<1>2. CASE Records # {}
  <2>1. \E i \in 1 .. Len(lines) : IsLast(i)
    BY <1>2, LastRecord
  <2>2. PICK i \in 1 .. Len(lines) : IsLast(i) /\ Latest = lines[i]
    BY <2>1 DEF Latest
  <2>3. lines[i] \in Line
    BY <2>2 DEF StoreTypeOK
  <2>4. lines[i].seq \in Nat
    BY <2>3 DEF Line
  <2>5. QED
    BY <1>2, <2>2, <2>4 DEF NextSeq
<1>3. QED
  BY <1>1, <1>2

\* The same of the log after a step.
LEMMA NextSeqIsThen == StoreTypeOK' => NextSeqFacts'
BY NextSeqIs, PTL

-----------------------------------------------------------------------------
(* Types, whether sessions overlap or not. *)

\* A task without a file has its types.
LEMMA TypeInit == StoreInit => TypeInv
<1> SUFFICES ASSUME StoreInit PROVE TypeInv
  OBVIOUS
<1>1. lines \in Seq(Line) /\ cut = FALSE
  BY DEF StoreInit
<1>2. Unopened \in [phase : {"unopened", "open", "called", "checked", "ready", "over"},
                    next : Nat, body : Body \cup {NoBody}, newline : BOOLEAN]
  BY DEF Unopened
<1>3. QED
  BY <1>1, <1>2 DEF StoreInit, TypeInv, StoreTypeOK, CutLine

\* Every I/O step of a session keeps the types, and the shape of the file.
LEMMA TypeNext == TypeInv /\ [StoreNext]_storeVars => TypeInv'
<1> SUFFICES ASSUME TypeInv, [StoreNext]_storeVars PROVE TypeInv'
  OBVIOUS
<1> USE DEF TypeInv, CutLine
<1>1. ASSUME NEW s \in Session, Open(s) PROVE TypeInv'
  <2>1. NextSeq \in Nat
    BY NextSeqIs DEF NextSeqFacts
  <2>2. QED
    BY <1>1, <2>1 DEF Open, StoreTypeOK
<1>2. ASSUME NEW s \in Session, OpenThrows(s) PROVE TypeInv'
  BY <1>2 DEF OpenThrows, StoreTypeOK
<1>3. ASSUME NEW s \in Session, NEW b \in Body, CallAppend(s, b) PROVE TypeInv'
  BY <1>3 DEF CallAppend, StoreTypeOK
<1>4. ASSUME NEW s \in Session, CheckSeq(s) PROVE TypeInv'
  BY <1>4 DEF CheckSeq, StoreTypeOK
<1>5. ASSUME NEW s \in Session, RefuseSeq(s) PROVE TypeInv'
  BY <1>5 DEF RefuseSeq, StoreTypeOK
<1>6. ASSUME NEW s \in Session, LookAtEnd(s) PROVE TypeInv'
  BY <1>6 DEF LookAtEnd, EndsWithoutNewline, StoreTypeOK
<1>7. ASSUME NEW s \in Session, Write(s) PROVE TypeInv'
  <2>1. lines' \in Seq(Line) /\ Len(lines') > 0
    BY <1>7, RecordOfType, LinesAfterWrite DEF Write
  <2>2. QED
    BY <1>7, <2>1 DEF Write, StoreTypeOK
<1>8. ASSUME NEW s \in Session, WriteCut(s) PROVE TypeInv'
  <2>1. lines' \in Seq(Line) /\ (cut' => Len(lines') > 0) /\ cut' \in BOOLEAN
    <3>1. CASE UNCHANGED <<lines, cut>>
      BY <3>1 DEF StoreTypeOK
    <3>2. CASE Partial(s)
      <4>1. Torn \in Line /\ Torn.kind # "garbled"
        BY DEF Torn, Line
      <4>2. CASE lines' \in Written(io[s].newline, Torn)
        BY <3>2, <4>1, <4>2, LinesAfterWrite DEF Partial, StoreTypeOK
      <4>3. CASE lines' \in Written(io[s].newline, RecordOf(io[s].next, io[s].body))
        BY <3>2, <4>3, RecordOfType, LinesAfterWrite DEF Partial, StoreTypeOK
      <4>4. CASE UNCHANGED lines /\ cut' = FALSE
        BY <4>4 DEF StoreTypeOK
      <4>5. QED
        BY <3>2, <4>2, <4>3, <4>4 DEF Partial
    <3>3. QED
      BY <1>8, <3>1, <3>2 DEF WriteCut
  <2>2. io' \in [Session -> [phase : {"unopened", "open", "called", "checked", "ready", "over"},
                             next : Nat, body : Body \cup {NoBody}, newline : BOOLEAN]]
    BY <1>8 DEF WriteCut, StoreTypeOK
  <2>3. QED
    BY <2>1, <2>2 DEF StoreTypeOK
<1>9. ASSUME NEW s \in Session, Close(s) PROVE TypeInv'
  BY <1>9 DEF Close, StoreTypeOK
<1>10. CASE UNCHANGED storeVars
  BY <1>10 DEF storeVars, StoreTypeOK
<1>11. QED
  BY <1>1, <1>2, <1>3, <1>4, <1>5, <1>6, <1>7, <1>8, <1>9, <1>10 DEF StoreNext

\* The variables keep their types, and the file its shape, whatever the
\* sessions do to each other (checkpoint-store.ts:31-79).
THEOREM StoreTypes == StoreSpec => []StoreTypeOK
<1>1. TypeInv => StoreTypeOK
  BY DEF TypeInv
<1>2. QED
  BY TypeInit, TypeNext, <1>1, PTL DEF StoreSpec
-----------------------------------------------------------------------------
(* One more line. *)

\* Appending a line leaves the lines before it, and the records among them, in place.
LEMMA OneMoreLine ==
    ASSUME StoreTypeOK, NEW line \in Line, lines' = Append(lines, line)
    PROVE  /\ Len(lines) \in Nat
           /\ Len(lines') = Len(lines) + 1
           /\ \A i \in 1 .. Len(lines) : lines'[i] = lines[i]
           /\ lines'[Len(lines) + 1] = line
           /\ Records \subseteq 1 .. Len(lines)
           /\ Records' = IF line.kind = "record"
                         THEN Records \cup {Len(lines) + 1} ELSE Records
<1>1. /\ Len(lines) \in Nat
      /\ Len(lines') = Len(lines) + 1
      /\ \A i \in 1 .. Len(lines) : lines'[i] = lines[i]
      /\ lines'[Len(lines) + 1] = line
  BY DEF StoreTypeOK
<1>2. 1 .. Len(lines') = (1 .. Len(lines)) \cup {Len(lines) + 1}
  BY <1>1
<1>3. QED
  BY <1>1, <1>2 DEF Records

\* A torn fragment changes nothing that is read.
LEMMA TornIsNothing ==
    ASSUME StoreTypeOK, StoreTypeOK', lines' = Append(lines, Torn)
    PROVE  /\ NextSeq' = NextSeq
           /\ Readable => Readable'
           /\ WellSequenced => WellSequenced'
<1>1. Torn \in Line /\ Torn.kind = "torn"
  BY DEF Torn, Line
<1>2. /\ Len(lines) \in Nat
      /\ Len(lines') = Len(lines) + 1
      /\ \A i \in 1 .. Len(lines) : lines'[i] = lines[i]
      /\ lines'[Len(lines) + 1] = Torn
      /\ Records \subseteq 1 .. Len(lines)
      /\ Records' = Records
  BY <1>1, OneMoreLine
<1>3. NextSeq' = NextSeq
  <2>1. CASE Records = {}
    BY <1>2, <2>1 DEF NextSeq
  <2>2. CASE Records # {}
    <3>1. PICK i \in 1 .. Len(lines) : IsLast(i) /\ NextSeq = lines[i].seq + 1
      BY <2>2, NextSeqIs DEF NextSeqFacts
    <3>2. PICK j \in 1 .. Len(lines') : IsLast(j)' /\ NextSeq' = lines'[j].seq + 1
      BY <1>2, <2>2, NextSeqIsThen DEF NextSeqFacts
    <3>3. i = j
      BY <1>2, <3>1, <3>2 DEF IsLast
    <3>4. QED
      BY <1>2, <3>1, <3>2, <3>3
  <2>3. QED
    BY <2>1, <2>2
<1>4. Readable => Readable'
  BY <1>1, <1>2 DEF Readable
<1>5. WellSequenced => WellSequenced'
  BY <1>2 DEF WellSequenced, Precedes
<1>6. QED
  BY <1>3, <1>4, <1>5

\* A record that carries the next sequence number continues the log.
LEMMA RecordContinues ==
    ASSUME StoreTypeOK, StoreTypeOK', NEW b \in Body \cup {NoBody},
           lines' = Append(lines, RecordOf(NextSeq, b))
    PROVE  /\ NextSeq' = NextSeq + 1
           /\ Readable => Readable'
           /\ WellSequenced => WellSequenced'
<1> DEFINE new == RecordOf(NextSeq, b)
           n == Len(lines) + 1
<1>1. NextSeq \in Nat
  BY NextSeqIs DEF NextSeqFacts
<1>2. new \in Line /\ new.kind = "record" /\ new.seq = NextSeq
  BY <1>1 DEF RecordOf, Line
<1>3. /\ Len(lines) \in Nat
      /\ Len(lines') = n
      /\ \A i \in 1 .. Len(lines) : lines'[i] = lines[i]
      /\ lines'[n] = new
      /\ Records \subseteq 1 .. Len(lines)
      /\ Records' = Records \cup {n}
  BY <1>2, OneMoreLine
<1> HIDE DEF new
<1>4. NextSeq' = NextSeq + 1
  <2>1. PICK j \in 1 .. Len(lines') : IsLast(j)' /\ NextSeq' = lines'[j].seq + 1
    BY <1>3, NextSeqIsThen DEF NextSeqFacts
  <2>2. j = n
    BY <1>3, <2>1 DEF IsLast
  <2>3. QED
    BY <1>2, <1>3, <2>1, <2>2
<1>5. Readable => Readable'
  BY <1>2, <1>3 DEF Readable
<1>6. ASSUME WellSequenced PROVE WellSequenced'
  <2>1. SUFFICES ASSUME NEW i \in Records'
                 PROVE  \/ lines'[i].seq = 0 /\ \A j \in Records' : i <= j
                        \/ \E j \in Records' : Precedes(j, i)' /\ lines'[i].seq = lines'[j].seq + 1
    BY DEF WellSequenced
  <2>2. CASE i \in Records
    BY <1>3, <1>6, <2>2 DEF WellSequenced, Precedes
  <2>3. CASE i = n /\ Records = {}
    BY <1>2, <1>3, <2>3, NextSeqIs DEF NextSeqFacts
  <2>4. CASE i = n /\ Records # {}
    <3>1. PICK j \in 1 .. Len(lines) : IsLast(j) /\ NextSeq = lines[j].seq + 1
      BY <2>4, NextSeqIs DEF NextSeqFacts
    <3>2. j \in Records' /\ Precedes(j, i)' /\ lines'[i].seq = lines'[j].seq + 1
      BY <1>2, <1>3, <2>4, <3>1 DEF IsLast, Precedes
    <3>3. QED
      BY <3>2
  <2>5. QED
    BY <1>3, <2>2, <2>3, <2>4
<1>7. QED
  BY <1>4, <1>5, <1>6

\* What the latest record carries.
LastBody == IF Records = {} THEN NoBody ELSE Latest.body

\* It is the body of the record after which there is none.
LastBodyFacts ==
    /\ Records = {} => LastBody = NoBody
    /\ Records # {} => \E i \in Records : IsLast(i) /\ LastBody = lines[i].body

LEMMA LastBodyIs == StoreTypeOK => LastBodyFacts
<1> SUFFICES ASSUME StoreTypeOK, Records # {} PROVE \E i \in Records : IsLast(i) /\ LastBody = lines[i].body
  BY DEF LastBodyFacts, LastBody
<1>1. \E i \in 1 .. Len(lines) : IsLast(i)
  BY LastRecord
<1>2. PICK i \in 1 .. Len(lines) : IsLast(i) /\ Latest = lines[i]
  BY <1>1 DEF Latest
<1>3. QED
  BY <1>2 DEF LastBody, IsLast

LEMMA LastBodyIsThen == StoreTypeOK' => LastBodyFacts'
BY LastBodyIs, PTL

\* After one more record, the latest one is that one; a torn fragment is not a record.
LEMMA LastBodyAfter ==
    ASSUME StoreTypeOK, StoreTypeOK', NEW line \in Line, lines' = Append(lines, line)
    PROVE  /\ line.kind = "record" => LastBody' = line.body
           /\ line.kind # "record" => LastBody' = LastBody
<1>1. /\ Len(lines) \in Nat
      /\ \A i \in 1 .. Len(lines) : lines'[i] = lines[i]
      /\ lines'[Len(lines) + 1] = line
      /\ Records \subseteq 1 .. Len(lines)
      /\ Records' = IF line.kind = "record" THEN Records \cup {Len(lines) + 1} ELSE Records
  BY OneMoreLine
<1>2. CASE line.kind = "record"
  <2>0. Records' = Records \cup {Len(lines) + 1}
    BY <1>1, <1>2
  <2>1. PICK i \in Records' : IsLast(i)' /\ LastBody' = lines'[i].body
    BY <2>0, LastBodyIsThen DEF LastBodyFacts
  <2>2. \A j \in Records' : j <= i
    BY <2>1 DEF IsLast
  <2>3. i = Len(lines) + 1
    BY <1>1, <2>0, <2>1, <2>2
  <2>4. QED
    BY <1>1, <1>2, <2>1, <2>3
<1>3. CASE line.kind # "record" /\ Records = {}
  BY <1>1, <1>3 DEF LastBody
<1>4. CASE line.kind # "record" /\ Records # {}
  <2>1. PICK i \in Records : IsLast(i) /\ LastBody = lines[i].body
    BY <1>4, LastBodyIs DEF LastBodyFacts
  <2>2. PICK j \in Records' : IsLast(j)' /\ LastBody' = lines'[j].body
    BY <1>1, <1>4, LastBodyIsThen DEF LastBodyFacts
  <2>3. i = j
    BY <1>1, <1>4, <2>1, <2>2 DEF IsLast
  <2>4. QED
    BY <1>1, <1>4, <2>1, <2>2, <2>3
<1>5. QED
  BY <1>2, <1>3, <1>4

-----------------------------------------------------------------------------
(* Sessions that do not overlap. *)

Alone == \A s, t \in Session : AtWork(s) /\ AtWork(t) => s = t
Looked == \A s \in Session : io[s].phase = "ready" => io[s].newline = cut

\* The inductive invariant: the log is what the theorem says, the one session
\* at work on it is in step with it, and has seen how the file ends.
LogInv ==
    /\ TypeInv
    /\ Alone
    /\ Looked
    /\ InStep
    /\ Readable
    /\ WellSequenced

\* A task without a file is in the invariant of a log used by one session at a time.
LEMMA LogInit == StoreInit => LogInv
<1> SUFFICES ASSUME StoreInit PROVE LogInv
  OBVIOUS
<1>1. \A s \in Session : io[s].phase = "unopened"
  BY DEF StoreInit, Unopened
<1>2. Alone /\ Looked /\ InStep
  BY <1>1 DEF Alone, Looked, InStep, AtWork
<1>3. Len(lines) = 0
  BY DEF StoreInit
<1>4. Readable /\ Records = {}
  BY <1>3 DEF Readable, Records
<1>5. WellSequenced
  BY <1>4 DEF WellSequenced
<1>6. QED
  BY <1>2, <1>4, <1>5, TypeInit DEF LogInv

\* A step that leaves the file as it is needs only keep its session in step.
LEMMA FileUntouched ==
    ASSUME LogInv, TypeInv', UNCHANGED <<lines, cut>>, Alone', Looked',
           \A s \in Session : AtWork(s)' => io[s].next' = NextSeq
    PROVE  LogInv'
<1>1. Readable' /\ WellSequenced' /\ NextSeq' = NextSeq
  BY DEF LogInv, Readable, WellSequenced, Precedes, Records, NextSeq, Latest, IsLast
<1>2. InStep'
  BY <1>1 DEF InStep
<1>3. QED
  BY <1>1, <1>2 DEF LogInv

\* The one session at work writes a record or a fragment after the last line.
LEMMA FileGrows ==
    ASSUME LogInv, TypeInv', NEW s \in Session, io[s].phase = "ready",
           \/ lines' = Append(lines, RecordOf(io[s].next, io[s].body))
           \/ lines' = Append(lines, Torn)
    PROVE  /\ Readable' /\ WellSequenced'
           /\ lines' = Append(lines, RecordOf(io[s].next, io[s].body))
                => NextSeq' = io[s].next + 1
<1>1. io[s].next = NextSeq /\ io[s].body \in Body \cup {NoBody}
  BY DEF LogInv, InStep, AtWork, TypeInv, StoreTypeOK
<1>2. CASE lines' = Append(lines, RecordOf(io[s].next, io[s].body))
  BY <1>1, <1>2, RecordContinues DEF LogInv, TypeInv
<1>3. CASE lines' = Append(lines, Torn) /\ lines' # Append(lines, RecordOf(io[s].next, io[s].body))
  BY <1>3, TornIsNothing DEF LogInv, TypeInv
<1>4. QED
  BY <1>2, <1>3

\* Having looked at the end of the file, a session never runs two lines together.
LEMMA NoGlue ==
    ASSUME LogInv, NEW s \in Session, io[s].phase = "ready"
    PROVE  /\ Write(s) => lines' = Append(lines, RecordOf(io[s].next, io[s].body))
           /\ Partial(s) => \/ lines' = Append(lines, RecordOf(io[s].next, io[s].body))
                            \/ lines' = Append(lines, Torn)
                            \/ UNCHANGED lines
<1>1. TypeInv /\ io[s].newline = cut
  BY DEF LogInv, Looked
<1>2. ~ (cut /\ ~ io[s].newline)
  BY <1>1
<1>3. QED
  BY <1>2 DEF Write, Partial, Written

\* What a session is in its use of the store.
IO == [phase : {"unopened", "open", "called", "checked", "ready", "over"},
       next : Nat, body : Body \cup {NoBody}, newline : BOOLEAN]

\* A session that was opened stays opened.
LEMMA OpenedForGood ==
    TypeInv /\ [StoreNext]_storeVars /\ Undisturbed' => Undisturbed
<1> SUFFICES ASSUME TypeInv, [StoreNext]_storeVars, NEW t \in Session,
                    io'[t].phase = "unopened"
             PROVE  io[t].phase = "unopened"
  BY StoreAssumption DEF StoreAssumption, Undisturbed
<1>1. io \in [Session -> IO]
  BY DEF TypeInv, StoreTypeOK, IO
<1>3. ASSUME NEW s \in Session, Open(s) \/ \E b \in Body : CallAppend(s, b)
      PROVE  io[t].phase = "unopened"
  BY <1>1, <1>3 DEF Open, CallAppend, IO
<1>4. ASSUME NEW s \in Session, OpenThrows(s) \/ CheckSeq(s) \/ RefuseSeq(s)
      PROVE  io[t].phase = "unopened"
  BY <1>1, <1>4 DEF OpenThrows, CheckSeq, RefuseSeq, IO
<1>5. ASSUME NEW s \in Session, LookAtEnd(s) \/ Write(s) \/ WriteCut(s) \/ Close(s)
      PROVE  io[t].phase = "unopened"
  BY <1>1, <1>5 DEF LookAtEnd, Write, WriteCut, Close, IO
<1>6. QED
  BY <1>3, <1>4, <1>5 DEF StoreNext, storeVars

\* Every I/O step of a session keeps that invariant.
LEMMA LogNext == LogInv /\ [StoreNext]_storeVars /\ Undisturbed' => LogInv'
<1> SUFFICES ASSUME LogInv, [StoreNext]_storeVars, Undisturbed' PROVE LogInv'
  OBVIOUS
<1>0. TypeInv /\ TypeInv'
  BY TypeNext DEF LogInv
<1> USE <1>0
<1>t. io \in [Session -> IO]
  BY DEF TypeInv, StoreTypeOK, IO
<1>1. ASSUME NEW s \in Session, Open(s) PROVE LogInv'
  <2>1. io' = [io EXCEPT ![s].phase = "open", ![s].next = NextSeq] /\ UNCHANGED <<lines, cut>>
    BY <1>1 DEF Open
  <2>2. \A t \in Session : ~ AtWork(t)
    <3>1. io'[s].phase = "open"
      BY <1>t, <2>1 DEF IO
    <3>2. s \notin Careless
      BY <3>1 DEF Undisturbed
    <3>3. QED
      BY <1>1, <3>2 DEF Open
  <2>3. \A t \in Session : AtWork(t)' => t = s /\ io'[t].next = NextSeq /\ io'[t].phase = "open"
    BY <1>t, <2>1, <2>2 DEF AtWork, IO
  <2>4. Alone' /\ Looked'
    BY <2>3 DEF Alone, Looked, AtWork
  <2>5. QED
    BY <2>1, <2>3, <2>4, FileUntouched
<1>2. ASSUME NEW s \in Session,
             \/ OpenThrows(s) \/ CheckSeq(s) \/ RefuseSeq(s) \/ LookAtEnd(s) \/ Close(s)
             \/ \E b \in Body : CallAppend(s, b)
      PROVE LogInv'
  <2>1. UNCHANGED <<lines, cut>>
    BY <1>2 DEF OpenThrows, CheckSeq, RefuseSeq, LookAtEnd, Close, CallAppend
  <2>2. \A t \in Session : /\ io'[t].next = io[t].next
                           /\ AtWork(t)' => AtWork(t)
                           /\ io'[t].phase = "ready" => io'[t].newline = cut
    <3>1. CASE LookAtEnd(s)
      BY <1>t, <3>1 DEF LookAtEnd, EndsWithoutNewline, AtWork, LogInv, Looked, IO
    <3>2. CASE ~ LookAtEnd(s)
      BY <1>t, <1>2, <3>2
         DEF OpenThrows, CheckSeq, RefuseSeq, Close, CallAppend, AtWork, LogInv, Looked, IO
    <3>3. QED
      BY <3>1, <3>2
  <2>3. Alone' /\ Looked'
    BY <2>1, <2>2 DEF LogInv, Alone, Looked
  <2>4. \A t \in Session : AtWork(t)' => io[t].next' = NextSeq
    BY <2>2 DEF LogInv, InStep
  <2>5. QED
    BY <2>1, <2>3, <2>4, FileUntouched
<1>3. ASSUME NEW s \in Session, Write(s) PROVE LogInv'
  <2>1. io[s].phase = "ready" /\ io' = [io EXCEPT ![s].phase = "open", ![s].next = @ + 1]
    BY <1>3 DEF Write
  <2>2. lines' = Append(lines, RecordOf(io[s].next, io[s].body))
    BY <1>3, <2>1, NoGlue
  <2>3. Readable' /\ WellSequenced' /\ NextSeq' = io[s].next + 1
    BY <2>1, <2>2, FileGrows
  <2>4. \A t \in Session : AtWork(t)' => t = s /\ io'[t].phase = "open"
    BY <1>t, <2>1 DEF LogInv, Alone, AtWork, IO
  <2>5. io'[s].next = io[s].next + 1
    BY <1>t, <2>1 DEF IO
  <2>6. Alone' /\ Looked' /\ InStep'
    BY <2>3, <2>4, <2>5 DEF Alone, Looked, InStep, AtWork
  <2>7. QED
    BY <2>3, <2>6 DEF LogInv
<1>4. ASSUME NEW s \in Session, WriteCut(s) PROVE LogInv'
  <2>1. io[s].phase = "ready" /\ io' = [io EXCEPT ![s].phase = "over"]
    BY <1>4 DEF WriteCut
  <2>2. \A t \in Session : ~ AtWork(t)'
    BY <1>t, <2>1 DEF LogInv, Alone, AtWork, IO
  <2>3. Alone' /\ Looked' /\ InStep'
    BY <2>2 DEF Alone, Looked, InStep, AtWork
  <2>4. \/ lines' = Append(lines, RecordOf(io[s].next, io[s].body))
        \/ lines' = Append(lines, Torn)
        \/ UNCHANGED lines
    BY <1>4, <2>1, NoGlue DEF WriteCut
  <2>5. Readable' /\ WellSequenced'
    <3>1. CASE UNCHANGED lines
      BY <3>1 DEF LogInv, Readable, WellSequenced, Precedes, Records
    <3>2. CASE ~ UNCHANGED lines
      BY <2>1, <2>4, <3>2, FileGrows
    <3>3. QED
      BY <3>1, <3>2
  <2>6. QED
    BY <2>3, <2>5 DEF LogInv
<1>5. CASE UNCHANGED storeVars
  BY <1>5, FileUntouched DEF storeVars, LogInv, Alone, Looked, InStep, AtWork
<1>6. QED
  BY <1>1, <1>2, <1>3, <1>4, <1>5 DEF StoreNext

\* Undisturbed sessions keep it.
LogInvAlone == TypeInv /\ (Undisturbed => LogInv)

\* A new task is undisturbed; a step that leaves it undisturbed found it so.
LEMMA AloneInvariant == StoreSpec => []LogInvAlone
<1>1. StoreInit => LogInvAlone
  BY TypeInit, LogInit DEF LogInvAlone
<1>2. LogInvAlone /\ [StoreNext]_storeVars => LogInvAlone'
  BY TypeNext, OpenedForGood, LogNext DEF LogInvAlone
<1>3. QED
  BY <1>1, <1>2, PTL DEF StoreSpec

\* As long as the sessions of a task do not overlap, the log can always be
\* read, its records count up by one from 0, and the session at work on it
\* agrees with it on what comes next, however many sessions crashed and
\* whatever they left behind (checkpoint-store.ts:55-79, jsonl.ts:36-49).
THEOREM UndisturbedLog ==
    StoreSpec => [](AloneReadable /\ AloneWellSequenced /\ (Undisturbed => InStep))
<1>1. LogInvAlone => AloneReadable /\ AloneWellSequenced /\ (Undisturbed => InStep)
  BY DEF LogInvAlone, LogInv, AloneReadable, AloneWellSequenced
<1>2. QED
  BY AloneInvariant, <1>1, PTL

-----------------------------------------------------------------------------
(* What stays. *)

Stays(i) == i <= Len(lines') /\ lines'[i] = lines[i]

\* A write leaves every line in place, but for one without a newline under a
\* writer that did not see it.
LEMMA WriteKeeps ==
    ASSUME TypeInv, NEW s \in Session, NEW line \in Line,
           lines' \in Written(io[s].newline, line)
    PROVE  \A i \in 1 .. Len(lines) : Whole(i) \/ io[s].newline = cut => Stays(i)
<1>1. lines \in Seq(Line) /\ Len(lines) \in Nat /\ cut \in BOOLEAN
  BY DEF TypeInv, StoreTypeOK
<1>2. CASE cut /\ ~ io[s].newline
  <2>1. PICK g : lines' = Append(SubSeq(lines, 1, Len(lines) - 1), g)
    BY <1>2 DEF Written
  <2>2. \A i \in 1 .. Len(lines) : i < Len(lines) => Stays(i)
    BY <1>1, <2>1 DEF Stays
  <2>3. QED
    BY <1>2, <2>2 DEF Whole
<1>3. CASE ~ (cut /\ ~ io[s].newline)
  <2>1. lines' = Append(lines, line)
    BY <1>3 DEF Written
  <2>2. QED
    BY <1>1, <2>1, OneMoreLine DEF Stays, TypeInv
<1>4. QED
  BY <1>2, <1>3

\* No step changes a record that is whole, nor any line while sessions do not overlap.
LEMMA RecordsStay ==
    LogInvAlone /\ [StoreNext]_storeVars =>
        \A i \in Records : Undisturbed' \/ Whole(i) => Stays(i)
<1> SUFFICES ASSUME LogInvAlone, [StoreNext]_storeVars, NEW i \in Records,
                    Undisturbed' \/ Whole(i)
             PROVE  Stays(i)
  OBVIOUS
<1>1. TypeInv /\ StoreTypeOK /\ i \in 1 .. Len(lines) /\ Len(lines) \in Nat
  BY DEF LogInvAlone, TypeInv, StoreTypeOK, Records
<1>2. ASSUME NEW s \in Session, io[s].phase = "ready"
      PROVE  Whole(i) \/ io[s].newline = cut
  <2>1. CASE Undisturbed'
    <3>1. LogInv
      BY <1>1, <2>1, OpenedForGood DEF LogInvAlone
    <3>2. QED
      BY <1>2, <3>1 DEF LogInv, Looked
  <2>2. QED
    BY <2>1
<1>3. CASE UNCHANGED lines
  BY <1>1, <1>3 DEF Stays
<1>4. Torn \in Line
  BY DEF Torn, Line
<1>5. ASSUME NEW s \in Session, Write(s) PROVE Stays(i)
  BY <1>1, <1>2, <1>5, RecordOfType, WriteKeeps DEF Write
<1>6. ASSUME NEW s \in Session, WriteCut(s) PROVE Stays(i)
  <2>1. CASE Partial(s)
    BY <1>1, <1>2, <1>3, <1>4, <1>6, <2>1, RecordOfType, WriteKeeps DEF WriteCut, Partial
  <2>2. QED
    BY <1>3, <1>6, <2>1 DEF WriteCut
<1>7. QED
  BY <1>3, <1>5, <1>6
     DEF StoreNext, storeVars, Open, OpenThrows, CallAppend, CheckSeq, RefuseSeq,
         LookAtEnd, Close

\* What was appended is there for every session that follows: no step changes or
\* loses a record while sessions do not overlap, nor one that is whole when they do.
THEOREM AppendedIsFinal == StoreSpec => RecordsAreFinal
<1>1. LogInvAlone /\ [StoreNext]_storeVars =>
        [\A i \in Records : Undisturbed' \/ Whole(i) =>
             i <= Len(lines') /\ lines'[i] = lines[i]]_storeVars
  BY RecordsStay DEF Stays
<1>2. QED
  BY AloneInvariant, <1>1, PTL DEF StoreSpec, RecordsAreFinal
=============================================================================
