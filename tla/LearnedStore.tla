---------------------------- MODULE LearnedStore ----------------------------
(***************************************************************************)
(* What a recorded run teaches: `rote distill` (packages/cli/src/          *)
(* distill-run.ts) writes a playbook to the library (packages/matcher/src/ *)
(* library.ts) and site memory to the partition of the run's environment   *)
(* (packages/site-memory/src/store.ts).                                    *)
(*                                                                         *)
(* The library is one file per version, created exclusively, and an index  *)
(* of JSON lines; a partition is a log of JSON lines too.  An append looks *)
(* at the last byte, awaits, and writes: a process may die in between, and *)
(* a write cut short leaves some of its lines and a fragment.  The         *)
(* distiller gives every playbook version 1, so a name is a version.       *)
(***************************************************************************)
EXTENDS Naturals, SequencesExt

CONSTANTS
    Distiller,  \* the distill commands, each used once
    Name,       \* playbook names
    Env,        \* environment fingerprints
    Run,        \* recorded runs
    Before,     \* what the library may list at the start: [name, run], None for nothing
    Asked(_),   \* what a distill command may be told: [name, run]
    Facts,      \* how many site memory records a run yields
    Casts,      \* bound: the sets of actors explored
    None

ASSUME LearnedAssumption == Facts \in Nat \ {0} /\ None \notin Name \cup Run

VARIABLES
    cast,    \* which attempts and commands take part
    alone,   \* whether at most one distill command is at work at a time
    runs,    \* the run directories: [status, env, text, checks] by run
    file,    \* file[n]: the YAML file of playbook n
    index,   \* library.jsonl
    memory,  \* memory[e]: records.jsonl of the partition of e
    dist     \* dist[d]: where distill command d is

learnedVars == <<cast, alone, file, index, memory, dist>>

\* A log is its non-blank lines, and whether the last one lacks its newline.  A proper prefix
\* of a record is torn; one cut inside the digits of a \uXXXX, which isTruncatedJson refuses
\* (json-prefix.ts:25-45), is left out.
Torn == [kind |-> "torn", name |-> None, run |-> None]
Garbled == [kind |-> "garbled", name |-> None, run |-> None]
Line(n, r) == [kind |-> "record", name |-> n, run |-> r]

\* parseJsonl with tornFragments 'anywhere': a prefix of a record is dropped
\* wherever it is, and any other line that does not parse raises.
Parses(log) == \A i \in DOMAIN log.lines : log.lines[i].kind # "garbled"
Records(log) == {i \in DOMAIN log.lines : log.lines[i].kind = "record"}

\* Two writes run together are no prefix of a record, unless the first fragment
\* ended where a value was due.
Glued(line) == IF line.kind = "torn" THEN {Torn, Garbled} ELSE {Garbled}

\* Mutant of Joined: endsWithoutNewline is not asked.
JoinedBlindly(log, newline, new) ==
    IF log.cut /\ new # <<>>
    THEN {Append(Front(log.lines), g) \o Tail(new) : g \in Glued(Last(log.lines))}
    ELSE {log.lines \o new}

Joined(log, newline, new) ==
    IF log.cut /\ ~ newline /\ new # <<>>
    THEN {Append(Front(log.lines), g) \o Tail(new) : g \in Glued(Last(log.lines))}
    ELSE {log.lines \o new}

\* The log after `new` was written, and after a write of it was cut short.
Written(log, newline, new) == {[lines |-> l, cut |-> FALSE] : l \in Joined(log, newline, new)}
WholeLines(log, newline, new) ==
    UNION {Joined(log, newline, SubSeq(new, 1, k)) : k \in (IF newline THEN 0 ELSE 1) .. Len(new)}
UnfinishedLine(log, newline, new) ==
    UNION {Joined(log, newline, SubSeq(new, 1, k)) \cup Joined(log, newline, Append(SubSeq(new, 1, k - 1), Torn))
           : k \in 1 .. Len(new)}
CutShort(log, newline, new) ==
    {log} \cup {[lines |-> l, cut |-> FALSE] : l \in WholeLines(log, newline, new)}
          \cup {[lines |-> l, cut |-> TRUE] : l \in UnfinishedLine(log, newline, new)}

Idle == [phase |-> "idle", name |-> None, run |-> None, newline |-> FALSE]

\* `runs` is given: the recorders' part of the disk.
LearnedInit ==
    /\ cast \in Casts
    /\ alone \in BOOLEAN
    /\ dist = [d \in Distiller |-> Idle]
    /\ \E known \in Before :
         /\ file = [n \in Name |-> IF n = known.name THEN "whole" ELSE "none"]
         /\ index = [lines |-> IF known.name = None THEN <<>> ELSE <<Line(known.name, known.run)>>,
                     cut |-> FALSE]
         /\ memory = [e \in Env |->
                [lines |-> IF known.name # None /\ runs[known.run].env = e
                           THEN [i \in 1 .. Facts |-> Line(None, known.run)] ELSE <<>>,
                 cut |-> FALSE]]

AtWork(d) == dist[d].phase \notin {"idle", "done", "refused", "died"}
Goes(d, phase) == dist' = [dist EXCEPT ![d].phase = phase]
EnvOf(d) == runs[dist[d].run].env

IndexLines(d) == <<Line(dist[d].name, dist[d].run)>>
MemoryLines(d) == [i \in 1 .. Facts |-> Line(None, dist[d].run)]

-----------------------------------------------------------------------------

\* loadRecordedRun: only a run whose manifest says success.  distillTrajectory refuses
\* a run that no check decided, and may refuse another (a value that no parameter
\* covers), before any write.
Load(d, n, r) ==
    /\ d \in cast /\ dist[d].phase = "idle" /\ [name |-> n, run |-> r] \in Asked(d) /\ runs[r].status = "success"
    /\ alone => \A e \in Distiller : ~ AtWork(e)
    /\ \E phase \in IF runs[r].checks = {} THEN {"refused"} ELSE {"create", "refused"} :
         dist' = [dist EXCEPT ![d] = [phase |-> phase, name |-> n, run |-> r, newline |-> FALSE]]
    /\ UNCHANGED <<cast, alone, file, index, memory>>

\* Mutants of CreateFile: a version that exists is taken for one that is taught;
\* the file is written without the exclusive flag.
CreateOnce(d) ==
    /\ dist[d].phase = "create"
    /\ IF file[dist[d].name] = "none"
       THEN file' = [file EXCEPT ![dist[d].name] = "partial"] /\ Goes(d, "write")
       ELSE UNCHANGED file /\ Goes(d, "done")
    /\ UNCHANGED <<cast, alone, index, memory>>
CreateOver(d) ==
    /\ dist[d].phase = "create"
    /\ file' = [file EXCEPT ![dist[d].name] = "partial"] /\ Goes(d, "write")
    /\ UNCHANGED <<cast, alone, index, memory>>

\* writeFile with flag 'wx': PlaybookVersionExistsError when the file exists.
CreateFile(d) ==
    /\ dist[d].phase = "create"
    /\ IF file[dist[d].name] = "none"
       THEN file' = [file EXCEPT ![dist[d].name] = "partial"] /\ Goes(d, "write")
       ELSE UNCHANGED file /\ Goes(d, "refused")
    /\ UNCHANGED <<cast, alone, index, memory>>

WriteFile(d) ==
    /\ dist[d].phase = "write"
    /\ file' = [file EXCEPT ![dist[d].name] = "whole"] /\ Goes(d, "look")
    /\ UNCHANGED <<cast, alone, index, memory>>

\* endsWithoutNewline, of the index and of the partition.
Look(d) ==
    /\ \/ dist[d].phase = "look"
          /\ dist' = [dist EXCEPT ![d].phase = "list", ![d].newline = index.cut]
       \/ dist[d].phase = "derive"
          /\ dist' = [dist EXCEPT ![d].phase = "learn", ![d].newline = memory[EnvOf(d)].cut]
    /\ UNCHANGED <<cast, alone, file, index, memory>>

ListEntry(d) ==
    /\ dist[d].phase = "list"
    /\ index' \in Written(index, dist[d].newline, IndexLines(d)) /\ Goes(d, "derive")
    /\ UNCHANGED <<cast, alone, file, memory>>

\* Mutant of Learn: into the partition of another environment.
LearnElsewhere(d) ==
    /\ dist[d].phase = "learn"
    /\ \E e \in Env, log \in Written(memory[EnvOf(d)], dist[d].newline, MemoryLines(d)) :
         memory' = [memory EXCEPT ![e] = log]
    /\ Goes(d, "done")
    /\ UNCHANGED <<cast, alone, file, index>>

\* FileSiteMemoryStore.append: every record of the run in one write.
Learn(d) ==
    /\ dist[d].phase = "learn"
    /\ \E log \in Written(memory[EnvOf(d)], dist[d].newline, MemoryLines(d)) :
         memory' = [memory EXCEPT ![EnvOf(d)] = log]
    /\ Goes(d, "done")
    /\ UNCHANGED <<cast, alone, file, index>>

\* The process dies, or the disk refuses: of what it was writing, some remains.
Die(d) ==
    /\ AtWork(d) /\ Goes(d, "died")
    /\ index' \in IF dist[d].phase = "list" THEN CutShort(index, dist[d].newline, IndexLines(d)) ELSE {index}
    /\ \E log \in IF dist[d].phase = "learn"
                  THEN CutShort(memory[EnvOf(d)], dist[d].newline, MemoryLines(d)) ELSE {memory[EnvOf(d)]} :
         memory' = [memory EXCEPT ![EnvOf(d)] = log]
    /\ UNCHANGED <<cast, alone, file>>

Distills ==
    /\ \E d \in Distiller :
         \/ \E n \in Name, r \in Run : Load(d, n, r)
         \/ CreateFile(d) \/ WriteFile(d) \/ Look(d) \/ ListEntry(d) \/ Learn(d) \/ Die(d)
    /\ UNCHANGED runs

-----------------------------------------------------------------------------

\* FilePlaybookLibrary.list reads every file the index names.
Listed == {index.lines[i].name : i \in Records(index)}
ListThrows == ~ Parses(index) \/ \E n \in Listed : file[n] # "whole"
\* FileSiteMemoryStore.read
MemoryThrows(e) == \/ ~ Parses(memory[e])
                   \/ \E i \in Records(memory[e]) : runs[memory[e].lines[i].run].env # e

RunOf(n) == index.lines[CHOOSE i \in Records(index) : index.lines[i].name = n].run

\* However often distilling is cut short, the library and every partition can
\* be read.  Commands that overlap keep this only as long as none of them dies.
LibraryReadable ==
    (alone \/ \A d \in Distiller : dist[d].phase # "died")
        => ~ ListThrows /\ \A e \in Env : ~ MemoryThrows(e)

\* A version is listed at most once, from one successful run, and never without
\* its whole file; and no partition holds a fact of another environment.
VersionsAreFinal ==
    /\ \A i, j \in Records(index) : index.lines[i].name = index.lines[j].name => i = j
    /\ \A n \in Listed : file[n] = "whole" /\ runs[RunOf(n)].status = "success"
    /\ \A e \in Env : \A i \in Records(memory[e]) : runs[memory[e].lines[i].run].env = e

Knows(r) == Cardinality({i \in Records(memory[runs[r].env]) : memory[runs[r].env].lines[i].run = r})

\* A command that returns has taught both tiers.  A file that is not listed, or
\* a listed run that memory lacks, is the work of a command that is at it or
\* was cut short there; the name is then taken for good.
Taught(n) == n \in Listed /\ Knows(RunOf(n)) >= Facts
TeachesBothOrWasCut ==
    (alone \/ \A d \in Distiller : dist[d].phase # "died") =>
        /\ \A d \in Distiller : dist[d].phase = "done" => Taught(dist[d].name)
        /\ \A n \in Name : file[n] # "none" =>
              Taught(n) \/ \E d \in Distiller : dist[d].name = n /\ (AtWork(d) \/ dist[d].phase = "died")

\* The library and the site memory stay readable beside writers that die anywhere, list a
\* version once and never without its file, and a distill that ran to its end has taught
\* both (library.ts:54, store.ts).
LibraryIsSound == LibraryReadable /\ VersionsAreFinal /\ TeachesBothOrWasCut
=============================================================================
