--------------------------- MODULE GuiServer_proofs ---------------------------
(***************************************************************************)
(* What LearnedStore, TaskRun and GuiServer promise together, for any      *)
(* number of tasks, requests, distill commands, playbooks and runs.        *)
(*                                                                         *)
(* A run directory that says success is never written again.  From that,   *)
(* what the library and the site memory say of their runs stays true, and  *)
(* with it what a task knows of the candidate it replays.                  *)
(***************************************************************************)
EXTENDS GuiServer, FiniteSetTheorems, SequenceTheorems, WellFoundedInduction, TLAPS

-----------------------------------------------------------------------------
(* Types. *)

RunDirs == [status : {"none", "success", "failure"}, env : Env \cup {None}, text : Text \cup {None},
            checks : SUBSET Check]

Lines == {Torn, Garbled} \cup {Line(n, r) : n \in Name \cup {None}, r \in Run}
Logs == {log \in [lines : Seq(Lines), cut : BOOLEAN] : log.cut => log.lines # <<>>}
Commands == [phase : {"idle", "create", "write", "look", "list", "derive", "learn", "done", "refused", "died"},
             name : Name \cup {None}, run : Run \cup {None}, newline : BOOLEAN]

Candidates == [name : Name \cup {None}, env : Env \cup {None}, run : Run \cup {None}]
Planners == {None, Provider} \cup Providers
Tasks == [phase : {"idle", "select", "open", "replay", "plan", "brief", "agent", "finally", "over", "died"},
          env : Env \cup {None}, text : Text \cup {None}, checks : SUBSET Check, explicit : BOOLEAN,
          candidate : Candidates,
          fallback : Reasons \cup {None}, code : Codes \cup {None}, llm : Planners, planned : BOOLEAN,
          phase_of : Ways \cup {None}, result : Outcomes \cup {None}]
Works == {<<>>, <<"replay">>, <<"agent">>, <<"replay", "agent">>}

LearnedTypeOK ==
    /\ alone \in BOOLEAN
    /\ file \in [Name -> {"none", "partial", "whole"}]
    /\ index \in Logs
    /\ memory \in [Env -> Logs]
    /\ dist \in [Distiller -> Commands]

TasksTypeOK ==
    /\ runs \in [Run -> RunDirs]
    /\ task \in [Attempt -> Tasks]
    /\ effects \in [Attempt -> Works]
    /\ page \in [Attempt -> SUBSET Check]
    /\ browser \in [Attempt -> {"closed", "open"}]

-----------------------------------------------------------------------------
(* The attempt: where a task is, what it has done, and what is on disk for it. *)

Early == {"idle", "select", "open"}
Going == Early \cup {"replay", "plan", "brief", "agent"}
Fell(k) == k.fallback \in {"replay_failed", "replay_error"}
Acted(w) == w \in {<<"replay">>, <<"replay", "agent">>}
Planned(w) == w \in {<<"agent">>, <<"replay", "agent">>}

\* What a task did so far fits where it is.
Conduct(k, w) ==
    /\ Planned(w) => k.planned
    /\ k.planned => k.phase \in {"agent", "finally", "over", "died"}
    /\ k.phase \in Early => w = <<>>
    /\ Acted(w) => k.candidate # NoCandidate /\ k.candidate.env = k.env
    /\ Acted(w) /\ (k.planned \/ k.phase \in {"plan", "brief", "agent"}) => Fell(k)

\* What it will return fits how it came there.
Course(k) ==
    /\ (k.fallback = None) <=> (k.code = None)
    /\ k.phase # "idle" => k.env \in Env /\ k.text \in Text
    /\ k.phase \in Going => k.result = None /\ k.phase_of = None
    /\ k.phase \in {"idle", "select"} => k.candidate = NoCandidate /\ k.fallback = None
    /\ k.phase = "open" /\ k.candidate.env = k.env => k.fallback = None
    /\ k.phase = "replay" => k.fallback = None /\ k.candidate # NoCandidate /\ k.candidate.env = k.env
    /\ k.phase \in {"finally", "over"} =>
         k.result # None /\ (k.fallback # None => k.phase_of = "cold" \/ k.result = "error")
    /\ k.phase_of = "warm" => k.result # "failure" /\ k.fallback = None
    /\ k.result = "success" => k.phase_of \in {"warm", "cold"}

\* What it knows of the candidate is so.
Informed(k, disk) ==
    /\ k.candidate.run # None =>
         disk[k.candidate.run].status = "success" /\ disk[k.candidate.run].env = k.candidate.env
    /\ k.candidate # NoCandidate /\ ~ k.explicit => k.candidate.run # None

\* Nothing is sealed as a success before it is over, and a success is sealed.
Sealed(t, k, p, disk) ==
    /\ k.phase \in Early \cup {"replay"} => disk[Warm(t)].status # "success"
    /\ k.phase \in Going => disk[Cold(t)].status # "success"
    /\ k.result = "success" =>
         /\ k.phase_of = "cold" => k.checks \subseteq p /\ disk[Cold(t)].status = "success"
         /\ k.phase_of = "warm" => /\ disk[Warm(t)].status = "success"
                                   /\ k.candidate.run = None \/ disk[k.candidate.run].checks \subseteq p

Stopped(k, b) == k.phase \in Early \cup {"over"} => b = "closed"

AttemptHolds(t, k, w, p, b, disk) ==
    Conduct(k, w) /\ Course(k) /\ Informed(k, disk) /\ Sealed(t, k, p, disk) /\ Stopped(k, b)

TasksHold ==
    /\ \A t \in Attempt : AttemptHolds(t, task[t], effects[t], page[t], browser[t], runs)
    /\ \A r \in Run : runs[r].status = "success" => runs[r].env \in Env /\ runs[r].text \in Text

-----------------------------------------------------------------------------
(* The store: what the commands at work hold, and what is listed and learned. *)

Holding == {"write", "look", "list", "derive", "learn", "done"}
Holds(d) == dist[d].phase \in Holding

CommandsHold ==
    /\ \A d \in Distiller : dist[d].phase # "idle" =>
         dist[d].name \in Name /\ dist[d].run \in Run /\ runs[dist[d].run].status = "success"
    /\ \A d \in Distiller : Holds(d) => file[dist[d].name] = IF dist[d].phase = "write" THEN "partial" ELSE "whole"
    /\ \A d, c \in Distiller : Holds(d) /\ Holds(c) /\ dist[d].name = dist[c].name => d = c
    /\ \A d \in Distiller : dist[d].phase \in {"write", "look", "list"} =>
         \A i \in Records(index) : index.lines[i].name # dist[d].name

ListHolds ==
    /\ \A i \in Records(index) :
         index.lines[i].name \in Name /\ file[index.lines[i].name] = "whole" /\ runs[index.lines[i].run].status = "success"
    /\ \A i, j \in Records(index) : index.lines[i].name = index.lines[j].name => i = j

MemoryHolds ==
    \A e \in Env : \A i \in Records(memory[e]) :
        runs[memory[e].lines[i].run].status = "success" /\ runs[memory[e].lines[i].run].env = e

StoreHolds == CommandsHold /\ ListHolds /\ MemoryHolds

\* Nobody dies, or nobody is interfered with: no two writes run together.
NobodyDied == \A d \in Distiller : dist[d].phase # "died"
Calm == alone \/ NobodyDied
Sees(d) ==
    /\ dist[d].phase = "list" => dist[d].newline = index.cut
    /\ dist[d].phase = "learn" => dist[d].newline = memory[EnvOf(d)].cut
Uncut == ~ index.cut /\ \A e \in Env : ~ memory[e].cut
Turns ==
    /\ alone => /\ \A d, c \in Distiller : AtWork(d) /\ AtWork(c) => d = c
                /\ \A d \in Distiller : Sees(d)
    /\ NobodyDied => Uncut

ListedAs(n, r) == \E i \in Records(index) : index.lines[i].name = n /\ index.lines[i].run = r
Teaching == {"write", "look", "list", "derive", "learn", "died"}
Taking ==
    /\ Parses(index) /\ \A e \in Env : Parses(memory[e])
    /\ \A d \in Distiller : dist[d].phase \in {"derive", "learn", "done"} => ListedAs(dist[d].name, dist[d].run)
    /\ \A d \in Distiller : dist[d].phase = "done" => Knows(dist[d].run) >= Facts
    /\ \A n \in Name : file[n] # "none" =>
         Taught(n) \/ \E d \in Distiller : dist[d].name = n /\ dist[d].phase \in Teaching

-----------------------------------------------------------------------------
(* The requests. *)

InService(t) == request[t].phase \in {"body", "task"}
Statuses == {0, 200, 403, 409, 415}
Requests == [phase : {"none", "body", "task", "answered"}, previous : Planners, status : Statuses]
RequestsTypeOK ==
    /\ running \in BOOLEAN
    /\ request \in [Gui -> Requests]
RequestsHold ==
    /\ \A t, u \in Gui : InService(t) /\ InService(u) => t = u
    /\ running <=> \E t \in Gui : InService(t)
    /\ ~ running => env = Provider
    /\ \A t \in Gui :
         /\ InService(t) => request[t].previous = Provider
         /\ request[t].phase \in {"none", "body"} => task[t].phase = "idle"
         /\ request[t].phase = "answered" => task[t].phase \in {"idle", "over"}
         /\ request[t].phase = "task" => env = Wants(t)
         /\ task[t].llm # None => task[t].llm = Wants(t)
         /\ task[t].phase # "died"

TaskInv == TasksTypeOK /\ TasksHold
StoreInv == LearnedTypeOK /\ StoreHolds
GuiInv == RequestsTypeOK /\ RequestsHold
CalmInv == Turns /\ (Calm => Taking)

-----------------------------------------------------------------------------
(* Matching: the best of finitely many entries is one of them. *)

LEMMA SmallestOf ==
    ASSUME NEW T \in SUBSET Nat, T # {}
    PROVE  \E m \in T : \A n \in T : m <= n
<1> DEFINE R == {ss \in Nat \X Nat : ss[1] < ss[2]}
<1>1. IsWellFoundedOn(R, Nat)
  BY NatLessThanWellFounded DEF OpToRel
<1> HIDE DEF R
<1>2. PICK m \in T : \A n \in T : ~ (<<n, m>> \in R)
  BY <1>1, WFMin
<1>3. ASSUME NEW n \in T PROVE m <= n
  <2>1. m \in Nat /\ n \in Nat /\ <<n, m>> \notin R
    BY <1>2
  <2>2. ~ (n < m)
    BY <2>1 DEF R
  <2>3. QED
    BY <2>1, <2>2
<1>4. QED
  BY <1>3

Scores == [common : Nat, all : Nat \ {0}]

\* a / b <= c / d and c / d <= e / f, one of them strictly or not.
LEMMA QuotientsAreOrdered ==
    ASSUME NEW a \in Nat, NEW b \in Nat \ {0}, NEW c \in Nat, NEW d \in Nat \ {0}, NEW e \in Nat, NEW f \in Nat \ {0},
           a * d <= c * b, c * f <= e * d
    PROVE  a * f <= e * b /\ (a * d < c * b \/ c * f < e * d => a * f < e * b)
<1>1. (a * d) * f <= (c * b) * f /\ (a * d < c * b => (a * d) * f < (c * b) * f)
  BY SMTT(30)
<1>2. (c * f) * b <= (e * d) * b /\ (c * f < e * d => (c * f) * b < (e * d) * b)
  BY SMTT(30)
<1>3. (a * d) * f = d * (a * f) /\ (c * b) * f = (c * f) * b /\ (e * d) * b = d * (e * b)
  BY SMTT(30)
<1>4. d * (a * f) <= d * (e * b) /\ (a * d < c * b \/ c * f < e * d => d * (a * f) < d * (e * b))
  BY <1>1, <1>2, <1>3
<1>5. \A x, y \in Nat : d * x <= d * y => x <= y
  BY SMTT(30)
<1>6. \A x, y \in Nat : d * x < d * y => x < y
  BY SMTT(30)
<1>7. a * f \in Nat /\ e * b \in Nat
  OBVIOUS
<1>8. QED
  BY <1>4, <1>5, <1>6, <1>7

LEMMA LessIsTransitive ==
    ASSUME NEW s \in Scores, NEW t \in Scores, NEW u \in Scores, ~ M!Less(t, s), ~ M!Less(u, t)
    PROVE  ~ M!Less(u, s) /\ (M!Less(s, t) \/ M!Less(t, u) => M!Less(s, u))
<1> DEFINE a == s.common  b == s.all  c == t.common  d == t.all  e == u.common  f == u.all
<1>1. a \in Nat /\ c \in Nat /\ e \in Nat /\ b \in Nat \ {0} /\ d \in Nat \ {0} /\ f \in Nat \ {0}
  BY DEF Scores
<1>2. /\ M!Less(s, t) <=> a * d < c * b
      /\ M!Less(t, s) <=> c * b < a * d
      /\ M!Less(t, u) <=> c * f < e * d
      /\ M!Less(u, t) <=> e * d < c * f
      /\ M!Less(s, u) <=> a * f < e * b
      /\ M!Less(u, s) <=> e * b < a * f
  BY DEF M!Less
<1> HIDE DEF a, b, c, d, e, f
<1>3. a * d <= c * b /\ c * f <= e * d /\ e * b \in Nat /\ a * f \in Nat
  BY <1>1, <1>2
<1>4. a * f <= e * b /\ (a * d < c * b \/ c * f < e * d => a * f < e * b)
  BY <1>1, <1>3, QuotientsAreOrdered
<1>5. QED
  BY <1>2, <1>3, <1>4

LEMMA SlottedIsFinite ==
    ASSUME NEW ask, IsFiniteSet(ask.task)
    PROVE  IsFiniteSet(M!Slotted(ask.task, ask.params))
<1> DEFINE a == M!Slotted(ask.task, ask.params)
           f == [w \in ask.task |-> IF \E n \in DOMAIN ask.params : ask.params[n] = w
                                    THEN [p \in {} |-> None][M!NameOf(w, ask.params)] ELSE w]
<1>1. a = {f[w] : w \in ask.task}
  BY DEF M!Slotted
<1>2. f \in Surjection(ask.task, a)
  BY <1>1 DEF Surjection
<1> HIDE DEF f
<1>3. QED
  BY <1>2, FS_Surjection DEF ExistsSurjection

LEMMA SameCardinality == \A S : M!Cardinality(S) = Cardinality(S)
  BY DEF M!Cardinality, Cardinality

LEMMA ScoreIsScore ==
    ASSUME NEW ask, IsFiniteSet(ask.task), NEW e, IsFiniteSet(e.intent)
    PROVE  M!IntentScore(ask, e) \in Scores
<1> DEFINE a == M!Slotted(ask.task, ask.params)
           both == Cardinality(a \cap e.intent)
           any == Cardinality(a \cup e.intent)
<1>1. IsFiniteSet(a)
  BY SlottedIsFinite
<1>2. IsFiniteSet(a \cap e.intent) /\ IsFiniteSet(a \cup e.intent)
  BY <1>1, FS_Intersection, FS_Union
<1>3. both \in Nat /\ any \in Nat
  BY <1>2, FS_CardinalityType
<1>4. a # {} => any # 0
  BY <1>2, FS_EmptySet
<1>5. M!NoScore \in Scores
  BY DEF M!NoScore, Scores
<1>6. M!IntentScore(ask, e) = IF a = {} \/ e.intent = {} \/ {w \in e.intent : M!IsContent(w) /\ w \notin a} # {}
                              THEN M!NoScore ELSE [common |-> both, all |-> any]
  BY SameCardinality, Zenon DEF M!IntentScore
<1> HIDE DEF both, any, a
<1>7. QED
  BY <1>3, <1>4, <1>5, <1>6 DEF Scores

\* What may be matched: finitely many tokens in each text, finitely many playbooks.
Matchable(ask, entries) ==
    /\ IsFiniteSet(ask.task) /\ IsFiniteSet(entries)
    /\ \A e \in entries : IsFiniteSet(e.intent) /\ e.version \in Nat

LEMMA TopIsBest ==
    ASSUME NEW ask, NEW entries, Matchable(ask, entries), entries # {}
    PROVE  M!Top(ask, entries) \in entries /\ \A f \in entries : M!Ahead(ask, M!Top(ask, entries), f)
<1> DEFINE Score(e) == M!IntentScore(ask, e)
           Better(e) == {f \in entries : ~ M!Ahead(ask, e, f)}
           sizes == {Cardinality(Better(e)) : e \in entries}
<1>1. \A e \in entries : Score(e) \in Scores /\ e.version \in Nat
  BY ScoreIsScore DEF Matchable
<1>2. \A e, f \in entries : M!Ahead(ask, e, f) <=> M!Less(Score(f), Score(e)) \/ (~ M!Less(Score(e), Score(f)) /\ e.version >= f.version)
  BY DEF M!Ahead
<1>3. \A e \in entries : IsFiniteSet(Better(e)) /\ Cardinality(Better(e)) \in Nat
  BY FS_Subset, FS_CardinalityType DEF Matchable
<1>4. PICK e \in entries : \A f \in entries : Cardinality(Better(e)) <= Cardinality(Better(f))
  <2>1. sizes \in SUBSET Nat /\ sizes # {}
    BY <1>3
  <2>2. PICK m \in sizes : \A n \in sizes : m <= n
    BY <2>1, SmallestOf
  <2>3. QED
    BY <2>2
<1> HIDE DEF Score
<1>5. ASSUME NEW f \in Better(e) PROVE FALSE
  <2>1. f \in entries /\ ~ M!Ahead(ask, e, f)
    BY <1>5
  <2>2. ~ M!Less(Score(f), Score(e)) /\ (M!Less(Score(e), Score(f)) \/ e.version < f.version)
    BY <1>1, <1>2, <2>1
  <2>3. ~ M!Less(Score(f), Score(f))
    BY <1>1, <2>1 DEF M!Less, Scores
  <2>4. f \notin Better(f)
    BY <1>1, <1>2, <2>1, <2>3
  <2>5. ASSUME NEW g \in Better(f) PROVE g \in Better(e)
    <3>1. g \in entries /\ ~ M!Less(Score(g), Score(f)) /\ (M!Less(Score(f), Score(g)) \/ f.version < g.version)
      BY <1>1, <1>2, <2>1, <2>5
    <3>2. ~ M!Less(Score(g), Score(e)) /\ (M!Less(Score(e), Score(f)) \/ M!Less(Score(f), Score(g)) => M!Less(Score(e), Score(g)))
      BY <1>1, <2>1, <2>2, <3>1, LessIsTransitive
    <3>3. M!Less(Score(e), Score(g)) \/ e.version < g.version
      BY <1>1, <2>1, <2>2, <3>1, <3>2
    <3>4. QED
      BY <1>1, <1>2, <3>1, <3>2, <3>3
  <2>6. Better(f) \subseteq Better(e) /\ Better(f) # Better(e)
    BY <1>5, <2>4, <2>5
  <2> HIDE DEF Better
  <2>7. Cardinality(Better(f)) < Cardinality(Better(e))
    BY <1>3, <2>1, <2>6, FS_Subset
  <2>8. QED
    BY <1>3, <1>4, <2>1, <2>7
<1>6. \A f \in entries : M!Ahead(ask, e, f)
  BY <1>5
<1>7. QED
  BY <1>6 DEF M!Top

LEMMA MatchIsTop ==
    ASSUME NEW ask, NEW entries, M!Matches(ask, entries)
    PROVE  LET able == M!Bindable(ask, M!SameEnvironment(ask, entries))
           IN  /\ able # {} /\ M!Matched(ask, entries) = M!Top(ask, able)
               /\ ~ M!BelowThreshold(M!IntentScore(ask, M!Top(ask, able)))
               /\ M!Rivals(ask, M!Top(ask, able), able) = {}
  BY DEF M!Matches, M!Matched, M!MatchPlaybook, M!NoMatch, M!Considered

\* A match is an entry that was proved in this environment, whose content words are in the
\* task, and no other playbook comes within the margin (matcher/match.ts).
THEOREM MatchesAreLicensed ==
    ASSUME NEW ask, NEW entries, Matchable(ask, entries)
    PROVE  /\ M!MatchIsLicensed(ask, entries)
           /\ M!Matches(ask, entries) => M!Matched(ask, entries) \in entries
<1> SUFFICES ASSUME M!Matches(ask, entries)
             PROVE  M!MatchIsLicensed(ask, entries) /\ M!Matched(ask, entries) \in entries
  BY DEF M!MatchIsLicensed
<1> DEFINE able == M!Bindable(ask, M!SameEnvironment(ask, entries))
           e == M!Matched(ask, entries)
<1>1. /\ able # {} /\ e = M!Top(ask, able)
      /\ ~ M!BelowThreshold(M!IntentScore(ask, e)) /\ M!Rivals(ask, e, able) = {}
  BY MatchIsTop
<1>2. able \in SUBSET entries
  BY DEF M!Bindable, M!SameEnvironment
<1>3. Matchable(ask, able)
  BY <1>2, FS_Subset DEF Matchable
<1>4. e \in able
  BY <1>1, <1>3, TopIsBest
<1>5. e.env = ask.env /\ M!Unbound(e, ask.params) = {}
  BY <1>4 DEF M!Bindable, M!SameEnvironment
<1>6. {w \in e.intent : M!IsContent(w)} \subseteq M!Slotted(ask.task, ask.params)
  <2>1. M!BelowThreshold(M!NoScore)
    BY DEF M!BelowThreshold, M!NoScore
  <2>2. M!IntentScore(ask, e) # M!NoScore
    BY <1>1, <2>1
  <2>3. {w \in e.intent : M!IsContent(w) /\ w \notin M!Slotted(ask.task, ask.params)} = {}
    BY <2>2, Zenon DEF M!IntentScore
  <2>4. QED
    BY <2>3
<1>7. e.needs \ {} \subseteq DOMAIN ask.params
  BY <1>5 DEF M!Unbound
<1>8. \A f \in entries : f.env = ask.env /\ f.playbook # e.playbook /\ M!Unbound(f, ask.params) = {}
                            => ~ M!WithinMargin(M!IntentScore(ask, e), M!IntentScore(ask, f))
  BY <1>1 DEF M!Rivals, M!Bindable, M!SameEnvironment
<1> HIDE DEF e
<1>9. QED
  BY <1>2, <1>4, <1>5, <1>6, <1>7, <1>8 DEF M!MatchIsLicensed, e

-----------------------------------------------------------------------------
(* Logs: what a write, whole or cut short, makes of one. *)

LEMMA LineKinds ==
    /\ Torn \in Lines /\ Torn.kind = "torn" /\ Garbled \in Lines /\ Garbled.kind = "garbled"
    /\ \A n, r : Line(n, r).kind = "record" /\ Line(n, r).name = n /\ Line(n, r).run = r
    /\ \A line : Glued(line) \subseteq {Torn, Garbled}
  BY DEF Lines, Torn, Garbled, Line, Glued

LEMMA LineTypes == \A line \in Lines : line.kind = "record" => line.name \in Name \cup {None} /\ line.run \in Run
  BY DEF Lines, Torn, Garbled, Line

\* Of the records of lines l each is one of the log, in its place, or one of the new.
OldOrNew(log, l, new) ==
    \A i \in DOMAIN l : l[i].kind = "record" => \/ i \in Records(log) /\ l[i] = log.lines[i]
                                                \/ \E j \in DOMAIN new : l[i] = new[j]
Glues(log, newline) == log.cut /\ ~ newline

LEMMA JoinedLines ==
    ASSUME NEW log \in Logs, NEW newline \in BOOLEAN, NEW new \in Seq(Lines), NEW l \in Joined(log, newline, new)
    PROVE  /\ l \in Seq(Lines) /\ (new # <<>> => l # <<>>) /\ OldOrNew(log, l, new)
           /\ ~ Glues(log, newline) => l = log.lines \o new
<1>1. log.lines \in Seq(Lines) /\ (log.cut => log.lines # <<>>)
  BY DEF Logs
<1>2. CASE l = log.lines \o new
  <2>1. \A i \in DOMAIN l : \/ i \in DOMAIN log.lines /\ l[i] = log.lines[i]
                            \/ i - Len(log.lines) \in DOMAIN new /\ l[i] = new[i - Len(log.lines)]
    BY <1>1, <1>2
  <2>2. OldOrNew(log, l, new)
    BY <2>1 DEF OldOrNew, Records
  <2>3. QED
    BY <1>1, <1>2, <2>2
<1>3. CASE Glues(log, newline) /\ new # <<>>
  <2>1. PICK g \in Glued(Last(log.lines)) : l = Append(Front(log.lines), g) \o Tail(new)
    BY <1>3 DEF Joined, Glues
  <2>2. g \in Lines /\ g.kind # "record"
    BY LineKinds
  <2>3. Len(log.lines) \in Nat \ {0} /\ Tail(new) \in Seq(Lines) /\ Len(Tail(new)) = Len(new) - 1
    BY <1>1, <1>3 DEF Glues
  <2>4. /\ Front(log.lines) \in Seq(Lines) /\ Len(Front(log.lines)) = Len(log.lines) - 1
        /\ \A i \in 1 .. Len(log.lines) - 1 : Front(log.lines)[i] = log.lines[i]
    BY <1>1, <2>3 DEF Front
  <2> DEFINE kept == Append(Front(log.lines), g)
  <2>5. /\ kept \in Seq(Lines) /\ Len(kept) = Len(log.lines) /\ kept[Len(log.lines)] = g
        /\ \A i \in 1 .. Len(log.lines) - 1 : kept[i] = log.lines[i]
    BY <2>2, <2>3, <2>4
  <2>6. l = kept \o Tail(new)
    BY <2>1
  <2> DEFINE rest == Tail(new)
  <2> HIDE DEF kept
  <2>7. l \in Seq(Lines) /\ Len(l) = Len(kept) + Len(Tail(new))
         /\ \A i \in 1 .. Len(kept) + Len(Tail(new)) :
                l[i] = IF i <= Len(kept) THEN kept[i] ELSE Tail(new)[i - Len(kept)]
    <3>1. kept \in Seq(Lines) /\ rest \in Seq(Lines) /\ l = kept \o rest
      BY <2>3, <2>5, <2>6
    <3> HIDE DEF rest
    <3>2. /\ l \in Seq(Lines) /\ Len(l) = Len(kept) + Len(rest)
          /\ \A i \in 1 .. Len(kept) + Len(rest) : l[i] = IF i <= Len(kept) THEN kept[i] ELSE rest[i - Len(kept)]
      BY <3>1, ConcatProperties
    <3>3. QED
      BY <3>2 DEF rest
  <2> HIDE DEF rest
  <2>8. /\ l \in Seq(Lines) /\ Len(l) = Len(log.lines) + Len(new) - 1
        /\ \A i \in 1 .. Len(log.lines) : l[i] = kept[i]
        /\ \A i \in Len(log.lines) + 1 .. Len(l) : l[i] = Tail(new)[i - Len(log.lines)]
    BY <2>3, <2>5, <2>7
  <2>9. \A j \in 1 .. Len(new) - 1 : Tail(new)[j] = new[j + 1]
    BY <1>3
  <2>10. OldOrNew(log, l, new)
    <3> SUFFICES ASSUME NEW i \in DOMAIN l, l[i].kind = "record"
                 PROVE  (i \in Records(log) /\ l[i] = log.lines[i]) \/ \E j \in DOMAIN new : l[i] = new[j]
      BY DEF OldOrNew
    <3>1. CASE i <= Len(log.lines)
      BY <1>1, <2>2, <2>3, <2>5, <2>8, <3>1 DEF Records
    <3>2. CASE i > Len(log.lines)
      <4>1. i \in Len(log.lines) + 1 .. Len(l) /\ i - Len(log.lines) \in 1 .. Len(new) - 1
        BY <2>3, <2>8, <3>2
      <4>2. l[i] = new[i - Len(log.lines) + 1]
        BY <2>8, <2>9, <4>1
      <4>3. QED
        BY <2>3, <4>1, <4>2
    <3>3. QED
      BY <2>3, <2>8, <3>1, <3>2
  <2>11. QED
    BY <1>3, <2>3, <2>8, <2>10
<1>4. QED
  BY <1>2, <1>3 DEF Joined, Glues

LEMMA JoinedOne ==
    ASSUME NEW log \in Logs, NEW newline \in BOOLEAN, NEW x \in Lines, NEW l \in Joined(log, newline, <<x>>)
    PROVE  \A i \in DOMAIN l : l[i].kind = "record" =>
              (i \in Records(log) /\ l[i] = log.lines[i]) \/ (i = Len(log.lines) + 1 /\ l[i] = x)
<1>1. log.lines \in Seq(Lines) /\ (log.cut => log.lines # <<>>)
  BY DEF Logs
<1>2. CASE l = log.lines \o <<x>>
  BY <1>1, <1>2 DEF Records
<1>3. CASE Glues(log, newline)
  <2>1. PICK g \in Glued(Last(log.lines)) : l = Append(Front(log.lines), g) \o Tail(<<x>>)
    BY <1>3 DEF Joined, Glues
  <2>2. g \in Lines /\ g.kind # "record"
    BY LineKinds
  <2>3. Len(log.lines) \in Nat \ {0} /\ Tail(<<x>>) = <<>>
    BY <1>1, <1>3 DEF Glues
  <2>4. /\ Front(log.lines) \in Seq(Lines) /\ Len(Front(log.lines)) = Len(log.lines) - 1
        /\ \A i \in 1 .. Len(log.lines) - 1 : Front(log.lines)[i] = log.lines[i]
    BY <1>1, <2>3 DEF Front
  <2>5. l = Append(Front(log.lines), g)
    BY <2>1, <2>2, <2>3, <2>4
  <2>6. QED
    BY <1>1, <2>2, <2>3, <2>4, <2>5 DEF Records
<1>4. QED
  BY <1>2, <1>3 DEF Joined, Glues

LEMMA WrittenLog ==
    ASSUME NEW log \in Logs, NEW newline \in BOOLEAN, NEW new \in Seq(Lines), NEW lg \in Written(log, newline, new)
    PROVE  /\ lg \in Logs /\ lg.cut = FALSE /\ OldOrNew(log, lg.lines, new)
           /\ ~ Glues(log, newline) => lg.lines = log.lines \o new
<1>1. PICK l \in Joined(log, newline, new) : lg = [lines |-> l, cut |-> FALSE]
  BY DEF Written
<1>2. QED
  BY <1>1, JoinedLines DEF Logs

\* What a write that is cut short was about to leave: some of the new lines, and a fragment.
Parts(new) == {part \in Seq(Lines) : \A j \in DOMAIN part : part[j] = Torn \/ \E i \in DOMAIN new : part[j] = new[i]}

LEMMA InitialLines ==
    ASSUME NEW new \in Seq(Lines), NEW k \in 0 .. Len(new)
    PROVE  /\ SubSeq(new, 1, k) \in Seq(Lines) /\ Len(SubSeq(new, 1, k)) = k
           /\ \A j \in 1 .. k : SubSeq(new, 1, k)[j] = new[j]
  OBVIOUS

LEMMA CutShortOf ==
    ASSUME NEW log \in Logs, NEW newline \in BOOLEAN, NEW new \in Seq(Lines), NEW lg \in CutShort(log, newline, new), lg # log
    PROVE  \E part \in Parts(new) :
              /\ lg.lines \in Joined(log, newline, part) /\ lg = [lines |-> lg.lines, cut |-> lg.cut]
              /\ lg.cut \in BOOLEAN /\ (lg.cut => part # <<>>)
<1>1. ASSUME NEW k \in 0 .. Len(new) PROVE SubSeq(new, 1, k) \in Parts(new) /\ (k # 0 => SubSeq(new, 1, k) # <<>>)
  <2> DEFINE part == SubSeq(new, 1, k)
  <2>1. part \in Seq(Lines) /\ Len(part) = k /\ \A j \in 1 .. k : part[j] = new[j]
    BY InitialLines
  <2> HIDE DEF part
  <2>2. \A j \in DOMAIN part : j \in DOMAIN new /\ part[j] = new[j]
    BY <2>1
  <2>3. part \in Parts(new) /\ (k # 0 => part # <<>>)
    BY <2>1, <2>2 DEF Parts
  <2>4. QED
    BY <2>3 DEF part
<1>2. ASSUME NEW k \in 1 .. Len(new)
      PROVE  Append(SubSeq(new, 1, k - 1), Torn) \in Parts(new) /\ Append(SubSeq(new, 1, k - 1), Torn) # <<>>
  <2> DEFINE part == SubSeq(new, 1, k - 1)
             whole == Append(part, Torn)
  <2>1. part \in Seq(Lines) /\ Len(part) = k - 1 /\ \A j \in 1 .. k - 1 : part[j] = new[j]
    BY InitialLines
  <2> HIDE DEF part
  <2>2. whole \in Seq(Lines) /\ whole # <<>> /\ \A j \in DOMAIN whole : whole[j] = Torn \/ (j \in DOMAIN new /\ whole[j] = new[j])
    BY <2>1, LineKinds
  <2> HIDE DEF whole
  <2>3. whole \in Parts(new)
    BY <2>2 DEF Parts
  <2>4. QED
    BY <2>2, <2>3 DEF whole, part
<1>3. CASE \E l \in WholeLines(log, newline, new) : lg = [lines |-> l, cut |-> FALSE]
  <2>1. PICK k \in (IF newline THEN 0 ELSE 1) .. Len(new) :
           lg.lines \in Joined(log, newline, SubSeq(new, 1, k)) /\ lg = [lines |-> lg.lines, cut |-> FALSE]
    BY <1>3 DEF WholeLines
  <2>2. k \in 0 .. Len(new)
    BY <2>1
  <2>3. SubSeq(new, 1, k) \in Parts(new)
    BY <1>1, <2>2
  <2>4. lg.cut = FALSE
    BY <2>1
  <2>5. QED
    BY <2>1, <2>3, <2>4
<1>4. CASE \E l \in UnfinishedLine(log, newline, new) : lg = [lines |-> l, cut |-> TRUE]
  <2>1. PICK k \in 1 .. Len(new) :
           lg.lines \in Joined(log, newline, SubSeq(new, 1, k)) \cup Joined(log, newline, Append(SubSeq(new, 1, k - 1), Torn)) /\ lg = [lines |-> lg.lines, cut |-> TRUE]
    BY <1>4 DEF UnfinishedLine
  <2>2. k \in 0 .. Len(new) /\ k # 0
    BY <2>1
  <2>3. SubSeq(new, 1, k) \in Parts(new) /\ SubSeq(new, 1, k) # <<>>
    BY <1>1, <2>2
  <2>4. Append(SubSeq(new, 1, k - 1), Torn) \in Parts(new) /\ Append(SubSeq(new, 1, k - 1), Torn) # <<>>
    BY <1>2, <2>1
  <2>5. lg.cut = TRUE
    BY <2>1
  <2>6. PICK part \in Parts(new) : lg.lines \in Joined(log, newline, part) /\ part # <<>>
    BY <2>1, <2>3, <2>4
  <2>7. QED
    BY <2>1, <2>5, <2>6
<1>5. QED
  BY <1>3, <1>4 DEF CutShort

LEMMA CutShortLog ==
    ASSUME NEW log \in Logs, NEW newline \in BOOLEAN, NEW new \in Seq(Lines), NEW lg \in CutShort(log, newline, new)
    PROVE  /\ lg \in Logs /\ OldOrNew(log, lg.lines, new)
           /\ ~ Glues(log, newline) => lg = log \/ \E part \in Parts(new) : lg.lines = log.lines \o part
<1>1. CASE lg = log
  BY <1>1 DEF OldOrNew, Records, Logs
<1>2. CASE lg # log
  <2>1. PICK part \in Parts(new) :
              /\ lg.lines \in Joined(log, newline, part) /\ lg = [lines |-> lg.lines, cut |-> lg.cut]
              /\ lg.cut \in BOOLEAN /\ (lg.cut => part # <<>>)
    BY <1>2, CutShortOf
  <2>2. part \in Seq(Lines) /\ \A j \in DOMAIN part : part[j].kind = "record" => \E i \in DOMAIN new : part[j] = new[i]
    BY LineKinds DEF Parts
  <2>3. /\ lg.lines \in Seq(Lines) /\ (part # <<>> => lg.lines # <<>>) /\ OldOrNew(log, lg.lines, part)
        /\ ~ Glues(log, newline) => lg.lines = log.lines \o part
    BY <2>1, <2>2, JoinedLines
  <2>4. OldOrNew(log, lg.lines, new)
    BY <2>2, <2>3 DEF OldOrNew
  <2>5. QED
    BY <2>1, <2>3, <2>4 DEF Logs
<1>3. QED
  BY <1>1, <1>2

\* A record more, or none.
OneMore(log, lg, x) ==
    \A i \in Records(lg) : (i \in Records(log) /\ lg.lines[i] = log.lines[i]) \/ (i = Len(log.lines) + 1 /\ lg.lines[i] = x)

LEMMA OneWritten ==
    ASSUME NEW log \in Logs, NEW newline \in BOOLEAN, NEW x \in Lines,
           NEW lg \in Written(log, newline, <<x>>) \cup CutShort(log, newline, <<x>>)
    PROVE  OneMore(log, lg, x)
<1>1. CASE lg \in Written(log, newline, <<x>>)
  <2>1. lg.lines \in Joined(log, newline, <<x>>)
    BY <1>1 DEF Written
  <2>2. QED
    BY <2>1, JoinedOne DEF OneMore, Records
<1>2. CASE lg = log
  BY <1>2 DEF OneMore
<1>3. CASE lg \in CutShort(log, newline, <<x>>) /\ lg # log
  <2>1. \A k \in 0 .. 1 : SubSeq(<<x>>, 1, k) = IF k = 0 THEN <<>> ELSE <<x>>
    <3>1. SubSeq(<<x>>, 1, 0) = <<>>
      BY SubSeqEmpty
    <3>2. SubSeq(<<x>>, 1, 1) = <<x>>
      BY SubSeqFull, <<x>> \in Seq(Lines), Len(<<x>>) = 1
    <3>3. \A k \in 0 .. 1 : k = 0 \/ k = 1
      OBVIOUS
    <3>4. QED
      BY <3>1, <3>2, <3>3, Zenon
  <2>2. ASSUME NEW k \in 1 .. 1
        PROVE  SubSeq(<<x>>, 1, k) = <<x>> /\ Append(SubSeq(<<x>>, 1, k - 1), Torn) = <<Torn>>
    <3>1. k = 1 /\ k - 1 = 0 /\ 0 \in 0 .. 1 /\ 1 \in 0 .. 1
      OBVIOUS
    <3>2. SubSeq(<<x>>, 1, 1) = <<x>> /\ SubSeq(<<x>>, 1, 0) = <<>>
      BY <2>1, <3>1
    <3>3. Append(<<>>, Torn) = <<Torn>>
      OBVIOUS
    <3>4. QED
      BY <3>1, <3>2, <3>3
  <2>3. lg.lines \in Joined(log, newline, <<>>) \cup Joined(log, newline, <<x>>) \cup Joined(log, newline, <<Torn>>)
    <3>1. CASE \E l \in WholeLines(log, newline, <<x>>) : lg = [lines |-> l, cut |-> FALSE]
      <4>1. PICK k \in 0 .. 1 :
               lg.lines \in Joined(log, newline, SubSeq(<<x>>, 1, k)) /\ lg = [lines |-> lg.lines, cut |-> FALSE]
        BY <3>1 DEF WholeLines
      <4>2. QED
        BY <2>1, <4>1
    <3>2. CASE \E l \in UnfinishedLine(log, newline, <<x>>) : lg = [lines |-> l, cut |-> TRUE]
      <4>1. PICK k \in 1 .. 1 :
               lg.lines \in Joined(log, newline, SubSeq(<<x>>, 1, k)) \cup Joined(log, newline, Append(SubSeq(<<x>>, 1, k - 1), Torn)) /\ lg = [lines |-> lg.lines, cut |-> TRUE]
        BY <3>2 DEF UnfinishedLine
      <4>2. QED
        BY <2>2, <4>1
    <3>3. QED
      BY <1>3, <3>1, <3>2 DEF CutShort
  <2>4. CASE lg.lines \in Joined(log, newline, <<>>)
    BY <2>4, log.lines \o <<>> = log.lines DEF Joined, OneMore, Records, Logs
  <2>5. CASE lg.lines \in Joined(log, newline, <<x>>) \cup Joined(log, newline, <<Torn>>)
    BY <2>5, JoinedOne, LineKinds DEF OneMore, Records
  <2>6. QED
    BY <2>3, <2>4, <2>5
<1>4. QED
  BY <1>1, <1>2, <1>3
-----------------------------------------------------------------------------
(* A step of an attempt, and what it leaves of the others. *)

SuccessesStay == \A r \in Run : runs[r].status = "success" => runs'[r] = runs[r]
Others(t) ==
    \A u \in Attempt \ {t} :
        task'[u] = task[u] /\ effects'[u] = effects[u] /\ page'[u] = page[u] /\ browser'[u] = browser[u]
Seals(t) ==
    \/ runs' = runs
    \/ \E r \in {Warm(t), Cold(t)}, status \in {"success", "failure"} :
         task[t].phase # "idle" /\ runs[r].status # "success" /\ Seal(r, t, status)
Keeps(t) == AttemptHolds(t, task[t], effects[t], page[t], browser[t], runs)'

LEMMA OwnRuns ==
    /\ \A t, u \in Attempt : Warm(t) # Cold(u) /\ (t # u => Warm(t) # Warm(u) /\ Cold(t) # Cold(u))
    /\ \A t \in Attempt : Warm(t) \in Run /\ Cold(t) \in Run
    /\ None \notin Run /\ None \notin Name /\ Earlier \subseteq Run
  BY RunAssumption, LearnedAssumption DEF Warm, Cold

LEMMA SealsFinally ==
    ASSUME TaskInv, NEW t \in Attempt, Seals(t)
    PROVE  /\ SuccessesStay /\ \A r \in Run \ {Warm(t), Cold(t)} : runs'[r] = runs[r]
           /\ \A r \in Run : runs'[r].status = "success" => runs'[r].env \in Env /\ runs'[r].text \in Text
<1>1. runs \in [Run -> RunDirs]
  BY DEF TaskInv, TasksTypeOK
<1>2. CASE runs' = runs
  BY <1>2 DEF SuccessesStay, TaskInv, TasksHold
<1>3. CASE \E r \in {Warm(t), Cold(t)}, status \in {"success", "failure"} :
         task[t].phase # "idle" /\ runs[r].status # "success" /\ Seal(r, t, status)
  <2>1. PICK r \in {Warm(t), Cold(t)}, status \in {"success", "failure"} :
         task[t].phase # "idle" /\ runs[r].status # "success" /\ Seal(r, t, status)
    BY <1>3
  <2>2. runs' = [runs EXCEPT ![r] = RunDir(status, task[t].env, task[t].text, IF r = Cold(t) THEN task[t].checks ELSE {})]
        /\ r \in Run
    BY <2>1, OwnRuns DEF Seal
  <2>3. task[t].env \in Env /\ task[t].text \in Text
    BY <2>1 DEF TaskInv, TasksHold, AttemptHolds, Course
  <2>4. \A q \in Run \ {r} : runs'[q] = runs[q]
    BY <1>1, <2>2
  <2>5. runs'[r].env \in Env /\ runs'[r].text \in Text
    BY <1>1, <2>2, <2>3 DEF RunDir
  <2>6. QED
    BY <2>1, <2>4, <2>5 DEF SuccessesStay, TaskInv, TasksHold
<1>4. QED
  BY <1>2, <1>3 DEF Seals

LEMMA AttemptMoves ==
    ASSUME TaskInv, NEW t \in Attempt, TasksTypeOK', Others(t), Seals(t), Keeps(t)
    PROVE  TaskInv' /\ SuccessesStay
<1>1. /\ SuccessesStay /\ \A r \in Run \ {Warm(t), Cold(t)} : runs'[r] = runs[r]
      /\ \A r \in Run : runs'[r].status = "success" => runs'[r].env \in Env /\ runs'[r].text \in Text
  BY SealsFinally
<1>2. ASSUME NEW u \in Attempt \ {t}
      PROVE  AttemptHolds(u, task[u], effects[u], page[u], browser[u], runs)'
  <2>1. AttemptHolds(u, task[u], effects[u], page[u], browser[u], runs)
    BY DEF TaskInv, TasksHold
  <2>2. task'[u] = task[u] /\ effects'[u] = effects[u] /\ page'[u] = page[u] /\ browser'[u] = browser[u]
    BY DEF Others
  <2>3. runs'[Warm(u)] = runs[Warm(u)] /\ runs'[Cold(u)] = runs[Cold(u)]
    BY <1>1, OwnRuns
  <2>4. task[u] \in Tasks
    BY DEF TaskInv, TasksTypeOK
  <2>5. task[u].candidate.run \in Run \cup {None}
    BY <2>4 DEF Tasks, Candidates
  <2>6. task[u].candidate.run # None =>
           runs'[task[u].candidate.run] = runs[task[u].candidate.run]
    BY <1>1, <2>1, <2>5 DEF SuccessesStay, AttemptHolds, Informed
  <2>7. AttemptHolds(u, task[u], effects[u], page[u], browser[u], runs')
    BY <2>1, <2>3, <2>6 DEF AttemptHolds, Informed, Sealed
  <2>8. QED
    BY <2>2, <2>7
<1>3. QED
  BY <1>1, <1>2 DEF TaskInv, TasksHold, Keeps
-----------------------------------------------------------------------------
(* The candidate that the library offers. *)

LEMMA ListedAreWhole ==
    ASSUME StoreInv, NEW n \in Listed
    PROVE  /\ n \in Name /\ file[n] = "whole" /\ RunOf(n) \in Run /\ runs[RunOf(n)].status = "success"
           /\ \E i \in Records(index) : index.lines[i] = Line(n, RunOf(n))
<1>1. PICK i \in Records(index) : index.lines[i].name = n
  BY DEF Listed
<1>2. PICK j \in Records(index) : index.lines[j].name = n /\ RunOf(n) = index.lines[j].run
  BY <1>1 DEF RunOf
<1>3. index.lines \in Seq(Lines) /\ j \in DOMAIN index.lines /\ index.lines[j].kind = "record"
  BY DEF StoreInv, LearnedTypeOK, Logs, Records
<1>4. index.lines[j] \in Lines
  BY <1>3
<1>5. index.lines[j].run \in Run /\ index.lines[j] = Line(n, RunOf(n))
  BY <1>2, <1>3, <1>4, OwnRuns, LineTypes DEF Lines, Torn, Garbled, Line
<1>6. QED
  BY <1>2, <1>5 DEF StoreInv, StoreHolds, ListHolds

LEMMA LibraryIsFinite == ASSUME StoreInv PROVE IsFiniteSet(Library)
<1> DEFINE f == [i \in Records(index) |-> EntryOf(index.lines[i].name)]
<1>1. IsFiniteSet(Records(index))
  <2>1. index.lines \in Seq(Lines)
    BY DEF StoreInv, LearnedTypeOK, Logs
  <2>2. Records(index) \subseteq 1 .. Len(index.lines) /\ Len(index.lines) \in Nat
    BY <2>1 DEF Records
  <2>3. IsFiniteSet(1 .. Len(index.lines))
    BY <2>2, FS_Interval
  <2>4. QED
    BY <2>2, <2>3, FS_Subset
<1>2. Library = {f[i] : i \in Records(index)}
  BY DEF Library, Listed
<1>3. f \in Surjection(Records(index), Library)
  BY <1>2 DEF Surjection
<1> HIDE DEF f
<1>4. QED
  BY <1>1, <1>3, FS_Surjection DEF ExistsSurjection

\* What the library offers was proved in the environment asked for, by a run that succeeded.
LEMMA LibraryOffers ==
    ASSUME TaskInv, StoreInv, NEW t \in Attempt, task[t].phase # "idle"
    PROVE  \/ LibraryCandidate(t) = NoCandidate
           \/ LET c == LibraryCandidate(t)
              IN  /\ c \in Candidates /\ c # NoCandidate /\ c.name \in Listed /\ c.run \in Run
                  /\ runs[c.run].status = "success" /\ runs[c.run].env = c.env /\ c.env = task[t].env
<1> SUFFICES ASSUME M!Matches(Request(t), Library)
             PROVE  LET c == LibraryCandidate(t)
                    IN  /\ c \in Candidates /\ c # NoCandidate /\ c.name \in Listed /\ c.run \in Run
                        /\ runs[c.run].status = "success" /\ runs[c.run].env = c.env /\ c.env = task[t].env
  BY Zenon DEF LibraryCandidate
<1>1. ASSUME NEW e \in Library PROVE IsFiniteSet(e.intent) /\ e.version \in Nat
  <2>1. PICK n \in Listed : e = EntryOf(n)
    BY <1>1 DEF Library
  <2>2. RunOf(n) \in Run /\ runs[RunOf(n)].text \in Text
    BY ListedAreWhole DEF TaskInv, TasksHold
  <2>3. e.intent = TokensOf(runs[RunOf(n)].text) /\ e.version = 1
    BY <2>1 DEF EntryOf
  <2>4. QED
    BY <2>2, <2>3, RunAssumption
<1>2. IsFiniteSet(Request(t).task)
  <2>1. task[t].text \in Text
    BY DEF TaskInv, TasksHold, AttemptHolds, Course
  <2>2. QED
    BY <2>1, RunAssumption DEF Request
<1>3. Matchable(Request(t), Library)
  BY <1>1, <1>2, LibraryIsFinite DEF Matchable
<1> DEFINE e == M!Matched(Request(t), Library)
           c == LibraryCandidate(t)
<1>4. e \in Library /\ e.env = task[t].env
  BY <1>3, MatchesAreLicensed DEF M!MatchIsLicensed, Request
<1>5. PICK n \in Listed : e = EntryOf(n)
  BY <1>4 DEF Library
<1>6. c = [name |-> n, env |-> e.env, run |-> RunOf(n)] /\ e.env = runs[RunOf(n)].env
  BY <1>5 DEF LibraryCandidate, EntryOf
<1>7. n \in Name /\ RunOf(n) \in Run /\ runs[RunOf(n)].status = "success" /\ runs[RunOf(n)].env \in Env
  BY ListedAreWhole DEF TaskInv, TasksHold
<1>8. c # NoCandidate
  BY <1>6, <1>7, OwnRuns DEF NoCandidate
<1> HIDE DEF c, e
<1>9. QED
  BY <1>4, <1>6, <1>7, <1>8 DEF Candidates, c
-----------------------------------------------------------------------------
(* Every step of an attempt keeps what holds of it. *)

LEMMA SealsTyped == ASSUME TaskInv, NEW t \in Attempt, Seals(t) PROVE runs' \in [Run -> RunDirs]
<1>1. runs \in [Run -> RunDirs] /\ task[t] \in Tasks
  BY DEF TaskInv, TasksTypeOK
<1>2. \A status \in {"success", "failure"}, checks \in SUBSET Check :
         RunDir(status, task[t].env, task[t].text, checks) \in RunDirs
  BY <1>1 DEF RunDir, RunDirs, Tasks
<1>3. CASE runs' = runs
  BY <1>1, <1>3
<1>4. ASSUME NEW r \in {Warm(t), Cold(t)}, NEW status \in {"success", "failure"}, Seal(r, t, status)
      PROVE  runs' \in [Run -> RunDirs]
  <2> DEFINE checks == IF r = Cold(t) THEN task[t].checks ELSE {}
  <2>1. runs' = [runs EXCEPT ![r] = RunDir(status, task[t].env, task[t].text, checks)]
    BY <1>4 DEF Seal
  <2>2. checks \in SUBSET Check
    BY <1>1 DEF Tasks
  <2> HIDE DEF checks
  <2>3. QED
    BY <1>1, <1>2, <2>1, <2>2
<1>5. QED
  BY <1>3, <1>4 DEF Seals

\* A step that changes the attempt's own record, and perhaps seals a run of its own.
TaskMoves(t, k) ==
    /\ k \in Tasks /\ task' \in [Attempt -> Tasks] /\ task'[t] = k
    /\ \A u \in Attempt \ {t} : task'[u] = task[u]
LEMMA Takes ==
    ASSUME TaskInv, NEW t \in Attempt, NEW k, TaskMoves(t, k), UNCHANGED <<effects, page, browser>>, Seals(t),
           AttemptHolds(t, k, effects[t], page[t], browser[t], runs')
    PROVE  TaskInv' /\ SuccessesStay
<1>1. Keeps(t)
  BY DEF Keeps, TaskMoves
<1>2. Others(t)
  BY DEF Others, TaskMoves
<1>3. TasksTypeOK'
  BY SealsTyped DEF TaskMoves, TaskInv, TasksTypeOK
<1>4. QED
  BY <1>1, <1>2, <1>3, AttemptMoves

\* What is known of a candidate stays known.
LEMMA InformedStays ==
    ASSUME TaskInv, NEW t \in Attempt, Seals(t), NEW k \in Tasks, Informed(k, runs)
    PROVE  Informed(k, runs') /\ (k.candidate.run # None => runs'[k.candidate.run] = runs[k.candidate.run])
<1>1. k.candidate.run \in Run \cup {None}
  BY DEF Tasks, Candidates
<1>2. QED
  BY <1>1, SealsFinally DEF Informed, SuccessesStay

LEMMA Attempts ==
    ASSUME TaskInv, NEW t \in Attempt
    PROVE  /\ task \in [Attempt -> Tasks] /\ task[t] \in Tasks /\ effects[t] \in Works /\ page[t] \in SUBSET Check
           /\ AttemptHolds(t, task[t], effects[t], page[t], browser[t], runs)
           /\ runs \in [Run -> RunDirs] /\ browser[t] \in {"closed", "open"}
  BY DEF TaskInv, TasksTypeOK, TasksHold

LEMMA WorksAre ==
    /\ ~ Acted(<<>>) /\ ~ Planned(<<>>) /\ ~ Planned(<<"replay">>)
    /\ \A w \in Works : /\ ~ Acted(w) => w \in {<<>>, <<"agent">>}
                        /\ ~ Planned(w) => w \in {<<>>, <<"replay">>}
  BY DEF Acted, Planned, Works
LEMMA AppendToOne == ASSUME NEW a, NEW b PROVE Append(<<a>>, b) = <<a, b>>
<1> DEFINE S == {a, b}
           s == Append(<<a>>, b)
           t == <<a, b>>
<1>1. t \in Seq(S) /\ Len(t) = 2 /\ t[1] = a /\ t[2] = b
  OBVIOUS
<1>2. s \in Seq(S) /\ Len(s) = 2 /\ s[1] = a /\ s[2] = b
  OBVIOUS
<1> HIDE DEF s, t, S
<1>3. \A i \in 1 .. 2 : s[i] = t[i]
  <2>1. \A i \in 1 .. 2 : i = 1 \/ i = 2
    OBVIOUS
  <2>2. QED
    BY <1>1, <1>2, <2>1
<1>4. s = t
  BY <1>1, <1>2, <1>3, SeqEqual
<1>5. QED
  BY <1>4 DEF s, t

LEMMA NoneIsApart == None \notin Outcomes \cup Ways \cup Reasons \cup Codes
  BY RunAssumption

LEMMA StartKeeps ==
    ASSUME TaskInv, NEW t \in Attempt, NEW text \in Text, NEW e \in Env, NEW checks \in SUBSET Check, NEW explicit \in BOOLEAN,
           Start(t, text, e, checks, explicit)
    PROVE  TaskInv' /\ SuccessesStay
<1> DEFINE phase == IF checks = {} THEN "over" ELSE "select"
           result == IF checks = {} THEN "error" ELSE None
           k == [task[t] EXCEPT !.phase = phase, !.result = result,
                                !.text = text, !.env = e, !.checks = checks, !.explicit = explicit]
<1>1. (phase = "over" /\ result = "error") \/ (phase = "select" /\ result = None)
  OBVIOUS
<1>2. /\ task[t] \in Tasks /\ task[t].phase = "idle" /\ effects[t] \in Works
      /\ AttemptHolds(t, task[t], effects[t], page[t], browser[t], runs)
  BY Attempts DEF Start, InPhase
<1>3. task' = [task EXCEPT ![t] = k]
  BY Attempts DEF Start
<1> HIDE DEF phase, result
<1>4. /\ k \in Tasks /\ k.phase = phase /\ k.result = result /\ k.text = text /\ k.env = e /\ k.checks = checks
      /\ k.explicit = explicit /\ k.candidate = task[t].candidate /\ k.fallback = task[t].fallback
      /\ k.code = task[t].code /\ k.planned = task[t].planned /\ k.phase_of = task[t].phase_of
  BY <1>1, <1>2 DEF Tasks, Outcomes
<1> HIDE DEF k
<1>5. TaskMoves(t, k)
  BY <1>3, <1>4, Attempts DEF TaskMoves
<1>6. AttemptHolds(t, k, effects[t], page[t], browser[t], runs)
  <2>2. Conduct(k, effects[t])
    BY <1>1, <1>2, <1>4, WorksAre DEF AttemptHolds, Conduct, Early
  <2>3. Course(k)
    BY <1>1, <1>2, <1>4, NoneIsApart DEF AttemptHolds, Course, Early, Going, Outcomes, Ways, Reasons, Codes
  <2>4. Informed(k, runs) /\ Stopped(k, browser[t])
    BY <1>1, <1>2, <1>4 DEF AttemptHolds, Informed, Stopped, Early, Course, NoCandidate
  <2>5. Sealed(t, k, page[t], runs)
    BY <1>1, <1>2, <1>4, NoneIsApart DEF AttemptHolds, Sealed, Early, Going, Outcomes, Ways
  <2>6. QED
    BY <2>2, <2>3, <2>4, <2>5 DEF AttemptHolds
<1>7. QED
  BY <1>5, <1>6, Takes DEF Start, Seals

LEMMA RefuseKeeps ==
    ASSUME TaskInv, NEW t \in Attempt, InPhase(t, "select"), Refuse(t), UNCHANGED <<effects, page, browser, runs>>
    PROVE  TaskInv' /\ SuccessesStay
<1> DEFINE k == [task[t] EXCEPT !.phase = "over", !.result = "error"]
<1>1. /\ task[t] \in Tasks /\ task[t].phase = "select" /\ effects[t] \in Works
      /\ AttemptHolds(t, task[t], effects[t], page[t], browser[t], runs)
  BY Attempts DEF InPhase
<1>2. task' = [task EXCEPT ![t] = k]
  BY Attempts DEF Refuse
<1>3. /\ k \in Tasks /\ k.phase = "over" /\ k.result = "error" /\ k.text = task[t].text /\ k.env = task[t].env
      /\ k.explicit = task[t].explicit /\ k.candidate = task[t].candidate /\ k.fallback = task[t].fallback
      /\ k.code = task[t].code /\ k.planned = task[t].planned /\ k.phase_of = task[t].phase_of
  BY <1>1, ZenonT(40) DEF Tasks, Outcomes
<1> HIDE DEF k
<1>4. TaskMoves(t, k)
  BY <1>2, <1>3, Attempts DEF TaskMoves
<1>5. Conduct(k, effects[t])
  BY <1>1, <1>3, WorksAre DEF AttemptHolds, Conduct, Early
<1>6. Course(k)
  BY <1>1, <1>3, NoneIsApart DEF AttemptHolds, Course, Early, Going, Outcomes, Ways, Reasons, Codes
<1>7. Informed(k, runs) /\ Stopped(k, browser[t])
  BY <1>1, <1>3 DEF AttemptHolds, Informed, Stopped, Early
<1>8. Sealed(t, k, page[t], runs)
  BY <1>1, <1>3, NoneIsApart DEF AttemptHolds, Sealed, Early, Going, Outcomes, Ways
<1>9. QED
  BY <1>4, <1>5, <1>6, <1>7, <1>8, Takes DEF Seals, AttemptHolds

LEMMA SelectedKeeps ==
    ASSUME TaskInv, NEW t \in Attempt, InPhase(t, "select"), NEW c \in Candidates, Selected(t, c),
           c # NoCandidate /\ ~ task[t].explicit => c.run # None,
           c.run # None => runs[c.run].status = "success" /\ runs[c.run].env = c.env,
           UNCHANGED <<effects, page, browser, runs>>
    PROVE  TaskInv' /\ SuccessesStay
<1> DEFINE fallback == IF Mismatch(t, c) THEN "fingerprint_mismatch" ELSE None
           code == IF Mismatch(t, c) THEN "FINGERPRINT_MISMATCH" ELSE None
           k == [task[t] EXCEPT !.phase = "open", !.candidate = c, !.fallback = fallback, !.code = code]
<1>0. /\ (fallback = "fingerprint_mismatch" /\ code = "FINGERPRINT_MISMATCH") \/ (fallback = None /\ code = None)
      /\ c.env = task[t].env => fallback = None
  BY DEF Mismatch, Gate
<1>1. /\ task[t] \in Tasks /\ task[t].phase = "select" /\ effects[t] \in Works
      /\ AttemptHolds(t, task[t], effects[t], page[t], browser[t], runs)
  BY Attempts DEF InPhase
<1>2. task' = [task EXCEPT ![t] = k]
  BY Attempts DEF Selected
<1> HIDE DEF fallback, code
<1>3. /\ k \in Tasks /\ k.phase = "open" /\ k.result = task[t].result /\ k.text = task[t].text /\ k.env = task[t].env
      /\ k.explicit = task[t].explicit /\ k.candidate = c /\ k.fallback = fallback
      /\ k.code = code /\ k.planned = task[t].planned /\ k.phase_of = task[t].phase_of
  BY <1>0, <1>1, ZenonT(40) DEF Tasks, Reasons, Codes
<1> HIDE DEF k
<1>4. TaskMoves(t, k)
  BY <1>2, <1>3, Attempts DEF TaskMoves
<1>5. Conduct(k, effects[t])
  BY <1>1, <1>3, WorksAre DEF AttemptHolds, Conduct, Early
<1>6. Course(k)
  BY <1>0, <1>1, <1>3, NoneIsApart DEF AttemptHolds, Course, Early, Going, Outcomes, Ways, Reasons, Codes
<1>7. Informed(k, runs) /\ Stopped(k, browser[t])
  BY <1>1, <1>3 DEF AttemptHolds, Informed, Stopped, Early
<1>8. Sealed(t, k, page[t], runs)
  <2>1. k.result = None
    BY <1>1, <1>3 DEF AttemptHolds, Course, Going, Early
  <2>2. QED
    BY <1>1, <1>3, <2>1, NoneIsApart DEF AttemptHolds, Sealed, Early, Going, Outcomes
<1>9. QED
  BY <1>4, <1>5, <1>6, <1>7, <1>8, Takes DEF Seals, AttemptHolds

LEMMA SelectKeeps ==
    ASSUME TaskInv, StoreInv, NEW t \in Attempt, Select(t)
    PROVE  TaskInv' /\ SuccessesStay
<1>1. InPhase(t, "select") /\ UNCHANGED <<effects, page, browser, runs>>
  BY DEF Select
<1>2. NoCandidate \in Candidates /\ NoCandidate.run = None
  BY DEF NoCandidate, Candidates
<1>3. CASE Refuse(t)
  BY <1>1, <1>3, RefuseKeeps
<1>4. CASE task[t].explicit /\ \E c \in CandidateFile : Selected(t, c)
  <2>1. PICK c \in CandidateFile : Selected(t, c)
    BY <1>4
  <2>2. c \in Candidates /\ c.run = None
    BY DEF CandidateFile, Candidates
  <2>3. QED
    BY <1>1, <1>4, <2>1, <2>2, SelectedKeeps
<1>5. CASE ~ task[t].explicit /\ Selected(t, LibraryCandidate(t))
  <2> DEFINE c == LibraryCandidate(t)
  <2>1. task[t].phase # "idle"
    BY <1>1 DEF InPhase
  <2>2. /\ c \in Candidates /\ (c # NoCandidate => c.run # None)
        /\ c.run # None => runs[c.run].status = "success" /\ runs[c.run].env = c.env
    BY <1>2, <2>1, LibraryOffers, OwnRuns
  <2> HIDE DEF c
  <2>3. Selected(t, c)
    BY <1>5 DEF c
  <2>4. QED
    BY <1>1, <2>2, <2>3, SelectedKeeps
<1>6. QED
  BY <1>3, <1>4, <1>5 DEF Select

\* An exception, from wherever it comes, and the one that closing raises.
LEMMA LeaveKeeps ==
    ASSUME TaskInv, NEW t \in Attempt, NEW phase \in {"finally", "over"}, NEW b \in {"closed", "open"},
           task' = [task EXCEPT ![t].phase = phase, ![t].result = "error"],
           \/ task[t].phase \in {"open", "plan", "brief", "agent"} /\ phase = "finally"
           \/ task[t].phase = "finally" /\ phase = "over" /\ b = "closed",
           browser' = [browser EXCEPT ![t] = b], UNCHANGED <<effects, page>>,
           runs' = runs \/ (phase = "finally" /\ Seal(Cold(t), t, "failure"))
    PROVE  TaskInv' /\ SuccessesStay
<1> DEFINE k == [task[t] EXCEPT !.phase = phase, !.result = "error"]
<1>1. /\ task[t] \in Tasks /\ effects[t] \in Works
      /\ AttemptHolds(t, task[t], effects[t], page[t], browser[t], runs)
  BY Attempts
<1>2. task' = [task EXCEPT ![t] = k]
  BY Attempts
<1>3. /\ k \in Tasks /\ k.phase = phase /\ k.result = "error" /\ k.text = task[t].text /\ k.env = task[t].env
      /\ k.explicit = task[t].explicit /\ k.candidate = task[t].candidate /\ k.fallback = task[t].fallback
      /\ k.code = task[t].code /\ k.planned = task[t].planned /\ k.phase_of = task[t].phase_of
  BY <1>1, ZenonT(40) DEF Tasks, Outcomes
<1> HIDE DEF k
<1>4. TaskMoves(t, k)
  BY <1>2, <1>3, Attempts DEF TaskMoves
<1>5. Seals(t)
  BY <1>1 DEF Seals, AttemptHolds, Sealed, Going, Early
<1>6. Conduct(k, effects[t])
  BY <1>1, <1>3, WorksAre DEF AttemptHolds, Conduct, Early, Fell
<1>7. Course(k)
  BY <1>1, <1>3, NoneIsApart DEF AttemptHolds, Course, Early, Going, Outcomes, Ways
<1>8. Informed(k, runs') /\ Stopped(k, b)
  BY <1>1, <1>3, <1>5, InformedStays DEF AttemptHolds, Informed, Stopped, Early
<1>9. Sealed(t, k, page[t], runs')
  BY <1>1, <1>3, NoneIsApart DEF AttemptHolds, Sealed, Early, Going, Outcomes
<1>10. browser' \in [Attempt -> {"closed", "open"}] /\ browser'[t] = b /\ \A u \in Attempt \ {t} : browser'[u] = browser[u]
  BY DEF TaskInv, TasksTypeOK
<1>11. Keeps(t)
  BY <1>4, <1>6, <1>7, <1>8, <1>9, <1>10 DEF Keeps, TaskMoves, AttemptHolds
<1>12. Others(t)
  BY <1>4, <1>10 DEF Others, TaskMoves
<1>13. TasksTypeOK'
  BY <1>4, <1>5, <1>10, SealsTyped DEF TaskMoves, TaskInv, TasksTypeOK
<1>14. QED
  BY <1>5, <1>11, <1>12, <1>13, AttemptMoves

LEMMA RaiseKeeps ==
    ASSUME TaskInv, NEW t \in Attempt, task[t].phase \in {"open", "plan", "brief", "agent"}, Raise(t),
           UNCHANGED <<effects, page, browser>>, runs' = runs \/ Seal(Cold(t), t, "failure")
    PROVE  TaskInv' /\ SuccessesStay
<1>1. browser' = [browser EXCEPT ![t] = browser[t]] /\ browser[t] \in {"closed", "open"}
  BY DEF TaskInv, TasksTypeOK
<1>2. QED
  BY <1>1, LeaveKeeps DEF Raise

LEMMA OpenPageKeeps ==
    ASSUME TaskInv, NEW t \in Attempt, OpenPage(t)
    PROVE  TaskInv' /\ SuccessesStay
<1>1. /\ task[t] \in Tasks /\ task[t].phase = "open" /\ effects[t] \in Works /\ UNCHANGED <<effects, page>>
      /\ AttemptHolds(t, task[t], effects[t], page[t], browser[t], runs)
  BY Attempts DEF InPhase, OpenPage
<1>2. task[t].result = None /\ task[t].phase_of = None /\ effects[t] = <<>>
  BY <1>1 DEF AttemptHolds, Course, Conduct, Going, Early
<1>3. CASE /\ browser' = [browser EXCEPT ![t] = "open"]
           /\ Enter(t, IF Gate(t, task[t].candidate) THEN "replay" ELSE "plan")
           /\ UNCHANGED runs
  <2> DEFINE phase == IF Gate(t, task[t].candidate) THEN "replay" ELSE "plan"
             k == [task[t] EXCEPT !.phase = phase]
  <2>1. \/ phase = "replay" /\ task[t].candidate # NoCandidate /\ task[t].candidate.env = task[t].env
        \/ phase = "plan"
    BY DEF Gate
  <2>2. task' = [task EXCEPT ![t] = k]
    BY <1>3, Attempts DEF Enter
  <2> HIDE DEF phase
  <2>3. /\ k \in Tasks /\ k.phase = phase /\ k.result = None /\ k.text = task[t].text /\ k.env = task[t].env
        /\ k.explicit = task[t].explicit /\ k.candidate = task[t].candidate /\ k.fallback = task[t].fallback
        /\ k.code = task[t].code /\ k.planned = task[t].planned /\ k.phase_of = None
    BY <1>1, <1>2, <2>1 DEF Tasks
  <2> HIDE DEF k
  <2>4. TaskMoves(t, k)
    BY <2>2, <2>3, Attempts DEF TaskMoves
  <2>5. Conduct(k, effects[t])
    BY <1>1, <1>2, <2>1, <2>3, WorksAre DEF AttemptHolds, Conduct, Early
  <2>6. Course(k)
    BY <1>1, <2>1, <2>3, NoneIsApart DEF AttemptHolds, Course, Early, Going, Outcomes, Ways
  <2>7. Informed(k, runs) /\ Stopped(k, "open")
    BY <1>1, <2>1, <2>3 DEF AttemptHolds, Informed, Stopped, Early
  <2>8. Sealed(t, k, page[t], runs)
    BY <1>1, <2>1, <2>3, NoneIsApart DEF AttemptHolds, Sealed, Early, Going, Outcomes
  <2>9. browser' \in [Attempt -> {"closed", "open"}] /\ browser'[t] = "open" /\ \A u \in Attempt \ {t} : browser'[u] = browser[u]
    BY <1>3 DEF TaskInv, TasksTypeOK
  <2>10. Keeps(t)
    BY <1>1, <1>3, <2>4, <2>5, <2>6, <2>7, <2>8, <2>9 DEF Keeps, TaskMoves, AttemptHolds
  <2>11. Others(t)
    BY <1>1, <2>4, <2>9 DEF Others, TaskMoves
  <2>12. TasksTypeOK'
    BY <1>1, <1>3, <2>4, <2>9 DEF TaskMoves, TaskInv, TasksTypeOK
  <2>13. QED
    BY <1>3, <2>10, <2>11, <2>12, AttemptMoves DEF Seals
<1>4. ASSUME NEW started \in {"open", "closed"}, browser' = [browser EXCEPT ![t] = started], Raise(t), SealFailure(t)
      PROVE  TaskInv' /\ SuccessesStay
  BY <1>1, <1>4, LeaveKeeps DEF Raise, SealFailure
<1>5. QED
  BY <1>3, <1>4 DEF OpenPage

LEMMA ReplayActsKeeps ==
    ASSUME TaskInv, NEW t \in Attempt, ReplayActs(t)
    PROVE  TaskInv' /\ SuccessesStay
<1>1. /\ task[t] \in Tasks /\ task[t].phase = "replay" /\ effects[t] = <<>> /\ UNCHANGED <<task, browser, runs>>
      /\ AttemptHolds(t, task[t], effects[t], page[t], browser[t], runs)
  BY Attempts DEF InPhase, ReplayActs
<1>2. PICK w \in {<<>>, <<"replay">>} : effects' = [effects EXCEPT ![t] = w]
  <2>1. Append(<<>>, "replay") = <<"replay">>
    OBVIOUS
  <2>2. effects \in [Attempt -> Works]
    BY DEF TaskInv, TasksTypeOK
  <2>3. CASE effects' = effects
    BY <1>1, <2>2, <2>3
  <2>4. CASE effects' = [effects EXCEPT ![t] = Append(@, "replay")]
    BY <1>1, <2>1, <2>2, <2>4
  <2>5. QED
    BY <2>3, <2>4 DEF ReplayActs
<1>3. w \in Works /\ ~ Planned(w)
  BY WorksAre DEF Works
<1>4. /\ effects' \in [Attempt -> Works] /\ effects'[t] = w /\ \A u \in Attempt \ {t} : effects'[u] = effects[u]
  BY <1>2, <1>3 DEF TaskInv, TasksTypeOK
<1>5. page' \in [Attempt -> SUBSET Check] /\ \A u \in Attempt \ {t} : page'[u] = page[u]
  BY DEF ReplayActs, TaskInv, TasksTypeOK
<1>6. Conduct(task[t], w)
  BY <1>1, <1>3 DEF AttemptHolds, Conduct, Course, Early
<1>7. Sealed(t, task[t], page'[t], runs)
  BY <1>1, NoneIsApart DEF AttemptHolds, Sealed, Course, Early, Going, Outcomes
<1>8. Keeps(t)
  BY <1>1, <1>4, <1>6, <1>7 DEF Keeps, AttemptHolds
<1>9. Others(t)
  BY <1>1, <1>4, <1>5 DEF Others
<1>10. TasksTypeOK'
  BY <1>1, <1>4, <1>5 DEF TaskInv, TasksTypeOK
<1>11. QED
  BY <1>1, <1>8, <1>9, <1>10, AttemptMoves DEF Seals

LEMMA ReplayPassesKeeps ==
    ASSUME TaskInv, NEW t \in Attempt, ReplayPasses(t)
    PROVE  TaskInv' /\ SuccessesStay
<1> DEFINE k == [task[t] EXCEPT !.phase = "finally", !.phase_of = "warm", !.result = "success"]
<1>1. /\ task[t] \in Tasks /\ task[t].phase = "replay" /\ effects[t] \in Works
      /\ AttemptHolds(t, task[t], effects[t], page[t], browser[t], runs)
  BY Attempts DEF InPhase, ReplayPasses
<1>2. task' = [task EXCEPT ![t] = k]
  BY Attempts DEF ReplayPasses, Return
<1>3. /\ k \in Tasks /\ k.phase = "finally" /\ k.result = "success" /\ k.phase_of = "warm"
      /\ k.text = task[t].text /\ k.env = task[t].env
      /\ k.explicit = task[t].explicit /\ k.checks = task[t].checks /\ k.candidate = task[t].candidate /\ k.fallback = task[t].fallback
      /\ k.code = task[t].code /\ k.planned = task[t].planned
  BY <1>1 DEF Tasks, Outcomes, Ways
<1> HIDE DEF k
<1>4. TaskMoves(t, k)
  BY <1>2, <1>3, Attempts DEF TaskMoves
<1>5. Seals(t) /\ UNCHANGED <<effects, page, browser>>
  BY <1>1 DEF Seals, AttemptHolds, Sealed, Going, Early, ReplayPasses
<1>6. Conduct(k, effects[t])
  BY <1>1, <1>3, WorksAre DEF AttemptHolds, Conduct, Early
<1>7. Course(k)
  BY <1>1, <1>3, NoneIsApart DEF AttemptHolds, Course, Early, Going, Outcomes, Ways
<1>8. Informed(k, runs') /\ Stopped(k, browser[t]) /\ (k.candidate.run # None => runs'[k.candidate.run] = runs[k.candidate.run])
  <2>1. Informed(k, runs) /\ Stopped(k, browser[t])
    BY <1>1, <1>3 DEF AttemptHolds, Informed, Stopped, Early
  <2>2. QED
    BY <1>3, <1>5, <2>1, InformedStays
<1>9. Sealed(t, k, page[t], runs')
  <2>1. runs'[Warm(t)].status = "success"
    BY OwnRuns, Attempts DEF ReplayPasses, Seal, RunDir
  <2>2. k.candidate.run = None \/ runs'[k.candidate.run].checks \subseteq page[t]
    BY <1>3, <1>8 DEF ReplayPasses, VerifyOf
  <2>3. QED
    BY <1>1, <1>3, <2>1, <2>2 DEF Sealed, Early, Going
<1>10. QED
  BY <1>4, <1>5, <1>6, <1>7, <1>8, <1>9, Takes DEF AttemptHolds

LEMMA ReplayFailsKeeps ==
    ASSUME TaskInv, NEW t \in Attempt, ReplayFails(t)
    PROVE  TaskInv' /\ SuccessesStay
<1>1. PICK fallback \in {"replay_failed", "replay_error"}, code \in Codes : FellBack(t, fallback, code)
  BY DEF ReplayFails, Codes
<1> DEFINE k == [task[t] EXCEPT !.phase = "plan", !.fallback = fallback, !.code = code]
<1>2. /\ task[t] \in Tasks /\ task[t].phase = "replay" /\ effects[t] \in Works
      /\ AttemptHolds(t, task[t], effects[t], page[t], browser[t], runs)
  BY Attempts DEF InPhase, ReplayFails
<1>3. task' = [task EXCEPT ![t] = k]
  BY <1>1, Attempts DEF FellBack
<1>4. /\ k \in Tasks /\ k.phase = "plan" /\ k.result = task[t].result /\ k.phase_of = task[t].phase_of
      /\ k.text = task[t].text /\ k.env = task[t].env
      /\ k.explicit = task[t].explicit /\ k.checks = task[t].checks /\ k.candidate = task[t].candidate /\ k.fallback = fallback
      /\ k.code = code /\ k.planned = task[t].planned
  BY <1>1, <1>2 DEF Tasks, Reasons
<1> HIDE DEF k
<1>5. TaskMoves(t, k)
  BY <1>3, <1>4, Attempts DEF TaskMoves
<1>6. Seals(t) /\ UNCHANGED <<effects, page, browser>>
  BY <1>2 DEF Seals, AttemptHolds, Sealed, Going, Early, ReplayFails
<1>7. Conduct(k, effects[t])
  BY <1>1, <1>2, <1>4, WorksAre DEF AttemptHolds, Conduct, Early, Fell
<1>8. Course(k)
  BY <1>1, <1>2, <1>4, NoneIsApart DEF AttemptHolds, Course, Early, Going, Outcomes, Ways, Reasons
<1>9. Informed(k, runs') /\ Stopped(k, browser[t])
  <2>1. Informed(k, runs) /\ Stopped(k, browser[t])
    BY <1>2, <1>4 DEF AttemptHolds, Informed, Stopped, Early
  <2>2. QED
    BY <1>4, <1>6, <2>1, InformedStays
<1>10. Sealed(t, k, page[t], runs')
  <2>1. k.result = None /\ runs[Cold(t)].status # "success"
    BY <1>2, <1>4 DEF AttemptHolds, Course, Sealed, Going, Early
  <2>2. runs'[Cold(t)] = runs[Cold(t)]
    BY OwnRuns, Attempts DEF ReplayFails, Seal
  <2>3. QED
    BY <1>4, <2>1, <2>2, NoneIsApart DEF Sealed, Early, Going, Outcomes
<1>11. QED
  BY <1>5, <1>6, <1>7, <1>8, <1>9, <1>10, Takes DEF AttemptHolds

LEMMA MakePlannerKeeps ==
    ASSUME TaskInv, NEW t \in Attempt, NEW provider, MakePlanner(t, provider)
    PROVE  TaskInv' /\ SuccessesStay
<1>1. /\ task[t] \in Tasks /\ task[t].phase = "plan" /\ effects[t] \in Works /\ UNCHANGED <<effects, page, browser>>
      /\ AttemptHolds(t, task[t], effects[t], page[t], browser[t], runs)
  BY Attempts DEF InPhase, MakePlanner
<1>2. CASE Raise(t) /\ UNCHANGED runs
  BY <1>1, <1>2, RaiseKeeps
<1>3. CASE /\ provider \in Providers
           /\ task' = [task EXCEPT ![t].phase = "brief", ![t].llm = provider] /\ UNCHANGED runs
  <2> DEFINE k == [task[t] EXCEPT !.phase = "brief", !.llm = provider]
  <2>1. task' = [task EXCEPT ![t] = k]
    BY <1>3, Attempts
  <2>2. /\ k \in Tasks /\ k.phase = "brief" /\ k.result = task[t].result /\ k.phase_of = task[t].phase_of
        /\ k.text = task[t].text /\ k.env = task[t].env
        /\ k.explicit = task[t].explicit /\ k.checks = task[t].checks /\ k.candidate = task[t].candidate /\ k.fallback = task[t].fallback
        /\ k.code = task[t].code /\ k.planned = task[t].planned
    BY <1>1, <1>3 DEF Tasks, Planners
  <2> HIDE DEF k
  <2>3. TaskMoves(t, k)
    BY <2>1, <2>2, Attempts DEF TaskMoves
  <2>4. Conduct(k, effects[t])
    BY <1>1, <2>2, WorksAre DEF AttemptHolds, Conduct, Early, Fell
  <2>5. Course(k)
    BY <1>1, <2>2, NoneIsApart DEF AttemptHolds, Course, Early, Going, Outcomes, Ways
  <2>6. Informed(k, runs) /\ Stopped(k, browser[t])
    BY <1>1, <2>2 DEF AttemptHolds, Informed, Stopped, Early
  <2>7. Sealed(t, k, page[t], runs)
    BY <1>1, <2>2, NoneIsApart DEF AttemptHolds, Sealed, Course, Early, Going, Outcomes
  <2>8. QED
    BY <1>1, <1>3, <2>3, <2>4, <2>5, <2>6, <2>7, Takes DEF Seals, AttemptHolds
<1>4. CASE /\ provider \in Providers
           /\ task' = [task EXCEPT ![t].phase = "finally", ![t].result = "error", ![t].llm = provider]
           /\ SealFailure(t)
  <2> DEFINE k == [task[t] EXCEPT !.phase = "finally", !.result = "error", !.llm = provider]
  <2>1. task' = [task EXCEPT ![t] = k]
    BY <1>4, Attempts
  <2>2. /\ k \in Tasks /\ k.phase = "finally" /\ k.result = "error" /\ k.phase_of = task[t].phase_of
        /\ k.text = task[t].text /\ k.env = task[t].env
        /\ k.explicit = task[t].explicit /\ k.checks = task[t].checks /\ k.candidate = task[t].candidate /\ k.fallback = task[t].fallback
        /\ k.code = task[t].code /\ k.planned = task[t].planned
    BY <1>1, <1>4, ZenonT(40) DEF Tasks, Outcomes, Planners
  <2> HIDE DEF k
  <2>3. TaskMoves(t, k)
    BY <2>1, <2>2, Attempts DEF TaskMoves
  <2>4. Seals(t)
    BY <1>1, <1>4 DEF Seals, SealFailure, AttemptHolds, Sealed, Going, Early
  <2>5. Conduct(k, effects[t])
    BY <1>1, <2>2, WorksAre DEF AttemptHolds, Conduct, Early, Fell
  <2>6. Course(k)
    BY <1>1, <2>2, NoneIsApart DEF AttemptHolds, Course, Early, Going, Outcomes, Ways
  <2>7. Informed(k, runs') /\ Stopped(k, browser[t])
    BY <1>1, <2>2, <2>4, InformedStays DEF AttemptHolds, Informed, Stopped, Early
  <2>8. Sealed(t, k, page[t], runs')
    BY <1>1, <2>2, NoneIsApart DEF AttemptHolds, Sealed, Early, Going, Outcomes
  <2>9. QED
    BY <1>1, <2>3, <2>4, <2>5, <2>6, <2>7, <2>8, Takes DEF AttemptHolds
<1>5. QED
  BY <1>2, <1>3, <1>4 DEF MakePlanner

\* A step that does nothing but go on.
LEMMA EnterKeeps ==
    ASSUME TaskInv, NEW t \in Attempt, NEW phase \in {"agent", "over", "died"}, Enter(t, phase),
           phase = "agent" => task[t].phase = "brief" /\ browser' = browser,
           phase = "over" => task[t].phase = "finally" /\ browser' = [browser EXCEPT ![t] = "closed"],
           phase = "died" => browser' = browser,
           task[t].phase # "idle", UNCHANGED <<effects, page, runs>>
    PROVE  TaskInv' /\ SuccessesStay
<1> DEFINE k == [task[t] EXCEPT !.phase = phase]
<1>1. /\ task[t] \in Tasks /\ effects[t] \in Works
      /\ AttemptHolds(t, task[t], effects[t], page[t], browser[t], runs)
  BY Attempts
<1>2. task' = [task EXCEPT ![t] = k]
  BY Attempts DEF Enter
<1>3. /\ k \in Tasks /\ k.phase = phase /\ k.result = task[t].result /\ k.phase_of = task[t].phase_of
      /\ k.text = task[t].text /\ k.env = task[t].env
      /\ k.explicit = task[t].explicit /\ k.checks = task[t].checks /\ k.candidate = task[t].candidate /\ k.fallback = task[t].fallback
      /\ k.code = task[t].code /\ k.planned = task[t].planned
  BY <1>1 DEF Tasks
<1> HIDE DEF k
<1>4. TaskMoves(t, k)
  BY <1>2, <1>3, Attempts DEF TaskMoves
<1>5. Conduct(k, effects[t])
  BY <1>1, <1>3, WorksAre DEF AttemptHolds, Conduct, Early, Fell
<1>6. Course(k)
  BY <1>1, <1>3, NoneIsApart DEF AttemptHolds, Course, Early, Going, Outcomes, Ways
<1>7. Informed(k, runs)
  BY <1>1, <1>3 DEF AttemptHolds, Informed
<1>8. Sealed(t, k, page[t], runs)
  BY <1>1, <1>3, NoneIsApart DEF AttemptHolds, Sealed, Course, Early, Going, Outcomes
<1>9. /\ browser' \in [Attempt -> {"closed", "open"}] /\ \A u \in Attempt \ {t} : browser'[u] = browser[u]
      /\ phase = "over" => browser'[t] = "closed"
  BY DEF TaskInv, TasksTypeOK
<1>10. Stopped(k, browser'[t])
  BY <1>1, <1>3, <1>9 DEF AttemptHolds, Stopped, Early
<1>11. Keeps(t)
  BY <1>1, <1>4, <1>5, <1>6, <1>7, <1>8, <1>10 DEF Keeps, TaskMoves, AttemptHolds
<1>12. Others(t)
  BY <1>4, <1>9 DEF Others, TaskMoves
<1>13. TasksTypeOK'
  BY <1>4, <1>9 DEF TaskMoves, TaskInv, TasksTypeOK
<1>14. QED
  BY <1>11, <1>12, <1>13, AttemptMoves DEF Seals

LEMMA ReadBriefKeeps ==
    ASSUME TaskInv, NEW t \in Attempt, ReadBrief(t)
    PROVE  TaskInv' /\ SuccessesStay
<1>1. task[t].phase = "brief" /\ UNCHANGED <<effects, page, browser, runs>> /\ (Raise(t) \/ Enter(t, "agent"))
  BY DEF ReadBrief, InPhase
<1>2. CASE Raise(t)
  BY <1>1, <1>2, RaiseKeeps
<1>3. CASE Enter(t, "agent")
  BY <1>1, <1>3, EnterKeeps
<1>4. QED
  BY <1>1, <1>2, <1>3

LEMMA CleanupKeeps ==
    ASSUME TaskInv, NEW t \in Attempt, Cleanup(t)
    PROVE  TaskInv' /\ SuccessesStay
<1>1. /\ task[t].phase = "finally" /\ UNCHANGED <<effects, page, runs>> /\ browser' = [browser EXCEPT ![t] = "closed"]
      /\ Enter(t, "over") \/ Refuse(t)
  BY DEF Cleanup, InPhase
<1>2. CASE Enter(t, "over")
  BY <1>1, <1>2, EnterKeeps
<1>3. CASE Refuse(t)
  BY <1>1, <1>3, LeaveKeeps DEF Refuse
<1>4. QED
  BY <1>1, <1>2, <1>3

LEMMA TaskDiesKeeps ==
    ASSUME TaskInv, NEW t \in Attempt, TaskDies(t)
    PROVE  TaskInv' /\ SuccessesStay
  BY EnterKeeps DEF TaskDies, InPhase

LEMMA WorksDone ==
    ASSUME NEW t \in Attempt, effects[t] \in Works, ~ Did(t, "agent")
    PROVE  effects[t] \in {<<>>, <<"replay">>}
<1>1. <<"agent">>[1] = "agent" /\ 1 \in DOMAIN <<"agent">>
  OBVIOUS
<1>2. <<"replay", "agent">>[2] = "agent" /\ 2 \in DOMAIN <<"replay", "agent">>
  OBVIOUS
<1>3. effects[t] # <<"agent">> /\ effects[t] # <<"replay", "agent">>
  BY <1>1, <1>2 DEF Did
<1>4. QED
  BY <1>3 DEF Works

LEMMA AgentActsKeeps ==
    ASSUME TaskInv, NEW t \in Attempt, AgentActs(t)
    PROVE  TaskInv' /\ SuccessesStay
<1> DEFINE k == [task[t] EXCEPT !.planned = TRUE]
<1>1. /\ task[t] \in Tasks /\ task[t].phase = "agent" /\ effects[t] \in Works /\ UNCHANGED <<browser, runs>>
      /\ AttemptHolds(t, task[t], effects[t], page[t], browser[t], runs)
  BY Attempts DEF InPhase, AgentActs
<1>2. task' = [task EXCEPT ![t] = k]
  BY Attempts DEF AgentActs
<1>3. /\ k \in Tasks /\ k.phase = "agent" /\ k.result = task[t].result /\ k.phase_of = task[t].phase_of
      /\ k.text = task[t].text /\ k.env = task[t].env
      /\ k.explicit = task[t].explicit /\ k.checks = task[t].checks /\ k.candidate = task[t].candidate /\ k.fallback = task[t].fallback
      /\ k.code = task[t].code /\ k.planned = TRUE
  BY <1>1 DEF Tasks
<1> HIDE DEF k
<1>4. TaskMoves(t, k)
  BY <1>2, <1>3, Attempts DEF TaskMoves
<1>5. PICK w \in Works : effects' = [effects EXCEPT ![t] = w] /\ (Acted(w) => Acted(effects[t]))
  <2>1. CASE effects' = effects
    BY <1>1, <2>1 DEF TaskInv, TasksTypeOK
  <2>2. CASE ~ Did(t, "agent") /\ effects' = [effects EXCEPT ![t] = Append(@, "agent")]
    <3>1. effects[t] \in {<<>>, <<"replay">>}
      BY <1>1, <2>2, WorksDone
    <3>2. Append(<<>>, "agent") = <<"agent">> /\ Append(<<"replay">>, "agent") = <<"replay", "agent">>
      BY AppendToOne
    <3>3. ~ Acted(<<"agent">>) /\ Acted(<<"replay">>)
      BY DEF Acted
    <3>4. effects \in [Attempt -> Works]
      BY DEF TaskInv, TasksTypeOK
    <3>5. QED
      BY <2>2, <3>1, <3>2, <3>3, <3>4 DEF Works
  <2>3. QED
    BY <2>1, <2>2 DEF AgentActs
<1>6. /\ effects' \in [Attempt -> Works] /\ effects'[t] = w /\ \A u \in Attempt \ {t} : effects'[u] = effects[u]
  BY <1>5 DEF TaskInv, TasksTypeOK
<1>7. page' \in [Attempt -> SUBSET Check] /\ \A u \in Attempt \ {t} : page'[u] = page[u]
  BY DEF AgentActs, TaskInv, TasksTypeOK
<1>8. Conduct(k, w)
  BY <1>1, <1>3, <1>5 DEF AttemptHolds, Conduct, Early, Fell
<1>9. Course(k)
  BY <1>1, <1>3, NoneIsApart DEF AttemptHolds, Course, Early, Going, Outcomes, Ways
<1>10. Informed(k, runs) /\ Stopped(k, browser[t])
  BY <1>1, <1>3 DEF AttemptHolds, Informed, Stopped, Early
<1>11. Sealed(t, k, page'[t], runs)
  BY <1>1, <1>3, NoneIsApart DEF AttemptHolds, Sealed, Course, Early, Going, Outcomes
<1>12. Keeps(t)
  BY <1>1, <1>4, <1>6, <1>8, <1>9, <1>10, <1>11 DEF Keeps, TaskMoves, AttemptHolds
<1>13. Others(t)
  BY <1>1, <1>4, <1>6, <1>7 DEF Others, TaskMoves
<1>14. TasksTypeOK'
  BY <1>1, <1>4, <1>6, <1>7 DEF TaskMoves, TaskInv, TasksTypeOK
<1>15. QED
  BY <1>1, <1>12, <1>13, <1>14, AttemptMoves DEF Seals

LEMMA AgentEndsKeeps ==
    ASSUME TaskInv, NEW t \in Attempt, AgentEnds(t)
    PROVE  TaskInv' /\ SuccessesStay
<1>1. /\ task[t] \in Tasks /\ task[t].phase = "agent" /\ effects[t] \in Works /\ UNCHANGED <<effects, page, browser>>
      /\ AttemptHolds(t, task[t], effects[t], page[t], browser[t], runs)
  BY Attempts DEF InPhase, AgentEnds
<1>2. CASE Raise(t) /\ SealFailure(t)
  BY <1>1, <1>2, RaiseKeeps DEF SealFailure
<1>3. ASSUME NEW result \in {"success", "failure"}, Return(t, "cold", result), Seal(Cold(t), t, result),
             result = "success" => Passes(t)
      PROVE  TaskInv' /\ SuccessesStay
  <2> DEFINE k == [task[t] EXCEPT !.phase = "finally", !.phase_of = "cold", !.result = result]
  <2>1. task' = [task EXCEPT ![t] = k]
    BY <1>3, Attempts DEF Return
  <2>2. /\ k \in Tasks /\ k.phase = "finally" /\ k.result = result /\ k.phase_of = "cold"
        /\ k.text = task[t].text /\ k.env = task[t].env
        /\ k.explicit = task[t].explicit /\ k.checks = task[t].checks /\ k.candidate = task[t].candidate /\ k.fallback = task[t].fallback
        /\ k.code = task[t].code /\ k.planned = task[t].planned
    BY <1>1, <1>3 DEF Tasks, Outcomes, Ways
  <2> HIDE DEF k
  <2>3. TaskMoves(t, k)
    BY <2>1, <2>2, Attempts DEF TaskMoves
  <2>4. Seals(t)
    BY <1>1, <1>3 DEF Seals, AttemptHolds, Sealed, Going, Early
  <2>5. Conduct(k, effects[t])
    BY <1>1, <2>2, WorksAre DEF AttemptHolds, Conduct, Early, Fell
  <2>6. Course(k)
    BY <1>1, <1>3, <2>2, NoneIsApart DEF AttemptHolds, Course, Early, Going, Outcomes, Ways
  <2>7. Informed(k, runs') /\ Stopped(k, browser[t])
    BY <1>1, <2>2, <2>4, InformedStays DEF AttemptHolds, Informed, Stopped, Early
  <2>8. Sealed(t, k, page[t], runs')
    <3>1. runs'[Cold(t)].status = result
      BY <1>3, OwnRuns, Attempts DEF Seal, RunDir
    <3>2. QED
      BY <1>3, <2>2, <3>1 DEF Passes, Sealed, Early, Going
  <2>9. QED
    BY <1>1, <2>3, <2>4, <2>5, <2>6, <2>7, <2>8, Takes DEF AttemptHolds
<1>4. QED
  BY <1>2, <1>3 DEF AgentEnds

LEMMA TaskStepKeeps ==
    ASSUME TaskInv, StoreInv, NEW t \in Attempt, TaskStep(t) \/ TaskDies(t)
    PROVE  TaskInv' /\ SuccessesStay
  BY SelectKeeps, OpenPageKeeps, ReplayActsKeeps, ReplayPassesKeeps, ReplayFailsKeeps, ReadBriefKeeps,
     AgentActsKeeps, AgentEndsKeeps, CleanupKeeps, TaskDiesKeeps DEF TaskStep

LEMMA TasksRest ==
    ASSUME TaskInv, UNCHANGED <<runs, taskVars>>
    PROVE  TaskInv' /\ SuccessesStay
<1>1. UNCHANGED <<runs, task, effects, page, browser>>
  BY DEF taskVars
<1>2. TasksTypeOK'
  BY <1>1 DEF TaskInv, TasksTypeOK
<1>3. TasksHold'
  BY <1>1 DEF TaskInv, TasksHold
<1>4. QED
  BY <1>1, <1>2, <1>3 DEF TaskInv, SuccessesStay

LEMMA TasksInit == Init => TaskInv
<1> SUFFICES ASSUME Init PROVE TaskInv
  OBVIOUS
<1>1. PICK text \in Text, e \in Env, c \in Check :
         runs = [r \in Run |-> IF r \in Earlier THEN RunDir("success", e, text, {c})
                               ELSE RunDir("none", None, None, {})]
  BY DEF Init, TaskInit
<1>2. /\ task = [t \in Attempt |-> NotStarted] /\ effects = [t \in Attempt |-> <<>>]
      /\ page = [t \in Attempt |-> {}] /\ browser = [t \in Attempt |-> "closed"]
  BY DEF Init, TaskInit
<1>3. RunDir("success", e, text, {c}) \in RunDirs /\ RunDir("none", None, None, {}) \in RunDirs
  BY DEF RunDir, RunDirs
<1>4. NotStarted \in Tasks /\ NotStarted.candidate = NoCandidate /\ NotStarted.phase = "idle" /\ NotStarted.planned = FALSE
      /\ NotStarted.fallback = None /\ NotStarted.code = None /\ NotStarted.phase_of = None /\ NotStarted.result = None
  BY DEF NotStarted, Tasks, NoCandidate, Candidates, Planners
<1>5. TasksTypeOK
  <2>1. <<>> \in Works
    BY DEF Works
  <2>2. QED
    BY <1>1, <1>2, <1>3, <1>4, <2>1 DEF TasksTypeOK
<1>6. \A r \in Run : runs[r].status = "success" => r \in Earlier /\ runs[r].env \in Env /\ runs[r].text \in Text
  BY <1>1 DEF RunDir
<1>7. ASSUME NEW t \in Attempt PROVE AttemptHolds(t, task[t], effects[t], page[t], browser[t], runs)
  <2>1. task[t] = NotStarted /\ effects[t] = <<>> /\ browser[t] = "closed"
    BY <1>2
  <2>2. runs[Warm(t)].status # "success" /\ runs[Cold(t)].status # "success"
    BY <1>6, OwnRuns, RunAssumption
  <2>3. NoCandidate.run = None
    BY DEF NoCandidate
  <2>4. Conduct(task[t], effects[t])
    BY <1>4, <2>1, WorksAre DEF Conduct
  <2>5. Course(task[t])
    BY <1>4, <2>1, NoneIsApart DEF Course, Going, Early, Outcomes, Ways
  <2>6. Informed(task[t], runs) /\ Stopped(task[t], browser[t])
    BY <1>4, <2>1, <2>3 DEF Informed, Stopped
  <2>7. Sealed(t, task[t], page[t], runs)
    BY <1>4, <2>1, <2>2, NoneIsApart DEF Sealed, Outcomes
  <2>8. QED
    BY <2>4, <2>5, <2>6, <2>7 DEF AttemptHolds
<1>8. QED
  BY <1>5, <1>6, <1>7 DEF TaskInv, TasksHold

\* Whatever happens, the attempts keep what they hold and no success is written again.
LEMMA TasksNext ==
    ASSUME TaskInv, StoreInv, GuiInv, [Next]_vars
    PROVE  TaskInv' /\ SuccessesStay
<1>1. ASSUME NEW t \in Gui, BodyArrives(t) PROVE TaskInv' /\ SuccessesStay
  <2>1. PICK text \in Text, e \in Env, c \in Check : Start(t, text, e, {c}, FALSE)
    BY <1>1 DEF BodyArrives
  <2>2. t \in Attempt /\ {c} \in SUBSET Check
    BY GuiAssumption
  <2>3. QED
    BY <2>1, <2>2, StartKeeps
<1>2. ASSUME NEW t \in Gui, Turned(t) \/ Accept(t) \/ Busy(t) \/ BodyFails(t) \/ TaskReturns(t)
      PROVE  TaskInv' /\ SuccessesStay
  BY <1>2, TasksRest DEF Turned, Accept, Busy, BodyFails, TaskReturns
<1>3. ASSUME NEW t \in Attempt, Command(t) PROVE TaskInv' /\ SuccessesStay
  BY <1>3, StartKeeps DEF Command
<1>4. ASSUME NEW t \in Attempt, Plan(t) PROVE TaskInv' /\ SuccessesStay
  BY <1>4, MakePlannerKeeps DEF Plan
<1>5. ASSUME NEW t \in Attempt, TaskStep(t) \/ TaskDies(t) PROVE TaskInv' /\ SuccessesStay
  BY <1>5, TaskStepKeeps
<1>6. CASE Distills /\ UNCHANGED <<taskVars, running, env, request>>
  BY <1>6, TasksRest DEF Distills
<1>7. CASE UNCHANGED vars
  BY <1>7, TasksRest DEF vars
<1>8. QED
  BY <1>1, <1>2, <1>3, <1>4, <1>5, <1>6, <1>7 DEF Next
-----------------------------------------------------------------------------
(* The requests: one task at a time, with the provider it asked for. *)

\* What a step of a task leaves alone.
Within(t) ==
    /\ task[t].phase \notin {"idle", "over", "died"} /\ task'[t].phase # "died" /\ task'[t].llm = task[t].llm
    /\ \A u \in Attempt \ {t} : task'[u] = task[u]

LEMMA RaiseIsWithin ==
    ASSUME TaskInv, NEW t \in Attempt, task[t].phase \notin {"idle", "over", "died"}, Raise(t) \/ Refuse(t)
    PROVE  Within(t)
<1>1. task \in [Attempt -> Tasks] /\ task[t] \in Tasks
  BY Attempts
<1>2. CASE Raise(t)
  BY <1>1, <1>2 DEF Raise, Within, Tasks
<1>3. CASE Refuse(t)
  BY <1>1, <1>3 DEF Refuse, Within, Tasks
<1>4. QED
  BY <1>2, <1>3
LEMMA EnterIsWithin ==
    ASSUME TaskInv, NEW t \in Attempt, task[t].phase \notin {"idle", "over", "died"},
           NEW phase, phase # "died", Enter(t, phase)
    PROVE  Within(t)
  BY Attempts DEF Enter, Within, Tasks
LEMMA ReturnIsWithin ==
    ASSUME TaskInv, NEW t \in Attempt, task[t].phase \notin {"idle", "over", "died"}, NEW way, NEW result, Return(t, way, result)
    PROVE  Within(t)
  BY Attempts DEF Return, Within, Tasks

LEMMA TaskStepIsWithin ==
    ASSUME TaskInv, NEW t \in Attempt, TaskStep(t)
    PROVE  Within(t)
<1>1. task \in [Attempt -> Tasks] /\ task[t] \in Tasks
  BY Attempts
<1>2. CASE Select(t)
  <2>1. task[t].phase = "select"
    BY <1>2 DEF Select, InPhase
  <2>2. CASE Refuse(t)
    BY <2>1, <2>2, RaiseIsWithin
  <2>3. ASSUME NEW c, Selected(t, c) PROVE Within(t)
    <3> DEFINE fallback == IF Mismatch(t, c) THEN "fingerprint_mismatch" ELSE None
               code == IF Mismatch(t, c) THEN "FINGERPRINT_MISMATCH" ELSE None
    <3>1. task' = [task EXCEPT ![t].phase = "open", ![t].candidate = c, ![t].fallback = fallback, ![t].code = code]
      BY <2>3 DEF Selected
    <3> HIDE DEF fallback, code
    <3>2. QED
      BY <1>1, <2>1, <3>1 DEF Within, Tasks
  <2>4. QED
    BY <1>2, <2>2, <2>3 DEF Select
<1>3. CASE OpenPage(t)
  <2>1. task[t].phase = "open"
    BY <1>3 DEF OpenPage, InPhase
  <2>2. QED
    BY <1>3, <2>1, RaiseIsWithin, EnterIsWithin DEF OpenPage
<1>4. CASE ReplayActs(t)
  BY <1>1, <1>4 DEF ReplayActs, Within, InPhase, Tasks
<1>5. CASE ReplayPasses(t)
  BY <1>5, ReturnIsWithin DEF ReplayPasses, InPhase
<1>6. CASE ReplayFails(t)
  <2>1. PICK fallback, code : FellBack(t, fallback, code)
    BY <1>6 DEF ReplayFails
  <2>2. task[t].phase = "replay"
    BY <1>6 DEF ReplayFails, InPhase
  <2>3. QED
    BY <1>1, <2>1, <2>2 DEF FellBack, Within, Tasks
<1>7. CASE ReadBrief(t)
  <2>1. task[t].phase = "brief"
    BY <1>7 DEF ReadBrief, InPhase
  <2>2. QED
    BY <1>7, <2>1, RaiseIsWithin, EnterIsWithin DEF ReadBrief
<1>8. CASE AgentActs(t)
  BY <1>1, <1>8 DEF AgentActs, Within, InPhase, Tasks
<1>9. CASE AgentEnds(t)
  <2>1. task[t].phase = "agent"
    BY <1>9 DEF AgentEnds, InPhase
  <2>2. QED
    BY <1>9, <2>1, RaiseIsWithin, ReturnIsWithin DEF AgentEnds
<1>10. CASE Cleanup(t)
  <2>1. task[t].phase = "finally"
    BY <1>10 DEF Cleanup, InPhase
  <2>2. QED
    BY <1>10, <2>1, RaiseIsWithin, EnterIsWithin DEF Cleanup
<1>11. QED
  BY <1>2, <1>3, <1>4, <1>5, <1>6, <1>7, <1>8, <1>9, <1>10 DEF TaskStep

LEMMA RequestsRest ==
    ASSUME GuiInv, UNCHANGED <<running, env, request>>,
           \A t \in Gui : /\ task'[t].phase # "died"
                          /\ task[t].phase = "idle" => task'[t].phase = "idle"
                          /\ task[t].phase = "over" => task'[t].phase = "over"
                          /\ task'[t].llm = task[t].llm \/ (request[t].phase = "task" /\ task'[t].llm = Wants(t))
    PROVE  GuiInv'
<1>1. RequestsTypeOK'
  BY DEF GuiInv, RequestsTypeOK
<1>2. RequestsHold'
  BY DEF GuiInv, RequestsHold, InService
<1>3. QED
  BY <1>1, <1>2 DEF GuiInv

LEMMA Answered ==
    ASSUME NEW t \in Gui, request \in [Gui -> Requests], NEW status \in Statuses, Answer(t, status)
    PROVE  /\ request' \in [Gui -> Requests] /\ request'[t].phase = "answered"
           /\ \A u \in Gui \ {t} : request'[u] = request[u]
  BY DEF Answer, Requests

LEMMA RequestsInit == Init => GuiInv
<1> SUFFICES ASSUME Init PROVE GuiInv
  OBVIOUS
<1>1. running = FALSE /\ env = Provider /\ request = [t \in Gui |-> NoRequest] /\ task = [t \in Attempt |-> NotStarted]
  BY DEF Init, TaskInit
<1>2. RequestsTypeOK
  BY <1>1 DEF RequestsTypeOK, Requests, Statuses, NoRequest, Planners
<1>3. RequestsHold
  BY <1>1, GuiAssumption DEF RequestsHold, NoRequest, InService, NotStarted
<1>4. QED
  BY <1>2, <1>3 DEF GuiInv

LEMMA RequestsNext ==
    ASSUME TaskInv, GuiInv, [Next]_vars
    PROVE  GuiInv'
<1> USE DEF GuiInv
<1>1. /\ task \in [Attempt -> Tasks] /\ running \in BOOLEAN /\ Gui \subseteq Attempt
      /\ request \in [Gui -> Requests]
  BY GuiAssumption DEF TaskInv, TasksTypeOK, RequestsTypeOK
<1>2. ~ running => env \in Planners
  BY DEF RequestsHold, Planners
<1>3. ASSUME NEW t \in Gui, Turned(t) \/ Busy(t)
      PROVE  GuiInv'
  <2>1. PICK status \in Statuses : Answer(t, status)
    BY <1>3 DEF Turned, Busy, Statuses
  <2>2. request[t].phase = "none" /\ UNCHANGED <<running, env, task>>
    BY <1>3 DEF Turned, Busy, taskVars
  <2>3. /\ request' \in [Gui -> Requests]
        /\ request'[t].phase = "answered" /\ \A u \in Gui \ {t} : request'[u] = request[u]
    BY <1>1, <2>1, Answered
  <2>4. QED
    BY <1>1, <2>2, <2>3 DEF RequestsTypeOK, RequestsHold, InService
<1>4. ASSUME NEW t \in Gui, Accept(t) PROVE GuiInv'
  <2>1. request[t].phase = "none" /\ ~ running /\ running' = TRUE /\ UNCHANGED <<env, task>>
    BY <1>4 DEF Accept, taskVars
  <2>2. /\ request' \in [Gui -> Requests]
        /\ request'[t].phase = "body" /\ request'[t].previous = env /\ \A u \in Gui \ {t} : request'[u] = request[u]
    BY <1>1, <1>2, <1>4, <2>1 DEF Accept, Requests, Statuses
  <2>3. env = Provider /\ \A u \in Gui : ~ InService(u)
    BY <2>1 DEF RequestsHold
  <2>4. QED
    BY <1>1, <2>1, <2>2, <2>3 DEF RequestsTypeOK, RequestsHold, InService
<1>5. ASSUME NEW t \in Gui, BodyArrives(t) PROVE GuiInv'
  <2>1. PICK text \in Text, e \in Env, c \in Check : Start(t, text, e, {c}, FALSE)
    BY <1>5 DEF BodyArrives
  <2>2. request[t].phase = "body" /\ UNCHANGED running /\ env' = Wants(t)
    BY <1>5 DEF BodyArrives
  <2>3. /\ request' \in [Gui -> Requests]
        /\ request'[t].phase = "task" /\ request'[t].previous = request[t].previous /\ \A u \in Gui \ {t} : request'[u] = request[u]
    BY <1>1, <1>5 DEF BodyArrives, Requests
  <2>4. task'[t].llm = task[t].llm /\ task'[t].phase # "died" /\ \A u \in Gui \ {t} : task'[u] = task[u]
    <3>1. task' = [task EXCEPT ![t].phase = "select", ![t].result = None, ![t].text = text, ![t].env = e, ![t].checks = {c},
                               ![t].explicit = FALSE]
      BY <2>1 DEF Start
    <3>2. task[t] \in Tasks
      BY <1>1
    <3>3. QED
      BY <1>1, <3>1, <3>2 DEF Tasks
  <2>5. \A u \in Gui : InService(u) => u = t
    BY <2>2 DEF RequestsHold, InService
  <2>6. QED
    BY <1>1, <2>2, <2>3, <2>4, <2>5 DEF RequestsTypeOK, RequestsHold, InService
<1>6. ASSUME NEW t \in Gui, BodyFails(t) \/ TaskReturns(t) PROVE GuiInv'
  <2>1. /\ InService(t) /\ running' = FALSE /\ env' = request[t].previous /\ Answer(t, 200) /\ UNCHANGED task
        /\ task[t].phase \in {"idle", "over"}
    BY <1>6 DEF BodyFails, TaskReturns, InService, Over, InPhase, taskVars, RequestsHold
  <2> 200 \in Statuses
    BY DEF Statuses
  <2>2. /\ request' \in [Gui -> Requests]
        /\ request'[t].phase = "answered" /\ \A u \in Gui \ {t} : request'[u] = request[u]
    BY <1>1, <2>1, Answered
  <2>3. env' = Provider /\ \A u \in Gui : InService(u) => u = t
    BY <2>1 DEF RequestsHold
  <2>4. \A u \in Gui : ~ InService(u)'
    BY <1>1, <2>2, <2>3 DEF InService
  <2>5. QED
    BY <1>1, <2>1, <2>2, <2>3, <2>4 DEF RequestsTypeOK, RequestsHold, InService
<1>7. ASSUME NEW t \in Attempt \ Gui,
             /\ \A u \in Attempt \ {t} : task'[u] = task[u]
             /\ UNCHANGED <<running, env, request>>
      PROVE  GuiInv'
  <2>1. \A u \in Gui : task'[u] = task[u] /\ task[u].phase # "died"
    BY <1>7, GuiAssumption DEF RequestsHold
  <2>2. QED
    BY <1>7, <2>1, RequestsRest
<1>8. ASSUME NEW t \in Attempt, Command(t) PROVE GuiInv'
  <2>1. PICK text \in Text, e \in Env, checks \in SUBSET Check, explicit \in BOOLEAN :
           Start(t, text, e, checks, explicit)
    BY <1>8 DEF Command
  <2>2. \A u \in Attempt \ {t} : task'[u] = task[u]
    <3> DEFINE phase == IF checks = {} THEN "over" ELSE "select"
               result == IF checks = {} THEN "error" ELSE None
    <3>1. task' = [task EXCEPT ![t].phase = phase, ![t].result = result, ![t].text = text, ![t].env = e,
                               ![t].checks = checks, ![t].explicit = explicit]
      BY <2>1 DEF Start
    <3> HIDE DEF phase, result
    <3>2. QED
      BY <1>1, <3>1
  <2>3. QED
    BY <1>7, <1>8, <2>2 DEF Command
<1>9. ASSUME NEW t \in Attempt, Plan(t) PROVE GuiInv'
  <2> DEFINE provider == ProviderIn(IF t \in Gui THEN env ELSE Provider)
  <2>1. MakePlanner(t, provider) /\ UNCHANGED <<running, env, request>>
    BY <1>9 DEF Plan
  <2>2. t \in Gui => request[t].phase = "task" /\ provider = Wants(t)
    <3>1. t \in Gui => request[t].phase = "task" /\ env = Wants(t) /\ env # None
      BY <2>1, <1>1, GuiAssumption, RunAssumption DEF MakePlanner, InPhase, RequestsHold, Requests
    <3>2. QED
      BY <3>1 DEF ProviderIn
  <2> HIDE DEF provider
  <2>3. /\ \A u \in Attempt \ {t} : task'[u] = task[u]
        /\ task[t].phase = "plan" /\ task'[t].phase # "died" /\ (task'[t].llm = task[t].llm \/ task'[t].llm = provider)
    <3>1. task[t].phase = "plan" /\ task[t] \in Tasks
      BY <1>1, <2>1 DEF MakePlanner, InPhase
    <3>2. CASE Raise(t)
      BY <3>1, <3>2, RaiseIsWithin DEF Within
    <3>3. CASE task' = [task EXCEPT ![t].phase = "brief", ![t].llm = provider]
      BY <1>1, <3>1, <3>3 DEF Tasks
    <3>4. CASE task' = [task EXCEPT ![t].phase = "finally", ![t].result = "error", ![t].llm = provider]
      BY <1>1, <3>1, <3>4 DEF Tasks
    <3>5. QED
      BY <2>1, <3>2, <3>3, <3>4, <3>1 DEF MakePlanner
  <2>4. CASE t \in Gui
    <3>1. \A u \in Gui : task[u].phase # "died"
      BY DEF RequestsHold
    <3>2. QED
      BY <1>1, <2>1, <2>2, <2>3, <2>4, <3>1, RequestsRest
  <2>5. QED
    BY <1>7, <2>1, <2>3, <2>4
<1>10. ASSUME NEW t \in Attempt, TaskStep(t), UNCHANGED <<running, env, request>> PROVE GuiInv'
  <2>1. Within(t) /\ \A u \in Gui : task[u].phase # "died"
    BY <1>10, TaskStepIsWithin DEF RequestsHold
  <2>2. QED
    BY <1>1, <1>10, <2>1, RequestsRest DEF Within
<1>11. ASSUME NEW t \in Attempt, t \notin Gui, TaskDies(t), UNCHANGED <<running, env, request>> PROVE GuiInv'
  <2>1. \A u \in Attempt \ {t} : task'[u] = task[u]
    BY <1>1, <1>11 DEF TaskDies, Enter
  <2>2. QED
    BY <1>7, <1>11, <2>1
<1>12. ASSUME UNCHANGED <<task, running, env, request>> PROVE GuiInv'
  <2>1. \A u \in Gui : task[u].phase # "died"
    BY DEF RequestsHold
  <2>2. QED
    BY <1>12, <2>1, RequestsRest
<1>13. QED
  BY <1>3, <1>4, <1>5, <1>6, <1>8, <1>9, <1>10, <1>11, <1>12 DEF Next, vars, taskVars
-----------------------------------------------------------------------------
(* The store: every step of a command keeps what is held, listed and learned. *)

LEMMA StoreTypes ==
    ASSUME TaskInv, StoreInv
    PROVE  /\ dist \in [Distiller -> Commands] /\ file \in [Name -> {"none", "partial", "whole"}]
           /\ index \in Logs /\ memory \in [Env -> Logs] /\ alone \in BOOLEAN /\ runs \in [Run -> RunDirs]
           /\ \A i \in Records(index) : index.lines[i] \in Lines /\ index.lines[i].run \in Run
           /\ \A e \in Env : \A i \in Records(memory[e]) : memory[e].lines[i] \in Lines /\ memory[e].lines[i].run \in Run
<1>1. /\ dist \in [Distiller -> Commands] /\ file \in [Name -> {"none", "partial", "whole"}]
      /\ index \in Logs /\ memory \in [Env -> Logs] /\ alone \in BOOLEAN /\ runs \in [Run -> RunDirs]
  BY DEF TaskInv, StoreInv, LearnedTypeOK, TasksTypeOK
<1>2. ASSUME NEW log \in Logs, NEW i \in Records(log) PROVE log.lines[i] \in Lines /\ log.lines[i].run \in Run
  <2>1. log.lines \in Seq(Lines) /\ i \in DOMAIN log.lines /\ log.lines[i].kind = "record"
    BY DEF Logs, Records
  <2>2. log.lines[i] \in Lines
    BY <2>1
  <2>3. QED
    BY <2>1, <2>2, LineTypes
<1>3. QED
  BY <1>1, <1>2

LEMMA WorkTypes ==
    ASSUME TaskInv, StoreInv, NEW d \in Distiller, dist[d].phase # "idle"
    PROVE  /\ dist[d].name \in Name /\ dist[d].run \in Run /\ dist[d].newline \in BOOLEAN
           /\ runs[dist[d].run].status = "success" /\ EnvOf(d) \in Env
           /\ IndexLines(d) \in Seq(Lines) /\ MemoryLines(d) \in Seq(Lines) /\ Len(MemoryLines(d)) = Facts
           /\ IndexLines(d) = <<Line(dist[d].name, dist[d].run)>> /\ Line(dist[d].name, dist[d].run) \in Lines
           /\ \A j \in DOMAIN MemoryLines(d) : MemoryLines(d)[j] = Line(None, dist[d].run)
<1>1. dist[d] \in Commands
  BY StoreTypes
<1>2. dist[d].name \in Name /\ dist[d].run \in Run /\ runs[dist[d].run].status = "success"
  BY DEF StoreInv, StoreHolds, CommandsHold
<1>3. EnvOf(d) \in Env
  BY <1>2 DEF EnvOf, TaskInv, TasksHold
<1>4. Line(dist[d].name, dist[d].run) \in Lines /\ Line(None, dist[d].run) \in Lines
  BY <1>2 DEF Lines
<1>5. IndexLines(d) \in Seq(Lines)
  BY <1>4 DEF IndexLines
<1>6. /\ MemoryLines(d) \in Seq(Lines) /\ Len(MemoryLines(d)) = Facts
      /\ \A j \in DOMAIN MemoryLines(d) : MemoryLines(d)[j] = Line(None, dist[d].run)
  BY <1>4, LearnedAssumption DEF MemoryLines
<1>7. QED
  BY <1>1, <1>2, <1>3, <1>4, <1>5, <1>6 DEF Commands, IndexLines

\* Steps of the attempts.
LEMMA StoreRests ==
    ASSUME TaskInv, StoreInv, SuccessesStay, UNCHANGED <<alone, file, index, memory, dist>>
    PROVE  StoreInv'
<1>1. LearnedTypeOK'
  BY DEF StoreInv, LearnedTypeOK
<1>2. CommandsHold'
  BY DEF StoreInv, StoreHolds, CommandsHold, SuccessesStay, Holds
<1>3. ListHolds'
  BY StoreTypes DEF StoreInv, StoreHolds, ListHolds, SuccessesStay
<1>4. MemoryHolds'
  BY StoreTypes DEF StoreInv, StoreHolds, MemoryHolds, SuccessesStay
<1>5. QED
  BY <1>1, <1>2, <1>3, <1>4 DEF StoreInv, StoreHolds

\* Command d goes on with the same name and run.
GoesOn(d) ==
    /\ dist' \in [Distiller -> Commands] /\ \A c \in Distiller \ {d} : dist'[c] = dist[c]
    /\ dist'[d].name = dist[d].name /\ dist'[d].run = dist[d].run

LEMMA GoesIsOn ==
    ASSUME StoreInv, NEW d \in Distiller,
           NEW phase \in {"write", "look", "list", "derive", "learn", "done", "refused", "died"}, Goes(d, phase)
    PROVE  GoesOn(d) /\ dist'[d].phase = phase /\ dist'[d].newline = dist[d].newline
<1>1. dist \in [Distiller -> Commands] /\ dist[d] \in Commands
  BY DEF StoreInv, LearnedTypeOK
<1>2. QED
  BY <1>1 DEF Goes, GoesOn, Commands

\* The name is listed, or the process dies before it is.
LEMMA ListGrows ==
    ASSUME TaskInv, StoreInv, NEW d \in Distiller, dist[d].phase = "list", GoesOn(d), dist'[d].phase \in {"derive", "died"},
           OneMore(index, index', Line(dist[d].name, dist[d].run)), UNCHANGED <<file, runs>>
    PROVE  CommandsHold' /\ ListHolds'
<1> DEFINE n == dist[d].name  r == dist[d].run
<1>1. /\ n \in Name /\ r \in Run /\ runs[r].status = "success" /\ file[n] = "whole" /\ Holds(d)
      /\ \A i \in Records(index) : index.lines[i].name # n
  BY DEF StoreInv, StoreHolds, CommandsHold, Holds, Holding
<1>2. Line(n, r).name = n /\ Line(n, r).run = r
  BY LineKinds
<1>3. ListHolds'
  BY <1>1, <1>2 DEF StoreInv, StoreHolds, ListHolds, OneMore
<1>4. \A c \in Distiller : Holds(c)' => Holds(c) /\ (c # d => dist[c].name # n)
  BY <1>1 DEF StoreInv, StoreHolds, CommandsHold, Holds, Holding, GoesOn
<1>5. CommandsHold'
  <2>1. \A c \in Distiller : dist'[c].phase # "idle" =>
           dist'[c].name \in Name /\ dist'[c].run \in Run /\ runs'[dist'[c].run].status = "success"
    BY <1>1 DEF StoreInv, StoreHolds, CommandsHold, GoesOn
  <2>2. \A c \in Distiller : Holds(c)' => file'[dist'[c].name] = IF dist'[c].phase = "write" THEN "partial" ELSE "whole"
    BY <1>1, <1>4 DEF StoreInv, StoreHolds, CommandsHold, GoesOn
  <2>3. \A c, b \in Distiller : Holds(c)' /\ Holds(b)' /\ dist'[c].name = dist'[b].name => c = b
    BY <1>1, <1>4 DEF StoreInv, StoreHolds, CommandsHold, GoesOn
  <2>4. ASSUME NEW c \in Distiller, dist'[c].phase \in {"write", "look", "list"}, NEW i \in Records(index')
        PROVE  index'.lines[i].name # dist'[c].name
    <3>1. c # d /\ dist'[c] = dist[c] /\ Holds(c)'
      BY <2>4 DEF GoesOn, Holds, Holding
    <3>2. dist[c].name # n
      BY <1>4, <3>1
    <3>3. QED
      BY <1>2, <2>4, <3>1, <3>2 DEF OneMore, StoreInv, StoreHolds, CommandsHold
  <2>5. QED
    BY <2>1, <2>2, <2>3, <2>4 DEF CommandsHold
<1>6. QED
  BY <1>3, <1>5

\* Nothing is written but memory, or nothing.
LEMMA CommandsGoOn ==
    ASSUME TaskInv, StoreInv, NEW d \in Distiller, GoesOn(d), UNCHANGED <<index, file, runs>>,
           dist[d].phase # "idle", Holds(d)' => Holds(d),
           dist'[d].phase = "write" <=> dist[d].phase = "write",
           dist'[d].phase \in {"look", "list"} => dist[d].phase \in {"look", "list"}
    PROVE  CommandsHold' /\ ListHolds'
<1>1. ListHolds'
  BY DEF StoreInv, StoreHolds, ListHolds
<1>2. \A c \in Distiller : /\ Holds(c)' => Holds(c)
                           /\ dist'[c].name = dist[c].name /\ dist'[c].run = dist[c].run
                           /\ dist'[c].phase # "idle" => dist[c].phase # "idle"
                           /\ dist'[c].phase = "write" <=> dist[c].phase = "write"
                           /\ dist'[c].phase \in {"look", "list"} => dist[c].phase \in {"look", "list"}
  BY DEF GoesOn, Holds
<1>3. CommandsHold'
  BY <1>2 DEF StoreInv, StoreHolds, CommandsHold
<1>4. QED
  BY <1>1, <1>3

\* What a command adds to memory is of its run, in the partition of its environment.
LEMMA MemoryGrows ==
    ASSUME TaskInv, StoreInv, NEW d \in Distiller, dist[d].phase # "idle", UNCHANGED runs,
           NEW lg, lg \in Logs, OldOrNew(memory[EnvOf(d)], lg.lines, MemoryLines(d)),
           memory' = [memory EXCEPT ![EnvOf(d)] = lg]
    PROVE  MemoryHolds'
<1>1. /\ dist[d].run \in Run /\ runs[dist[d].run].status = "success" /\ EnvOf(d) \in Env
      /\ \A j \in DOMAIN MemoryLines(d) : MemoryLines(d)[j] = Line(None, dist[d].run)
  BY WorkTypes
<1>2. memory'[EnvOf(d)] = lg /\ \A e \in Env \ {EnvOf(d)} : memory'[e] = memory[e]
  BY <1>1, StoreTypes
<1>3. ASSUME NEW i \in Records(lg) PROVE runs[lg.lines[i].run].status = "success" /\ runs[lg.lines[i].run].env = EnvOf(d)
  <2>1. i \in DOMAIN lg.lines /\ lg.lines[i].kind = "record"
    BY DEF Records
  <2>2. CASE i \in Records(memory[EnvOf(d)]) /\ lg.lines[i] = memory[EnvOf(d)].lines[i]
    BY <1>1, <2>2 DEF StoreInv, StoreHolds, MemoryHolds
  <2>3. CASE \E j \in DOMAIN MemoryLines(d) : lg.lines[i] = MemoryLines(d)[j]
    BY <1>1, <2>3, LineKinds DEF EnvOf
  <2>4. QED
    BY <2>1, <2>2, <2>3 DEF OldOrNew
<1>4. QED
  BY <1>1, <1>2, <1>3 DEF MemoryHolds, StoreInv, StoreHolds

LEMMA LoadKeepsStore ==
    ASSUME TaskInv, StoreInv, NEW d \in Distiller, NEW n \in Name, NEW r \in Run, Load(d, n, r), UNCHANGED runs
    PROVE  StoreInv'
<1>1. PICK phase \in {"create", "refused"} :
         dist' = [dist EXCEPT ![d] = [phase |-> phase, name |-> n, run |-> r, newline |-> FALSE]]
  BY DEF Load
<1>2. /\ dist[d].phase = "idle" /\ runs[r].status = "success" /\ UNCHANGED <<alone, file, index, memory>>
  BY DEF Load
<1>3. /\ dist' \in [Distiller -> Commands] /\ \A c \in Distiller \ {d} : dist'[c] = dist[c]
      /\ dist'[d].phase = phase /\ dist'[d].name = n /\ dist'[d].run = r
  <2>1. [phase |-> phase, name |-> n, run |-> r, newline |-> FALSE] \in Commands
    BY DEF Commands
  <2>2. QED
    BY <1>1, <2>1, StoreTypes
<1>4. ~ Holds(d)' /\ dist'[d].phase \notin {"idle", "write", "look", "list"}
  BY <1>3 DEF Holds, Holding
<1>5. LearnedTypeOK'
  BY <1>2, <1>3 DEF StoreInv, LearnedTypeOK
<1>6. CommandsHold'
  <2>1. \A c \in Distiller : Holds(c)' => c # d /\ Holds(c) /\ dist'[c] = dist[c]
    BY <1>3, <1>4 DEF Holds
  <2>2. QED
    BY <1>2, <1>3, <1>4, <2>1 DEF StoreInv, StoreHolds, CommandsHold
<1>7. ListHolds' /\ MemoryHolds'
  BY <1>2 DEF StoreInv, StoreHolds, ListHolds, MemoryHolds
<1>8. QED
  BY <1>5, <1>6, <1>7 DEF StoreInv, StoreHolds

LEMMA CreateFileKeepsStore ==
    ASSUME TaskInv, StoreInv, NEW d \in Distiller, CreateFile(d), UNCHANGED runs
    PROVE  StoreInv'
<1> DEFINE n == dist[d].name
<1>1. dist[d].phase = "create" /\ UNCHANGED <<alone, index, memory>> /\ n \in Name
  BY WorkTypes DEF CreateFile
<1>2. CASE file[n] # "none"
  <2>1. UNCHANGED file /\ GoesOn(d) /\ dist'[d].phase = "refused"
    BY <1>2, GoesIsOn DEF CreateFile
  <2>2. CommandsHold' /\ ListHolds'
    BY <1>1, <2>1, CommandsGoOn DEF Holds, Holding
  <2>3. LearnedTypeOK' /\ MemoryHolds'
    BY <1>1, <2>1 DEF StoreInv, StoreHolds, MemoryHolds, LearnedTypeOK, GoesOn
  <2>4. QED
    BY <2>2, <2>3 DEF StoreInv, StoreHolds
<1>3. CASE file[n] = "none"
  <2>1. file' = [file EXCEPT ![n] = "partial"] /\ GoesOn(d) /\ dist'[d].phase = "write"
    BY <1>3, GoesIsOn DEF CreateFile
  <2>2. file' \in [Name -> {"none", "partial", "whole"}] /\ file'[n] = "partial" /\ \A m \in Name \ {n} : file'[m] = file[m]
    BY <1>1, <2>1, StoreTypes
  <2>3. /\ \A c \in Distiller : Holds(c) => dist[c].name \in Name \ {n}
        /\ \A i \in Records(index) : index.lines[i].name \in Name \ {n}
    <3>1. \A c \in Distiller : Holds(c) => dist[c].name \in Name /\ file[dist[c].name] # "none"
      BY DEF StoreInv, StoreHolds, CommandsHold, Holds, Holding
    <3>2. \A i \in Records(index) : index.lines[i].name \in Name /\ file[index.lines[i].name] = "whole"
      BY DEF StoreInv, StoreHolds, ListHolds
    <3>3. QED
      BY <1>3, <3>1, <3>2
  <2>4. \A c \in Distiller : Holds(c)' => c = d \/ (c # d /\ Holds(c) /\ dist'[c] = dist[c])
    BY <2>1 DEF GoesOn, Holds
  <2> HIDE DEF n
  <2>5. dist'[d].name = n
    BY <2>1 DEF GoesOn, n
  <2>6. CommandsHold'
    <3>1. \A c \in Distiller : dist'[c].phase # "idle" =>
             dist'[c].name \in Name /\ dist'[c].run \in Run /\ runs'[dist'[c].run].status = "success"
      BY <1>1, <2>1 DEF StoreInv, StoreHolds, CommandsHold, GoesOn
    <3>2. \A c \in Distiller : Holds(c)' => file'[dist'[c].name] = IF dist'[c].phase = "write" THEN "partial" ELSE "whole"
      BY <2>1, <2>2, <2>3, <2>4, <2>5 DEF StoreInv, StoreHolds, CommandsHold
    <3>3. \A c, b \in Distiller : Holds(c)' /\ Holds(b)' /\ dist'[c].name = dist'[b].name => c = b
      BY <2>3, <2>4, <2>5 DEF StoreInv, StoreHolds, CommandsHold
    <3>4. ASSUME NEW c \in Distiller, dist'[c].phase \in {"write", "look", "list"}, NEW i \in Records(index')
          PROVE  index'.lines[i].name # dist'[c].name
      <4>1. CASE c = d
        BY <1>1, <2>3, <2>5, <3>4, <4>1
      <4>2. CASE c # d
        BY <1>1, <2>1, <3>4, <4>2 DEF StoreInv, StoreHolds, CommandsHold, GoesOn
      <4>3. QED
        BY <4>1, <4>2
    <3>5. QED
      BY <3>1, <3>2, <3>3, <3>4 DEF CommandsHold
  <2>7. ListHolds'
    BY <1>1, <2>2, <2>3 DEF StoreInv, StoreHolds, ListHolds
  <2>8. LearnedTypeOK' /\ MemoryHolds'
    BY <1>1, <2>1, <2>2 DEF StoreInv, StoreHolds, MemoryHolds, LearnedTypeOK, GoesOn
  <2>9. QED
    BY <2>6, <2>7, <2>8 DEF StoreInv, StoreHolds
<1>4. QED
  BY <1>2, <1>3

LEMMA WriteFileKeepsStore ==
    ASSUME TaskInv, StoreInv, NEW d \in Distiller, WriteFile(d), UNCHANGED runs
    PROVE  StoreInv'
<1> DEFINE n == dist[d].name
<1>1. dist[d].phase = "write" /\ UNCHANGED <<alone, index, memory>> /\ n \in Name /\ Holds(d)
  BY WorkTypes DEF WriteFile, Holds, Holding
<1>2. file' = [file EXCEPT ![n] = "whole"] /\ GoesOn(d) /\ dist'[d].phase = "look"
  BY GoesIsOn DEF WriteFile
<1>3. file' \in [Name -> {"none", "partial", "whole"}] /\ file'[n] = "whole" /\ \A m \in Name \ {n} : file'[m] = file[m]
  BY <1>1, <1>2, StoreTypes
<1>4. \A c \in Distiller : c # d /\ Holds(c) => dist[c].name \in Name \ {n}
  BY <1>1 DEF StoreInv, StoreHolds, CommandsHold, Holds, Holding
<1>5. \A c \in Distiller : Holds(c)' => (c = d \/ (c # d /\ dist'[c] = dist[c])) /\ Holds(c)
  BY <1>1, <1>2 DEF GoesOn, Holds
<1> HIDE DEF n
<1>6. dist'[d].name = n
  BY <1>2 DEF GoesOn, n
<1>7. CommandsHold'
  <2>1. \A c \in Distiller : dist'[c].phase # "idle" =>
           dist'[c].name \in Name /\ dist'[c].run \in Run /\ runs'[dist'[c].run].status = "success"
    BY <1>1, <1>2 DEF StoreInv, StoreHolds, CommandsHold, GoesOn
  <2>2. \A c \in Distiller : Holds(c)' => file'[dist'[c].name] = IF dist'[c].phase = "write" THEN "partial" ELSE "whole"
    BY <1>2, <1>3, <1>4, <1>5, <1>6 DEF StoreInv, StoreHolds, CommandsHold
  <2>3. \A c, b \in Distiller : Holds(c)' /\ Holds(b)' /\ dist'[c].name = dist'[b].name => c = b
    BY <1>4, <1>5, <1>6 DEF StoreInv, StoreHolds, CommandsHold
  <2>4. \A c \in Distiller : dist'[c].phase \in {"write", "look", "list"} => \A i \in Records(index') : index'.lines[i].name # dist'[c].name
    BY <1>1, <1>2 DEF StoreInv, StoreHolds, CommandsHold, GoesOn
  <2>5. QED
    BY <2>1, <2>2, <2>3, <2>4 DEF CommandsHold
<1>8. ListHolds'
  BY <1>1, <1>3 DEF StoreInv, StoreHolds, ListHolds
<1>9. LearnedTypeOK' /\ MemoryHolds'
  BY <1>1, <1>2, <1>3 DEF StoreInv, StoreHolds, MemoryHolds, LearnedTypeOK, GoesOn
<1>10. QED
  BY <1>7, <1>8, <1>9 DEF StoreInv, StoreHolds

LEMMA LookIsOn ==
    ASSUME TaskInv, StoreInv, NEW d \in Distiller, Look(d)
    PROVE  /\ GoesOn(d)
           /\ \/ dist[d].phase = "look" /\ dist'[d].phase = "list" /\ dist'[d].newline = index.cut
              \/ dist[d].phase = "derive" /\ dist'[d].phase = "learn" /\ dist'[d].newline = memory[EnvOf(d)].cut
<1>1. index.cut \in BOOLEAN /\ dist[d] \in Commands /\ (dist[d].phase # "idle" => memory[EnvOf(d)].cut \in BOOLEAN)
  BY StoreTypes, WorkTypes DEF Logs
<1>2. CASE dist[d].phase = "look" /\ dist' = [dist EXCEPT ![d].phase = "list", ![d].newline = index.cut]
  BY <1>1, <1>2, StoreTypes DEF GoesOn, Commands
<1>3. CASE dist[d].phase = "derive" /\ dist' = [dist EXCEPT ![d].phase = "learn", ![d].newline = memory[EnvOf(d)].cut]
  <2> DEFINE cut == memory[EnvOf(d)].cut
  <2>1. cut \in BOOLEAN /\ dist' = [dist EXCEPT ![d].phase = "learn", ![d].newline = cut]
    BY <1>1, <1>3
  <2> HIDE DEF cut
  <2>2. GoesOn(d) /\ dist'[d].phase = "learn" /\ dist'[d].newline = cut
    BY <1>1, <2>1, StoreTypes DEF GoesOn, Commands
  <2>3. QED
    BY <1>3, <2>2 DEF cut
<1>4. QED
  BY <1>2, <1>3 DEF Look

LEMMA LookKeepsStore ==
    ASSUME TaskInv, StoreInv, NEW d \in Distiller, Look(d), UNCHANGED runs
    PROVE  StoreInv'
<1>1. UNCHANGED <<alone, file, index, memory>>
  BY DEF Look
<1>2. CommandsHold' /\ ListHolds'
  BY <1>1, LookIsOn, CommandsGoOn DEF Holds, Holding
<1>3. LearnedTypeOK' /\ MemoryHolds'
  BY <1>1, LookIsOn DEF StoreInv, StoreHolds, MemoryHolds, LearnedTypeOK, GoesOn
<1>4. QED
  BY <1>2, <1>3 DEF StoreInv, StoreHolds

LEMMA ListEntryKeepsStore ==
    ASSUME TaskInv, StoreInv, NEW d \in Distiller, ListEntry(d), UNCHANGED runs
    PROVE  StoreInv'
<1>1. dist[d].phase = "list" /\ UNCHANGED <<alone, file, memory>> /\ GoesOn(d) /\ dist'[d].phase = "derive"
  BY GoesIsOn DEF ListEntry
<1>2. /\ index' \in Written(index, dist[d].newline, <<Line(dist[d].name, dist[d].run)>>)
      /\ index \in Logs /\ dist[d].newline \in BOOLEAN /\ Line(dist[d].name, dist[d].run) \in Lines
  BY <1>1, WorkTypes, StoreTypes DEF ListEntry
<1>3. OneMore(index, index', Line(dist[d].name, dist[d].run))
  BY <1>2, OneWritten
<1>4. index' \in Logs
  <2>1. <<Line(dist[d].name, dist[d].run)>> \in Seq(Lines)
    BY <1>2
  <2>2. QED
    BY <1>2, <2>1, WrittenLog
<1>5. CommandsHold' /\ ListHolds'
  BY <1>1, <1>3, ListGrows
<1>6. LearnedTypeOK' /\ MemoryHolds'
  BY <1>1, <1>4 DEF StoreInv, StoreHolds, MemoryHolds, LearnedTypeOK, GoesOn
<1>7. QED
  BY <1>5, <1>6 DEF StoreInv, StoreHolds

LEMMA LearnKeepsStore ==
    ASSUME TaskInv, StoreInv, NEW d \in Distiller, Learn(d), UNCHANGED runs
    PROVE  StoreInv'
<1>1. dist[d].phase = "learn" /\ UNCHANGED <<alone, file, index>> /\ GoesOn(d) /\ dist'[d].phase = "done"
  BY GoesIsOn DEF Learn
<1>2. PICK lg \in Written(memory[EnvOf(d)], dist[d].newline, MemoryLines(d)) : memory' = [memory EXCEPT ![EnvOf(d)] = lg]
  BY DEF Learn
<1>3. memory[EnvOf(d)] \in Logs /\ dist[d].newline \in BOOLEAN /\ MemoryLines(d) \in Seq(Lines)
  BY <1>1, WorkTypes, StoreTypes
<1>4. lg \in Logs /\ OldOrNew(memory[EnvOf(d)], lg.lines, MemoryLines(d))
  BY <1>3, WrittenLog
<1>5. MemoryHolds'
  BY <1>1, <1>2, <1>4, MemoryGrows
<1>6. CommandsHold' /\ ListHolds'
  BY <1>1, CommandsGoOn DEF Holds, Holding
<1>7. LearnedTypeOK'
  BY <1>1, <1>2, <1>4 DEF StoreInv, LearnedTypeOK, GoesOn
<1>8. QED
  BY <1>5, <1>6, <1>7 DEF StoreInv, StoreHolds

\* What a process that dies leaves of the index and of the partition.
LEMMA DieLeaves ==
    ASSUME TaskInv, StoreInv, NEW d \in Distiller, Die(d)
    PROVE  /\ GoesOn(d) /\ dist'[d].phase = "died" /\ dist[d].phase # "idle" /\ UNCHANGED <<alone, file>>
           /\ index' = index \/ (dist[d].phase = "list" /\ index' \in CutShort(index, dist[d].newline, IndexLines(d)))
           /\ \/ memory' = memory
              \/ /\ dist[d].phase = "learn"
                 /\ \E lg \in CutShort(memory[EnvOf(d)], dist[d].newline, MemoryLines(d)) :
                      memory' = [memory EXCEPT ![EnvOf(d)] = lg]
<1>1. GoesOn(d) /\ dist'[d].phase = "died" /\ dist[d].phase # "idle" /\ UNCHANGED <<alone, file>>
  BY GoesIsOn DEF Die, AtWork
<1>2. index' = index \/ (dist[d].phase = "list" /\ index' \in CutShort(index, dist[d].newline, IndexLines(d)))
  BY DEF Die
<1>3. PICK lg \in IF dist[d].phase = "learn"
                  THEN CutShort(memory[EnvOf(d)], dist[d].newline, MemoryLines(d)) ELSE {memory[EnvOf(d)]} :
         memory' = [memory EXCEPT ![EnvOf(d)] = lg]
  BY DEF Die
<1>4. dist[d].phase # "learn" => memory' = memory
  <2>1. EnvOf(d) \in Env
    BY <1>1, WorkTypes
  <2>2. QED
    BY <1>3, <2>1, StoreTypes
<1>5. QED
  BY <1>1, <1>2, <1>3, <1>4

LEMMA DieKeepsStore ==
    ASSUME TaskInv, StoreInv, NEW d \in Distiller, Die(d), UNCHANGED runs
    PROVE  StoreInv'
<1>1. GoesOn(d) /\ dist'[d].phase = "died" /\ dist[d].phase # "idle" /\ UNCHANGED <<alone, file>>
  BY DieLeaves
<1>2. /\ index \in Logs /\ memory \in [Env -> Logs] /\ dist[d].newline \in BOOLEAN /\ Line(dist[d].name, dist[d].run) \in Lines
      /\ IndexLines(d) = <<Line(dist[d].name, dist[d].run)>> /\ IndexLines(d) \in Seq(Lines) /\ MemoryLines(d) \in Seq(Lines)
      /\ EnvOf(d) \in Env
  BY <1>1, WorkTypes, StoreTypes
<1>3. index' \in Logs /\ CommandsHold' /\ ListHolds'
  <2>1. CASE index' = index /\ dist[d].phase # "write"
    BY <1>1, <1>2, <2>1, CommandsGoOn DEF Holds, Holding
  <2>2. CASE dist[d].phase = "list" /\ index' \in CutShort(index, dist[d].newline, IndexLines(d))
    <3>1. OneMore(index, index', Line(dist[d].name, dist[d].run))
      BY <1>2, <2>2, OneWritten
    <3>2. index' \in Logs
      BY <1>2, <2>2, CutShortLog
    <3>3. QED
      BY <1>1, <2>2, <3>1, <3>2, ListGrows
  <2>3. CASE index' = index /\ dist[d].phase = "write"
    <3>1. \A c \in Distiller : Holds(c)' => Holds(c) /\ c # d
      BY <1>1 DEF GoesOn, Holds, Holding
    <3>2. CommandsHold'
      BY <1>1, <2>3, <3>1 DEF StoreInv, StoreHolds, CommandsHold, GoesOn
    <3>3. QED
      BY <1>1, <1>2, <2>3, <3>2 DEF StoreInv, StoreHolds, ListHolds
  <2>4. QED
    BY <2>1, <2>2, <2>3, DieLeaves
<1>4. memory' \in [Env -> Logs] /\ MemoryHolds'
  <2>1. CASE memory' = memory
    BY <1>2, <2>1 DEF StoreInv, StoreHolds, MemoryHolds
  <2>2. CASE \E lg \in CutShort(memory[EnvOf(d)], dist[d].newline, MemoryLines(d)) : memory' = [memory EXCEPT ![EnvOf(d)] = lg]
    <3>1. PICK lg \in CutShort(memory[EnvOf(d)], dist[d].newline, MemoryLines(d)) : memory' = [memory EXCEPT ![EnvOf(d)] = lg]
      BY <2>2
    <3>2. memory[EnvOf(d)] \in Logs
      BY <1>2
    <3>3. lg \in Logs /\ OldOrNew(memory[EnvOf(d)], lg.lines, MemoryLines(d))
      BY <1>2, <3>2, CutShortLog
    <3>4. QED
      BY <1>1, <1>2, <3>1, <3>3, MemoryGrows
  <2>3. QED
    BY <2>1, <2>2, DieLeaves
<1>5. LearnedTypeOK'
  BY <1>1, <1>3, <1>4 DEF StoreInv, LearnedTypeOK, GoesOn
<1>6. QED
  BY <1>3, <1>4, <1>5 DEF StoreInv, StoreHolds

\* What the disk holds at the start: nothing, or one playbook and what its run taught.
LEMMA StartsWith ==
    ASSUME Init
    PROVE  \E known \in Before :
             /\ known.name # None => known.name \in Name /\ known.run \in Run /\ runs[known.run].status = "success"
             /\ file = [n \in Name |-> IF n = known.name THEN "whole" ELSE "none"]
             /\ index = [lines |-> IF known.name = None THEN <<>> ELSE <<Line(known.name, known.run)>>, cut |-> FALSE]
             /\ \A e \in Env :
                  /\ memory[e].cut = FALSE /\ memory[e] \in Logs
                  /\ \A i \in DOMAIN memory[e].lines :
                       /\ memory[e].lines[i] = Line(None, known.run)
                       /\ known.name # None /\ runs[known.run].env = e
                  /\ known.name # None /\ runs[known.run].env = e => memory[e].lines = [i \in 1 .. Facts |-> Line(None, known.run)]
             /\ memory = [e \in Env |-> memory[e]]
<1>1. PICK known \in Before :
             /\ file = [n \in Name |-> IF n = known.name THEN "whole" ELSE "none"]
             /\ index = [lines |-> IF known.name = None THEN <<>> ELSE <<Line(known.name, known.run)>>, cut |-> FALSE]
             /\ memory = [e \in Env |->
                    [lines |-> IF known.name # None /\ runs[known.run].env = e
                               THEN [i \in 1 .. Facts |-> Line(None, known.run)] ELSE <<>>,
                     cut |-> FALSE]]
  BY DEF Init, TaskInit, LearnedInit
<1>2. known.name # None => known.name \in Name /\ known.run \in Run /\ runs[known.run].status = "success"
  <2>1. known.name # None => known.name \in Name /\ known.run \in Earlier
    BY RunAssumption
  <2>2. \A r \in Earlier : r \in Run /\ runs[r].status = "success"
    BY OwnRuns DEF Init, TaskInit, RunDir
  <2>3. QED
    BY <2>1, <2>2
<1>3. ASSUME NEW e \in Env
      PROVE  /\ memory[e].cut = FALSE /\ memory[e] \in Logs
             /\ \A i \in DOMAIN memory[e].lines :
                       /\ memory[e].lines[i] = Line(None, known.run)
                       /\ known.name # None /\ runs[known.run].env = e
             /\ known.name # None /\ runs[known.run].env = e => memory[e].lines = [i \in 1 .. Facts |-> Line(None, known.run)]
  <2>1. CASE known.name # None /\ runs[known.run].env = e
    <3>1. Line(None, known.run) \in Lines
      BY <1>2, <2>1 DEF Lines
    <3>2. [i \in 1 .. Facts |-> Line(None, known.run)] \in Seq(Lines)
      BY <3>1, LearnedAssumption
    <3>3. memory[e] = [lines |-> [i \in 1 .. Facts |-> Line(None, known.run)], cut |-> FALSE]
      BY <1>1, <2>1
    <3>4. QED
      BY <2>1, <3>2, <3>3 DEF Logs
  <2>2. CASE ~ (known.name # None /\ runs[known.run].env = e)
    <3>1. memory[e] = [lines |-> <<>>, cut |-> FALSE]
      BY <1>1, <2>2, Zenon
    <3>2. QED
      BY <2>2, <3>1 DEF Logs
  <2>3. QED
    BY <2>1, <2>2
<1>4. memory = [e \in Env |-> memory[e]]
  BY <1>1
<1>5. QED
  BY <1>1, <1>2, <1>3, <1>4

LEMMA StoreInit == Init => StoreInv
<1> SUFFICES ASSUME Init PROVE StoreInv
  OBVIOUS
<1>1. PICK known \in Before :
             /\ known.name # None => known.name \in Name /\ known.run \in Run /\ runs[known.run].status = "success"
             /\ file = [n \in Name |-> IF n = known.name THEN "whole" ELSE "none"]
             /\ index = [lines |-> IF known.name = None THEN <<>> ELSE <<Line(known.name, known.run)>>, cut |-> FALSE]
             /\ \A e \in Env :
                  /\ memory[e].cut = FALSE /\ memory[e] \in Logs
                  /\ \A i \in DOMAIN memory[e].lines :
                       /\ memory[e].lines[i] = Line(None, known.run)
                       /\ known.name # None /\ runs[known.run].env = e
             /\ memory = [e \in Env |-> memory[e]]
  BY StartsWith
<1>2. dist = [d \in Distiller |-> Idle] /\ alone \in BOOLEAN
  BY DEF Init, TaskInit, LearnedInit
<1>3. index \in Logs /\ \A i \in Records(index) : known.name # None /\ i = 1 /\ index.lines[i] = Line(known.name, known.run)
  <2>1. CASE known.name = None
    <3>1. index = [lines |-> <<>>, cut |-> FALSE]
      BY <1>1, <2>1
    <3>2. QED
      BY <3>1 DEF Logs, Records
  <2>2. CASE known.name # None
    <3>1. index = [lines |-> <<Line(known.name, known.run)>>, cut |-> FALSE]
      BY <1>1, <2>2
    <3>2. Line(known.name, known.run) \in Lines
      BY <1>1, <2>2 DEF Lines
    <3>3. QED
      BY <2>2, <3>1, <3>2 DEF Logs, Records
  <2>3. QED
    BY <2>1, <2>2
<1>4. LearnedTypeOK
  <2>1. Idle \in Commands
    BY DEF Idle, Commands
  <2>2. QED
    BY <1>1, <1>2, <1>3, <2>1 DEF LearnedTypeOK
<1>5. CommandsHold
  BY <1>2 DEF CommandsHold, Idle, Holds, Holding
<1>6. ListHolds
  <2>1. \A i \in Records(index) : known.name # None /\ i = 1 /\ index.lines[i].name = known.name /\ index.lines[i].run = known.run
    BY <1>3, LineKinds
  <2>2. known.name # None => file[known.name] = "whole"
    BY <1>1
  <2>3. QED
    BY <1>1, <2>1, <2>2 DEF ListHolds
<1>7. MemoryHolds
  BY <1>1, LineKinds DEF MemoryHolds, Records
<1>8. QED
  BY <1>4, <1>5, <1>6, <1>7 DEF StoreInv, StoreHolds

LEMMA StoreNext ==
    ASSUME TaskInv, StoreInv, GuiInv, [Next]_vars
    PROVE  StoreInv'
<1>1. SuccessesStay
  BY TasksNext
<1>2. CASE UNCHANGED learnedVars
  BY <1>1, <1>2, StoreRests DEF learnedVars
<1>3. CASE Distills
  BY <1>3, LoadKeepsStore, CreateFileKeepsStore, WriteFileKeepsStore, LookKeepsStore, ListEntryKeepsStore,
     LearnKeepsStore, DieKeepsStore DEF Distills
<1>4. QED
  BY <1>2, <1>3 DEF Next, vars, Turned, Accept, Busy, BodyArrives, BodyFails, TaskReturns, Command, Plan

RunInv == TaskInv /\ StoreInv /\ GuiInv

THEOREM RunInvHolds == Spec => []RunInv
<1>1. Init => RunInv
  BY TasksInit, StoreInit, RequestsInit DEF RunInv
<1>2. RunInv /\ [Next]_vars => RunInv'
  BY TasksNext, StoreNext, RequestsNext DEF RunInv
<1>3. QED
  BY <1>1, <1>2, PTL DEF Spec

\* A replay that fails or throws ends in a cold run or in an error, never in the result of
\* the replay, and a task acts twice only after it fell back (run-browser-task.ts:238).
THEOREM FallbacksAreClean == Spec => []FallbackIsClean
<1>1. ASSUME RunInv, NEW t \in Attempt
      PROVE  /\ (task[t].fallback # None) <=> (task[t].code # None)
             /\ Over(t) /\ task[t].phase_of = "warm" => task[t].result # "failure" /\ task[t].fallback = None
             /\ Did(t, "replay") /\ Did(t, "agent") => task[t].fallback \in {"replay_failed", "replay_error"}
             /\ Over(t) /\ task[t].fallback # None => task[t].phase_of = "cold" \/ task[t].result = "error"
             /\ Len(effects[t]) <= 2
             /\ Len(effects[t]) = 2 => task[t].fallback \in {"replay_failed", "replay_error"}
  <2>1. effects[t] \in Works /\ Conduct(task[t], effects[t]) /\ Course(task[t])
    BY <1>1, Attempts DEF RunInv, AttemptHolds
  <2>2. CASE effects[t] = <<"replay", "agent">>
    <3>1. Planned(effects[t]) /\ Acted(effects[t]) /\ Len(effects[t]) = 2
      BY <2>2 DEF Planned, Acted
    <3>2. QED
      BY <2>1, <3>1 DEF Conduct, Course, Fell, Over, InPhase
  <2>3. CASE effects[t] \in {<<>>, <<"replay">>, <<"agent">>}
    <3>1. Len(<<>>) = 0 /\ Len(<<"replay">>) = 1 /\ Len(<<"agent">>) = 1
      OBVIOUS
    <3>2. Len(effects[t]) = 0 \/ Len(effects[t]) = 1
      BY <2>3, <3>1, Zenon
    <3>3. ~ (Did(t, "replay") /\ Did(t, "agent"))
      <4>1. CASE effects[t] = <<>>
        BY <4>1 DEF Did
      <4>2. CASE effects[t] = <<"replay">>
        BY <4>2 DEF Did
      <4>3. CASE effects[t] = <<"agent">>
        BY <4>3 DEF Did
      <4>4. QED
        BY <2>3, <4>1, <4>2, <4>3
    <3>4. /\ (task[t].fallback # None) <=> (task[t].code # None)
          /\ Over(t) /\ task[t].phase_of = "warm" => task[t].result # "failure" /\ task[t].fallback = None
          /\ Over(t) /\ task[t].fallback # None => task[t].phase_of = "cold" \/ task[t].result = "error"
      BY <2>1 DEF Course, Over, InPhase
    <3> DEFINE n == Len(effects[t])
    <3>5. n <= 2 /\ n # 2
      <4>1. n = 0 \/ n = 1
        BY <3>2
      <4> HIDE DEF n
      <4>2. QED
        BY <4>1
    <3>6. QED
      BY <3>3, <3>4, <3>5
  <2>4. QED
    BY <2>1, <2>2, <2>3 DEF Works
<1>2. RunInv => FallbackIsClean
  BY <1>1 DEF FallbackIsClean, ReplayNeverStrands, CommitsTwiceOnlyByFallback
<1>3. QED
  BY <1>2, RunInvHolds, PTL

\* A success was verified on the page it left and is sealed under its own run id, and a
\* replay acted in the environment its playbook was proved in, by a run that still says
\* success (run-browser-task.ts:205-260, matcher/match.ts).
THEOREM SuccessesAreEarned == Spec => []SuccessIsEarned
<1>1. ASSUME RunInv, NEW t \in Attempt, Did(t, "replay")
      PROVE  /\ task[t].candidate.env = task[t].env
             /\ ~ task[t].explicit => /\ runs[task[t].candidate.run].env = task[t].env
                                      /\ runs[task[t].candidate.run].status = "success"
  <2>1. effects[t] \in Works /\ Conduct(task[t], effects[t]) /\ Informed(task[t], runs)
    BY <1>1, Attempts DEF RunInv, AttemptHolds
  <2>2. Acted(effects[t])
    BY <1>1, <2>1 DEF Did, Works, Acted
  <2>3. QED
    BY <2>1, <2>2 DEF Conduct, Informed
<1>2. ASSUME RunInv, NEW t \in Attempt, task[t].result = "success"
      PROVE  /\ task[t].phase_of = "cold" => task[t].checks \subseteq page[t]
             /\ task[t].phase_of = "warm" => VerifyOf(t) \subseteq page[t]
             /\ runs[IF task[t].phase_of = "warm" THEN Warm(t) ELSE Cold(t)].status = "success"
  <2>1. Course(task[t]) /\ Sealed(t, task[t], page[t], runs)
    BY <1>2, Attempts DEF RunInv, AttemptHolds
  <2>2. QED
    BY <1>2, <2>1 DEF Course, Sealed, VerifyOf
<1>3. RunInv => SuccessIsEarned
  BY <1>1, <1>2 DEF SuccessIsEarned, ReplayStaysHome, SuccessIsVerified
<1>4. QED
  BY <1>3, RunInvHolds, PTL

\* At most one request's task is at work in the server, its agent talks to the provider the
\* request named, a server at rest has its own environment back, and a task that is over
\* has left no browser (gui-server.ts:113, run-browser-task.ts:337).
THEOREM RequestsStayApart == Spec => []RequestsAreApart
<1>1. RunInv => RequestsDoNotMix
  BY DEF RunInv, GuiInv, RequestsHold, InService, RequestsDoNotMix
<1>2. ASSUME RunInv, NEW t \in Attempt, Over(t) PROVE browser[t] = "closed"
  <2>1. Stopped(task[t], browser[t])
    BY <1>2, Attempts DEF RunInv, AttemptHolds
  <2>2. QED
    BY <1>2, <2>1 DEF Stopped, Over, InPhase
<1>3. RunInv => RequestsAreApart
  BY <1>1, <1>2 DEF RequestsAreApart, BrowserIsStopped
<1>4. QED
  BY <1>3, RunInvHolds, PTL

-----------------------------------------------------------------------------
(* Writers that die: as long as no two writes run together, logs only grow. *)

Grown(log, lg) ==
    /\ \A i \in Records(log) : i \in Records(lg) /\ lg.lines[i] = log.lines[i]
    /\ Parses(log) => Parses(lg)

LEMMA AppendedIsGrown ==
    ASSUME NEW log \in Logs, NEW part \in Seq(Lines), \A j \in DOMAIN part : part[j].kind # "garbled",
           NEW lg, lg.lines = log.lines \o part
    PROVE  Grown(log, lg)
<1>1. log.lines \in Seq(Lines)
  BY DEF Logs
<1>2. \A i \in DOMAIN lg.lines : \/ i \in DOMAIN log.lines /\ lg.lines[i] = log.lines[i]
                                 \/ i - Len(log.lines) \in DOMAIN part /\ lg.lines[i] = part[i - Len(log.lines)]
  BY <1>1
<1>3. \A i \in DOMAIN log.lines : i \in DOMAIN lg.lines /\ lg.lines[i] = log.lines[i]
  BY <1>1
<1>4. QED
  BY <1>2, <1>3 DEF Grown, Records, Parses

LEMMA SameIsGrown == \A log : Grown(log, log)
  BY DEF Grown

LEMMA NewLinesParse ==
    ASSUME TaskInv, StoreInv, NEW d \in Distiller, dist[d].phase # "idle", NEW new \in {IndexLines(d), MemoryLines(d)}
    PROVE  /\ new \in Seq(Lines) /\ \A j \in DOMAIN new : new[j].kind # "garbled"
           /\ \A part \in Parts(new) : part \in Seq(Lines) /\ \A j \in DOMAIN part : part[j].kind # "garbled"
<1>1. new \in Seq(Lines) /\ \A j \in DOMAIN new : new[j].kind = "record"
  <2>1. CASE new = MemoryLines(d)
    BY <2>1, WorkTypes, LineKinds
  <2>2. CASE new = IndexLines(d)
    <3>1. new = <<Line(dist[d].name, dist[d].run)>> /\ new \in Seq(Lines)
      BY <2>2, WorkTypes
    <3>2. QED
      BY <3>1, LineKinds
  <2>3. QED
    BY <2>1, <2>2
<1>2. QED
  BY <1>1, LineKinds DEF Parts

\* A write that nobody interferes with is appended, whole or in part.
LEMMA WrittenIsGrown ==
    ASSUME TaskInv, StoreInv, NEW d \in Distiller, dist[d].phase # "idle", NEW new \in {IndexLines(d), MemoryLines(d)},
           NEW log \in Logs, ~ Glues(log, dist[d].newline),
           NEW lg \in Written(log, dist[d].newline, new) \cup CutShort(log, dist[d].newline, new)
    PROVE  Grown(log, lg)
<1>1. dist[d].newline \in BOOLEAN
  BY WorkTypes
<1>2. /\ new \in Seq(Lines) /\ \A j \in DOMAIN new : new[j].kind # "garbled"
      /\ \A part \in Parts(new) : part \in Seq(Lines) /\ \A j \in DOMAIN part : part[j].kind # "garbled"
  BY NewLinesParse
<1>3. CASE lg \in Written(log, dist[d].newline, new)
  <2>1. lg.lines = log.lines \o new
    BY <1>1, <1>2, <1>3, WrittenLog
  <2>2. QED
    BY <1>2, <2>1, AppendedIsGrown
<1>4. CASE lg \in CutShort(log, dist[d].newline, new)
  <2>1. lg = log \/ \E part \in Parts(new) : lg.lines = log.lines \o part
    BY <1>1, <1>2, <1>4, CutShortLog
  <2>2. CASE lg = log
    BY <2>2, SameIsGrown
  <2>3. ASSUME NEW part \in Parts(new), lg.lines = log.lines \o part PROVE Grown(log, lg)
    BY <1>2, <2>3, AppendedIsGrown
  <2>4. QED
    BY <2>1, <2>2, <2>3
<1>5. QED
  BY <1>3, <1>4

\* In the order of the records, a listed name has the run of its record.
LEMMA RunOfRecord ==
    ASSUME NEW log, NEW n, NEW i \in Records(log), log.lines[i].name = n,
           \A k, j \in Records(log) : log.lines[k].name = log.lines[j].name => k = j
    PROVE  log.lines[CHOOSE k \in Records(log) : log.lines[k].name = n].run = log.lines[i].run
<1>1. PICK k \in Records(log) : log.lines[k].name = n /\ k = CHOOSE j \in Records(log) : log.lines[j].name = n
  OBVIOUS
<1>2. k = i
  BY <1>1
<1>3. QED
  BY <1>1, <1>2

LEMMA KnownIsFinite ==
    ASSUME NEW log \in Logs, NEW r
    PROVE  LET K == {i \in Records(log) : log.lines[i].run = r} IN IsFiniteSet(K) /\ Cardinality(K) \in Nat
<1> DEFINE K == {i \in Records(log) : log.lines[i].run = r}
<1>1. log.lines \in Seq(Lines)
  BY DEF Logs
<1>2. K \subseteq 1 .. Len(log.lines) /\ Len(log.lines) \in Nat
  BY <1>1 DEF Records
<1>3. IsFiniteSet(1 .. Len(log.lines))
  BY <1>2, FS_Interval
<1> HIDE DEF K
<1>4. IsFiniteSet(K) /\ Cardinality(K) \in Nat
  BY <1>2, <1>3, FS_Subset, FS_CardinalityType
<1>5. QED
  BY <1>4 DEF K

\* The logs grow, and no success is written again: what was known of a run stays known.
Grows == Grown(index, index') /\ \A e \in Env : Grown(memory[e], memory'[e])

LEMMA KnowsMore ==
    ASSUME TaskInv, StoreInv, StoreInv', SuccessesStay, Grows, NEW r \in Run, runs[r].status = "success"
    PROVE  Knows(r) \in Nat /\ Knows(r)' \in Nat /\ Knows(r)' >= Knows(r)
<1> DEFINE e == runs[r].env
           K == {i \in Records(memory[e]) : memory[e].lines[i].run = r}
           L == {i \in Records(memory'[e]) : memory'[e].lines[i].run = r}
<1>1. runs'[r] = runs[r] /\ e \in Env
  BY DEF SuccessesStay, TaskInv, TasksHold
<1>2. memory[e] \in Logs /\ memory'[e] \in Logs /\ Grown(memory[e], memory'[e])
  BY <1>1 DEF StoreInv, LearnedTypeOK, Grows
<1>3. K \subseteq L
  BY <1>2 DEF Grown
<1>4. IsFiniteSet(L) /\ Cardinality(L) \in Nat /\ Cardinality(K) \in Nat
  BY <1>2, KnownIsFinite
<1>5. Knows(r) = Cardinality(K) /\ Knows(r)' = Cardinality(L)
  BY <1>1 DEF Knows
<1> HIDE DEF K, L
<1>6. Cardinality(K) <= Cardinality(L)
  BY <1>3, <1>4, FS_Subset
<1>7. QED
  BY <1>4, <1>5, <1>6

LEMMA ListedStays ==
    ASSUME Grows, NEW n, NEW r, ListedAs(n, r)
    PROVE  ListedAs(n, r)'
  BY DEF Grows, Grown, ListedAs

LEMMA ListedIsRunOf ==
    ASSUME StoreInv, NEW n, NEW r, ListedAs(n, r)
    PROVE  n \in Listed /\ RunOf(n) = r
<1>1. PICK i \in Records(index) : index.lines[i].name = n /\ index.lines[i].run = r
  BY DEF ListedAs
<1>2. \A k, j \in Records(index) : index.lines[k].name = index.lines[j].name => k = j
  BY DEF StoreInv, StoreHolds, ListHolds
<1>3. RunOf(n) = index.lines[i].run
  BY <1>1, <1>2, RunOfRecord DEF RunOf
<1>4. QED
  BY <1>1, <1>3 DEF Listed

LEMMA ListedIsRunOfNext ==
    ASSUME StoreInv', NEW n, NEW r, ListedAs(n, r)'
    PROVE  (n \in Listed)' /\ RunOf(n)' = r
<1>1. PICK i \in Records(index') : index'.lines[i].name = n /\ index'.lines[i].run = r
  BY DEF ListedAs
<1>2. \A k, j \in Records(index') : index'.lines[k].name = index'.lines[j].name => k = j
  BY DEF StoreInv, StoreHolds, ListHolds
<1>3. RunOf(n)' = index'.lines[i].run
  BY <1>1, <1>2, RunOfRecord DEF RunOf
<1>4. QED
  BY <1>1, <1>3 DEF Listed

LEMMA TaughtStays ==
    ASSUME TaskInv, StoreInv, StoreInv', SuccessesStay, Grows, NEW n, Taught(n)
    PROVE  Taught(n)'
<1>1. n \in Listed /\ Knows(RunOf(n)) >= Facts
  BY DEF Taught
<1>2. RunOf(n) \in Run /\ runs[RunOf(n)].status = "success" /\ ListedAs(n, RunOf(n))
  BY <1>1, ListedAreWhole, LineKinds DEF ListedAs
<1>3. (n \in Listed)' /\ RunOf(n)' = RunOf(n)
  BY <1>2, ListedStays, ListedIsRunOfNext
<1> DEFINE r == RunOf(n)
<1>4. Knows(r)' >= Facts
  <2>1. PICK q \in Run : q = r
    BY <1>2
  <2>2. Knows(q)' >= Knows(q) /\ Knows(q) \in Nat /\ Knows(q)' \in Nat /\ Knows(q) >= Facts
    BY <1>1, <1>2, <2>1, KnowsMore
  <2>3. Knows(q)' >= Facts
    BY <2>2, LearnedAssumption
  <2>4. QED
    BY <1>3, <2>1, <2>3
<1>5. QED
  BY <1>3, <1>4 DEF Taught

LEMMA TakingGoesOn ==
    ASSUME TaskInv, StoreInv, StoreInv', SuccessesStay, Grows, Taking,
           \A d \in Distiller : dist'[d].phase \in {"derive", "learn", "done"} =>
               ListedAs(dist[d].name, dist[d].run)' \/ dist'[d] = dist[d],
           \A d \in Distiller : dist'[d].phase = "done" => Knows(dist[d].run)' >= Facts \/ dist'[d] = dist[d],
           \A n \in Name : file'[n] # "none" =>
               \/ file[n] # "none"
               \/ \E d \in Distiller : dist'[d].name = n /\ dist'[d].phase \in Teaching,
           \A d \in Distiller : dist[d].phase \in Teaching =>
               dist'[d].name = dist[d].name /\ (dist'[d].phase \in Teaching \/ Taught(dist[d].name)')
    PROVE  Taking'
<1>1. Parses(index') /\ \A e \in Env : Parses(memory'[e])
  BY DEF Taking, Grows, Grown
<1>2. ASSUME NEW d \in Distiller, dist'[d].phase \in {"derive", "learn", "done"}
      PROVE  ListedAs(dist[d].name, dist[d].run)'
  <2>1. CASE dist'[d] = dist[d]
    <3>1. ListedAs(dist[d].name, dist[d].run)
      BY <1>2, <2>1 DEF Taking
    <3>2. PICK n, r : n = dist[d].name /\ r = dist[d].run
      OBVIOUS
    <3>3. ListedAs(n, r)'
      BY <3>1, <3>2, ListedStays
    <3>4. dist'[d].name = n /\ dist'[d].run = r
      BY <2>1, <3>2
    <3>5. QED
      BY <3>3, <3>4
  <2>2. QED
    BY <1>2, <2>1
<1>3. ASSUME NEW d \in Distiller, dist'[d].phase = "done" PROVE Knows(dist[d].run)' >= Facts
  <2>1. CASE dist'[d] = dist[d]
    <3>1. /\ Knows(dist[d].run) >= Facts /\ dist[d].run \in Run /\ runs[dist[d].run].status = "success"
      BY <1>3, <2>1, WorkTypes DEF Taking
    <3>2. PICK q \in Run : q = dist[d].run
      BY <3>1
    <3>3. Knows(q)' >= Knows(q) /\ Knows(q) \in Nat /\ Knows(q)' \in Nat /\ Knows(q) >= Facts
      BY <3>1, <3>2, KnowsMore
    <3>4. Knows(q)' >= Facts
      BY <3>3, LearnedAssumption
    <3>5. dist'[d].run = q
      BY <2>1, <3>2
    <3>6. QED
      BY <3>4, <3>5
  <2>2. QED
    BY <1>3, <2>1
<1>4. ASSUME NEW n \in Name, file'[n] # "none"
      PROVE  Taught(n)' \/ \E d \in Distiller : dist'[d].name = n /\ dist'[d].phase \in Teaching
  <2>1. CASE file[n] # "none" /\ Taught(n)
    BY <2>1, TaughtStays
  <2>2. CASE \E d \in Distiller : dist[d].name = n /\ dist[d].phase \in Teaching
    <3>1. PICK d \in Distiller : dist[d].name = n /\ dist[d].phase \in Teaching
      BY <2>2
    <3>2. dist'[d].name = n /\ (dist'[d].phase \in Teaching \/ Taught(dist[d].name)')
      BY <3>1
    <3>3. CASE Taught(dist[d].name)'
      BY <3>2, <3>3
    <3>4. QED
      BY <3>2, <3>3
  <2>3. QED
    BY <1>4, <2>1, <2>2 DEF Taking
<1>5. \A d \in Distiller : dist'[d].phase = "done" => (Knows(dist[d].run) >= Facts)'
  BY <1>3
<1>6. QED
  BY <1>1, <1>2, <1>4, <1>5 DEF Taking

LEMMA TurnsGoOn ==
    ASSUME TaskInv, StoreInv, Turns, NEW d \in Distiller, UNCHANGED alone,
           dist' \in [Distiller -> Commands], \A c \in Distiller \ {d} : dist'[c] = dist[c],
           alone => \A c \in Distiller \ {d} : ~ AtWork(c),
           alone => Sees(d)',
           dist[d].phase # "died", NobodyDied' => (Uncut => Uncut')
    PROVE  Turns' /\ (Calm' => Calm)
<1>1. NobodyDied' => NobodyDied
  BY DEF NobodyDied
<1>2. ASSUME alone, NEW c \in Distiller \ {d} PROVE ~ AtWork(c)' /\ Sees(c)'
  <2>1. ~ AtWork(c) /\ dist'[c] = dist[c]
    BY <1>2
  <2>2. dist'[c].phase \notin {"list", "learn"}
    BY <2>1, StoreTypes DEF AtWork
  <2>3. QED
    BY <2>1, <2>2 DEF AtWork, Sees
<1>3. alone' => (\A b, c \in Distiller : AtWork(b)' /\ AtWork(c)' => b = c) /\ \A c \in Distiller : Sees(c)'
  BY <1>2
<1>4. NobodyDied' => Uncut'
  BY <1>1 DEF Turns
<1>5. Turns'
  BY <1>3, <1>4 DEF Turns
<1>6. QED
  BY <1>1, <1>5 DEF Calm

LEMMA AloneAtWork ==
    ASSUME Turns, NEW d \in Distiller, AtWork(d)
    PROVE  alone => \A c \in Distiller \ {d} : ~ AtWork(c)
  BY DEF Turns

LEMMA NothingGlues ==
    ASSUME TaskInv, StoreInv, Turns, Calm, NEW d \in Distiller
    PROVE  /\ dist[d].phase = "list" => ~ Glues(index, dist[d].newline)
           /\ dist[d].phase = "learn" => ~ Glues(memory[EnvOf(d)], dist[d].newline)
<1>1. CASE alone
  BY <1>1 DEF Turns, Sees, Glues
<1>2. CASE NobodyDied
  <2>1. ~ index.cut /\ \A e \in Env : ~ memory[e].cut
    BY <1>2 DEF Turns, Uncut
  <2>2. dist[d].phase = "learn" => EnvOf(d) \in Env
    BY WorkTypes
  <2>3. QED
    BY <2>1, <2>2 DEF Glues
<1>3. QED
  BY <1>1, <1>2 DEF Calm

LEMMA LogsStay ==
    ASSUME TaskInv, UNCHANGED <<index, memory, runs>>
    PROVE  Grows /\ SuccessesStay /\ (Uncut => Uncut')
  BY SameIsGrown DEF Grows, SuccessesStay, Uncut

LEMMA LoadKeepsCalm ==
    ASSUME TaskInv, StoreInv, StoreInv', CalmInv, NEW d \in Distiller, NEW n \in Name, NEW r \in Run, Load(d, n, r), UNCHANGED runs
    PROVE  CalmInv'
<1>1. PICK phase \in {"create", "refused"} :
         dist' = [dist EXCEPT ![d] = [phase |-> phase, name |-> n, run |-> r, newline |-> FALSE]]
  BY DEF Load
<1>2. /\ dist[d].phase = "idle" /\ UNCHANGED <<alone, file, index, memory>>
      /\ alone => \A c \in Distiller : ~ AtWork(c)
  BY DEF Load
<1>3. /\ dist' \in [Distiller -> Commands] /\ \A c \in Distiller \ {d} : dist'[c] = dist[c]
  BY <1>1, StoreTypes DEF StoreInv, LearnedTypeOK
<1>4. dist'[d].phase = phase
  BY <1>1, StoreTypes
<1>5. Grows /\ SuccessesStay /\ (Uncut => Uncut')
  BY <1>2, LogsStay
<1>6. Turns' /\ (Calm' => Calm)
  <2>1. Sees(d)'
    BY <1>4 DEF Sees
  <2>2. QED
    BY <1>2, <1>3, <1>5, <2>1, TurnsGoOn DEF CalmInv
<1>7. Calm' => Taking'
  <2>1. \A c \in Distiller : dist'[c] = dist[c] \/ dist'[c].phase \notin {"derive", "learn", "done"}
    BY <1>3, <1>4
  <2>2. \A c \in Distiller : dist[c].phase \in Teaching => c # d
    BY <1>2 DEF Teaching
  <2>3. QED
    BY <1>2, <1>3, <1>5, <1>6, <2>1, <2>2, TakingGoesOn DEF CalmInv
<1>8. QED
  BY <1>6, <1>7 DEF CalmInv

LEMMA CreateFileKeepsCalm ==
    ASSUME TaskInv, StoreInv, StoreInv', CalmInv, NEW d \in Distiller, CreateFile(d), UNCHANGED runs
    PROVE  CalmInv'
<1> DEFINE n == dist[d].name
<1>1. dist[d].phase = "create" /\ UNCHANGED <<alone, index, memory>> /\ n \in Name /\ AtWork(d)
  BY WorkTypes DEF CreateFile, AtWork
<1>2. /\ GoesOn(d)
      /\ \/ dist'[d].phase = "write" /\ file' = [file EXCEPT ![n] = "partial"]
         \/ dist'[d].phase = "refused" /\ UNCHANGED file
  BY GoesIsOn DEF CreateFile
<1>3. Grows /\ SuccessesStay /\ (Uncut => Uncut')
  BY <1>1, LogsStay
<1>4. Turns' /\ (Calm' => Calm)
  <2>1. Sees(d)'
    BY <1>2 DEF Sees
  <2>2. alone => \A c \in Distiller \ {d} : ~ AtWork(c)
    BY <1>1, AloneAtWork DEF CalmInv
  <2>3. QED
    BY <1>1, <1>2, <1>3, <2>1, <2>2, TurnsGoOn DEF CalmInv, GoesOn
<1>5. Calm' => Taking'
  <2>1. \A c \in Distiller : dist'[c] = dist[c] \/ dist'[c].phase \notin {"derive", "learn", "done"}
    BY <1>2 DEF GoesOn
  <2>2. \A c \in Distiller : dist[c].phase \in Teaching => dist'[c] = dist[c]
    BY <1>1, <1>2 DEF Teaching, GoesOn
  <2>3. \A m \in Name : file'[m] # "none" =>
           file[m] # "none" \/ \E c \in Distiller : dist'[c].name = m /\ dist'[c].phase \in Teaching
    BY <1>2, StoreTypes DEF GoesOn, Teaching
  <2> HIDE DEF n
  <2>4. QED
    BY <1>3, <1>4, <2>1, <2>2, <2>3, TakingGoesOn DEF CalmInv
<1>6. QED
  BY <1>4, <1>5 DEF CalmInv

LEMMA WriteFileKeepsCalm ==
    ASSUME TaskInv, StoreInv, StoreInv', CalmInv, NEW d \in Distiller, WriteFile(d), UNCHANGED runs
    PROVE  CalmInv'
<1>1. dist[d].phase = "write" /\ UNCHANGED <<alone, index, memory>> /\ dist[d].name \in Name /\ AtWork(d) /\ Holds(d)
  BY WorkTypes DEF WriteFile, AtWork, Holds, Holding
<1>2. GoesOn(d) /\ dist'[d].phase = "look" /\ file' = [file EXCEPT ![dist[d].name] = "whole"]
  BY GoesIsOn DEF WriteFile
<1>3. Grows /\ SuccessesStay /\ (Uncut => Uncut')
  BY <1>1, LogsStay
<1>4. Turns' /\ (Calm' => Calm)
  <2>1. Sees(d)'
    BY <1>2 DEF Sees
  <2>2. alone => \A c \in Distiller \ {d} : ~ AtWork(c)
    BY <1>1, AloneAtWork DEF CalmInv
  <2>3. QED
    BY <1>1, <1>2, <1>3, <2>1, <2>2, TurnsGoOn DEF CalmInv, GoesOn
<1>5. Calm' => Taking'
  <2>1. \A c \in Distiller : dist'[c] = dist[c] \/ dist'[c].phase \notin {"derive", "learn", "done"}
    BY <1>2 DEF GoesOn
  <2>2. \A c \in Distiller : dist[c].phase \in Teaching => dist'[c].name = dist[c].name /\ dist'[c].phase \in Teaching
    BY <1>1, <1>2 DEF Teaching, GoesOn
  <2>3. \A m \in Name : file'[m] # "none" => file[m] # "none"
    <3>1. file[dist[d].name] = "partial"
      BY <1>1 DEF StoreInv, StoreHolds, CommandsHold
    <3>2. QED
      BY <1>1, <1>2, <3>1, StoreTypes
  <2>4. QED
    BY <1>3, <1>4, <2>1, <2>2, <2>3, TakingGoesOn DEF CalmInv
<1>6. QED
  BY <1>4, <1>5 DEF CalmInv

LEMMA LookKeepsCalm ==
    ASSUME TaskInv, StoreInv, StoreInv', CalmInv, NEW d \in Distiller, Look(d), UNCHANGED runs
    PROVE  CalmInv'
<1>1. UNCHANGED <<alone, file, index, memory>>
  BY DEF Look
<1>2. /\ GoesOn(d) /\ AtWork(d)
      /\ \/ dist[d].phase = "look" /\ dist'[d].phase = "list" /\ dist'[d].newline = index.cut
         \/ dist[d].phase = "derive" /\ dist'[d].phase = "learn" /\ dist'[d].newline = memory[EnvOf(d)].cut
  BY LookIsOn DEF AtWork
<1>3. Grows /\ SuccessesStay /\ (Uncut => Uncut')
  BY <1>1, LogsStay
<1>4. Turns' /\ (Calm' => Calm)
  <2>1. Sees(d)'
    BY <1>1, <1>2 DEF Sees, EnvOf, GoesOn
  <2>2. alone => \A c \in Distiller \ {d} : ~ AtWork(c)
    BY <1>2, AloneAtWork DEF CalmInv
  <2>3. QED
    BY <1>1, <1>2, <1>3, <2>1, <2>2, TurnsGoOn DEF CalmInv, GoesOn
<1>5. Calm' => Taking'
  <2>1. ASSUME Taking, NEW c \in Distiller, dist'[c].phase \in {"derive", "learn", "done"}
        PROVE  ListedAs(dist[c].name, dist[c].run)' \/ dist'[c] = dist[c]
    <3>1. CASE c = d
      <4>1. ListedAs(dist[d].name, dist[d].run)
        BY <1>2, <2>1, <3>1 DEF Taking
      <4>2. QED
        BY <1>1, <1>2, <3>1, <4>1 DEF ListedAs, GoesOn
    <3>2. QED
      BY <1>2, <3>1 DEF GoesOn
  <2>2. \A c \in Distiller : dist[c].phase \in Teaching => dist'[c].name = dist[c].name /\ dist'[c].phase \in Teaching
    BY <1>2 DEF Teaching, GoesOn
  <2>3. \A c \in Distiller : dist'[c].phase = "done" => dist'[c] = dist[c]
    BY <1>2 DEF GoesOn
  <2>4. QED
    BY <1>1, <1>3, <1>4, <2>1, <2>2, <2>3, TakingGoesOn DEF CalmInv
<1>6. QED
  BY <1>4, <1>5 DEF CalmInv

LEMMA ListEntryKeepsCalm ==
    ASSUME TaskInv, StoreInv, StoreInv', CalmInv, NEW d \in Distiller, ListEntry(d), UNCHANGED runs
    PROVE  CalmInv'
<1>1. /\ dist[d].phase = "list" /\ UNCHANGED <<alone, file, memory>> /\ GoesOn(d) /\ dist'[d].phase = "derive" /\ AtWork(d)
      /\ index' \in Written(index, dist[d].newline, IndexLines(d))
  BY GoesIsOn DEF ListEntry, AtWork
<1>2. PICK n \in Name, r \in Run : n = dist[d].name /\ r = dist[d].run
  BY <1>1, WorkTypes
<1>3. IndexLines(d) = <<Line(n, r)>> /\ IndexLines(d) \in Seq(Lines) /\ dist[d].newline \in BOOLEAN /\ index \in Logs
  BY <1>1, <1>2, WorkTypes, StoreTypes
<1>4. index'.cut = FALSE /\ (~ Glues(index, dist[d].newline) => index'.lines = index.lines \o <<Line(n, r)>>)
  BY <1>1, <1>3, WrittenLog
<1>5. Turns' /\ (Calm' => Calm)
  <2>1. Sees(d)'
    BY <1>1 DEF Sees
  <2>2. alone => \A c \in Distiller \ {d} : ~ AtWork(c)
    BY <1>1, AloneAtWork DEF CalmInv
  <2>3. Uncut => Uncut'
    BY <1>1, <1>4 DEF Uncut
  <2>4. QED
    BY <1>1, <2>1, <2>2, <2>3, TurnsGoOn DEF CalmInv, GoesOn
<1>6. ASSUME Calm PROVE Grows /\ ListedAs(n, r)'
  <2>1. ~ Glues(index, dist[d].newline)
    BY <1>1, <1>6, NothingGlues DEF CalmInv
  <2>2. Grown(index, index')
    BY <1>1, <1>3, <2>1, WrittenIsGrown
  <2>3. ListedAs(n, r)'
    <3>1. index.lines \in Seq(Lines) /\ index'.lines = index.lines \o <<Line(n, r)>>
      BY <1>3, <1>4, <2>1 DEF Logs
    <3>2. Len(index.lines) + 1 \in DOMAIN index'.lines /\ index'.lines[Len(index.lines) + 1] = Line(n, r)
      BY <3>1
    <3>3. QED
      BY <3>2, LineKinds DEF ListedAs, Records
  <2>4. QED
    BY <1>1, <2>2, <2>3, SameIsGrown DEF Grows
<1>7. ASSUME Calm, Taking PROVE Taking'
  <2>1. ASSUME NEW c \in Distiller, dist'[c].phase \in {"derive", "learn", "done"}
        PROVE  ListedAs(dist[c].name, dist[c].run)' \/ dist'[c] = dist[c]
    <3>1. CASE c = d
      <4>1. dist'[c].name = n /\ dist'[c].run = r
        BY <1>1, <1>2, <3>1 DEF GoesOn
      <4>2. QED
        BY <1>6, <1>7, <4>1
    <3>2. QED
      BY <1>1, <3>1 DEF GoesOn
  <2>2. \A c \in Distiller : dist[c].phase \in Teaching => dist'[c].name = dist[c].name /\ dist'[c].phase \in Teaching
    BY <1>1 DEF Teaching, GoesOn
  <2>3. \A c \in Distiller : dist'[c].phase = "done" => dist'[c] = dist[c]
    BY <1>1 DEF GoesOn
  <2>4. SuccessesStay
    BY DEF SuccessesStay
  <2>5. QED
    BY <1>1, <1>6, <1>7, <2>1, <2>2, <2>3, <2>4, TakingGoesOn
<1>8. QED
  BY <1>5, <1>7 DEF CalmInv

\* A write that went through has taught everything the run had to teach.
LEMMA AllLearned ==
    ASSUME NEW r \in Run, NEW e \in Env, e = runs'[r].env, NEW log \in Logs, NEW new \in Seq(Lines), Len(new) = Facts,
           \A j \in DOMAIN new : new[j] = Line(None, r), memory'[e].lines = log.lines \o new, memory'[e] \in Logs
    PROVE  Knows(r)' >= Facts
<1> DEFINE n == Len(log.lines)
           K == {i \in Records(memory'[e]) : memory'[e].lines[i].run = r}
<1>1. log.lines \in Seq(Lines) /\ n \in Nat /\ Facts \in Nat
  BY LearnedAssumption DEF Logs
<1>2. ASSUME NEW i \in n + 1 .. n + Facts PROVE i \in K
  <2>1. i \in DOMAIN memory'[e].lines /\ memory'[e].lines[i] = new[i - n] /\ i - n \in DOMAIN new
    BY <1>1, <1>2
  <2>2. memory'[e].lines[i] = Line(None, r)
    BY <2>1
  <2>3. QED
    BY <2>1, <2>2, LineKinds DEF Records
<1>3. IsFiniteSet(K) /\ Cardinality(K) \in Nat
  BY KnownIsFinite
<1>4. Cardinality(n + 1 .. n + Facts) = Facts
  BY <1>1, FS_Interval, LearnedAssumption
<1>5. Knows(r)' = Cardinality(K)
  BY DEF Knows
<1> HIDE DEF K, n
<1>6. n + 1 .. n + Facts \subseteq K
  BY <1>2
<1>7. Cardinality(n + 1 .. n + Facts) <= Cardinality(K)
  BY <1>3, <1>6, FS_Subset
<1>8. QED
  BY <1>3, <1>4, <1>5, <1>7

LEMMA LearnKeepsCalm ==
    ASSUME TaskInv, StoreInv, StoreInv', CalmInv, NEW d \in Distiller, Learn(d), UNCHANGED runs
    PROVE  CalmInv'
<1>1. dist[d].phase = "learn" /\ UNCHANGED <<alone, file, index>> /\ GoesOn(d) /\ dist'[d].phase = "done" /\ AtWork(d)
  BY GoesIsOn DEF Learn, AtWork
<1>2. PICK n \in Name, r \in Run, e \in Env : n = dist[d].name /\ r = dist[d].run /\ e = EnvOf(d)
  BY <1>1, WorkTypes
<1>3. PICK lg \in Written(memory[e], dist[d].newline, MemoryLines(d)) : memory' = [memory EXCEPT ![e] = lg]
  BY <1>2 DEF Learn
<1>4. /\ MemoryLines(d) \in Seq(Lines) /\ dist[d].newline \in BOOLEAN /\ memory[e] \in Logs /\ Len(MemoryLines(d)) = Facts
      /\ \A j \in DOMAIN MemoryLines(d) : MemoryLines(d)[j] = Line(None, r)
      /\ memory \in [Env -> Logs] /\ e = runs'[r].env
  BY <1>1, <1>2, WorkTypes, StoreTypes DEF EnvOf
<1>5. lg \in Logs /\ lg.cut = FALSE /\ (~ Glues(memory[e], dist[d].newline) => lg.lines = memory[e].lines \o MemoryLines(d))
  <2> DEFINE old == memory[e]
             newline == dist[d].newline
             new == MemoryLines(d)
  <2>1. old \in Logs /\ newline \in BOOLEAN /\ new \in Seq(Lines) /\ lg \in Written(old, newline, new)
    BY <1>4
  <2> HIDE DEF old, newline, new
  <2>2. lg \in Logs /\ lg.cut = FALSE /\ (~ Glues(old, newline) => lg.lines = old.lines \o new)
    BY <2>1, WrittenLog
  <2>3. QED
    BY <2>2 DEF old, newline, new
<1>6. memory'[e] = lg /\ \A f \in Env \ {e} : memory'[f] = memory[f]
  BY <1>3, <1>4
<1>7. Turns' /\ (Calm' => Calm)
  <2>1. Sees(d)'
    BY <1>1 DEF Sees
  <2>2. alone => \A c \in Distiller \ {d} : ~ AtWork(c)
    BY <1>1, AloneAtWork DEF CalmInv
  <2>3. Uncut => Uncut'
    BY <1>1, <1>5, <1>6 DEF Uncut
  <2>4. QED
    BY <1>1, <2>1, <2>2, <2>3, TurnsGoOn DEF CalmInv, GoesOn
<1>8. ASSUME Calm PROVE Grows /\ Knows(r)' >= Facts
  <2>1. ~ Glues(memory[e], dist[d].newline)
    BY <1>1, <1>2, <1>8, NothingGlues DEF CalmInv
  <2>2. Grown(memory[e], lg)
    BY <1>1, <1>4, <2>1, WrittenIsGrown
  <2>3. Grows
    BY <1>1, <1>6, <2>2, SameIsGrown DEF Grows
  <2>4. Knows(r)' >= Facts
    <3>1. memory'[e].lines = memory[e].lines \o MemoryLines(d) /\ memory'[e] \in Logs
      BY <1>5, <1>6, <2>1
    <3>2. QED
      BY <1>4, <3>1, AllLearned
  <2>5. QED
    BY <2>3, <2>4
<1>9. ASSUME Calm, Taking PROVE Taking'
  <2>1. ListedAs(n, r)'
    <3>1. ListedAs(n, r)
      BY <1>1, <1>2, <1>9 DEF Taking
    <3>2. QED
      BY <1>8, <1>9, <3>1, ListedStays
  <2>2. dist'[d].name = n /\ dist'[d].run = r
    BY <1>1, <1>2 DEF GoesOn
  <2>3. Taught(n)'
    <3>1. (n \in Listed)' /\ RunOf(n)' = r
      BY <2>1, ListedIsRunOfNext
    <3>2. QED
      BY <1>8, <1>9, <3>1 DEF Taught
  <2>4. ASSUME NEW c \in Distiller, dist'[c].phase \in {"derive", "learn", "done"}
        PROVE  ListedAs(dist[c].name, dist[c].run)' \/ dist'[c] = dist[c]
    <3>1. CASE c = d
      BY <2>1, <2>2, <3>1
    <3>2. QED
      BY <1>1, <3>1 DEF GoesOn
  <2>5. ASSUME NEW c \in Distiller, dist'[c].phase = "done" PROVE Knows(dist[c].run)' >= Facts \/ dist'[c] = dist[c]
    <3>1. CASE c = d
      BY <1>8, <1>9, <2>2, <3>1
    <3>2. QED
      BY <1>1, <3>1 DEF GoesOn
  <2>6. ASSUME NEW c \in Distiller, dist[c].phase \in Teaching
        PROVE  dist'[c].name = dist[c].name /\ (dist'[c].phase \in Teaching \/ Taught(dist[c].name)')
    <3>1. CASE c = d
      BY <1>2, <2>2, <2>3, <3>1
    <3>2. QED
      BY <1>1, <2>6, <3>1 DEF GoesOn
  <2>7. SuccessesStay
    BY DEF SuccessesStay
  <2>8. QED
    BY <1>1, <1>8, <1>9, <2>4, <2>5, <2>6, <2>7, TakingGoesOn
<1>10. QED
  BY <1>7, <1>9 DEF CalmInv

LEMMA DieKeepsCalm ==
    ASSUME TaskInv, StoreInv, StoreInv', CalmInv, NEW d \in Distiller, Die(d), UNCHANGED runs
    PROVE  CalmInv'
<1>1. GoesOn(d) /\ dist'[d].phase = "died" /\ AtWork(d) /\ dist[d].phase # "idle" /\ UNCHANGED <<alone, file>>
  BY DieLeaves DEF Die
<1>2. ~ NobodyDied'
  BY <1>1 DEF NobodyDied
<1>3. Turns' /\ (Calm' => Calm)
  <2>1. Sees(d)' /\ dist[d].phase # "died"
    BY <1>1 DEF Sees, AtWork
  <2>2. alone => \A c \in Distiller \ {d} : ~ AtWork(c)
    BY <1>1, AloneAtWork DEF CalmInv
  <2>3. QED
    BY <1>1, <1>2, <2>1, <2>2, TurnsGoOn DEF CalmInv, GoesOn
<1>4. ASSUME Calm PROVE Grows
  <2>1. index \in Logs /\ memory \in [Env -> Logs] /\ EnvOf(d) \in Env /\ memory[EnvOf(d)] \in Logs
    BY <1>1, StoreTypes, WorkTypes
  <2>2. Grown(index, index')
    <3>1. CASE index' = index
      BY <3>1, SameIsGrown
    <3>2. CASE dist[d].phase = "list" /\ index' \in CutShort(index, dist[d].newline, IndexLines(d))
      <4>1. ~ Glues(index, dist[d].newline)
        BY <1>4, <3>2, NothingGlues DEF CalmInv
      <4>2. QED
        BY <1>1, <2>1, <3>2, <4>1, WrittenIsGrown
    <3>3. QED
      BY <3>1, <3>2, DieLeaves
  <2>3. \A e \in Env : Grown(memory[e], memory'[e])
    <3>1. CASE memory' = memory
      BY <3>1, SameIsGrown
    <3>2. CASE /\ dist[d].phase = "learn"
               /\ \E lg \in CutShort(memory[EnvOf(d)], dist[d].newline, MemoryLines(d)) : memory' = [memory EXCEPT ![EnvOf(d)] = lg]
      <4>1. PICK lg \in CutShort(memory[EnvOf(d)], dist[d].newline, MemoryLines(d)) : memory' = [memory EXCEPT ![EnvOf(d)] = lg]
        BY <3>2
      <4>2. ~ Glues(memory[EnvOf(d)], dist[d].newline)
        BY <1>4, <3>2, NothingGlues DEF CalmInv
      <4>3. Grown(memory[EnvOf(d)], lg)
        BY <1>1, <2>1, <4>1, <4>2, WrittenIsGrown
      <4>4. QED
        BY <2>1, <4>1, <4>3, SameIsGrown
    <3>3. QED
      BY <3>1, <3>2, DieLeaves
  <2>4. QED
    BY <2>2, <2>3 DEF Grows
<1>5. ASSUME Calm, Taking PROVE Taking'
  <2>1. \A c \in Distiller : dist'[c] = dist[c] \/ dist'[c].phase \notin {"derive", "learn", "done"}
    BY <1>1 DEF GoesOn
  <2>2. \A c \in Distiller : dist[c].phase \in Teaching => dist'[c].name = dist[c].name /\ dist'[c].phase \in Teaching
    BY <1>1 DEF Teaching, GoesOn
  <2>3. SuccessesStay
    BY DEF SuccessesStay
  <2>4. QED
    BY <1>1, <1>4, <1>5, <2>1, <2>2, <2>3, TakingGoesOn
<1>6. QED
  BY <1>3, <1>5 DEF CalmInv

LEMMA CalmRests ==
    ASSUME TaskInv, StoreInv, StoreInv', CalmInv, SuccessesStay, UNCHANGED <<alone, file, index, memory, dist>>
    PROVE  CalmInv'
<1>1. \A d \in Distiller : dist[d].phase # "idle" => EnvOf(d)' = EnvOf(d)
  BY WorkTypes DEF EnvOf, SuccessesStay
<1>2. \A d \in Distiller : Sees(d) => Sees(d)'
  BY <1>1 DEF Sees
<1>3. Turns' /\ (Calm' => Calm)
  BY <1>2 DEF CalmInv, Turns, Calm, NobodyDied, Uncut, AtWork
<1>4. Grows
  BY SameIsGrown DEF Grows
<1>5. Taking => Taking'
  <2> SUFFICES ASSUME Taking PROVE Taking'
    OBVIOUS
  <2>1. \A d \in Distiller : dist'[d] = dist[d]
    OBVIOUS
  <2>2. QED
    BY <1>4, <2>1, TakingGoesOn
<1>6. QED
  BY <1>3, <1>5 DEF CalmInv

LEMMA CalmInit == ASSUME Init, StoreInv PROVE CalmInv
<1>1. PICK known \in Before :
             /\ known.name # None => known.name \in Name /\ known.run \in Run /\ runs[known.run].status = "success"
             /\ file = [n \in Name |-> IF n = known.name THEN "whole" ELSE "none"]
             /\ index = [lines |-> IF known.name = None THEN <<>> ELSE <<Line(known.name, known.run)>>, cut |-> FALSE]
             /\ \A e \in Env :
                  /\ memory[e].cut = FALSE /\ memory[e] \in Logs
                  /\ \A i \in DOMAIN memory[e].lines :
                       /\ memory[e].lines[i] = Line(None, known.run)
                       /\ known.name # None /\ runs[known.run].env = e
                  /\ known.name # None /\ runs[known.run].env = e => memory[e].lines = [i \in 1 .. Facts |-> Line(None, known.run)]
             /\ memory = [e \in Env |-> memory[e]]
  BY StartsWith
<1>2. \A d \in Distiller : dist[d].phase = "idle"
  BY DEF Init, TaskInit, LearnedInit, Idle
<1>3. Turns
  BY <1>1, <1>2 DEF Turns, Sees, Uncut, AtWork
<1>4. Parses(index)
  <2>1. CASE known.name = None
    <3>1. index.lines = <<>>
      BY <1>1, <2>1
    <3>2. QED
      BY <3>1 DEF Parses
  <2>2. CASE known.name # None
    <3>1. index.lines = <<Line(known.name, known.run)>>
      BY <1>1, <2>2
    <3>2. QED
      BY <3>1, LineKinds DEF Parses
  <2>3. QED
    BY <2>1, <2>2
<1>5. \A e \in Env : Parses(memory[e])
  BY <1>1, LineKinds DEF Parses
<1>6. ASSUME NEW n \in Name, file[n] # "none" PROVE Taught(n)
  <2>1. n = known.name /\ known.name # None
    BY <1>1, <1>6, OwnRuns
  <2>2. index.lines = <<Line(known.name, known.run)>>
    BY <1>1, <2>1
  <2>3. ListedAs(n, known.run)
    BY <2>1, <2>2, LineKinds DEF ListedAs, Records
  <2>4. n \in Listed /\ RunOf(n) = known.run
    BY <2>3, ListedIsRunOf
  <2> DEFINE e == runs[known.run].env
             K == {i \in Records(memory[e]) : memory[e].lines[i].run = known.run}
  <2>5. e \in Env
    <3>1. known.run \in Earlier
      BY <2>1, RunAssumption
    <3>2. QED
      BY <3>1, OwnRuns DEF Init, TaskInit, RunDir
  <2>6. memory[e].lines = [i \in 1 .. Facts |-> Line(None, known.run)]
    BY <1>1, <2>1, <2>5
  <2>7. 1 .. Facts \subseteq K
    BY <2>6, LineKinds DEF Records
  <2>8. memory[e] \in Logs
    BY <1>1, <2>5
  <2>9. IsFiniteSet(K) /\ Cardinality(K) \in Nat
    BY <2>8, KnownIsFinite
  <2>10. Knows(known.run) = Cardinality(K)
    BY DEF Knows
  <2> HIDE DEF K
  <2>11. Cardinality(1 .. Facts) = Facts /\ Cardinality(1 .. Facts) <= Cardinality(K)
    <3>1. Cardinality(1 .. Facts) = Facts
      BY FS_Interval, LearnedAssumption
    <3>2. Cardinality(1 .. Facts) <= Cardinality(K)
      BY <2>7, <2>9, FS_Subset
    <3>3. QED
      BY <3>1, <3>2
  <2>12. QED
    BY <2>4, <2>9, <2>10, <2>11, LearnedAssumption DEF Taught
<1>7. Taking
  BY <1>2, <1>4, <1>5, <1>6 DEF Taking
<1>8. QED
  BY <1>3, <1>7 DEF CalmInv

LEMMA CalmNext ==
    ASSUME TaskInv, StoreInv, StoreInv', GuiInv, CalmInv, [Next]_vars
    PROVE  CalmInv'
<1>1. SuccessesStay
  BY TasksNext
<1>2. CASE UNCHANGED learnedVars
  BY <1>1, <1>2, CalmRests DEF learnedVars
<1>3. CASE Distills
  BY <1>3, LoadKeepsCalm, CreateFileKeepsCalm, WriteFileKeepsCalm, LookKeepsCalm, ListEntryKeepsCalm,
     LearnKeepsCalm, DieKeepsCalm DEF Distills
<1>4. QED
  BY <1>2, <1>3 DEF Next, vars, Turned, Accept, Busy, BodyArrives, BodyFails, TaskReturns, Command, Plan

\* However often distilling is cut short, and however commands overlap as long as none of
\* them dies, the library and every partition can be read; a version is listed once, from
\* one run that succeeded and with its whole file; and a distill that ran to its end has
\* taught both tiers (library.ts:54, site-memory/store.ts, cli/distill-run.ts).
THEOREM TheLibraryIsSound == Spec => []LibraryIsSound
<1>1. Init => RunInv /\ CalmInv
  BY TasksInit, StoreInit, RequestsInit, CalmInit DEF RunInv
<1>2. RunInv /\ CalmInv /\ [Next]_vars => (RunInv /\ CalmInv)'
  BY TasksNext, StoreNext, RequestsNext, CalmNext DEF RunInv
<1>3. RunInv => VersionsAreFinal
  <2> SUFFICES ASSUME RunInv PROVE VersionsAreFinal
    OBVIOUS
  <2>1. StoreInv
    BY DEF RunInv
  <2>2. QED
    BY <2>1, ListedAreWhole DEF StoreInv, StoreHolds, ListHolds, MemoryHolds, VersionsAreFinal
<1>4. RunInv /\ CalmInv => LibraryReadable
  <2> SUFFICES ASSUME RunInv, Calm, Taking PROVE ~ ListThrows /\ \A e \in Env : ~ MemoryThrows(e)
    BY DEF CalmInv, LibraryReadable, Calm, NobodyDied
  <2>1. VersionsAreFinal
    BY <1>3
  <2>2. QED
    BY <2>1 DEF ListThrows, MemoryThrows, VersionsAreFinal, Taking
<1>5. RunInv /\ CalmInv => TeachesBothOrWasCut
  <2> SUFFICES ASSUME RunInv, Calm, Taking
               PROVE  /\ \A d \in Distiller : dist[d].phase = "done" => Taught(dist[d].name)
                      /\ \A n \in Name : file[n] # "none" =>
                            Taught(n) \/ \E d \in Distiller : dist[d].name = n /\ (AtWork(d) \/ dist[d].phase = "died")
    BY DEF CalmInv, TeachesBothOrWasCut, Calm, NobodyDied
  <2>1. ASSUME NEW d \in Distiller, dist[d].phase = "done" PROVE Taught(dist[d].name)
    <3>1. ListedAs(dist[d].name, dist[d].run) /\ Knows(dist[d].run) >= Facts
      BY <2>1 DEF Taking
    <3>2. QED
      BY <3>1, ListedIsRunOf DEF Taught, RunInv
  <2>2. \A d \in Distiller : dist[d].phase \in Teaching => AtWork(d) \/ dist[d].phase = "died"
    BY DEF Teaching, AtWork
  <2>3. QED
    BY <2>1, <2>2 DEF Taking
<1>6. QED
  BY <1>1, <1>2, <1>3, <1>4, <1>5, PTL DEF Spec, LibraryIsSound
====
