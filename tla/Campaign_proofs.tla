---------------------------- MODULE Campaign_proofs ----------------------------
(***************************************************************************)
(* What the collector of a campaign guarantees for any plan in order, any  *)
(* gate, and children that fail, die, hang or are cut short anywhere.      *)
(*                                                                         *)
(* The invariant says whose a manifest is: an id is of one run only, that  *)
(* of the child that may write it or of an earlier collection's run of the *)
(* same id, so what is there stays what it was recorded as, and what is    *)
(* new belongs to the run being watched.                                   *)
(***************************************************************************)
EXTENDS Campaign, SequenceTheorems, TLAPS

-----------------------------------------------------------------------------
(* The invariant. *)

\* The ids under which the runs of a plan may write.
RunIds(runs) == {<<"replay", i>> : i \in DOMAIN runs} \cup {runs[i].run.id : i \in DOMAIN runs}
Rows(runs) == Seq([run : DOMAIN runs, id : RunIds(runs)])

Shape ==
    /\ gate \in Gates /\ queue = RunsOf(ExecutionPhases(gate))
    /\ next \in 1 .. Len(queue) + 1
    /\ watch = [at |-> watch.at, id |-> watch.id]
    /\ watch.at \in {"idle", "watching", "grace", "ending", "over", "distilling"}
    /\ child = [run |-> child.run, at |-> child.at, code |-> child.code]
    /\ child.at \in {"gone", "selecting", "replaying", "planning", "closing", "distilling"}
    /\ raw \in Rows(queue)
    /\ \A i \in DOMAIN queue : <<"replay", i>> \notin left

\* Whose a manifest is can be told by its id, unless it was there before.
Records(i) == queue[i].phase.kind # "distill"
DiskHolds ==
    \A d \in DOMAIN disk :
        \/ disk[d].run = Earlier /\ d \in left
        \/ /\ disk[d].run \in DOMAIN queue /\ Records(disk[d].run)
           /\ d = <<"replay", disk[d].run>> \/ d = queue[disk[d].run].run.id

\* What is under an id is the run's, or was left under the id of that run.
Found(id, i) == Records(i) /\ disk[id].run = Earlier /\ id \in left /\ id = queue[i].run.id
Belongs(id, i) == disk[id].run = i \/ Found(id, i)

\* Where the child stands to the run that is watched.
Standing ==
    /\ watch.at = "idle" => child.at = "gone"
    /\ watch.at # "idle" =>
         /\ next \in DOMAIN queue /\ child.run = next
         /\ watch.at = "distilling" <=> ~ Records(next)
         /\ Records(next) /\ watch.id \in DOMAIN disk => Belongs(watch.id, next)
    /\ watch.at \in {"ending", "over"} => child.at = "gone"
    /\ watch.at = "distilling" => child.at \in {"distilling", "gone"} /\ (child.at = "gone" /\ child.code = 0 => learned)
    /\ child.at = "distilling" => watch.at = "distilling"

\* What is behind the collector: each run that records is recorded, and the site is known
\* once it has been distilled.
Behind ==
    \A k \in 1 .. next - 1 :
        IF Records(k) THEN \E i \in DOMAIN raw : raw[i].run = k ELSE learned

RawHolds ==
    /\ \A i \in DOMAIN raw : /\ raw[i].run < next /\ Records(raw[i].run)
                             /\ raw[i].id \in DOMAIN disk /\ Belongs(raw[i].id, raw[i].run)
    /\ \A i, j \in DOMAIN raw : j < i => raw[j].run < raw[i].run

CollectInv == Shape /\ DiskHolds /\ Standing /\ Behind /\ RawHolds

-----------------------------------------------------------------------------
(* The steps of the child. *)

LEMMA PlanIs ==
    ASSUME Shape
    PROVE  /\ InOrder(queue) /\ Len(queue) \in Nat /\ DOMAIN queue = 1 .. Len(queue)
           /\ Earlier \notin DOMAIN queue
<1>1. InOrder(queue)
  BY CampaignAssumption DEF Shape
<1>2. Len(queue) \in Nat /\ DOMAIN queue = 1 .. Len(queue)
  BY <1>1 DEF InOrder
<1>3. Earlier \notin DOMAIN queue
  BY <1>2 DEF Earlier
<1>4. QED
  BY <1>1, <1>2, <1>3

\* The id of a run that records is no other's that does, and no replay's.
LEMMA IdsAreApart ==
    ASSUME Shape
    PROVE  \A i, j \in DOMAIN queue :
             /\ queue[j].run.id # <<"replay", i>>
             /\ Records(i) /\ Records(j) /\ queue[j].run.id = queue[i].run.id => j = i
  BY PlanIs DEF InOrder, Records

\* What is under the id of a run that records is that run's, or was left there.
LEMMA UnderItsId ==
    ASSUME Shape, DiskHolds, NEW i \in DOMAIN queue, Records(i), queue[i].run.id \in DOMAIN disk
    PROVE  Belongs(queue[i].run.id, i)
<1> DEFINE id == queue[i].run.id
           n == disk[id].run
<1>1. id \in DOMAIN disk /\ id = queue[i].run.id
  OBVIOUS
<1>2. \/ n = Earlier /\ id \in left
      \/ n \in DOMAIN queue /\ Records(n) /\ (id = <<"replay", n>> \/ id = queue[n].run.id)
  BY <1>1 DEF DiskHolds
<1>3. disk[id].run = n
  OBVIOUS
<1> HIDE DEF id, n
<1>4. CASE n = Earlier /\ id \in left
  BY <1>1, <1>3, <1>4 DEF Belongs, Found
<1>5. CASE n \in DOMAIN queue /\ Records(n) /\ (id = <<"replay", n>> \/ id = queue[n].run.id)
  <2>1. n = i
    BY <1>1, <1>5, IdsAreApart
  <2>2. QED
    BY <1>1, <1>3, <2>1 DEF Belongs
<1>6. QED
  BY <1>2, <1>4, <1>5

\* A row appended to a list.
LEMMA RowAppended ==
    ASSUME NEW S, NEW s \in Seq(S), NEW e \in S
    PROVE  /\ Append(s, e) \in Seq(S) /\ Len(s) \in Nat /\ Len(Append(s, e)) = Len(s) + 1
           /\ DOMAIN s = 1 .. Len(s) /\ DOMAIN Append(s, e) = 1 .. Len(s) + 1
           /\ \A i \in 1 .. Len(s) : Append(s, e)[i] = s[i] /\ s[i] \in S
           /\ Append(s, e)[Len(s) + 1] = e
<1>1. Append(s, e) \in Seq(S) /\ Len(s) \in Nat /\ Len(Append(s, e)) = Len(s) + 1
      /\ DOMAIN s = 1 .. Len(s)
  OBVIOUS
<1>2. DOMAIN Append(s, e) = 1 .. Len(s) + 1
  BY <1>1
<1>3. \A i \in 1 .. Len(s) : Append(s, e)[i] = s[i] /\ s[i] \in S
  OBVIOUS
<1>4. Append(s, e)[Len(s) + 1] = e
  BY <1>1
<1>5. QED
  BY <1>1, <1>2, <1>3, <1>4

\* The rows of the manifests name runs of the plan.
LEMMA RowsAre ==
    ASSUME Shape
    PROVE  \A i \in DOMAIN raw : raw[i].run \in DOMAIN queue /\ raw[i].run \in Nat
<1>1. \A i \in 1 .. Len(raw) : raw[i] \in [run : DOMAIN queue, id : RunIds(queue)]
  <2> DEFINE S == [run : DOMAIN queue, id : RunIds(queue)]
  <2>1. raw \in Seq(S)
    BY DEF Shape, Rows
  <2> HIDE DEF S
  <2>2. \A i \in 1 .. Len(raw) : raw[i] \in S
    BY <2>1
  <2>3. QED
    BY <2>2 DEF S
<1>2. DOMAIN raw = 1 .. Len(raw)
  BY LenProperties DEF Shape, Rows
<1>3. \A i \in DOMAIN raw : raw[i].run \in DOMAIN queue
  BY <1>1, <1>2
<1>4. QED
  BY <1>3, PlanIs

\* What was on disk is still of the run it was of, but for what was left under the id of the
\* run that writes there now.
Grown ==
    \A d \in DOMAIN disk : /\ d \in DOMAIN disk'
                           /\ disk'[d].run = disk[d].run \/ (Found(d, child.run) /\ disk'[d].run = child.run)

LEMMA ManifestIsWritten ==
    ASSUME Shape, DiskHolds, child.run \in DOMAIN queue, Records(child.run), queue' = queue, left' = left,
           NEW id, NEW outcome, NEW tokens,
           id = <<"replay", child.run>> \/ id = queue[child.run].run.id, Writes(id, outcome, tokens)
    PROVE  /\ Grown /\ DiskHolds'
           /\ \A d \in DOMAIN disk' : d \in DOMAIN disk \/ disk'[d].run = child.run
<1>1. /\ DOMAIN disk' = DOMAIN disk \cup {id}
      /\ disk'[id].run = child.run
      /\ \A d \in DOMAIN disk : d # id => disk'[d] = disk[d]
  BY DEF Writes
<1>2. id \in DOMAIN disk => Belongs(id, child.run)
  <2> SUFFICES ASSUME id \in DOMAIN disk PROVE Belongs(id, child.run)
    OBVIOUS
  <2>1. CASE id = queue[child.run].run.id
    BY <2>1, UnderItsId
  <2>2. CASE id = <<"replay", child.run>>
    <3> DEFINE n == disk[id].run
    <3>1. id \notin left
      BY <2>2 DEF Shape
    <3>2. n \in DOMAIN queue /\ Records(n) /\ (id = <<"replay", n>> \/ id = queue[n].run.id)
      BY <3>1 DEF DiskHolds
    <3>3. disk[id].run = n
      OBVIOUS
    <3> HIDE DEF n
    <3>4. n = child.run
      BY <2>2, <3>2, IdsAreApart
    <3>5. QED
      BY <3>3, <3>4 DEF Belongs
  <2>3. QED
    BY <2>1, <2>2
<1>3. Grown
  BY <1>1, <1>2 DEF Grown, Belongs
<1>4. DiskHolds'
  BY <1>1 DEF DiskHolds, Records
<1>5. QED
  BY <1>1, <1>3, <1>4

\* A step of the child: the collector has not moved, and nothing on disk changes hands.
ChildMoves ==
    /\ UNCHANGED Collector /\ (learned => learned')
    /\ child' = [run |-> child.run, at |-> child'.at, code |-> child'.code]
    /\ child'.at \in {"gone", "replaying", "planning", "closing"}
    /\ child.at = "distilling" => child'.at = "gone" /\ (child'.code = 0 => learned')
    /\ child.at # "gone"
    /\ Grown /\ DiskHolds'
    /\ \A d \in DOMAIN disk' : d \in DOMAIN disk \/ disk'[d].run = child.run

LEMMA ChildBecomes ==
    ASSUME Shape
    PROVE  /\ \A at : Goes(at) => child' = [run |-> child.run, at |-> at, code |-> child.code]
           /\ \A code : Exits(code) => child' = [run |-> child.run, at |-> "gone", code |-> code]
<1>1. PICK r, a, c : child = [run |-> r, at |-> a, code |-> c]
  BY DEF Shape
<1>2. child.run = r /\ child.at = a /\ child.code = c
  BY <1>1
<1>3. ASSUME NEW at, Goes(at) PROVE child' = [run |-> r, at |-> at, code |-> c]
  BY <1>1, <1>3 DEF Goes
<1>4. ASSUME NEW code, Exits(code) PROVE child' = [run |-> r, at |-> "gone", code |-> code]
  BY <1>1, <1>4 DEF Exits
<1>5. QED
  BY <1>2, <1>3, <1>4

LEMMA ChildIs == ASSUME CollectInv, Child PROVE ChildMoves
<1>0. child = [run |-> child.run, at |-> child.at, code |-> child.code] /\ Shape /\ DiskHolds /\ Standing
  BY DEF CollectInv, Shape
<1>1. ASSUME disk' = disk, queue' = queue, left' = left
      PROVE  /\ Grown /\ DiskHolds'
             /\ \A d \in DOMAIN disk' : d \in DOMAIN disk \/ disk'[d].run = child.run
  BY <1>0, <1>1 DEF Grown, DiskHolds, Records
<1>2. CASE Selects \/ Closes \/ Dies \/ Distills
  <2>1. /\ UNCHANGED Collector /\ disk' = disk /\ queue' = queue /\ left' = left /\ (learned => learned') /\ child.at # "gone"
        /\ child' = [run |-> child.run, at |-> child'.at, code |-> child'.code]
        /\ child'.at \in {"gone", "replaying", "planning", "closing"}
        /\ child.at = "distilling" => child'.at = "gone" /\ (child'.code = 0 => learned')
    <3>1. CASE Selects
      BY <1>0, <3>1, ChildBecomes DEF Selects, Collector
    <3>2. CASE Closes \/ Dies
      BY <1>0, <3>2, ChildBecomes DEF Closes, Dies, Collector
    <3>3. CASE Distills
      BY <1>0, <3>3, ChildBecomes DEF Distills, Collector
    <3>4. QED
      BY <1>2, <3>1, <3>2, <3>3
  <2>2. QED
    BY <1>1, <2>1 DEF ChildMoves
<1>3. ASSUME NEW outcome \in {"success", "failure"}, ReplayEnds(outcome) \/ PlanningEnds(outcome) PROVE ChildMoves
  <2>1. /\ UNCHANGED Collector /\ queue' = queue /\ left' = left /\ learned' = learned /\ child.at \in {"replaying", "planning"}
        /\ child' = [run |-> child.run, at |-> child'.at, code |-> child'.code]
        /\ child'.at \in {"planning", "closing"}
    BY <1>0, <1>3, ChildBecomes DEF ReplayEnds, PlanningEnds, Collector
  <2>2. child.run \in DOMAIN queue /\ Records(child.run)
    BY <1>0, <2>1 DEF Standing, Shape
  <2>3. PICK id, tokens : (id = <<"replay", child.run>> \/ id = queue[child.run].run.id) /\ Writes(id, outcome, tokens)
    BY <1>3 DEF ReplayEnds, PlanningEnds, ReplayId
  <2>4. /\ Grown /\ DiskHolds'
        /\ \A d \in DOMAIN disk' : d \in DOMAIN disk \/ disk'[d].run = child.run
    BY <1>0, <2>1, <2>2, <2>3, ManifestIsWritten
  <2>5. QED
    BY <2>1, <2>4 DEF ChildMoves
<1>4. QED
  BY <1>2, <1>3 DEF Child

LEMMA ChildKeeps == ASSUME CollectInv, Child PROVE CollectInv'
<1>0. ChildMoves /\ Shape /\ DiskHolds /\ Standing /\ Behind /\ RawHolds
  BY ChildIs DEF CollectInv
<1>1. UNCHANGED <<gate, queue, next, watch, left, raw>>
  BY <1>0 DEF ChildMoves, Collector
<1>2. Shape'
  BY <1>0, <1>1 DEF ChildMoves, Shape
<1>3. Standing'
  <2>1. watch.at # "idle" /\ next \in DOMAIN queue /\ child.run = next
    BY <1>0 DEF ChildMoves, Standing
  <2>2. child'.run = next /\ child'.at # "distilling"
    BY <1>0, <2>1 DEF ChildMoves
  <2>3. Records(next) /\ watch.id \in DOMAIN disk' =>
          disk'[watch.id].run = next
            \/ (disk'[watch.id].run = Earlier /\ watch.id \in left /\ watch.id = queue[next].run.id)
    BY <1>0, <2>1 DEF ChildMoves, Standing, Grown, Belongs, Found
  <2>4. watch.at \notin {"ending", "over"}
    BY <1>0 DEF ChildMoves, Standing
  <2>5. watch.at = "distilling" => child'.at = "gone" /\ (child'.code = 0 => learned')
    BY <1>0 DEF ChildMoves, Standing
  <2>6. QED
    BY <1>0, <1>1, <2>1, <2>2, <2>3, <2>4, <2>5 DEF Standing, Records, Belongs, Found
<1>4. Behind'
  BY <1>0, <1>1 DEF Behind, ChildMoves, Records
<1>5. RawHolds'
  <2>1. child.run = next /\ next \in DOMAIN queue
    BY <1>0 DEF ChildMoves, Standing
  <2>2. ASSUME NEW i \in DOMAIN raw
        PROVE  /\ raw[i].run < next /\ Records(raw[i].run) /\ raw[i].id \in DOMAIN disk'
               /\ disk'[raw[i].id].run = raw[i].run
                    \/ (/\ disk'[raw[i].id].run = Earlier /\ raw[i].id \in left
                        /\ raw[i].id = queue[raw[i].run].run.id)
    <3>1. /\ raw[i].run < next /\ Records(raw[i].run) /\ raw[i].id \in DOMAIN disk
          /\ Belongs(raw[i].id, raw[i].run) /\ raw[i].run \in DOMAIN queue /\ raw[i].run \in Nat
      BY <1>0, RowsAre DEF RawHolds
    <3>2. next \in Nat /\ raw[i].run # next
      BY <1>0, <2>1, <3>1, PlanIs
    <3>3. ~ Found(raw[i].id, next)
      <4>1. SUFFICES ASSUME Found(raw[i].id, next) PROVE FALSE
        OBVIOUS
      <4>2. raw[i].id = queue[next].run.id /\ disk[raw[i].id].run = Earlier /\ Records(next)
        BY <4>1 DEF Found
      <4>3. raw[i].id = queue[raw[i].run].run.id
        BY <1>0, <3>1, <4>2, PlanIs DEF Belongs, Found
      <4>4. QED
        BY <1>0, <2>1, <3>1, <3>2, <4>2, <4>3, IdsAreApart
    <3>4. disk'[raw[i].id].run = disk[raw[i].id].run /\ raw[i].id \in DOMAIN disk'
      BY <1>0, <2>1, <3>1, <3>3 DEF ChildMoves, Grown
    <3>5. QED
      BY <3>1, <3>4 DEF Belongs, Found
  <2>3. QED
    BY <1>0, <1>1, <2>2 DEF RawHolds, Belongs, Found, Records
<1>6. QED
  BY <1>0, <1>2, <1>3, <1>4, <1>5 DEF CollectInv, ChildMoves

-----------------------------------------------------------------------------
(* The steps of the collector. *)

LEMMA SpawnKeeps == ASSUME CollectInv, Spawn PROVE CollectInv'
<1>0. Shape /\ DiskHolds /\ Standing /\ Behind /\ RawHolds
  BY DEF CollectInv
<1>1. /\ next \in DOMAIN queue /\ watch.at = "idle"
      /\ child' = [run |-> next, at |-> IF Now.phase.records THEN "selecting" ELSE "distilling", code |-> None]
      /\ watch' = [at |-> IF Now.phase.records THEN "watching" ELSE "distilling", id |-> Now.run.id]
      /\ UNCHANGED <<gate, queue, next, left, disk, learned, raw>>
  BY <1>0, PlanIs DEF Spawn, Shape
<1>2. Now.phase.records = Records(next)
  BY <1>0, <1>1, PlanIs DEF InOrder, Now, Records
<1>3. /\ child' = [run |-> next, at |-> IF Records(next) THEN "selecting" ELSE "distilling", code |-> None]
      /\ watch' = [at |-> IF Records(next) THEN "watching" ELSE "distilling", id |-> queue[next].run.id]
  BY <1>1, <1>2 DEF Now
<1>4. Shape'
  BY <1>0, <1>1, <1>3 DEF Shape
<1>5. Records(next) /\ queue[next].run.id \in DOMAIN disk => Belongs(queue[next].run.id, next)
  BY <1>0, <1>1, UnderItsId
<1>6. Standing'
  BY <1>1, <1>3, <1>5 DEF Standing, Records, Belongs, Found
<1>7. DiskHolds' /\ Behind' /\ RawHolds'
  BY <1>0, <1>1 DEF DiskHolds, Behind, RawHolds, Records, Belongs, Found
<1>8. QED
  BY <1>4, <1>6, <1>7 DEF CollectInv

LEMMA DistilledKeeps == ASSUME CollectInv, Distilled PROVE CollectInv'
<1>0. Shape /\ DiskHolds /\ Standing /\ Behind /\ RawHolds /\ next \in Nat /\ Len(queue) \in Nat
  BY PlanIs DEF CollectInv, Shape
<1>1. watch.at = "distilling" /\ child.at = "gone" /\ UNCHANGED <<gate, queue, child, left, disk, learned, raw>>
  BY DEF Distilled, Running
<1>2. CASE child.code = 0 /\ next' = next + 1 /\ watch' = Idle
  <2>1. next \in DOMAIN queue /\ ~ Records(next) /\ learned
    BY <1>0, <1>1, <1>2 DEF Standing
  <2>2. Shape'
    BY <1>0, <1>1, <1>2, <2>1, PlanIs DEF Shape, Idle
  <2>3. Standing'
    BY <1>1, <1>2 DEF Standing, Idle
  <2>4. \A k \in 1 .. next' - 1 : k \in 1 .. next - 1 \/ k = next
    BY <1>0, <1>2
  <2>5. Behind'
    BY <1>0, <1>1, <2>1, <2>4 DEF Behind, Records
  <2>6. RawHolds'
    <3>1. \A i \in DOMAIN raw : raw[i].run \in Nat
      BY <1>0, RowsAre
    <3>2. QED
      BY <1>0, <1>1, <1>2, <3>1 DEF RawHolds, Records, Belongs, Found
  <2>7. DiskHolds'
    BY <1>0, <1>1 DEF DiskHolds, Records
  <2>8. QED
    BY <2>2, <2>3, <2>5, <2>6, <2>7 DEF CollectInv
<1>3. CASE UNCHANGED <<next, watch>>
  BY <1>0, <1>1, <1>3 DEF CollectInv, Shape, DiskHolds, Standing, Behind, RawHolds, Records, Belongs, Found
<1>4. QED
  BY <1>2, <1>3 DEF Distilled

\* The steps that only move what is watched on: a run that is new is of the child, and the
\* end of the watch finds no child.
LEMMA WatchKeeps ==
    ASSUME CollectInv, Sees \/ Terminate \/ TimesOut \/ Finished
    PROVE  CollectInv'
<1>0. Shape /\ DiskHolds /\ Standing /\ Behind /\ RawHolds
  BY DEF CollectInv
<1> PICK w, i : watch = [at |-> w, id |-> i]
  BY <1>0 DEF Shape
<1>1. watch.at = w /\ watch.id = i
  OBVIOUS
<1>2. /\ w \in {"watching", "grace", "ending"}
      /\ UNCHANGED <<gate, queue, next, left, disk, learned, raw>>
      /\ watch'.at \in {"grace", "ending", "over"} /\ watch' = [at |-> watch'.at, id |-> watch'.id]
      /\ watch'.id = i \/ watch'.id \in NewRuns
            \/ (watch'.id = queue[next].run.id /\ watch'.id \in DOMAIN disk)
      /\ child' = child \/ child' = [run |-> child.run, at |-> "gone", code |-> "SIGTERM"]
      /\ watch'.at \in {"ending", "over"} => child'.at = "gone"
  <2>1. CASE Sees
    BY <1>1, <2>1 DEF Sees, Now
  <2>2. CASE Terminate
    BY <1>0, <1>1, <2>2, ChildBecomes DEF Terminate, Running
  <2>3. CASE TimesOut
    BY <1>0, <1>1, <2>3, ChildBecomes DEF TimesOut, Running
  <2>4. CASE Finished
    BY <1>1, <2>4 DEF Finished, Running
  <2>5. QED
    BY <2>1, <2>2, <2>3, <2>4
<1>3. next \in DOMAIN queue /\ child.run = next /\ Records(next) /\ child.at # "distilling"
  BY <1>0, <1>1, <1>2 DEF Standing
<1>4. child'.run = next /\ child'.at # "distilling"
  BY <1>2, <1>3
<1>5. Shape'
  BY <1>0, <1>2 DEF Shape
<1>6. watch'.id \in DOMAIN disk => Belongs(watch'.id, next)
  <2>1. CASE watch'.id = i
    BY <1>0, <1>1, <1>2, <1>3, <2>1 DEF Standing
  <2>2. CASE watch'.id \in NewRuns
    BY <2>2 DEF NewRuns, Belongs
  <2>3. CASE watch'.id = queue[next].run.id /\ watch'.id \in DOMAIN disk
    BY <1>0, <1>3, <2>3, UnderItsId
  <2>4. QED
    BY <1>2, <2>1, <2>2, <2>3
<1>7. Standing'
  BY <1>2, <1>3, <1>4, <1>6 DEF Standing, Records, Belongs, Found
<1>8. DiskHolds' /\ Behind' /\ RawHolds'
  BY <1>0, <1>2 DEF DiskHolds, Behind, RawHolds, Records, Belongs, Found
<1>9. QED
  BY <1>5, <1>7, <1>8 DEF CollectInv

LEMMA RecordKeeps == ASSUME CollectInv, Record PROVE CollectInv'
<1>0. Shape /\ DiskHolds /\ Standing /\ Behind /\ RawHolds /\ next \in Nat /\ Len(queue) \in Nat
  BY PlanIs DEF CollectInv, Shape
<1>1. /\ watch.at = "over" /\ watch.id \in DOMAIN disk
      /\ raw' = Append(raw, [run |-> next, id |-> watch.id])
      /\ next' = next + 1 /\ watch' = Idle
      /\ UNCHANGED <<gate, queue, child, left, disk, learned>>
  BY DEF Record
<1>2. child.at = "gone" /\ next \in DOMAIN queue /\ Records(next) /\ Belongs(watch.id, next)
  BY <1>0, <1>1 DEF Standing
<1> PICK row : row = [run |-> next, id |-> watch.id]
  OBVIOUS
<1>3. row.run = next /\ row.id = watch.id /\ row \in [run : DOMAIN queue, id : RunIds(queue)]
  <2>1. watch.id = <<"replay", next>> \/ watch.id = queue[next].run.id
    <3>1. disk[watch.id].run = next \/ Found(watch.id, next)
      BY <1>2 DEF Belongs
    <3>2. CASE disk[watch.id].run = next
      BY <1>0, <1>1, <1>2, <3>2, PlanIs DEF DiskHolds
    <3>3. CASE Found(watch.id, next)
      BY <3>3 DEF Found
    <3>4. QED
      BY <3>1, <3>2, <3>3
  <2>2. QED
    BY <1>2, <2>1 DEF RunIds
<1>4. /\ raw' \in Rows(queue) /\ Len(raw) \in Nat /\ DOMAIN raw = 1 .. Len(raw) /\ DOMAIN raw' = 1 .. Len(raw) + 1
      /\ (\A i \in DOMAIN raw : raw'[i] = raw[i]) /\ raw'[Len(raw) + 1] = row
      /\ \A i \in DOMAIN raw : raw[i].run \in DOMAIN queue
  <2>1. raw \in Rows(queue) /\ raw' = Append(raw, row)
    BY <1>0, <1>1 DEF Shape
  <2> DEFINE S == [run : DOMAIN queue, id : RunIds(queue)]
  <2>2. raw \in Seq(S) /\ row \in S
    BY <1>3, <2>1 DEF Rows
  <2> HIDE DEF S
  <2>3. /\ raw' \in Seq(S) /\ Len(raw) \in Nat
        /\ DOMAIN raw = 1 .. Len(raw) /\ DOMAIN raw' = 1 .. Len(raw) + 1
        /\ (\A i \in DOMAIN raw : raw'[i] = raw[i]) /\ raw'[Len(raw) + 1] = row
    BY <2>1, <2>2, RowAppended
  <2>4. raw' \in Rows(queue)
    BY <2>3 DEF S, Rows
  <2>5. QED
    BY <1>0, <2>3, <2>4, RowsAre
<1>5. Shape'
  BY <1>0, <1>1, <1>2, <1>4, PlanIs DEF Shape, Idle
<1>6. Standing'
  BY <1>1, <1>2 DEF Standing, Idle
<1>7. Behind'
  <2>1. \A k \in 1 .. next' - 1 : k \in 1 .. next - 1 \/ k = next
    BY <1>0, <1>1
  <2>2. \A i \in DOMAIN raw : i \in DOMAIN raw' /\ raw'[i] = raw[i]
    BY <1>4
  <2>3. Len(raw) + 1 \in DOMAIN raw' /\ raw'[Len(raw) + 1].run = next
    BY <1>3, <1>4
  <2>4. queue' = queue /\ learned' = learned
    BY <1>1
  <2>5. ASSUME NEW k \in 1 .. next' - 1
        PROVE  IF Records(k) THEN \E i \in DOMAIN raw' : raw'[i].run = k ELSE learned
    <3>1. CASE k = next
      BY <1>2, <2>3, <3>1
    <3>2. CASE k \in 1 .. next - 1 /\ Records(k)
      <4>1. PICK i \in DOMAIN raw : raw[i].run = k
        BY <1>0, <3>2 DEF Behind
      <4>2. QED
        BY <2>2, <3>2, <4>1
    <3>3. CASE k \in 1 .. next - 1 /\ ~ Records(k)
      BY <1>0, <3>3 DEF Behind
    <3>4. QED
      BY <2>1, <3>1, <3>2, <3>3
  <2>6. QED
    BY <2>4, <2>5 DEF Behind, Records
<1>8. RawHolds'
  <2>1. \A i \in DOMAIN raw' : (i \in DOMAIN raw /\ raw'[i] = raw[i]) \/ (i = Len(raw) + 1 /\ raw'[i] = row)
    BY <1>4
  <2>2. \A i \in DOMAIN raw : raw[i].run \in Nat /\ i <= Len(raw)
    BY <1>0, <1>4, PlanIs
  <2>3. ASSUME NEW i \in DOMAIN raw'
        PROVE  /\ raw'[i].run < next' /\ Records(raw'[i].run)
               /\ raw'[i].id \in DOMAIN disk /\ Belongs(raw'[i].id, raw'[i].run)
    BY <1>0, <1>1, <1>2, <1>3, <2>1, <2>2 DEF RawHolds
  <2>4. ASSUME NEW i \in DOMAIN raw', NEW j \in DOMAIN raw', j < i PROVE raw'[j].run < raw'[i].run
    <3>1. i \in Nat /\ j \in Nat /\ j \in DOMAIN raw /\ raw'[j] = raw[j]
      BY <1>4, <2>4
    <3>2. QED
      BY <1>0, <1>3, <1>4, <2>1, <2>4, <3>1 DEF RawHolds
  <2>5. QED
    BY <1>1, <2>3, <2>4 DEF RawHolds, Records, Belongs, Found
<1>9. DiskHolds'
  BY <1>0, <1>1 DEF DiskHolds, Records
<1>10. QED
  BY <1>5, <1>6, <1>7, <1>8, <1>9 DEF CollectInv

-----------------------------------------------------------------------------
(* The campaign is collected. *)

LEMMA CollectInit == Init => CollectInv
<1> SUFFICES ASSUME Init PROVE CollectInv
  OBVIOUS
<1>1. /\ gate \in Gates /\ queue = RunsOf(ExecutionPhases(gate)) /\ next = 1 /\ watch = Idle /\ child = NoChild
      /\ left \in Left /\ raw = <<>>
      /\ disk \in UNION {[found -> {LeftOver("success"), LeftOver("failure")}] : found \in SUBSET left}
  BY DEF Init
<1>2. InOrder(queue) /\ \A i \in DOMAIN queue : \A found \in Left : <<"replay", i>> \notin found
  BY <1>1, CampaignAssumption
<1>3. Len(queue) \in Nat /\ raw \in Rows(queue) /\ DOMAIN raw = {}
  BY <1>1, <1>2 DEF InOrder, Rows
<1>4. Shape
  <2>1. \A i \in DOMAIN queue : <<"replay", i>> \notin left
    BY <1>1, <1>2
  <2>2. QED
    BY <1>1, <1>3, <2>1 DEF Shape, Idle, NoChild
<1>5. DiskHolds
  <2>1. PICK found \in SUBSET left : disk \in [found -> {LeftOver("success"), LeftOver("failure")}]
    BY <1>1
  <2>2. \A d \in DOMAIN disk : d \in left /\ disk[d] \in {LeftOver("success"), LeftOver("failure")}
    BY <2>1
  <2>3. QED
    BY <2>2 DEF DiskHolds, LeftOver
<1>6. Standing /\ Behind /\ RawHolds
  BY <1>1, <1>3 DEF Standing, Behind, RawHolds, Idle, NoChild
<1>7. QED
  BY <1>4, <1>5, <1>6 DEF CollectInv

LEMMA CollectNext == CollectInv /\ [Next]_vars => CollectInv'
<1> SUFFICES ASSUME CollectInv, [Next]_vars PROVE CollectInv'
  OBVIOUS
<1>1. CASE Throw \/ Evaluate \/ UNCHANGED vars
  <2>1. UNCHANGED <<gate, queue, next, watch, child, left, disk, learned, raw>>
    BY <1>1 DEF Throw, Evaluate, vars
  <2>2. QED
    BY <2>1 DEF CollectInv, Shape, DiskHolds, Standing, Behind, RawHolds, Records, Belongs, Found
<1>2. QED
  BY <1>1, ChildKeeps, SpawnKeeps, DistilledKeeps, WatchKeeps, RecordKeeps DEF Next

LEMMA CollectsThem == CollectInv => CollectsItsRuns
<1> SUFFICES ASSUME CollectInv PROVE CollectsItsRuns
  OBVIOUS
<1>0. Shape /\ DiskHolds /\ Standing /\ Behind /\ RawHolds
  BY DEF CollectInv
<1>1. RecordsAreOfTheirRuns
  <2>1. Len(raw) \in Nat /\ DOMAIN raw = 1 .. Len(raw) /\ \A i \in DOMAIN raw : raw[i].run \in Nat
    <3>1. raw \in Rows(queue)
      BY <1>0 DEF Shape
    <3>2. \A i \in DOMAIN raw : raw[i] \in [run : DOMAIN queue, id : RunIds(queue)]
      BY <3>1, LenProperties, ElementOfSeq DEF Rows
    <3>3. QED
      BY <1>0, <3>1, <3>2, PlanIs, LenProperties DEF Rows
  <2>2. ASSUME NEW i \in DOMAIN raw, NEW j \in 1 .. i - 1 PROVE raw[j].run < raw[i].run /\ raw[j].id # raw[i].id
    <3>1. j \in DOMAIN raw /\ j < i
      BY <2>1
    <3>2. raw[j].run < raw[i].run /\ raw[j].run # raw[i].run
      BY <1>0, <2>1, <3>1 DEF RawHolds
    <3>3. /\ Belongs(raw[j].id, raw[j].run) /\ Belongs(raw[i].id, raw[i].run)
          /\ raw[j].run \in DOMAIN queue /\ raw[i].run \in DOMAIN queue
          /\ Earlier \notin DOMAIN queue
      BY <1>0, <3>1, RowsAre, PlanIs DEF RawHolds
    <3>4. CASE disk[raw[j].id].run = raw[j].run /\ disk[raw[i].id].run = raw[i].run
      BY <3>2, <3>4
    <3>5. CASE Found(raw[j].id, raw[j].run) /\ Found(raw[i].id, raw[i].run)
      BY <1>0, <3>2, <3>3, <3>5, IdsAreApart DEF Found
    <3>6. CASE disk[raw[j].id].run = raw[j].run /\ Found(raw[i].id, raw[i].run)
      BY <3>2, <3>3, <3>6 DEF Found
    <3>7. CASE Found(raw[j].id, raw[j].run) /\ disk[raw[i].id].run = raw[i].run
      BY <3>2, <3>3, <3>7 DEF Found
    <3>8. QED
      BY <3>2, <3>3, <3>4, <3>5, <3>6, <3>7 DEF Belongs
  <2>3. QED
    BY <1>0, <2>2 DEF RecordsAreOfTheirRuns, RawHolds, Belongs, Found
<1>2. SpawnedInOrder
  <2>1. CASE ~ Running
    <3>1. ToSet(<<>>) = {}
      BY DEF ToSet
    <3>2. QED
      BY <2>1, <3>1 DEF SpawnedInOrder
  <2>2. CASE Running
    <3>1. next \in DOMAIN queue /\ child.run = next
      BY <1>0, <2>2 DEF Standing, Running
    <3>2. SUFFICES ASSUME NEW d \in ToSet(queue[next].phase.depends)
                   PROVE  /\ \E k \in 1 .. next - 1 : queue[k].phase.id = d
                          /\ \A k \in DOMAIN queue : queue[k].phase.id = d /\ queue[k].phase.records =>
                               \E i \in DOMAIN raw : raw[i].run = k
                          /\ learned \/ queue[next].phase.kind = "distill"
      BY <2>2, <3>1 DEF SpawnedInOrder
    <3>3. /\ \E k \in 1 .. next - 1 : queue[k].phase.id = d
          /\ \A k \in DOMAIN queue : queue[k].phase.id = d => k < next
          /\ queue[next].phase.kind = "distill" \/ \E k \in 1 .. next - 1 : queue[k].phase.kind = "distill"
      BY <1>0, <3>1, PlanIs DEF InOrder
    <3>4. ASSUME NEW k \in DOMAIN queue, queue[k].phase.id = d, queue[k].phase.records
          PROVE  \E i \in DOMAIN raw : raw[i].run = k
      <4>1. queue[k].phase.records = Records(k)
        BY <1>0, PlanIs DEF InOrder, Records
      <4>2. k \in 1 .. next - 1
        BY <1>0, <3>1, <3>3, <3>4, PlanIs
      <4>3. QED
        BY <1>0, <3>4, <4>1, <4>2 DEF Behind
    <3>5. learned \/ queue[next].phase.kind = "distill"
      BY <1>0, <3>3 DEF Behind, Records
    <3>6. QED
      BY <3>3, <3>4, <3>5
  <2>3. QED
    BY <2>1, <2>2
<1>3. QED
  BY <1>1, <1>2 DEF CollectsItsRuns

\* Whatever gate is selected and wherever a child fails, hangs or is ended, each run of the
\* plan is recorded at most once, as what its own child wrote or as what an earlier collection
\* left under its id, and a run is spawned only when those it depends on have been recorded
\* and the site is known (run-provider-campaign.ts:131-215, 343-386).
THEOREM CampaignsCollectTheirRuns == Spec => []CollectsItsRuns
<1>1. Init => CollectInv
  BY CollectInit
<1>2. CollectInv /\ [Next]_vars => CollectInv'
  BY CollectNext
<1>3. CollectInv => CollectsItsRuns
  BY CollectsThem
<1>4. QED
  BY <1>1, <1>2, <1>3, PTL DEF Spec
=============================================================================
