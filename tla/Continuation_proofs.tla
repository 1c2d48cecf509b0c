------------------------- MODULE Continuation_proofs -------------------------
(***************************************************************************)
(* What a replay guarantees for any playbook, any tools and any caller;    *)
(* and what the sessions of a task guarantee together, for any number of   *)
(* sessions and any crashes, as long as no two of them are at work on the  *)
(* task at once.                                                           *)
(***************************************************************************)
EXTENDS Continuation, FiniteSetTheorems, TLAPS

Log == INSTANCE CheckpointStore_proofs WITH Body <- Checkpoint, NoBody <- None

-----------------------------------------------------------------------------
(* PART 1.  What a replay guarantees for any playbook, any tools and any   *)
(* caller, whatever the task does with it.                                 *)

\* The steps before the one a run is at.
Behind(r) == {Order[i] : i \in 1 .. r.pos - 1}
AtWork == {"step", "calling", "asking"}
Over == {"draining", "ended", "threw", "crashed"}

\* A run has completed exactly the steps behind it, and each of them was on record or
\* acknowledged before it went on; while it waits for the hook, one more is completed.
Placed(r) ==
    /\ r.pos <= Len(Order) + 1
    /\ r.pc \in {"calling", "asking", "hook"} => r.pos <= Len(Order)
    /\ r.pc = "calling" => Order[r.pos] \in Deterministic
    /\ r.pc = "asking" => Order[r.pos] \notin Deterministic
    /\ r.pc \in AtWork => r.completed = Behind(r) /\ r.completed \subseteq r.resume \cup r.hooked
    /\ r.pc = "hook" => r.completed = Behind(r) \cup {Order[r.pos]}
                        /\ Behind(r) \subseteq r.resume \cup r.hooked
    /\ r.outcome # "none" => r.pc \in Over

\* What success says of the run that reports it.
Earned(r) ==
    r.outcome = "success" =>
        /\ r.completed = Step
        /\ Step \subseteq r.resume \cup r.hooked
        /\ \A v \in Verify : Accepts(v, r.world)

Sound(r) == r \in RunRecord /\ Placed(r) /\ Earned(r)
RunInv ==
    /\ run \in [Session -> RunRecord]
    /\ effects \in [Step -> Nat]
    /\ \A s \in Session : Sound(run[s])

-----------------------------------------------------------------------------
(* The steps of a run. *)

\* The step a run is at, and those behind it, are steps of the playbook.
LEMMA Listing ==
    /\ Len(Order) \in Nat
    /\ \A i \in 1 .. Len(Order) : Order[i] \in Step
    /\ \A r \in RunRecord : r.pos <= Len(Order) + 1 => Behind(r) \subseteq Step
    /\ \A r \in RunRecord : r.pos = Len(Order) + 1 => Behind(r) = Step
<1>1. Len(Order) \in Nat /\ \A i \in 1 .. Len(Order) : Order[i] \in Step
  BY PlaybookAssumption
<1>2. ASSUME NEW r \in RunRecord, r.pos <= Len(Order) + 1
      PROVE  Behind(r) \subseteq Step
  BY <1>1, <1>2 DEF Behind, RunRecord
<1>3. ASSUME NEW r \in RunRecord, r.pos = Len(Order) + 1
      PROVE  Step \subseteq Behind(r)
  <2>1. r.pos - 1 = Len(Order)
    BY <1>1, <1>3
  <2>2. QED
    BY <2>1, PlaybookAssumption DEF Behind
<1>4. QED
  BY <1>1, <1>2, <1>3

\* What a result is merged into is a world again.
LEMMA Merged ==
    ASSUME NEW w \in World, NEW obs \in World
    PROVE  Merge(w, obs) \in World
  BY DEF Merge, World

\* Going on to the next step.
LEMMA OnwardFacts ==
    ASSUME NEW r \in RunRecord
    PROVE  /\ Onward(r) \in RunRecord
           /\ Onward(r).pc = "step" /\ Onward(r).pos = r.pos + 1
           /\ Onward(r).completed = r.completed /\ Onward(r).resume = r.resume
           /\ Onward(r).hooked = r.hooked /\ Onward(r).outcome = r.outcome
           /\ Onward(r).world = r.world /\ Onward(r).bound = r.bound
<1> DEFINE stepping == [r EXCEPT !.pc = "step"]
           further == [stepping EXCEPT !.pos = r.pos + 1]
           onward == [further EXCEPT !.attempt = 0]
<1>1. stepping \in RunRecord /\ stepping.pc = "step" /\ stepping.pos = r.pos
      /\ stepping.completed = r.completed /\ stepping.resume = r.resume /\ stepping.hooked = r.hooked
      /\ stepping.outcome = r.outcome /\ stepping.world = r.world /\ stepping.bound = r.bound
  BY DEF RunRecord, Pc
<1>2. r.pos + 1 \in Nat \ {0}
  BY DEF RunRecord
<1>3. further \in RunRecord /\ further.pc = stepping.pc /\ further.pos = r.pos + 1
      /\ further.completed = stepping.completed /\ further.resume = stepping.resume
      /\ further.hooked = stepping.hooked /\ further.outcome = stepping.outcome
      /\ further.world = stepping.world /\ further.bound = stepping.bound
  <2> HIDE DEF stepping
  <2> QED
    BY <1>1, <1>2 DEF RunRecord
<1>4. onward \in RunRecord /\ onward.pc = further.pc /\ onward.pos = further.pos
      /\ onward.completed = further.completed /\ onward.resume = further.resume
      /\ onward.hooked = further.hooked /\ onward.outcome = further.outcome
      /\ onward.world = further.world /\ onward.bound = further.bound
  <2> HIDE DEF stepping, further
  <2> QED
    BY <1>3 DEF RunRecord
<1>5. Onward(r) = onward
  BY <1>1, Zenon DEF Onward
<1>6. QED
  BY <1>1, <1>3, <1>4, <1>5

\* Ending with an outcome.
LEMMA FinishFacts ==
    ASSUME NEW r \in RunRecord, NEW o \in Outcome
    PROVE  /\ Finish(r, o) \in RunRecord
           /\ Finish(r, o).pc = "draining" /\ Finish(r, o).outcome = o
           /\ Finish(r, o).pos = r.pos
           /\ Finish(r, o).completed = r.completed /\ Finish(r, o).resume = r.resume
           /\ Finish(r, o).hooked = r.hooked /\ Finish(r, o).world = r.world /\ Finish(r, o).bound = r.bound
  BY DEF Finish, RunRecord, Pc

\* A run that ends without success is sound wherever it ends.
LEMMA FinishSound ==
    ASSUME NEW r \in RunRecord, r.pos <= Len(Order) + 1, NEW o \in Outcome \ {"success"}
    PROVE  Sound(Finish(r, o))
  BY FinishFacts DEF Sound, Placed, Earned, AtWork, Over

\* Behind the next step is what was behind this one, and this one.
LEMMA OneMoreBehind ==
    ASSUME NEW r \in RunRecord, NEW q \in RunRecord, q.pos = r.pos + 1, r.pos <= Len(Order)
    PROVE  Behind(q) = Behind(r) \cup {Order[r.pos]} /\ q.pos <= Len(Order) + 1
<1>1. r.pos \in Nat \ {0} /\ Len(Order) \in Nat
  BY Listing DEF RunRecord
<1>2. 1 .. q.pos - 1 = (1 .. r.pos - 1) \cup {r.pos}
  BY <1>1
<1>3. QED
  BY <1>1, <1>2 DEF Behind

\* A step that held is completed and waits for the hook.
LEMMA PassedSound ==
    ASSUME NEW r \in RunRecord, Sound(r), r.pc \in {"calling", "asking"},
           NEW q \in RunRecord, q.pos = r.pos, q.completed = r.completed, q.resume = r.resume,
           q.hooked = r.hooked, q.outcome = r.outcome,
           NEW w \in World, NEW obs \in World
    PROVE  Sound(Passed(q, w, obs))
<1>1. Order[r.pos] \in Step /\ r.completed \subseteq Step
  BY Listing DEF Sound, Placed, RunRecord
<1>2. /\ Passed(q, w, obs) \in RunRecord
      /\ Passed(q, w, obs).pc = "hook" /\ Passed(q, w, obs).pos = r.pos
      /\ Passed(q, w, obs).completed = r.completed \cup {Order[r.pos]}
      /\ Passed(q, w, obs).resume = r.resume /\ Passed(q, w, obs).hooked = r.hooked
      /\ Passed(q, w, obs).outcome = r.outcome
  BY <1>1 DEF Passed, RunRecord, Pc
<1>3. r.outcome = "none" /\ r.completed = Behind(r) /\ r.completed \subseteq r.resume \cup r.hooked
      /\ r.pos <= Len(Order)
  BY DEF Sound, Placed, AtWork, Over
<1>4. Behind(Passed(q, w, obs)) = Behind(r)
  BY <1>2 DEF Behind
<1>5. Len(Order) \in Nat /\ r.pos \in Nat
  BY Listing DEF RunRecord
<1>6. QED
  BY <1>2, <1>3, <1>4, <1>5 DEF Sound, Placed, Earned, AtWork, Over

\* A step that failed is tried again, or the run ends in the fallback.
LEMMA FailedSound ==
    ASSUME NEW r \in RunRecord, Sound(r), r.pc \in {"calling", "asking"},
           NEW q \in RunRecord, q.pos = r.pos, q.completed = r.completed, q.resume = r.resume,
           q.hooked = r.hooked, q.outcome = r.outcome,
           NEW w \in World
    PROVE  Sound(Failed(q, w))
<1>1. r.outcome = "none" /\ r.completed = Behind(r) /\ r.completed \subseteq r.resume \cup r.hooked
      /\ r.pos <= Len(Order) /\ r.pos <= Len(Order) + 1
  BY Listing DEF Sound, Placed, AtWork, Over, RunRecord
<1>2. CASE Retries(q)
  <2> DEFINE t == [q EXCEPT !.pc = "step"]
  <2>1. Failed(q, w) = t
    BY <1>2 DEF Failed
  <2>2. t \in RunRecord /\ t.pc = "step" /\ t.pos = r.pos /\ t.completed = r.completed
        /\ t.resume = r.resume /\ t.hooked = r.hooked /\ t.outcome = "none"
    BY <1>1 DEF RunRecord, Pc
  <2>3. Behind(t) = Behind(r)
    BY <2>2 DEF Behind
  <2>4. Sound(t)
    BY <1>1, <2>2, <2>3 DEF Sound, Placed, Earned, AtWork, Over
  <2>5. QED
    BY <2>1, <2>4
<1>3. CASE ~ Retries(q)
  <2> DEFINE t == [q EXCEPT !.world = w]
  <2>1. Failed(q, w) = Finish(t, "fallback")
    BY <1>3 DEF Failed
  <2>2. t \in RunRecord /\ t.pos = r.pos
    BY DEF RunRecord
  <2>3. "fallback" \in Outcome \ {"success"}
    BY DEF Outcome
  <2>4. QED
    BY <1>1, <2>1, <2>2, <2>3, FinishSound
<1>4. QED
  BY <1>2, <1>3

-----------------------------------------------------------------------------
(* The actions. *)

\* An action that changes one run and keeps it sound keeps the invariant.
LEMMA OneRun ==
    ASSUME RunInv, NEW s \in Session, NEW r, run' = [run EXCEPT ![s] = r], Sound(r),
           effects' \in [Step -> Nat]
    PROVE  RunInv'
<1>1. run' \in [Session -> RunRecord]
  BY DEF RunInv, Sound
<1>2. ASSUME NEW t \in Session PROVE Sound(run'[t])
  BY <1>2 DEF RunInv
<1>3. QED
  BY <1>1, <1>2 DEF RunInv

LEMMA IdleFacts ==
    /\ Idle \in RunRecord /\ Sound(Idle)
    /\ Idle.pos = 1 /\ Idle.completed = {} /\ Idle.hooked = {} /\ Idle.outcome = "none"
<1>1. InitialWorld \in World
  BY DEF InitialWorld, World
<1>2. Idle \in RunRecord
  BY <1>1 DEF Idle, RunRecord, Pc, Outcome
<1>3. QED
  BY <1>2, Listing DEF Idle, Sound, Placed, Earned, AtWork, Over

LEMMA RunInit == Init => RunInv
  BY IdleFacts DEF Init, RunInv

\* A run starts behind the steps that are on record, which it has yet to walk over.
LEMMA BeginKeeps ==
    ASSUME RunInv, NEW s \in Session, NEW done \in SUBSET Step,
           NEW bound \in SUBSET (Step \ Deterministic), NEW stop \in StopAfter,
           Begin(s, done, bound, stop)
    PROVE  RunInv'
<1> DEFINE r == [Idle EXCEPT !.pc = "step", !.resume = done, !.bound = bound, !.stop = stop]
<1>1. r \in RunRecord
  BY IdleFacts DEF RunRecord, Pc
<1>2. r.pc = "step" /\ r.pos = 1 /\ r.completed = {} /\ r.outcome = "none"
  BY IdleFacts DEF RunRecord
<1>3. Behind(r) = {}
  BY <1>2 DEF Behind
<1>4. Sound(r)
  <2> HIDE DEF r
  <2> QED
    BY <1>1, <1>2, <1>3, Listing DEF Sound, Placed, Earned, AtWork, Over
<1>5. run' = [run EXCEPT ![s] = r] /\ effects' = effects
  BY DEF Begin
<1>6. effects' \in [Step -> Nat]
  BY <1>5 DEF RunInv
<1>7. QED
  BY <1>4, <1>5, <1>6, OneRun

LEMMA StartKeeps == ASSUME RunInv, NEW s \in Session, Start(s) PROVE RunInv'
<1>1. PICK k \in 0 .. Len(Order), stop \in StopAfter :
        LET done == {Order[i] : i \in 1 .. k}
        IN \E bound \in {{}, done \ Deterministic} : Begin(s, done, bound, stop)
  BY DEF Start
<1> DEFINE done == {Order[i] : i \in 1 .. k}
<1>2. done \in SUBSET Step
  BY Listing
<1>3. \A bound \in {{}, done \ Deterministic} : bound \in SUBSET (Step \ Deterministic)
  BY <1>2
<1>4. QED
  BY <1>1, <1>2, <1>3, BeginKeeps

\* A step that is on record is passed over.
LEMMA SkipKeeps == ASSUME RunInv, NEW s \in Session, Skip(s) PROVE RunInv'
<1> DEFINE r == run[s]
           q == [r EXCEPT !.completed = @ \cup {Cur(s)}]
<1>1. r \in RunRecord /\ Sound(r) /\ r.pc = "step" /\ r.pos <= Len(Order) /\ Order[r.pos] \in r.resume
  BY DEF RunInv, Skip, More, Cur
<1>2. Order[r.pos] \in Step
  BY <1>1, Listing DEF RunRecord
<1>3. q \in RunRecord /\ q.completed = r.completed \cup {Order[r.pos]} /\ q.pos = r.pos
      /\ q.resume = r.resume /\ q.hooked = r.hooked /\ q.outcome = r.outcome /\ q.pc = r.pc
  BY <1>1, <1>2 DEF RunRecord, Cur
<1> HIDE DEF q
<1>4. Behind(Onward(q)) = Behind(r) \cup {Order[r.pos]} /\ Onward(q).pos <= Len(Order) + 1
  <2>1. Onward(q) \in RunRecord /\ Onward(q).pos = r.pos + 1
    BY <1>3, OnwardFacts
  <2>2. QED
    BY <1>1, <2>1, OneMoreBehind
<1>5. r.completed = Behind(r) /\ r.completed \subseteq r.resume \cup r.hooked /\ r.outcome = "none"
  BY <1>1 DEF Sound, Placed, AtWork, Over
<1>6. Sound(Onward(q))
  BY <1>1, <1>3, <1>4, <1>5, OnwardFacts DEF Sound, Placed, Earned, AtWork, Over
<1>7. run' = [run EXCEPT ![s] = Onward(q)] /\ effects' = effects
  BY Zenon DEF Skip, q
<1>8. QED
  BY <1>6, <1>7, OneRun DEF RunInv

\* A step is dispatched, or the template throws.
LEMMA DispatchKeeps == ASSUME RunInv, NEW s \in Session, Dispatch(s) \/ Unbound(s) PROVE RunInv'
<1> DEFINE r == run[s]
<1>1. r \in RunRecord /\ Sound(r) /\ r.pc = "step" /\ r.pos <= Len(Order) /\ effects' = effects
  BY DEF RunInv, Dispatch, Unbound, AtStep, More
<1>2. r.completed = Behind(r) /\ r.completed \subseteq r.resume \cup r.hooked /\ r.outcome = "none"
      /\ r.pos <= Len(Order) + 1
  BY <1>1 DEF Sound, Placed, AtWork, Over
<1>3. CASE Dispatch(s)
  <2> DEFINE pc == IF Cur(s) \in Deterministic THEN "calling" ELSE "asking"
             q == [r EXCEPT !.attempt = @ + 1, !.pc = pc]
  <2>1. r.attempt + 1 \in Nat
    BY <1>1 DEF RunRecord
  <2>2. q \in RunRecord /\ q.pc = pc /\ q.pos = r.pos /\ q.completed = r.completed
        /\ q.resume = r.resume /\ q.hooked = r.hooked /\ q.outcome = r.outcome
    BY <1>1, <2>1 DEF RunRecord, Pc
  <2>3. Behind(q) = Behind(r)
    BY <2>2 DEF Behind
  <2>4. Sound(q)
    BY <1>1, <1>2, <2>2, <2>3 DEF Sound, Placed, Earned, AtWork, Over, Cur
  <2>5. run' = [run EXCEPT ![s] = q]
    BY <1>3 DEF Dispatch, RunInv
  <2>6. QED
    BY <1>1, <2>4, <2>5, OneRun DEF RunInv
<1>4. CASE Unbound(s)
  <2> DEFINE q == [r EXCEPT !.pc = "threw", !.outcome = "unbound"]
  <2>1. q \in RunRecord /\ q.pc = "threw" /\ q.pos = r.pos /\ q.outcome = "unbound"
    BY <1>1 DEF RunRecord, Pc, Outcome
  <2>2. Sound(q)
    BY <1>2, <2>1 DEF Sound, Placed, Earned, AtWork, Over
  <2>3. run' = [run EXCEPT ![s] = q]
    BY <1>4 DEF Unbound, RunInv
  <2>4. QED
    BY <1>1, <2>2, <2>3, OneRun DEF RunInv
<1>5. QED
  BY <1>3, <1>4

\* What a run does not look at keeps it sound.
LEMMA SameSound ==
    ASSUME NEW r \in RunRecord, Sound(r), NEW q \in RunRecord,
           q.pc = r.pc \/ q.pc \in Over, r.pc \in Over => q.pc \in Over,
           q.pos = r.pos, q.completed = r.completed,
           q.resume = r.resume, q.hooked = r.hooked, q.outcome = r.outcome, q.world = r.world
    PROVE  Sound(q)
<1>1. Behind(q) = Behind(r)
  BY DEF Behind
<1>2. QED
  BY <1>1 DEF Sound, Placed, Earned, AtWork, Over

\* The application carries out a call.
LEMMA LandKeeps == ASSUME RunInv, NEW s \in Session, Land(s) PROVE RunInv'
<1> DEFINE r == run[s]
           q == [r EXCEPT !.landed = TRUE]
<1>1. r \in RunRecord /\ Sound(r) /\ r.pc = "calling"
  BY DEF RunInv, Land
<1>2. q \in RunRecord /\ q.pc = r.pc /\ q.pos = r.pos /\ q.completed = r.completed /\ q.resume = r.resume
      /\ q.hooked = r.hooked /\ q.outcome = r.outcome /\ q.world = r.world
  BY <1>1 DEF RunRecord
<1>3. Sound(q)
  BY <1>1, <1>2, SameSound
<1>4. Order[r.pos] \in Step
  BY <1>1, Listing DEF Sound, Placed, RunRecord
<1>5. effects' = [effects EXCEPT ![Order[r.pos]] = @ + 1] /\ run' = [run EXCEPT ![s] = q]
  BY DEF Land, Cur, RunInv
<1>6. effects' \in [Step -> Nat]
  BY <1>4, <1>5 DEF RunInv
<1>7. QED
  BY <1>3, <1>5, <1>6, OneRun

\* A tool answers, or fails.
LEMMA RecordFacts ==
    ASSUME NEW r \in RunRecord
    PROVE  /\ Record(r) \in RunRecord
           /\ Record(r).pos = r.pos /\ Record(r).completed = r.completed
           /\ Record(r).resume = r.resume /\ Record(r).hooked = r.hooked /\ Record(r).outcome = r.outcome
<1>1. r.pushed + 1 \in Nat
  BY DEF RunRecord
<1>2. QED
  BY <1>1 DEF Record, RunRecord

LEMMA ToolKeeps ==
    ASSUME RunInv, NEW s \in Session, ToolFails(s) \/ ToolPasses(s) \/ ExpectFails(s)
    PROVE  RunInv'
<1> DEFINE r == run[s]
<1>1. r \in RunRecord /\ Sound(r) /\ r.pc = "calling" /\ effects' = effects /\ r.world \in World
  BY DEF RunInv, ToolFails, ToolPasses, ExpectFails, RunRecord
<1>2. \A obs \in Answer : obs \in World /\ Merge(r.world, obs) \in World
  BY <1>1, Merged, ChecksAssumption
<1>3. CASE ToolFails(s)
  <2>1. run' = [run EXCEPT ![s] = Failed(Record(r), r.world)]
    BY <1>3 DEF ToolFails
  <2>2. Sound(Failed(Record(r), r.world))
    BY <1>1, RecordFacts, FailedSound
  <2>3. QED
    BY <1>1, <2>1, <2>2, OneRun DEF RunInv
<1>4. CASE ToolPasses(s)
  <2>1. PICK obs \in Answer : run' = [run EXCEPT ![s] = Passed(Record(r), Merge(r.world, obs), obs)]
    BY <1>4 DEF ToolPasses
  <2>2. Sound(Passed(Record(r), Merge(r.world, obs), obs))
    BY <1>1, <1>2, RecordFacts, PassedSound
  <2>3. QED
    BY <1>1, <2>1, <2>2, OneRun DEF RunInv
<1>5. CASE ExpectFails(s)
  <2>1. PICK obs \in Answer : run' = [run EXCEPT ![s] = Failed(Record(r), Merge(r.world, obs))]
    BY <1>5 DEF ExpectFails
  <2>2. Sound(Failed(Record(r), Merge(r.world, obs)))
    BY <1>1, <1>2, RecordFacts, FailedSound
  <2>3. QED
    BY <1>1, <2>1, <2>2, OneRun DEF RunInv
<1>6. QED
  BY <1>3, <1>4, <1>5

\* The model answers, or throws.
LEMMA ModelKeeps == ASSUME RunInv, NEW s \in Session, ModelAnswers(s) \/ ModelThrows(s) PROVE RunInv'
<1> DEFINE r == run[s]
<1>1. r \in RunRecord /\ Sound(r) /\ r.pc = "asking" /\ effects' = effects /\ r.world \in World
  BY DEF RunInv, ModelAnswers, ModelThrows, RunRecord
<1>2. CASE ModelAnswers(s)
  <2> DEFINE obs(v) == [page |-> v, exit_code |-> None, output |-> v]
             q == Bind(r, Cur(s))
  <2>1. PICK v \in Value :
          run' = [run EXCEPT ![s] = IF Accepts(Expect[Cur(s)], Merge(r.world, obs(v)))
                                    THEN Passed(q, Merge(r.world, obs(v)), obs(v))
                                    ELSE Failed(q, Merge(r.world, obs(v)))]
    BY <1>2 DEF ModelAnswers
  <2>2. obs(v) \in World
    BY DEF World, Field
  <2>3. Merge(r.world, obs(v)) \in World
    BY <1>1, <2>2, Merged
  <2>4. Cur(s) \in Step \ Deterministic
    BY <1>1, Listing DEF Sound, Placed, RunRecord, Cur
  <2>5. q \in RunRecord /\ q.pos = r.pos /\ q.completed = r.completed /\ q.resume = r.resume
        /\ q.hooked = r.hooked /\ q.outcome = r.outcome
    BY <1>1, <2>4 DEF Bind, RunRecord
  <2>6. Sound(Passed(q, Merge(r.world, obs(v)), obs(v))) /\ Sound(Failed(q, Merge(r.world, obs(v))))
    BY <1>1, <2>2, <2>3, <2>5, PassedSound, FailedSound
  <2>7. QED
    BY <1>1, <2>1, <2>6, OneRun DEF RunInv
<1>3. CASE ModelThrows(s)
  <2> DEFINE q == [r EXCEPT !.pc = "threw"]
  <2>1. q \in RunRecord /\ q.pc = "threw" /\ q.pos = r.pos /\ q.completed = r.completed /\ q.resume = r.resume
        /\ q.hooked = r.hooked /\ q.outcome = r.outcome /\ q.world = r.world
    BY <1>1 DEF RunRecord, Pc
  <2>2. Sound(q)
    BY <1>1, <2>1, SameSound DEF Over
  <2>3. run' = [run EXCEPT ![s] = q]
    BY <1>3 DEF ModelThrows, RunInv
  <2>4. QED
    BY <1>1, <2>2, <2>3, OneRun DEF RunInv
<1>4. QED
  BY <1>2, <1>3

\* The hook resolves: the step is acknowledged, and the run goes on or stops here; or it
\* throws, and the run ends.
LEMMA HookKeeps == ASSUME RunInv, NEW s \in Session, HookResolves(s) \/ HookThrows(s) PROVE RunInv'
<1> DEFINE r == run[s]
           q == [r EXCEPT !.hooked = @ \cup {Cur(s)}]
<1>1. r \in RunRecord /\ Sound(r) /\ r.pc = "hook" /\ effects' = effects
  BY DEF RunInv, HookResolves, HookThrows
<1>2. r.pos <= Len(Order) /\ r.outcome = "none" /\ r.completed = Behind(r) \cup {Order[r.pos]}
      /\ Behind(r) \subseteq r.resume \cup r.hooked /\ r.pos <= Len(Order) + 1
  BY <1>1 DEF Sound, Placed, Over
<1>3. Order[r.pos] \in Step
  BY <1>1, <1>2, Listing DEF RunRecord
<1>4. q \in RunRecord /\ q.pos = r.pos /\ q.completed = r.completed /\ q.resume = r.resume
      /\ q.hooked = r.hooked \cup {Order[r.pos]} /\ q.outcome = "none"
  BY <1>1, <1>2, <1>3 DEF RunRecord, Cur
<1>5. CASE HookResolves(s) /\ q.stop = Cur(s)
  <2>1. run' = [run EXCEPT ![s] = Finish(q, "interrupted")]
    BY <1>5 DEF HookResolves
  <2>2. Sound(Finish(q, "interrupted"))
    BY <1>2, <1>4, FinishSound DEF Outcome
  <2>3. QED
    BY <1>1, <2>1, <2>2, OneRun DEF RunInv
<1>6. CASE HookResolves(s) /\ q.stop # Cur(s)
  <2>1. run' = [run EXCEPT ![s] = Onward(q)]
    BY <1>6 DEF HookResolves
  <2> HIDE DEF q
  <2>2. Behind(Onward(q)) = Behind(r) \cup {Order[r.pos]} /\ Onward(q).pos <= Len(Order) + 1
    <3>1. Onward(q) \in RunRecord /\ Onward(q).pos = r.pos + 1
      BY <1>4, OnwardFacts
    <3>2. QED
      BY <1>1, <1>2, <3>1, OneMoreBehind
  <2>3. Sound(Onward(q))
    BY <1>2, <1>4, <2>2, OnwardFacts DEF Sound, Placed, Earned, AtWork, Over
  <2>4. QED
    BY <1>1, <2>1, <2>3, OneRun DEF RunInv
<1>7. CASE HookThrows(s)
  <2>1. run' = [run EXCEPT ![s] = Finish(r, "checkpoint_write_failed")]
    BY <1>7 DEF HookThrows, HookFailed
  <2>2. Sound(Finish(r, "checkpoint_write_failed"))
    BY <1>1, <1>2, FinishSound DEF Outcome
  <2>3. QED
    BY <1>1, <2>1, <2>2, OneRun DEF RunInv
<1>8. QED
  BY <1>5, <1>6, <1>7

\* Behind the last step everything was completed, and the checks decide.
LEMMA VerifyKeeps == ASSUME RunInv, NEW s \in Session, FinalVerify(s) PROVE RunInv'
<1> DEFINE r == run[s]
<1>1. r \in RunRecord /\ Sound(r) /\ r.pc = "step" /\ ~ (r.pos <= Len(Order)) /\ effects' = effects
  BY DEF RunInv, FinalVerify, More
<1>2. r.completed = Behind(r) /\ r.completed \subseteq r.resume \cup r.hooked /\ r.pos <= Len(Order) + 1
  BY <1>1 DEF Sound, Placed, AtWork
<1>3. r.pos = Len(Order) + 1
  BY <1>1, <1>2, Listing DEF RunRecord
<1>4. r.completed = Step
  BY <1>1, <1>2, <1>3, Listing
<1>5. CASE Verified(r.world)
  <2>1. run' = [run EXCEPT ![s] = Finish(r, "success")]
    BY <1>5 DEF FinalVerify
  <2>2. Sound(Finish(r, "success"))
    <3>1. "success" \in Outcome
      BY DEF Outcome
    <3>2. Placed(Finish(r, "success"))
      BY <1>1, <1>2, <3>1, FinishFacts DEF Placed, AtWork, Over
    <3>3. Earned(Finish(r, "success"))
      BY <1>1, <1>2, <1>4, <1>5, <3>1, FinishFacts DEF Earned, Verified
    <3>4. QED
      BY <1>1, <3>1, <3>2, <3>3, FinishFacts DEF Sound
  <2>3. QED
    BY <1>1, <2>1, <2>2, OneRun DEF RunInv
<1>6. CASE ~ Verified(r.world)
  <2>1. run' = [run EXCEPT ![s] = Finish(r, "verify_failed")]
    BY <1>6 DEF FinalVerify
  <2>2. Sound(Finish(r, "verify_failed"))
    BY <1>1, <1>2, FinishSound DEF Outcome
  <2>3. QED
    BY <1>1, <2>1, <2>2, OneRun DEF RunInv
<1>7. QED
  BY <1>5, <1>6

\* The queue, the manifest and the end of the process.
LEMMA RecordingKeeps ==
    ASSUME RunInv, NEW s \in Session, Flush(s) \/ FlushFails(s) \/ WriteManifest(s) \/ Crash(s)
    PROVE  RunInv'
<1> DEFINE r == run[s]
           to(pc) == [r EXCEPT !.pc = pc]
           flushed == [r EXCEPT !.flushed = @ + 1]
<1>1. r \in RunRecord /\ Sound(r) /\ effects' = effects
  BY DEF RunInv, Flush, FlushFails, WriteManifest, Crash
<1>2. CASE Flush(s)
  <2>1. r.flushed + 1 \in Nat
    BY <1>1 DEF RunRecord
  <2>2. flushed \in RunRecord /\ flushed.pc = r.pc /\ flushed.pos = r.pos /\ flushed.completed = r.completed
        /\ flushed.resume = r.resume /\ flushed.hooked = r.hooked /\ flushed.outcome = r.outcome
        /\ flushed.world = r.world
    BY <1>1, <2>1 DEF RunRecord
  <2>3. Sound(flushed)
    BY <1>1, <2>2, SameSound
  <2>4. run' = [run EXCEPT ![s] = flushed]
    BY <1>2 DEF Flush, RunInv
  <2>5. QED
    BY <1>1, <2>3, <2>4, OneRun DEF RunInv
<1>3. CASE FlushFails(s) \/ WriteManifest(s) \/ Crash(s)
  <2>1. PICK pc \in {"threw", "crashed", "ended"} : run' = [run EXCEPT ![s] = to(pc)]
    BY <1>3 DEF FlushFails, WriteManifest, Crash, RunInv
  <2>2. to(pc) \in RunRecord /\ to(pc).pc = pc /\ to(pc).pos = r.pos /\ to(pc).completed = r.completed
        /\ to(pc).resume = r.resume /\ to(pc).hooked = r.hooked /\ to(pc).outcome = r.outcome
        /\ to(pc).world = r.world
    BY <1>1 DEF RunRecord, Pc
  <2>3. Sound(to(pc))
    BY <1>1, <2>2, SameSound DEF Over
  <2>4. QED
    BY <1>1, <2>1, <2>3, OneRun DEF RunInv
<1>4. QED
  BY <1>2, <1>3

LEMMA WalkKeeps == ASSUME RunInv, NEW s \in Session, Walk(s) PROVE RunInv'
  BY SkipKeeps, DispatchKeeps, LandKeeps, ToolKeeps, ModelKeeps, VerifyKeeps, RecordingKeeps DEF Walk

LEMMA RunNext == RunInv /\ [Next]_execVars => RunInv'
<1> SUFFICES ASSUME RunInv, [Next]_execVars PROVE RunInv'
  OBVIOUS
<1>1. CASE UNCHANGED execVars
  BY <1>1 DEF execVars, RunInv
<1>2. ASSUME NEW s \in Session, Start(s) \/ Walk(s) \/ HookResolves(s) \/ HookThrows(s)
      PROVE  RunInv'
  BY <1>2, StartKeeps, WalkKeeps, HookKeeps
<1>3. QED
  BY <1>1, <1>2 DEF Next

LEMMA RunKept == Spec => []RunInv
  BY RunInit, RunNext, PTL DEF Spec

\* The type invariant.
THEOREM ReplayTypes == Spec => []TypeOK
<1>1. RunInv => TypeOK
  BY DEF RunInv, TypeOK, Sound, Placed, More
<1>2. QED
  BY <1>1, RunKept, PTL

\* No step is dispatched before the checkpoint of every step before it was acknowledged,
\* whatever tools, model and hook answer (executor.ts:304).
THEOREM CheckpointedFirst == Spec => []CheckpointBeforeNextDispatch
<1>1. RunInv => CheckpointBeforeNextDispatch
  BY DEF RunInv, CheckpointBeforeNextDispatch, Busy, Sound, Placed, AtWork
<1>2. QED
  BY <1>1, RunKept, PTL

\* A run that reports success has completed every step of the playbook, each of them
\* recorded before or acknowledged, and its final world passes every check
\* (executor.ts:320-328).
THEOREM SuccessIsWhole == Spec => []NeverSilentlyWrong
<1>1. RunInv => NeverSilentlyWrong
  BY DEF RunInv, NeverSilentlyWrong, Sound, Earned
<1>2. QED
  BY <1>1, RunKept, PTL

-----------------------------------------------------------------------------
(* The accounts of a run: its attempts, and the events it pushed. *)

\* Attempt k at step x may have taken effect in the run: it was made, and it is not the
\* one still on its way.
Spent(r, x, k) ==
    /\ r.pc # "idle" /\ x \notin r.resume
    /\ \/ x \in Behind(r)
       \/ /\ r.pos <= Len(Order) /\ Order[r.pos] = x
          /\ k < r.attempt \/ (k = r.attempt /\ (r.pc = "calling" => r.landed))

\* A step is attempted as often as its on_fail allows, and not at all when it is on record.
Tries(r) ==
    r.pos <= Len(Order) =>
        /\ r.attempt <= Attempts[Order[r.pos]]
        /\ r.pc = "step" => r.attempt < Attempts[Order[r.pos]]
        /\ r.pc \in {"calling", "asking"} => r.attempt > 0 /\ Order[r.pos] \notin r.resume

\* The tool steps a run completed itself.
Own(r) == (r.completed \ r.resume) \cap Deterministic

\* Each of them pushed an event, and the manifest waits for every event.
Pushes(r) ==
    /\ r.flushed <= r.pushed
    /\ IsFiniteSet(Own(r)) /\ Cardinality(Own(r)) <= r.pushed
    /\ r.pc = "ended" => r.flushed = r.pushed

Begun == {s \in Session : run[s].pc # "idle"}
SpentOn(x) == {p \in Begun \X (1 .. Attempts[x]) : Spent(run[p[1]], x, p[2])}

\* The inductive invariant: every effect is an attempt of a session that did not find the
\* step on record, and no attempt accounts for two.
AccountInv ==
    /\ RunInv
    /\ IsFiniteSet(Begun)
    /\ \A s \in Session : Tries(run[s]) /\ Pushes(run[s])
    /\ \A x \in Step : effects[x] <= Cardinality(SpentOn(x))

\* What a step of the run may do to its accounts: it keeps them, and takes no attempt back.
Kept(r, q) ==
    /\ q.pc # "idle"
    /\ Tries(q) /\ Pushes(q)
    /\ \A x \in Step : \A k \in 1 .. Attempts[x] : Spent(r, x, k) => Spent(q, x, k)

\* The attempts are bounded by what on_fail allows.
LEMMA AttemptsOf == \A x \in Step : Attempts[x] \in Nat /\ Attempts[x] > 0
  BY PlaybookAssumption

\* The attempts spent on a step are finitely many.
LEMMA SpentIsFinite ==
    ASSUME IsFiniteSet(Begun), NEW x \in Step
    PROVE  IsFiniteSet(SpentOn(x)) /\ Cardinality(SpentOn(x)) \in Nat
<1>1. IsFiniteSet(1 .. Attempts[x])
  BY AttemptsOf, FS_Interval
<1>2. IsFiniteSet(Begun \X (1 .. Attempts[x]))
  BY <1>1, FS_Product
<1>3. SpentOn(x) \in SUBSET (Begun \X (1 .. Attempts[x]))
  BY DEF SpentOn
<1>4. QED
  BY <1>2, <1>3, FS_Subset, FS_CardinalityType

\* A run that keeps its accounts keeps the accounts of the application.
LEMMA RunSpends ==
    ASSUME AccountInv, RunInv', NEW s \in Session, NEW q, run' = [run EXCEPT ![s] = q], Kept(run[s], q)
    PROVE  /\ IsFiniteSet(Begun)'
           /\ \A t \in Session : (Tries(run[t]) /\ Pushes(run[t]))'
           /\ \A x \in Step : IsFiniteSet(SpentOn(x))' /\ SpentOn(x) \subseteq SpentOn(x)'
<1>1. run \in [Session -> RunRecord] /\ run' \in [Session -> RunRecord]
  BY DEF AccountInv, RunInv
<1>2. run'[s] = q /\ \A t \in Session : t # s => run'[t] = run[t]
  BY <1>1
<1>3. Begun' = Begun \cup {s}
  BY <1>2 DEF Begun, Kept
<1>4. IsFiniteSet(Begun)'
  BY <1>3, FS_AddElement DEF AccountInv
<1>5. \A t \in Session : (Tries(run[t]) /\ Pushes(run[t]))'
  BY <1>2 DEF AccountInv, Kept, Tries, Pushes, Own
<1>6. ASSUME NEW x \in Step PROVE SpentOn(x) \subseteq SpentOn(x)'
  <2>1. ASSUME NEW t \in Begun, NEW k \in 1 .. Attempts[x], Spent(run[t], x, k)
        PROVE  Spent(run'[t], x, k)
    BY <1>2, <2>1 DEF Kept, Begun
  <2>2. QED
    BY <1>3, <2>1 DEF SpentOn
<1>7. ASSUME NEW x \in Step PROVE IsFiniteSet(SpentOn(x))'
  BY <1>4, SpentIsFinite, PTL
<1>8. QED
  BY <1>4, <1>5, <1>6, <1>7

\* A step of the run without a new effect keeps the invariant.
LEMMA QuietStep ==
    ASSUME AccountInv, RunInv', NEW s \in Session, NEW q, run' = [run EXCEPT ![s] = q], Kept(run[s], q),
           effects' = effects
    PROVE  AccountInv'
<1>1. /\ IsFiniteSet(Begun)'
      /\ \A t \in Session : (Tries(run[t]) /\ Pushes(run[t]))'
      /\ \A x \in Step : IsFiniteSet(SpentOn(x))' /\ SpentOn(x) \subseteq SpentOn(x)'
  BY RunSpends
<1>2. ASSUME NEW x \in Step PROVE effects'[x] <= Cardinality(SpentOn(x))'
  <2>1. SpentOn(x) \in SUBSET SpentOn(x)' /\ IsFiniteSet(SpentOn(x)')
    BY <1>1
  <2>2. Cardinality(SpentOn(x)) <= Cardinality(SpentOn(x)') /\ Cardinality(SpentOn(x)') \in Nat
    BY <2>1, FS_Subset, FS_CardinalityType
  <2>3. effects[x] <= Cardinality(SpentOn(x)) /\ effects[x] \in Nat /\ Cardinality(SpentOn(x)) \in Nat
    BY SpentIsFinite DEF AccountInv, RunInv
  <2>4. QED
    BY <2>2, <2>3
<1>3. QED
  BY <1>1, <1>2 DEF AccountInv

\* A run that stays where it is, and does not send a call out again, takes nothing back.
LEMMA StayingSpends ==
    ASSUME NEW r \in RunRecord, NEW q \in RunRecord, q.pc # "idle",
           q.pos = r.pos, q.resume = r.resume,
           \/ q.attempt = r.attempt /\ (q.pc = "calling" => r.pc = "calling" /\ (r.landed => q.landed))
           \/ q.attempt = r.attempt + 1
    PROVE  \A x \in Step : \A k \in 1 .. Attempts[x] : Spent(r, x, k) => Spent(q, x, k)
<1>1. Behind(q) = Behind(r)
  BY DEF Behind
<1>2. r.attempt \in Nat /\ q.attempt \in Nat /\ r.landed \in BOOLEAN /\ q.landed \in BOOLEAN
  BY DEF RunRecord
<1>3. ASSUME NEW x \in Step, NEW k \in 1 .. Attempts[x], Spent(r, x, k) PROVE Spent(q, x, k)
  <2>1. k \in Nat
    BY AttemptsOf
  <2>2. CASE x \in Behind(r)
    BY <1>1, <1>3, <2>2 DEF Spent
  <2>3. CASE q.attempt = r.attempt /\ (q.pc = "calling" => r.pc = "calling" /\ (r.landed => q.landed))
    BY <1>1, <1>3, <2>3 DEF Spent
  <2>4. CASE q.attempt = r.attempt + 1
    BY <1>1, <1>2, <1>3, <2>1, <2>4 DEF Spent
  <2>5. QED
    BY <2>3, <2>4
<1>4. QED
  BY <1>3

\* A run that goes on leaves every attempt at the step behind it.
LEMMA OnwardSpends ==
    ASSUME NEW r \in RunRecord, NEW q \in RunRecord, q.pc # "idle", r.pos <= Len(Order),
           q.pos = r.pos + 1, q.resume = r.resume
    PROVE  \A x \in Step : \A k \in 1 .. Attempts[x] : Spent(r, x, k) => Spent(q, x, k)
<1>1. Behind(q) = Behind(r) \cup {Order[r.pos]}
  BY OneMoreBehind
<1>2. QED
  BY <1>1 DEF Spent

\* The fields of a run the accounts are about, where a step does not touch them.
SameCounts(r, q) ==
    /\ q.pos = r.pos /\ q.attempt = r.attempt /\ q.landed = r.landed
    /\ q.pushed = r.pushed /\ q.flushed = r.flushed
    /\ q.completed = r.completed /\ q.resume = r.resume

\* A run that ends, or waits, keeps its accounts.
LEMMA OverKept ==
    ASSUME NEW r \in RunRecord, Tries(r), Pushes(r), NEW q \in RunRecord, SameCounts(r, q),
           q.pc \in {"hook", "draining", "threw", "crashed"}
    PROVE  Kept(r, q)
<1>1. \A x \in Step : \A k \in 1 .. Attempts[x] : Spent(r, x, k) => Spent(q, x, k)
  BY StayingSpends DEF SameCounts
<1>2. QED
  BY <1>1 DEF Kept, Tries, Pushes, Own, SameCounts

LEMMA FinishCounts ==
    ASSUME NEW r \in RunRecord, NEW o \in Outcome
    PROVE  SameCounts(r, Finish(r, o)) /\ Finish(r, o).pc = "draining" /\ Finish(r, o) \in RunRecord
  BY DEF Finish, RunRecord, Pc, SameCounts

LEMMA FinishKept ==
    ASSUME NEW r \in RunRecord, Tries(r), Pushes(r), NEW o \in Outcome
    PROVE  Kept(r, Finish(r, o))
<1>1. SameCounts(r, Finish(r, o)) /\ Finish(r, o).pc = "draining" /\ Finish(r, o) \in RunRecord
  BY FinishCounts
<1>2. QED
  BY <1>1, OverKept

LEMMA OnwardCounts ==
    ASSUME NEW r \in RunRecord
    PROVE  Onward(r).attempt = 0 /\ Onward(r).pushed = r.pushed /\ Onward(r).flushed = r.flushed
<1> DEFINE stepping == [r EXCEPT !.pc = "step"]
           further == [stepping EXCEPT !.pos = r.pos + 1]
<1>1. stepping.pos = r.pos /\ stepping.pushed = r.pushed /\ stepping.flushed = r.flushed /\ stepping \in RunRecord
  BY DEF RunRecord, Pc
<1>2. r.pos + 1 \in Nat \ {0}
  BY DEF RunRecord
<1>3. further.pushed = r.pushed /\ further.flushed = r.flushed /\ further \in RunRecord
  <2> HIDE DEF stepping
  <2> QED
    BY <1>1, <1>2 DEF RunRecord
<1>4. Onward(r) = [further EXCEPT !.attempt = 0]
  BY <1>1, Zenon DEF Onward
<1>5. QED
  <2> HIDE DEF further
  <2> QED
    BY <1>3, <1>4 DEF RunRecord

\* A run goes on with no attempt made at the next step.
LEMMA OnwardKept ==
    ASSUME NEW r \in RunRecord, Tries(r), Pushes(r), r.pos <= Len(Order), r.pc # "ended",
           NEW q \in RunRecord, q.pos = r.pos, q.resume = r.resume,
           q.pushed = r.pushed, q.flushed = r.flushed, Own(q) = Own(r)
    PROVE  Kept(r, Onward(q))
<1>1. Onward(q) \in RunRecord /\ Onward(q).pos = r.pos + 1 /\ Onward(q).resume = r.resume
      /\ Onward(q).pc = "step" /\ Onward(q).completed = q.completed
      /\ Onward(q).attempt = 0 /\ Onward(q).pushed = r.pushed /\ Onward(q).flushed = r.flushed
  BY OnwardFacts, OnwardCounts
<1>2. \A x \in Step : \A k \in 1 .. Attempts[x] : Spent(r, x, k) => Spent(Onward(q), x, k)
  BY <1>1, OnwardSpends
<1>3. Own(Onward(q)) = Own(r)
  BY <1>1 DEF Own
<1>4. Pushes(Onward(q))
  BY <1>1, <1>3 DEF Pushes
<1>5. Tries(Onward(q))
  <2>1. ASSUME r.pos + 1 <= Len(Order) PROVE Attempts[Order[r.pos + 1]] \in Nat /\ Attempts[Order[r.pos + 1]] > 0
    BY <2>1, AttemptsOf, Listing DEF RunRecord
  <2>2. QED
    BY <1>1, <2>1 DEF Tries
<1>6. QED
  BY <1>1, <1>2, <1>4, <1>5 DEF Kept

-----------------------------------------------------------------------------
(* The accounts through every action. *)

LEMMA AccountInit == Init => AccountInv
<1> SUFFICES ASSUME Init PROVE AccountInv
  OBVIOUS
<1>1. RunInv
  BY RunInit
<1>2. \A s \in Session : run[s] = Idle
  BY DEF Init
<1>3. Begun = {} /\ IsFiniteSet(Begun)
  BY <1>2, FS_EmptySet DEF Begun, Idle
<1>4. Own(Idle) = {}
  BY DEF Own, Idle
<1>5. Pushes(Idle)
  <2>1. IsFiniteSet(Own(Idle)) /\ Cardinality(Own(Idle)) = 0
    BY <1>4, FS_EmptySet
  <2>2. QED
    BY <2>1 DEF Pushes, Idle
<1>6. Tries(Idle)
  <2>1. ASSUME Idle.pos <= Len(Order) PROVE Attempts[Order[Idle.pos]] \in Nat
    BY <2>1, AttemptsOf, Listing DEF Idle
  <2>2. QED
    BY <2>1 DEF Tries, Idle
<1>7. \A x \in Step : effects[x] = 0
  BY DEF Init
<1>8. \A x \in Step : Cardinality(SpentOn(x)) \in Nat
  BY <1>3, SpentIsFinite
<1>9. QED
  BY <1>1, <1>2, <1>3, <1>5, <1>6, <1>7, <1>8 DEF AccountInv

\* What a step of the run finds.
LEMMA AccountsOf ==
    ASSUME AccountInv, NEW s \in Session
    PROVE  /\ RunInv /\ run[s] \in RunRecord /\ Sound(run[s]) /\ Tries(run[s]) /\ Pushes(run[s])
           /\ run[s].pc \in AtWork => run[s].outcome = "none"
           /\ run[s].pos <= Len(Order) => Order[run[s].pos] \in Step
  BY Listing DEF AccountInv, RunInv, Sound, Placed, AtWork, Over, RunRecord

LEMMA BeginAccounts ==
    ASSUME AccountInv, NEW s \in Session, NEW done \in SUBSET Step,
           NEW bound \in SUBSET (Step \ Deterministic), NEW stop \in StopAfter,
           Begin(s, done, bound, stop)
    PROVE  AccountInv'
<1> DEFINE r == [Idle EXCEPT !.pc = "step", !.resume = done, !.bound = bound, !.stop = stop]
<1>1. RunInv'
  BY BeginKeeps DEF AccountInv
<1>2. run' = [run EXCEPT ![s] = r] /\ effects' = effects /\ run[s].pc = "idle"
  BY DEF Begin
<1>3. r.pc = "step" /\ r.pos = 1 /\ r.completed = {} /\ r.attempt = 0 /\ r.pushed = 0 /\ r.flushed = 0
  BY DEF Idle
<1> HIDE DEF r
<1>4. Own(r) = {}
  BY <1>3 DEF Own
<1>5. Pushes(r)
  <2>1. IsFiniteSet(Own(r)) /\ Cardinality(Own(r)) = 0
    BY <1>4, FS_EmptySet
  <2>2. QED
    BY <1>3, <2>1 DEF Pushes
<1>6. Tries(r)
  <2>1. ASSUME r.pos <= Len(Order) PROVE Attempts[Order[r.pos]] \in Nat /\ Attempts[Order[r.pos]] > 0
    BY <1>3, <2>1, AttemptsOf, Listing
  <2>2. QED
    BY <1>3, <2>1 DEF Tries
<1>7. Kept(run[s], r)
  BY <1>2, <1>3, <1>5, <1>6 DEF Kept, Spent
<1>8. QED
  BY <1>1, <1>2, <1>7, QuietStep

LEMMA StartAccounts == ASSUME AccountInv, NEW s \in Session, Start(s) PROVE AccountInv'
<1>1. PICK k \in 0 .. Len(Order), stop \in StopAfter :
        LET done == {Order[i] : i \in 1 .. k}
        IN \E bound \in {{}, done \ Deterministic} : Begin(s, done, bound, stop)
  BY DEF Start
<1> DEFINE done == {Order[i] : i \in 1 .. k}
<1>2. done \in SUBSET Step
  BY Listing
<1>3. \A bound \in {{}, done \ Deterministic} : bound \in SUBSET (Step \ Deterministic)
  BY <1>2
<1>4. QED
  BY <1>1, <1>2, <1>3, BeginAccounts

LEMMA SkipAccounts == ASSUME AccountInv, NEW s \in Session, Skip(s) PROVE AccountInv'
<1> DEFINE r == run[s]
           q == [r EXCEPT !.completed = @ \cup {Cur(s)}]
<1>1. r \in RunRecord /\ Tries(r) /\ Pushes(r) /\ r.pc = "step" /\ r.pos <= Len(Order)
      /\ Order[r.pos] \in r.resume /\ Order[r.pos] \in Step
  BY AccountsOf DEF Skip, More, Cur
<1>2. q \in RunRecord /\ q.completed = r.completed \cup {Order[r.pos]} /\ q.pos = r.pos
      /\ q.resume = r.resume /\ q.pushed = r.pushed /\ q.flushed = r.flushed
  BY <1>1 DEF RunRecord, Cur
<1>3. Own(q) = Own(r)
  <2> HIDE DEF q
  <2> QED
    BY <1>1, <1>2 DEF Own
<1>4. run' = [run EXCEPT ![s] = Onward(q)] /\ effects' = effects
  BY Zenon DEF Skip, q
<1> HIDE DEF q
<1>5. Kept(r, Onward(q))
  BY <1>1, <1>2, <1>3, OnwardKept
<1>6. RunInv'
  BY SkipKeeps DEF AccountInv
<1>7. QED
  BY <1>4, <1>5, <1>6, QuietStep

LEMMA DispatchAccounts == ASSUME AccountInv, NEW s \in Session, Dispatch(s) \/ Unbound(s) PROVE AccountInv'
<1> DEFINE r == run[s]
<1>1. r \in RunRecord /\ Tries(r) /\ Pushes(r) /\ r.pc = "step" /\ r.pos <= Len(Order) /\ effects' = effects
      /\ Order[r.pos] \notin r.resume /\ Order[r.pos] \in Step
  BY AccountsOf DEF Dispatch, Unbound, AtStep, More, Cur
<1>2. RunInv'
  BY DispatchKeeps DEF AccountInv
<1>3. CASE Dispatch(s)
  <2> DEFINE pc == IF Cur(s) \in Deterministic THEN "calling" ELSE "asking"
             q == [r EXCEPT !.attempt = @ + 1, !.pc = pc]
  <2>1. r.attempt + 1 \in Nat /\ Attempts[Order[r.pos]] \in Nat /\ r.attempt \in Nat
    BY <1>1, AttemptsOf DEF RunRecord
  <2>2. q \in RunRecord /\ q.pc = pc /\ q.attempt = r.attempt + 1 /\ q.pos = r.pos
        /\ q.completed = r.completed /\ q.resume = r.resume /\ q.pushed = r.pushed /\ q.flushed = r.flushed
    BY <1>1, <2>1 DEF RunRecord, Pc
  <2>3. run' = [run EXCEPT ![s] = q]
    BY <1>3 DEF Dispatch, AccountInv, RunInv
  <2> HIDE DEF q
  <2>4. \A x \in Step : \A k \in 1 .. Attempts[x] : Spent(r, x, k) => Spent(q, x, k)
    BY <1>1, <2>2, StayingSpends
  <2>5. Tries(q) /\ Pushes(q)
    BY <1>1, <2>1, <2>2 DEF Tries, Pushes, Own
  <2>6. QED
    BY <1>1, <1>2, <2>2, <2>3, <2>4, <2>5, QuietStep DEF Kept
<1>4. CASE Unbound(s)
  <2> DEFINE q == [r EXCEPT !.pc = "threw", !.outcome = "unbound"]
  <2>1. q \in RunRecord /\ q.pc = "threw" /\ SameCounts(r, q)
    BY <1>1 DEF RunRecord, Pc, Outcome, SameCounts
  <2>2. run' = [run EXCEPT ![s] = q]
    BY <1>4 DEF Unbound, AccountInv, RunInv
  <2>3. QED
    BY <1>1, <1>2, <2>1, <2>2, OverKept, QuietStep
<1>5. QED
  BY <1>3, <1>4

\* An effect is the attempt that was on its way, which nothing accounted for before.
LEMMA LandAccounts == ASSUME AccountInv, NEW s \in Session, Land(s) PROVE AccountInv'
<1> DEFINE r == run[s]
           q == [r EXCEPT !.landed = TRUE]
<1>0. PICK here \in Step : here = Order[r.pos]
  BY AccountsOf DEF Land, Sound, Placed
<1>1. r \in RunRecord /\ Tries(r) /\ Pushes(r) /\ r.pc = "calling" /\ ~ r.landed
      /\ r.pos <= Len(Order) /\ here = Order[r.pos]
  BY <1>0, AccountsOf DEF Land, Sound, Placed
<1>2. q \in RunRecord /\ q.pc = r.pc /\ q.landed = TRUE /\ q.attempt = r.attempt /\ q.pos = r.pos
      /\ q.completed = r.completed /\ q.resume = r.resume /\ q.pushed = r.pushed /\ q.flushed = r.flushed
  BY <1>1 DEF RunRecord
<1>3. run' = [run EXCEPT ![s] = q] /\ effects' = [effects EXCEPT ![here] = @ + 1]
  BY <1>0 DEF Land, Cur, AccountInv, RunInv
<1> HIDE DEF q
<1>4. RunInv'
  BY LandKeeps DEF AccountInv
<1>5. \A x \in Step : \A k \in 1 .. Attempts[x] : Spent(r, x, k) => Spent(q, x, k)
  BY <1>1, <1>2, StayingSpends
<1>6. Kept(r, q)
  BY <1>1, <1>2, <1>5 DEF Kept, Tries, Pushes, Own
<1>7. /\ IsFiniteSet(Begun)'
      /\ \A t \in Session : (Tries(run[t]) /\ Pushes(run[t]))'
      /\ \A x \in Step : IsFiniteSet(SpentOn(x))' /\ SpentOn(x) \subseteq SpentOn(x)'
  BY <1>3, <1>4, <1>6, RunSpends
<1>8. r.attempt \in 1 .. Attempts[here] /\ here \notin r.resume
  BY <1>1, AttemptsOf DEF Tries, RunRecord
<1>9. here \notin Behind(r)
  <2>1. ASSUME NEW i \in 1 .. r.pos - 1 PROVE Order[i] # here
    BY <1>1, Listing, PlaybookAssumption DEF RunRecord
  <2>2. QED
    BY <2>1 DEF Behind
<1>10. <<s, r.attempt>> \notin SpentOn(here)
  BY <1>1, <1>8, <1>9 DEF SpentOn, Spent, RunRecord
<1>11. <<s, r.attempt>> \in SpentOn(here)'
  <2>1. run'[s] = q
    BY <1>3 DEF AccountInv, RunInv
  <2>2. s \in Begun'
    BY <1>1, <1>2, <2>1 DEF Begun
  <2>3. Spent(q, here, r.attempt)
    BY <1>1, <1>2, <1>8 DEF Spent
  <2>4. <<s, r.attempt>> \in Begun' \X (1 .. Attempts[here])
    BY <1>8, <2>2
  <2>5. QED
    BY <2>1, <2>3, <2>4 DEF SpentOn
<1>12. ASSUME NEW x \in Step PROVE effects'[x] <= Cardinality(SpentOn(x))'
  <2>1. effects[x] \in Nat /\ effects[x] <= Cardinality(SpentOn(x)) /\ IsFiniteSet(SpentOn(x))
        /\ Cardinality(SpentOn(x)) \in Nat
    BY SpentIsFinite DEF AccountInv, RunInv
  <2>2. IsFiniteSet(SpentOn(x)') /\ Cardinality(SpentOn(x)') \in Nat
    BY <1>7, FS_CardinalityType
  <2>3. CASE x = here
    <3> DEFINE more == SpentOn(x) \cup {<<s, r.attempt>>}
    <3>1. IsFiniteSet(more) /\ Cardinality(more) = Cardinality(SpentOn(x)) + 1
      BY <1>10, <2>1, <2>3, FS_AddElement
    <3>2. more \in SUBSET SpentOn(x)'
      BY <1>7, <1>11, <2>3
    <3>3. Cardinality(more) <= Cardinality(SpentOn(x)')
      BY <2>2, <3>2, FS_Subset
    <3>4. effects'[x] = effects[x] + 1
      BY <1>3, <2>3 DEF AccountInv, RunInv
    <3>5. QED
      BY <2>1, <2>2, <3>1, <3>3, <3>4
  <2>4. CASE x # here
    <3>1. Cardinality(SpentOn(x)) <= Cardinality(SpentOn(x)')
      BY <1>7, <2>2, FS_Subset
    <3>2. effects'[x] = effects[x]
      BY <1>3, <2>4 DEF AccountInv, RunInv
    <3>3. QED
      BY <2>1, <2>2, <3>1, <3>2
  <2>5. QED
    BY <2>3, <2>4
<1>13. QED
  BY <1>4, <1>7, <1>12 DEF AccountInv

\* One more event is pushed, and no call is on its way.
LEMMA RecordCounts ==
    ASSUME NEW r \in RunRecord
    PROVE  /\ Record(r) \in RunRecord /\ Record(r).pc = r.pc /\ Record(r).pos = r.pos
           /\ Record(r).attempt = r.attempt /\ Record(r).pushed = r.pushed + 1
           /\ Record(r).flushed = r.flushed
           /\ Record(r).completed = r.completed /\ Record(r).resume = r.resume
<1>1. r.pushed + 1 \in Nat
  BY DEF RunRecord
<1>2. QED
  BY <1>1 DEF Record, RunRecord

\* The step a run is at is completed, and counted once.
LEMMA OwnGrows ==
    ASSUME NEW r \in RunRecord, Pushes(r), NEW q, q.completed = r.completed \cup {Order[r.pos]}, q.resume = r.resume
    PROVE  /\ IsFiniteSet(Own(q)) /\ Cardinality(Own(q)) <= r.pushed + 1
           /\ Order[r.pos] \notin Deterministic => Cardinality(Own(q)) <= r.pushed
<1>1. IsFiniteSet(Own(r)) /\ Cardinality(Own(r)) \in Nat /\ Cardinality(Own(r)) <= r.pushed /\ r.pushed \in Nat
  BY FS_CardinalityType DEF Pushes, RunRecord
<1>2. CASE Own(q) = Own(r)
  BY <1>1, <1>2
<1>3. CASE Own(q) # Own(r)
  <2>1. Own(q) = Own(r) \cup {Order[r.pos]} /\ Order[r.pos] \in Deterministic
    BY <1>3 DEF Own
  <2>2. /\ IsFiniteSet(Own(r) \cup {Order[r.pos]})
        /\ Cardinality(Own(r) \cup {Order[r.pos]}) =
             IF Order[r.pos] \in Own(r) THEN Cardinality(Own(r)) ELSE Cardinality(Own(r)) + 1
    BY <1>1, FS_AddElement
  <2>3. Cardinality(Own(q)) \in {Cardinality(Own(r)), Cardinality(Own(r)) + 1}
    BY <2>1, <2>2
  <2>4. QED
    BY <1>1, <2>1, <2>2, <2>3
<1>4. QED
  BY <1>2, <1>3

\* A step that held: an event was pushed for it where it is a tool step.
LEMMA PassedKept ==
    ASSUME NEW r \in RunRecord, Tries(r), Pushes(r), r.pos <= Len(Order), r.pc \in {"calling", "asking"},
           Order[r.pos] \in Step,
           NEW q \in RunRecord, q.pos = r.pos, q.attempt = r.attempt, q.completed = r.completed,
           q.resume = r.resume, q.flushed = r.flushed,
           q.pushed = r.pushed + 1 \/ (q.pushed = r.pushed /\ Order[r.pos] \notin Deterministic),
           NEW w \in World, NEW obs \in World
    PROVE  Kept(r, Passed(q, w, obs))
<1> DEFINE p == Passed(q, w, obs)
<1>1. /\ p \in RunRecord /\ p.pc = "hook" /\ p.pos = r.pos /\ p.attempt = r.attempt
      /\ p.completed = r.completed \cup {Order[r.pos]} /\ p.resume = r.resume
      /\ p.pushed = q.pushed /\ p.flushed = r.flushed
  BY DEF Passed, RunRecord, Pc
<1> HIDE DEF p
<1>2. IsFiniteSet(Own(p)) /\ Cardinality(Own(p)) <= r.pushed + 1
      /\ (Order[r.pos] \notin Deterministic => Cardinality(Own(p)) <= r.pushed)
  BY <1>1, OwnGrows
<1>3. Pushes(p)
  BY <1>1, <1>2 DEF Pushes, RunRecord
<1>4. \A x \in Step : \A k \in 1 .. Attempts[x] : Spent(r, x, k) => Spent(p, x, k)
  BY <1>1, StayingSpends
<1>5. Kept(r, p)
  BY <1>1, <1>3, <1>4 DEF Kept, Tries
<1>6. QED
  BY <1>5 DEF p

\* A step that failed: it is tried again within its attempts, or the run ends.
LEMMA FailedKept ==
    ASSUME NEW r \in RunRecord, Tries(r), Pushes(r), r.pos <= Len(Order), r.pc \in {"calling", "asking"},
           NEW q \in RunRecord, q.pos = r.pos, q.attempt = r.attempt, q.completed = r.completed,
           q.resume = r.resume, q.flushed = r.flushed, q.pushed \in {r.pushed, r.pushed + 1},
           NEW w \in World
    PROVE  Kept(r, Failed(q, w))
<1> DEFINE f == Failed(q, w)
<1>1. /\ f \in RunRecord /\ f.pos = r.pos /\ f.attempt = r.attempt /\ f.completed = r.completed
      /\ f.resume = r.resume /\ f.pushed = q.pushed /\ f.flushed = r.flushed
      /\ f.pc = "draining" \/ (f.pc = "step" /\ r.attempt < Attempts[Order[r.pos]])
  <2>1. CASE Retries(q)
    BY <2>1 DEF Failed, Retries, RunRecord, Pc
  <2>2. CASE ~ Retries(q)
    <3> DEFINE t == [q EXCEPT !.world = w]
    <3>1. t \in RunRecord /\ SameCounts(q, t)
      BY DEF RunRecord, SameCounts
    <3>2. f = Finish(t, "fallback") /\ "fallback" \in Outcome
      BY <2>2 DEF Failed, Outcome
    <3> HIDE DEF t, f
    <3>3. QED
      BY <3>1, <3>2, FinishCounts DEF SameCounts
  <2>3. QED
    BY <2>1, <2>2
<1> HIDE DEF f
<1>2. Own(f) = Own(r)
  BY <1>1 DEF Own
<1>3. r.flushed \in Nat /\ r.pushed \in Nat /\ Cardinality(Own(r)) \in Nat
  BY FS_CardinalityType DEF RunRecord, Pushes
<1>4. Pushes(f)
  BY <1>1, <1>2, <1>3 DEF Pushes
<1>5. \A x \in Step : \A k \in 1 .. Attempts[x] : Spent(r, x, k) => Spent(f, x, k)
  BY <1>1, StayingSpends
<1>6. Kept(r, f)
  BY <1>1, <1>4, <1>5 DEF Kept, Tries
<1>7. QED
  BY <1>6 DEF f

LEMMA ToolAccounts ==
    ASSUME AccountInv, NEW s \in Session, ToolFails(s) \/ ToolPasses(s) \/ ExpectFails(s)
    PROVE  AccountInv'
<1> DEFINE r == run[s]
<1>1. r \in RunRecord /\ Tries(r) /\ Pushes(r) /\ r.pc = "calling" /\ effects' = effects /\ r.world \in World
      /\ r.pos <= Len(Order) /\ Order[r.pos] \in Step
  BY AccountsOf DEF ToolFails, ToolPasses, ExpectFails, Sound, Placed, RunRecord
<1>2. \A obs \in Answer : obs \in World /\ Merge(r.world, obs) \in World
  BY <1>1, Merged, ChecksAssumption
<1>3. RunInv'
  BY ToolKeeps DEF AccountInv
<1>4. \A w \in World : Kept(r, Failed(Record(r), w)) /\ \A obs \in World : Kept(r, Passed(Record(r), w, obs))
  BY <1>1, RecordCounts, PassedKept, FailedKept
<1>5. \/ run' = [run EXCEPT ![s] = Failed(Record(r), r.world)]
      \/ \E obs \in Answer : \/ run' = [run EXCEPT ![s] = Failed(Record(r), Merge(r.world, obs))]
                             \/ run' = [run EXCEPT ![s] = Passed(Record(r), Merge(r.world, obs), obs)]
  BY DEF ToolFails, ToolPasses, ExpectFails
<1>6. QED
  BY <1>1, <1>2, <1>3, <1>4, <1>5, QuietStep

LEMMA ModelAccounts == ASSUME AccountInv, NEW s \in Session, ModelAnswers(s) \/ ModelThrows(s) PROVE AccountInv'
<1> DEFINE r == run[s]
<1>1. r \in RunRecord /\ Tries(r) /\ Pushes(r) /\ r.pc = "asking" /\ effects' = effects /\ r.world \in World
      /\ r.pos <= Len(Order) /\ Order[r.pos] \in Step \ Deterministic
  BY AccountsOf DEF ModelAnswers, ModelThrows, Sound, Placed, RunRecord
<1>2. RunInv'
  BY ModelKeeps DEF AccountInv
<1>3. CASE ModelAnswers(s)
  <2> DEFINE obs(v) == [page |-> v, exit_code |-> None, output |-> v]
             q == Bind(r, Cur(s))
  <2>1. PICK v \in Value :
          run' = [run EXCEPT ![s] = IF Accepts(Expect[Cur(s)], Merge(r.world, obs(v)))
                                    THEN Passed(q, Merge(r.world, obs(v)), obs(v))
                                    ELSE Failed(q, Merge(r.world, obs(v)))]
    BY <1>3 DEF ModelAnswers
  <2>2. obs(v) \in World
    BY DEF World, Field
  <2>3. Merge(r.world, obs(v)) \in World
    BY <1>1, <2>2, Merged
  <2>4. q \in RunRecord /\ q.pos = r.pos /\ q.attempt = r.attempt /\ q.completed = r.completed
        /\ q.resume = r.resume /\ q.pushed = r.pushed /\ q.flushed = r.flushed
    BY <1>1 DEF Bind, RunRecord, Cur
  <2> HIDE DEF q, obs
  <2>5. Kept(r, Passed(q, Merge(r.world, obs(v)), obs(v))) /\ Kept(r, Failed(q, Merge(r.world, obs(v))))
    BY <1>1, <2>2, <2>3, <2>4, PassedKept, FailedKept
  <2>6. QED
    BY <1>1, <1>2, <2>1, <2>5, QuietStep
<1>4. CASE ModelThrows(s)
  <2> DEFINE q == [r EXCEPT !.pc = "threw"]
  <2>1. q \in RunRecord /\ q.pc = "threw" /\ SameCounts(r, q)
    BY <1>1 DEF RunRecord, Pc, SameCounts
  <2>2. run' = [run EXCEPT ![s] = q]
    BY <1>4 DEF ModelThrows, AccountInv, RunInv
  <2>3. QED
    BY <1>1, <1>2, <2>1, <2>2, OverKept, QuietStep
<1>5. QED
  BY <1>3, <1>4

LEMMA HookAccounts == ASSUME AccountInv, NEW s \in Session, HookResolves(s) \/ HookThrows(s) PROVE AccountInv'
<1> DEFINE r == run[s]
           q == [r EXCEPT !.hooked = @ \cup {Cur(s)}]
<1>1. r \in RunRecord /\ Tries(r) /\ Pushes(r) /\ r.pc = "hook" /\ effects' = effects
      /\ r.pos <= Len(Order) /\ Order[r.pos] \in Step
  BY AccountsOf DEF HookResolves, HookThrows, Sound, Placed
<1>2. RunInv'
  BY HookKeeps DEF AccountInv
<1>3. q \in RunRecord /\ SameCounts(r, q) /\ q.pc = "hook" /\ Own(q) = Own(r)
  BY <1>1 DEF RunRecord, Cur, SameCounts, Own
<1>4. \/ run' = [run EXCEPT ![s] = Onward(q)]
      \/ \E o \in Outcome : run' = [run EXCEPT ![s] = Finish(q, o)] \/ run' = [run EXCEPT ![s] = Finish(r, o)]
  BY Zenon DEF HookResolves, HookThrows, HookFailed, Outcome
<1> HIDE DEF q
<1>5. Kept(r, Onward(q))
  BY <1>1, <1>3, OnwardKept DEF SameCounts
<1>6. \A o \in Outcome : Kept(r, Finish(r, o)) /\ Kept(r, Finish(q, o))
  <2>1. \A o \in Outcome : SameCounts(r, Finish(r, o)) /\ SameCounts(r, Finish(q, o))
    BY <1>1, <1>3, FinishCounts DEF SameCounts
  <2>2. QED
    BY <1>1, <1>3, <2>1, FinishCounts, OverKept
<1>7. QED
  BY <1>1, <1>2, <1>4, <1>5, <1>6, QuietStep

LEMMA VerifyAccounts == ASSUME AccountInv, NEW s \in Session, FinalVerify(s) PROVE AccountInv'
<1>1. run[s] \in RunRecord /\ Tries(run[s]) /\ Pushes(run[s]) /\ effects' = effects
  BY AccountsOf DEF FinalVerify
<1>2. PICK o \in Outcome : run' = [run EXCEPT ![s] = Finish(run[s], o)]
  BY DEF FinalVerify, Outcome
<1>3. Kept(run[s], Finish(run[s], o))
  BY <1>1, FinishKept
<1>4. RunInv'
  BY VerifyKeeps DEF AccountInv
<1>5. QED
  BY <1>1, <1>2, <1>3, <1>4, QuietStep

\* The queue appends what was pushed, and the manifest is written when it is empty.
LEMMA RecordingAccounts ==
    ASSUME AccountInv, NEW s \in Session, Flush(s) \/ FlushFails(s) \/ WriteManifest(s) \/ Crash(s)
    PROVE  AccountInv'
<1> DEFINE r == run[s]
           to(pc) == [r EXCEPT !.pc = pc]
           flushed == [r EXCEPT !.flushed = @ + 1]
<1>1. r \in RunRecord /\ Tries(r) /\ Pushes(r) /\ effects' = effects /\ r.pc \notin {"idle", "ended"}
  BY AccountsOf DEF Flush, FlushFails, WriteManifest, Crash, Active
<1>2. RunInv'
  BY RecordingKeeps DEF AccountInv
<1>3. CASE Flush(s)
  <2>1. r.flushed + 1 \in Nat /\ r.flushed < r.pushed /\ r.pushed \in Nat /\ r.flushed \in Nat
    BY <1>1, <1>3 DEF RunRecord, Flush
  <2>2. flushed \in RunRecord /\ flushed.pc = r.pc /\ flushed.pos = r.pos /\ flushed.completed = r.completed
        /\ flushed.resume = r.resume /\ flushed.attempt = r.attempt /\ flushed.landed = r.landed
        /\ flushed.pushed = r.pushed /\ flushed.flushed = r.flushed + 1
    BY <1>1, <2>1 DEF RunRecord
  <2>3. run' = [run EXCEPT ![s] = flushed]
    BY <1>3 DEF Flush, AccountInv, RunInv
  <2> HIDE DEF flushed
  <2>4. \A x \in Step : \A k \in 1 .. Attempts[x] : Spent(r, x, k) => Spent(flushed, x, k)
    BY <1>1, <2>2, StayingSpends
  <2>5. Pushes(flushed) /\ Tries(flushed)
    BY <1>1, <2>1, <2>2 DEF Pushes, Tries, Own
  <2>6. QED
    BY <1>1, <1>2, <2>2, <2>3, <2>4, <2>5, QuietStep DEF Kept
<1>4. CASE FlushFails(s) \/ Crash(s)
  <2>1. PICK pc \in {"threw", "crashed"} : run' = [run EXCEPT ![s] = to(pc)]
    BY <1>4 DEF FlushFails, Crash, AccountInv, RunInv
  <2>2. to(pc) \in RunRecord /\ to(pc).pc = pc /\ SameCounts(r, to(pc))
    BY <1>1 DEF RunRecord, Pc, SameCounts
  <2>3. QED
    BY <1>1, <1>2, <2>1, <2>2, OverKept, QuietStep
<1>5. CASE WriteManifest(s)
  <2>1. run' = [run EXCEPT ![s] = to("ended")] /\ r.flushed = r.pushed
    BY <1>5 DEF WriteManifest, Flushed, AccountInv, RunInv
  <2>2. to("ended") \in RunRecord /\ to("ended").pc = "ended" /\ SameCounts(r, to("ended"))
    BY <1>1 DEF RunRecord, Pc, SameCounts
  <2>3. \A x \in Step : \A k \in 1 .. Attempts[x] : Spent(r, x, k) => Spent(to("ended"), x, k)
    BY <1>1, <2>2, StayingSpends DEF SameCounts
  <2> HIDE DEF to
  <2>4. Kept(r, to("ended"))
    BY <1>1, <2>1, <2>2, <2>3 DEF Kept, Tries, Pushes, Own, SameCounts
  <2>5. QED
    BY <1>1, <1>2, <2>1, <2>4, QuietStep
<1>6. QED
  BY <1>3, <1>4, <1>5

LEMMA AccountNext == AccountInv /\ [Next]_execVars => AccountInv'
<1> SUFFICES ASSUME AccountInv, [Next]_execVars PROVE AccountInv'
  OBVIOUS
<1>1. CASE UNCHANGED execVars
  <2>1. RunInv'
    BY <1>1, RunNext DEF AccountInv
  <2>2. Begun' = Begun /\ \A x \in Step : SpentOn(x)' = SpentOn(x)
    BY <1>1 DEF execVars, Begun, SpentOn
  <2>3. QED
    BY <1>1, <2>1, <2>2 DEF AccountInv, execVars
<1>2. ASSUME NEW s \in Session, Start(s) \/ Walk(s) \/ HookResolves(s) \/ HookThrows(s)
      PROVE  AccountInv'
  BY <1>2, StartAccounts, SkipAccounts, DispatchAccounts, LandAccounts, ToolAccounts, ModelAccounts,
     HookAccounts, VerifyAccounts, RecordingAccounts DEF Walk
<1>3. QED
  BY <1>1, <1>2 DEF Next

\* The attempts spent on a step are at most those allowed in each session that did not find
\* it on record.
LEMMA SpentWithin ==
    ASSUME AccountInv, NEW x \in Step
    PROVE  LET fresh == {s \in Session : run[s].pc # "idle" /\ x \notin run[s].resume}
           IN  Cardinality(SpentOn(x)) <= Attempts[x] * Cardinality(fresh)
<1> DEFINE fresh == {s \in Session : run[s].pc # "idle" /\ x \notin run[s].resume}
<1>1. fresh \in SUBSET Begun /\ IsFiniteSet(Begun)
  BY DEF Begun, AccountInv
<1>2. IsFiniteSet(fresh) /\ Cardinality(fresh) \in Nat
  BY <1>1, FS_Subset, FS_CardinalityType
<1>3. Attempts[x] \in Nat /\ IsFiniteSet(1 .. Attempts[x]) /\ Cardinality(1 .. Attempts[x]) = Attempts[x]
  BY AttemptsOf, FS_Interval
<1>4. /\ IsFiniteSet(fresh \X (1 .. Attempts[x]))
      /\ Cardinality(fresh \X (1 .. Attempts[x])) = Cardinality(fresh) * Attempts[x]
  BY <1>2, <1>3, FS_Product
<1>5. SpentOn(x) \in SUBSET (fresh \X (1 .. Attempts[x]))
  BY DEF SpentOn, Spent, Begun
<1>6. Cardinality(SpentOn(x)) <= Cardinality(fresh) * Attempts[x]
  BY <1>4, <1>5, FS_Subset
<1>7. Cardinality(fresh) * Attempts[x] = Attempts[x] * Cardinality(fresh)
  BY <1>2, <1>3
<1>8. QED
  BY <1>6, <1>7

\* A step takes effect at most once per attempt and per session that did not find it on
\* record, whatever replies are lost, and a manifest is written over an event for each tool
\* step the run completed (executor.ts:276-292, sequential-queue.ts:13).
THEOREM EffectsAreAccounted == Spec => []RunsAreAccounted
<1>1. ASSUME AccountInv PROVE EffectsAccounted
  <2> SUFFICES ASSUME NEW x \in Step
               PROVE  effects[x] <= Attempts[x]
                        * Cardinality({s \in Session : run[s].pc # "idle" /\ x \notin run[s].resume})
    BY DEF EffectsAccounted
  <2> DEFINE fresh == {s \in Session : run[s].pc # "idle" /\ x \notin run[s].resume}
  <2>1. effects[x] \in Nat /\ effects[x] <= Cardinality(SpentOn(x)) /\ Cardinality(SpentOn(x)) \in Nat
    BY <1>1, SpentIsFinite DEF AccountInv, RunInv
  <2>2. fresh \in SUBSET Begun /\ IsFiniteSet(Begun)
    BY <1>1 DEF Begun, AccountInv
  <2>3. Attempts[x] * Cardinality(fresh) \in Nat
    BY <2>2, AttemptsOf, FS_Subset, FS_CardinalityType
  <2>4. Cardinality(SpentOn(x)) <= Attempts[x] * Cardinality(fresh)
    BY <1>1, SpentWithin
  <2>5. QED
    BY <2>1, <2>3, <2>4
<1>2. AccountInv => ManifestSealsTrajectory
  BY DEF AccountInv, ManifestSealsTrajectory, Pushes, Own
<1>3. AccountInv => RunsAreAccounted
  BY <1>1, <1>2 DEF RunsAreAccounted
<1>4. QED
  BY AccountInit, AccountNext, <1>3, PTL DEF Spec

-----------------------------------------------------------------------------
(* PART 2.  What the sessions of a task guarantee together.                *)

\* A playbook in which every step comes after the model steps whose answers it uses.
UsesInOrder == \A i \in 1 .. Len(Order) : Uses[Order[i]] \subseteq {Order[j] : j \in 1 .. i - 1}

\* The first n steps.
Prefix(n) == {Order[i] : i \in 1 .. n}

\* What a record says of the task: a beginning of the playbook was completed, the answers of
\* its model steps are bound, and it is the whole of it where the log is closed.
Good(ck) ==
    /\ ck \in Checkpoint
    /\ \E n \in 0 .. Len(Order) : ck.done = Prefix(n)
    /\ ck.status = "in_progress" => ck.done \ Deterministic \subseteq ck.bound
    /\ ck.status = "completed" => ck.done = Step

\* One record after another.
Continues(old, new) ==
    /\ new.who = old.who
    /\ old.status = "in_progress"
    /\ old.done \subseteq new.done
    /\ Cardinality(new.done \ old.done) = IF new.status = "completed" THEN 0 ELSE 1
    /\ new.status = "completed" => new.done = Step

\* The log: read and written by one session at a time, or unreadable and of no use to any.
LogHolds ==
    /\ Log!TypeInv
    /\ Log!LogInv \/ (~ Log!Readable /\ \A s \in Session : ~ Log!AtWork(s))
    /\ \A i \in Log!Records : Good(lines[i].body)
    /\ \A i, j \in Log!Records : Log!Precedes(j, i) => Continues(lines[j].body, lines[i].body)

Task == [who : Identity \cup {None}, from : Checkpoint \cup {None}, gated : BOOLEAN, closing : BOOLEAN]

\* A run resumes at a beginning of the playbook, with the answers of its model steps.
Resumed(r) == r.pc # "idle" =>
    /\ \E n \in 0 .. Len(Order) : r.resume = Prefix(n)
    /\ (r.resume \cup r.completed) \ Deterministic \subseteq r.bound
    /\ r.pc \in {"calling", "asking", "hook"} => Order[r.pos] \notin r.resume
    /\ UsesInOrder => r.outcome # "unbound"

\* Where a session that is at work stands to the latest checkpoint.
Following(r, t, i, last) ==
    /\ t.who \in Identity
    /\ r.pc = "idle" => i.phase = "open" /\ t.from = last /\ ~ t.closing
    /\ r.pc # "idle" => t.gated
    /\ t.gated /\ last # None => last.who = t.who
    /\ t.gated /\ last # None /\ (t.closing => i.phase # "open") => last.status = "in_progress"
    /\ r.pc \in AtWork \cup {"draining"} => i.phase = "open"
    /\ r.pc \in AtWork => Done(last) = r.resume \cup Behind(r)
    /\ r.pc = "hook" => Done(last) = Behind(r)
    /\ r.outcome = "success" /\ r.pc \in {"draining", "ended"} => Done(last) = Step
    /\ t.closing => r.pc = "ended"
    /\ r.pc = "hook" /\ i.phase # "open" =>
          /\ i.body \in Checkpoint
          /\ i.body.who = t.who /\ i.body.done = r.completed
          /\ i.body.status = "in_progress" /\ i.body.bound = r.bound
    /\ r.pc = "ended" /\ i.phase # "open" =>
          /\ t.closing /\ i.body \in Checkpoint
          /\ i.body.who = t.who /\ i.body.done = Step
          /\ i.body.status = "completed" /\ Done(last) = Step

\* Where any session stands: one that has not come, one at work, one that is done.
Using(i) == i.phase \notin {"unopened", "over"}

Holds(r, t, i, last) ==
    /\ i.phase = "unopened" => r.pc = "idle" /\ t = NewTask
    /\ r.pc \in AtWork \cup {"hook"} => Using(i)
    /\ Resumed(r)
    /\ Using(i) => Following(r, t, i, last)

\* The inductive invariant of the sessions and their log.
TaskInv ==
    /\ RunInv
    /\ task \in [Session -> Task]
    /\ generation \in Nat /\ moves \in Nat
    /\ LogHolds
    /\ \A s \in Session : Holds(run[s], task[s], io[s], Last)

-----------------------------------------------------------------------------
(* The log, as the sessions see it. *)

\* What the store assumes of its parameters.
LEMMA StoreAssumed == None \notin Checkpoint /\ Careless \subseteq Session /\ MaxSeq \in Nat
  BY ContinuationAssumption, NoCheckpointAssumption

\* The store the sessions use is the one whose log is proved about.
LEMMA SameStore ==
    ASSUME NEW s \in Session
    PROVE  /\ Store!Open(s) <=> Log!Open(s)
           /\ Store!OpenThrows(s) <=> Log!OpenThrows(s)
           /\ \A b : Store!CallAppend(s, b) <=> Log!CallAppend(s, b)
           /\ Store!CheckSeq(s) <=> Log!CheckSeq(s)
           /\ Store!RefuseSeq(s) <=> Log!RefuseSeq(s)
           /\ Store!LookAtEnd(s) <=> Log!LookAtEnd(s)
           /\ Store!Write(s) <=> Log!Write(s)
           /\ Store!WriteCut(s) <=> Log!WriteCut(s)
           /\ Store!Close(s) <=> Log!Close(s)
<1>1. Store!Readable = Log!Readable /\ Store!NextSeq = Log!NextSeq
      /\ \A t \in Session : Store!AtWork(t) = Log!AtWork(t)
  BY DEF Store!Readable, Log!Readable, Store!NextSeq, Log!NextSeq, Store!Records, Log!Records,
         Store!Latest, Log!Latest, Store!IsLast, Log!IsLast, Store!AtWork, Log!AtWork
<1>2. Store!Torn = Log!Torn /\ \A n, b : Store!RecordOf(n, b) = Log!RecordOf(n, b)
  BY DEF Store!Torn, Log!Torn, Store!RecordOf, Log!RecordOf
<1>3. \A newline, line : Store!Written(newline, line) = Log!Written(newline, line)
  BY DEF Store!Written, Log!Written, Store!Glued, Log!Glued, Store!Torn, Log!Torn, Store!Garbled, Log!Garbled
<1>4. Store!Open(s) <=> Log!Open(s)
  BY <1>1 DEF Store!Open, Log!Open
<1>5. Store!OpenThrows(s) <=> Log!OpenThrows(s)
  BY <1>1 DEF Store!OpenThrows, Log!OpenThrows
<1>6. \A b : Store!CallAppend(s, b) <=> Log!CallAppend(s, b)
  BY DEF Store!CallAppend, Log!CallAppend
<1>7. (Store!CheckSeq(s) <=> Log!CheckSeq(s)) /\ (Store!RefuseSeq(s) <=> Log!RefuseSeq(s))
  BY <1>1 DEF Store!CheckSeq, Log!CheckSeq, Store!RefuseSeq, Log!RefuseSeq
<1>8. Store!LookAtEnd(s) <=> Log!LookAtEnd(s)
  BY DEF Store!LookAtEnd, Log!LookAtEnd, Store!EndsWithoutNewline, Log!EndsWithoutNewline
<1>9. Store!Write(s) <=> Log!Write(s)
  BY <1>2, <1>3 DEF Store!Write, Log!Write
<1>10. Store!WriteCut(s) <=> Log!WriteCut(s)
  BY <1>2, <1>3 DEF Store!WriteCut, Log!WriteCut, Store!Partial, Log!Partial
<1>11. Store!Close(s) <=> Log!Close(s)
  BY <1>1 DEF Store!Close, Log!Close
<1>12. QED
  BY <1>4, <1>5, <1>6, <1>7, <1>8, <1>9, <1>10, <1>11

\* The latest checkpoint is the body of the log's last record.
LEMMA LastIs ==
    /\ Last = Log!LastBody /\ Store!Records = Log!Records
    /\ \A i, j : Store!Precedes(i, j) <=> Log!Precedes(i, j)
  BY DEF Last, Log!LastBody, Store!Records, Log!Records, Store!Latest, Log!Latest, Store!IsLast, Log!IsLast,
         Store!Precedes, Log!Precedes

LEMMA LastIsThen ==
    /\ Last' = Log!LastBody' /\ Store!Records' = Log!Records'
    /\ \A i, j : Store!Precedes(i, j)' <=> Log!Precedes(i, j)'
  BY DEF Last, Log!LastBody, Store!Records, Log!Records, Store!Latest, Log!Latest, Store!IsLast, Log!IsLast,
         Store!Precedes, Log!Precedes

\* What a session finds: no checkpoint, or a good one.
LEMMA LatestGood ==
    ASSUME LogHolds
    PROVE  /\ Last = None => Log!Records = {}
           /\ Last # None => Good(Last) /\ \E i \in Log!Records : Log!IsLast(i) /\ Last = lines[i].body
           /\ Done(Last) \subseteq Step /\ \E n \in 0 .. Len(Order) : Done(Last) = Prefix(n)
<1>1. Log!LastBodyFacts
  BY StoreAssumed, Log!LastBodyIs DEF LogHolds, Log!TypeInv
<1>2. CASE Log!Records = {}
  <2>1. Last = None /\ Done(Last) = {}
    BY <1>1, <1>2, LastIs DEF Log!LastBodyFacts, Done
  <2>2. Prefix(0) = {} /\ 0 \in 0 .. Len(Order)
    BY Listing DEF Prefix
  <2>3. QED
    BY <1>2, <2>1, <2>2
<1>3. CASE Log!Records # {}
  <2>1. PICK i \in Log!Records : Log!IsLast(i) /\ Last = lines[i].body
    BY <1>1, <1>3, LastIs DEF Log!LastBodyFacts
  <2>2. Good(Last)
    BY <2>1 DEF LogHolds
  <2>3. Last # None /\ Done(Last) = Last.done
    BY <2>2, NoCheckpointAssumption DEF Good, Done
  <2>4. QED
    BY <2>1, <2>2, <2>3 DEF Good, Checkpoint
<1>4. QED
  BY <1>2, <1>3

\* No session of the task is careless: they are all undisturbed.
LEMMA NobodyCareless == Careless = {} => Log!Undisturbed /\ Log!Undisturbed'
  BY DEF Log!Undisturbed

\* A step of the store keeps the log sound, or leaves it as unreadable as it was.
LEMMA LogStateKept ==
    ASSUME Careless = {}, LogHolds, [Log!StoreNext]_(Log!storeVars)
    PROVE  /\ Log!TypeInv'
           /\ (Log!LogInv \/ (~ Log!Readable /\ \A s \in Session : ~ Log!AtWork(s)))'
           /\ Log!LogInv => Log!LogInv'
<1>1. Log!TypeInv'
  BY StoreAssumed, Log!TypeNext DEF LogHolds
<1>2. CASE Log!LogInv
  BY <1>1, <1>2, StoreAssumed, NobodyCareless, Log!LogNext
<1>3. CASE ~ Log!Readable /\ \A s \in Session : ~ Log!AtWork(s)
  <2>1. \A s \in Session : io[s].phase \in {"unopened", "over"}
    BY <1>3 DEF Log!AtWork
  <2>2. CASE UNCHANGED Log!storeVars
    BY <1>1, <1>3, <2>2 DEF Log!storeVars, Log!Readable, Log!AtWork, Log!LogInv
  <2>3. ASSUME NEW s \in Session, Log!OpenThrows(s)
        PROVE  (~ Log!Readable /\ \A t \in Session : ~ Log!AtWork(t))'
    <3>1. lines' = lines /\ io' = [io EXCEPT ![s].phase = "over"]
      BY <2>3 DEF Log!OpenThrows
    <3>2. ASSUME NEW t \in Session PROVE io'[t].phase \in {"unopened", "over"}
      BY <2>1, <3>1 DEF LogHolds, Log!TypeInv, Log!StoreTypeOK
    <3>3. QED
      BY <1>3, <3>1, <3>2 DEF Log!Readable, Log!AtWork
  <2>4. Log!StoreNext => \E s \in Session : Log!OpenThrows(s)
    BY <1>3, <2>1 DEF Log!StoreNext, Log!Open, Log!CallAppend, Log!CheckSeq, Log!RefuseSeq, Log!LookAtEnd,
                      Log!Write, Log!WriteCut, Log!Close, Log!AtWork
  <2>5. QED
    BY <1>1, <1>3, <2>2, <2>3, <2>4 DEF Log!LogInv
<1>4. QED
  BY <1>2, <1>3 DEF LogHolds

\* A step that does not write to the file.
LEMMA LogUntouched ==
    ASSUME Careless = {}, LogHolds, [Log!StoreNext]_(Log!storeVars), UNCHANGED lines
    PROVE  LogHolds' /\ Last' = Last
<1>1. Log!Records' = Log!Records /\ \A i, j : Log!Precedes(i, j)' <=> Log!Precedes(i, j)
  BY DEF Log!Records, Log!Precedes
<1>2. Last' = Last
  BY DEF Last, Store!Records, Store!Latest, Store!IsLast
<1>3. QED
  BY <1>1, <1>2, LogStateKept DEF LogHolds

\* A fragment of a record is none.
LEMMA LogTorn ==
    ASSUME Careless = {}, LogHolds, [Log!StoreNext]_(Log!storeVars), lines' = Append(lines, Log!Torn)
    PROVE  LogHolds' /\ Last' = Last
<1>1. Log!StoreTypeOK /\ Log!StoreTypeOK'
  BY LogStateKept DEF LogHolds, Log!TypeInv
<1>2. Log!Torn \in Log!Line /\ Log!Torn.kind # "record"
  BY DEF Log!Torn, Log!Line
<1>3. /\ Log!Records \subseteq 1 .. Len(lines) /\ Log!Records' = Log!Records
      /\ \A i \in 1 .. Len(lines) : lines'[i] = lines[i]
  BY <1>1, <1>2, StoreAssumed, Log!OneMoreLine
<1>4. Last' = Last
  BY <1>1, <1>2, StoreAssumed, Log!LastBodyAfter, LastIs, LastIsThen
<1>5. \A i, j : Log!Precedes(i, j)' <=> Log!Precedes(i, j)
  BY <1>3 DEF Log!Precedes
<1>6. QED
  BY <1>3, <1>4, <1>5, LogStateKept DEF LogHolds

\* One more record: a good one that continues the latest.
LEMMA LogGrows ==
    ASSUME Careless = {}, LogHolds, [Log!StoreNext]_(Log!storeVars), NEW n \in Nat, NEW ck, Good(ck),
           Last # None => Continues(Last, ck), lines' = Append(lines, Log!RecordOf(n, ck))
    PROVE  LogHolds' /\ Last' = ck
<1> DEFINE new == Len(lines) + 1
           line == Log!RecordOf(n, ck)
<1>1. Log!StoreTypeOK /\ Log!StoreTypeOK'
  BY LogStateKept DEF LogHolds, Log!TypeInv
<1>2. line \in Log!Line /\ line.kind = "record" /\ line.body = ck
  BY DEF Log!RecordOf, Log!Line, Good
<1> HIDE DEF line
<1>3. lines' = Append(lines, line)
  BY DEF line
<1>4. /\ Len(lines) \in Nat /\ Log!Records \subseteq 1 .. Len(lines) /\ Log!Records' = Log!Records \cup {new}
      /\ (\A i \in 1 .. Len(lines) : lines'[i] = lines[i]) /\ lines'[new] = line
  BY <1>1, <1>2, <1>3, StoreAssumed, Log!OneMoreLine
<1>5. Last' = ck
  BY <1>1, <1>2, <1>3, StoreAssumed, Log!LastBodyAfter, LastIsThen
<1>6. \A i \in Log!Records' : Good(lines'[i].body)
  BY <1>2, <1>4 DEF LogHolds
<1>7. ASSUME NEW i \in Log!Records', NEW j \in Log!Records', Log!Precedes(j, i)'
      PROVE  Continues(lines'[j].body, lines'[i].body)
  <2>1. CASE i \in Log!Records
    <3>1. j \in Log!Records /\ Log!Precedes(j, i)
      BY <1>4, <1>7, <2>1 DEF Log!Precedes
    <3>2. Continues(lines[j].body, lines[i].body)
      BY <2>1, <3>1 DEF LogHolds
    <3>3. QED
      BY <1>4, <2>1, <3>1, <3>2
  <2>2. CASE i = new
    <3>1. j \in Log!Records /\ Log!IsLast(j)
      BY <1>4, <1>7, <2>2 DEF Log!Precedes, Log!IsLast
    <3>2. Last # None /\ Last = lines[j].body
      <4>1. PICK k \in Log!Records : Log!IsLast(k) /\ Last = lines[k].body /\ Last # None
        BY <3>1, LatestGood
      <4>2. k = j
        BY <1>4, <3>1, <4>1 DEF Log!IsLast
      <4>3. QED
        BY <4>1, <4>2
    <3>3. lines'[j].body = Last /\ lines'[i].body = ck
      BY <1>2, <1>4, <2>2, <3>1, <3>2
    <3>4. QED
      BY <3>2, <3>3
  <2>3. QED
    BY <1>4, <2>1, <2>2
<1>8. QED
  BY <1>5, <1>6, <1>7, LogStateKept DEF LogHolds

-----------------------------------------------------------------------------
(* The steps of one run. *)

\* What comes before a step that is not in a beginning of the playbook covers it.
LEMMA PrefixBelow ==
    ASSUME NEW n \in 0 .. Len(Order), NEW p \in 1 .. Len(Order), Order[p] \notin Prefix(n)
    PROVE  Prefix(n) \subseteq Prefix(p - 1)
<1>1. n < p
  BY Listing DEF Prefix
<1>2. QED
  BY <1>1, Listing DEF Prefix

\* A step is not among those before it.
LEMMA NotBefore ==
    ASSUME NEW p \in 1 .. Len(Order) PROVE Order[p] \notin Prefix(p - 1)
  BY Listing, PlaybookAssumption DEF Prefix

LEMMA BehindIs == ASSUME NEW r PROVE Behind(r) = Prefix(r.pos - 1)
  BY DEF Behind, Prefix

\* A run that ends keeps its place in the task; one that ends in success found every step
\* on record.
LEMMA OverHolds ==
    ASSUME NEW r, NEW t, NEW i, NEW last, Holds(r, t, i, last),
           r.pc \in AtWork \cup {"hook", "draining"},
           NEW q, q.pc \in Over, q.resume = r.resume, q.completed = r.completed, r.bound \subseteq q.bound,
           UsesInOrder => q.outcome # "unbound",
           q.outcome = "success" /\ q.pc \in {"draining", "ended"} /\ Using(i) => Done(last) = Step,
           q.pc \in {"draining", "ended"} /\ Using(i) => i.phase = "open"
    PROVE  Holds(q, t, i, last)
<1>1. r.pc # "idle" /\ r.pc # "ended"
  BY DEF AtWork
<1>2. q.pc # "idle" /\ q.pc \notin AtWork \cup {"hook", "calling", "asking"}
  BY DEF AtWork, Over
<1>3. Resumed(q)
  BY <1>1, <1>2 DEF Holds, Resumed
<1>4. Using(i) => Following(q, t, i, last)
  BY <1>1, <1>2 DEF Holds, Following, AtWork
<1>5. QED
  BY <1>1, <1>2, <1>3, <1>4 DEF Holds

\* A run that goes on, within the steps it resumed with or beyond them.
LEMMA WorkHolds ==
    ASSUME NEW r, NEW t, NEW i, NEW last, Holds(r, t, i, last), r.pc \in AtWork,
           NEW q, q.pc \in AtWork, q.resume = r.resume, q.outcome = "none",
           q.resume \cup Behind(q) = r.resume \cup Behind(r),
           (q.resume \cup q.completed) \ Deterministic \subseteq q.bound,
           q.pc \in {"calling", "asking"} => Order[q.pos] \notin q.resume
    PROVE  Holds(q, t, i, last)
<1>1. r.pc # "idle" /\ r.pc # "ended" /\ q.pc # "idle" /\ q.pc \notin {"hook", "draining", "ended"}
  BY DEF AtWork
<1>2. Resumed(q)
  BY <1>1 DEF Holds, Resumed
<1>3. Using(i) => Following(q, t, i, last)
  BY <1>1 DEF Holds, Following
<1>4. QED
  BY <1>1, <1>2, <1>3 DEF Holds

\* A run whose step held waits for its checkpoint, with every step before it on record.
LEMMA HookHolds ==
    ASSUME NEW r \in RunRecord, Sound(r), NEW t, NEW i, NEW last, Holds(r, t, i, last),
           r.pc \in {"calling", "asking"},
           NEW q, q.pc = "hook", q.pos = r.pos, q.resume = r.resume, q.outcome = "none",
           q.completed = r.completed \cup {Order[r.pos]},
           r.bound \subseteq q.bound, {Order[r.pos]} \ Deterministic \subseteq q.bound
    PROVE  Holds(q, t, i, last)
<1>1. r.pos \in 1 .. Len(Order)
  BY Listing DEF Sound, Placed, RunRecord
<1>2. PICK n \in 0 .. Len(Order) : r.resume = Prefix(n)
  BY DEF Holds, Resumed
<1>3. Order[r.pos] \notin r.resume
  BY DEF Holds, Resumed
<1>4. r.resume \subseteq Behind(r) /\ Behind(q) = Behind(r)
  BY <1>1, <1>2, <1>3, PrefixBelow DEF Behind, Prefix
<1>5. Resumed(q)
  BY <1>3 DEF Holds, Resumed
<1>6. Using(i) /\ Following(r, t, i, last)
  BY DEF Holds, AtWork
<1>7. i.phase = "open" /\ Done(last) = Behind(q) /\ t.gated /\ ~ t.closing
  BY <1>4, <1>6 DEF Following, AtWork
<1>8. Following(q, t, i, last)
  BY <1>6, <1>7 DEF Following, AtWork
<1>9. QED
  BY <1>5, <1>6, <1>8 DEF Holds, Using

LEMMA SkipHolds ==
    ASSUME RunInv, NEW s \in Session, NEW t, NEW i, NEW last, Holds(run[s], t, i, last), Skip(s)
    PROVE  Holds(run'[s], t, i, last)
<1> DEFINE r == run[s]
           q == [r EXCEPT !.completed = @ \cup {Cur(s)}]
<1>1. r \in RunRecord /\ Sound(r) /\ r.pc = "step" /\ r.pos <= Len(Order) /\ Order[r.pos] \in r.resume
  BY DEF RunInv, Skip, More, Cur
<1>2. q \in RunRecord /\ q.completed = r.completed \cup {Order[r.pos]} /\ q.pos = r.pos
      /\ q.resume = r.resume /\ q.outcome = r.outcome /\ q.bound = r.bound
  BY <1>1, Listing DEF RunRecord, Cur
<1>3. run'[s] = Onward(q)
  BY DEF Skip, RunInv
<1> HIDE DEF q
<1>4. Onward(q) \in RunRecord /\ Onward(q).pc = "step" /\ Onward(q).pos = r.pos + 1
      /\ Onward(q).completed = r.completed \cup {Order[r.pos]} /\ Onward(q).resume = r.resume
      /\ Onward(q).outcome = "none" /\ Onward(q).bound = r.bound
  BY <1>1, <1>2, OnwardFacts DEF Sound, Placed, AtWork, Over
<1>5. Behind(Onward(q)) = Behind(r) \cup {Order[r.pos]}
  BY <1>1, <1>4, OneMoreBehind
<1>6. (r.resume \cup r.completed) \ Deterministic \subseteq r.bound
  BY <1>1 DEF Holds, Resumed
<1>7. Holds(Onward(q), t, i, last)
  BY <1>1, <1>4, <1>5, <1>6, WorkHolds DEF AtWork
<1>8. QED
  BY <1>3, <1>7

\* A dispatch takes up a step that is not on record; it finds the answers its templates use,
\* because every model step before it is bound.
LEMMA DispatchHolds ==
    ASSUME RunInv, NEW s \in Session, NEW t, NEW i, NEW last, Holds(run[s], t, i, last),
           Dispatch(s) \/ Unbound(s)
    PROVE  Holds(run'[s], t, i, last)
<1> DEFINE r == run[s]
<1>1. r \in RunRecord /\ Sound(r) /\ r.pc = "step" /\ r.pos \in 1 .. Len(Order) /\ Order[r.pos] \notin r.resume
  BY Listing DEF RunInv, Dispatch, Unbound, AtStep, More, Cur, RunRecord
<1>2. r.completed = Behind(r) /\ r.outcome = "none" /\ (r.resume \cup r.completed) \ Deterministic \subseteq r.bound
  BY <1>1 DEF Sound, Placed, AtWork, Over, Holds, Resumed
<1>3. CASE Dispatch(s)
  <2> DEFINE pc == IF Cur(s) \in Deterministic THEN "calling" ELSE "asking"
             q == [r EXCEPT !.attempt = @ + 1, !.pc = pc]
  <2>1. q.pc = pc /\ q.pos = r.pos /\ q.completed = r.completed /\ q.resume = r.resume
        /\ q.outcome = r.outcome /\ q.bound = r.bound
    BY <1>1 DEF RunRecord
  <2>2. Behind(q) = Behind(r)
    BY <2>1 DEF Behind
  <2>3. run'[s] = q
    BY <1>3 DEF Dispatch, RunInv
  <2>4. pc \in AtWork
    BY DEF AtWork
  <2> HIDE DEF q, pc
  <2>5. Holds(q, t, i, last)
    BY <1>1, <1>2, <2>1, <2>2, <2>4, WorkHolds DEF AtWork
  <2>6. QED
    BY <2>3, <2>5
<1>4. CASE Unbound(s)
  <2> DEFINE q == [r EXCEPT !.pc = "threw", !.outcome = "unbound"]
  <2>1. q.pc = "threw" /\ q.resume = r.resume /\ q.completed = r.completed /\ q.bound = r.bound /\ q.outcome = "unbound"
    BY <1>1 DEF RunRecord
  <2>2. run'[s] = q
    BY <1>4 DEF Unbound, RunInv
  <2>3. ~ UsesInOrder
    <3>1. Uses[Order[r.pos]] \subseteq Step \ Deterministic /\ ~ (Uses[Order[r.pos]] \subseteq r.bound)
      BY <1>1, <1>4, Listing, PlaybookAssumption DEF Unbound, Cur
    <3>2. QED
      BY <1>1, <1>2, <3>1 DEF UsesInOrder, Behind
  <2> HIDE DEF q
  <2>4. Holds(q, t, i, last)
    BY <1>1, <2>1, <2>3, OverHolds DEF AtWork, Over
  <2>5. QED
    BY <2>2, <2>4
<1>5. QED
  BY <1>3, <1>4

\* A step that held, and one that failed, field by field.
LEMMA PassedFields ==
    ASSUME NEW q \in RunRecord, Order[q.pos] \in Step, NEW w \in World, NEW obs \in World
    PROVE  /\ Passed(q, w, obs).pc = "hook" /\ Passed(q, w, obs).pos = q.pos
           /\ Passed(q, w, obs).completed = q.completed \cup {Order[q.pos]}
           /\ Passed(q, w, obs).resume = q.resume /\ Passed(q, w, obs).bound = q.bound
           /\ Passed(q, w, obs).outcome = q.outcome
  BY DEF Passed, RunRecord

LEMMA FailedFields ==
    ASSUME NEW q \in RunRecord, NEW w \in World
    PROVE  /\ Failed(q, w).pc \in {"step", "draining"} /\ Failed(q, w).pos = q.pos
           /\ Failed(q, w).completed = q.completed
           /\ Failed(q, w).resume = q.resume /\ Failed(q, w).bound = q.bound
           /\ Failed(q, w).outcome = IF Failed(q, w).pc = "step" THEN q.outcome ELSE "fallback"
<1>1. CASE Retries(q)
  BY <1>1 DEF Failed, RunRecord
<1>2. CASE ~ Retries(q)
  BY <1>2 DEF Failed, Finish, RunRecord
<1>3. QED
  BY <1>1, <1>2

\* A call or a question is answered: the step held, or it failed.
LEMMA AnswerHolds ==
    ASSUME NEW r \in RunRecord, Sound(r), r.pc \in {"calling", "asking"},
           NEW t, NEW i, NEW last, Holds(r, t, i, last),
           NEW q \in RunRecord, q.pos = r.pos, q.completed = r.completed, q.resume = r.resume,
           q.outcome = r.outcome, r.bound \subseteq q.bound, {Order[r.pos]} \ Deterministic \subseteq q.bound,
           NEW w \in World
    PROVE  Holds(Failed(q, w), t, i, last) /\ \A obs \in World : Holds(Passed(q, w, obs), t, i, last)
<1>1. r.outcome = "none" /\ r.pos \in 1 .. Len(Order) /\ Order[r.pos] \in Step
  BY Listing DEF Sound, Placed, Over, RunRecord
<1>2. ASSUME NEW obs \in World PROVE Holds(Passed(q, w, obs), t, i, last)
  <2>1. /\ Passed(q, w, obs).pc = "hook" /\ Passed(q, w, obs).pos = r.pos
        /\ Passed(q, w, obs).completed = r.completed \cup {Order[r.pos]}
        /\ Passed(q, w, obs).resume = r.resume /\ Passed(q, w, obs).bound = q.bound
        /\ Passed(q, w, obs).outcome = "none"
    BY <1>1, PassedFields
  <2>2. QED
    BY <2>1, HookHolds
<1>3. Holds(Failed(q, w), t, i, last)
  <2>1. /\ Failed(q, w).pc \in {"step", "draining"} /\ Failed(q, w).pos = r.pos
        /\ Failed(q, w).completed = r.completed
        /\ Failed(q, w).resume = r.resume /\ Failed(q, w).bound = q.bound
        /\ Failed(q, w).outcome = IF Failed(q, w).pc = "step" THEN "none" ELSE "fallback"
    BY <1>1, FailedFields
  <2>2. CASE Failed(q, w).pc = "step"
    <3>1. Behind(Failed(q, w)) = Behind(r)
      BY <2>1 DEF Behind
    <3>2. (r.resume \cup r.completed) \ Deterministic \subseteq q.bound
      BY DEF Holds, Resumed
    <3>3. QED
      BY <2>1, <2>2, <3>1, <3>2, WorkHolds DEF AtWork
  <2>3. CASE Failed(q, w).pc = "draining"
    <3>1. Using(i) => i.phase = "open"
      BY DEF Holds, Following, AtWork
    <3>2. QED
      BY <2>1, <2>3, <3>1, OverHolds DEF AtWork, Over
  <2>4. QED
    BY <2>1, <2>2, <2>3
<1>4. QED
  BY <1>2, <1>3

LEMMA RecordFields ==
    ASSUME NEW r \in RunRecord
    PROVE  Record(r) \in RunRecord /\ Record(r).bound = r.bound
<1>1. r.pushed + 1 \in Nat
  BY DEF RunRecord
<1>2. QED
  BY <1>1 DEF Record, RunRecord

LEMMA ToolHolds ==
    ASSUME RunInv, NEW s \in Session, NEW t, NEW i, NEW last, Holds(run[s], t, i, last),
           ToolFails(s) \/ ToolPasses(s) \/ ExpectFails(s)
    PROVE  Holds(run'[s], t, i, last)
<1> DEFINE r == run[s]
<1>1. r \in RunRecord /\ Sound(r) /\ r.pc = "calling" /\ r.world \in World
  BY DEF RunInv, ToolFails, ToolPasses, ExpectFails, RunRecord
<1>2. \A obs \in Answer : obs \in World /\ Merge(r.world, obs) \in World
  BY <1>1, Merged, ChecksAssumption
<1>3. Order[r.pos] \in Deterministic
  BY <1>1 DEF Sound, Placed
<1>4. \A w \in World : /\ Holds(Failed(Record(r), w), t, i, last)
                       /\ \A obs \in World : Holds(Passed(Record(r), w, obs), t, i, last)
  BY <1>1, <1>3, RecordFacts, RecordFields, AnswerHolds
<1>5. \/ run'[s] = Failed(Record(r), r.world)
      \/ \E obs \in Answer : \/ run'[s] = Failed(Record(r), Merge(r.world, obs))
                             \/ run'[s] = Passed(Record(r), Merge(r.world, obs), obs)
  BY DEF ToolFails, ToolPasses, ExpectFails, RunInv
<1>6. QED
  BY <1>1, <1>2, <1>4, <1>5

LEMMA ModelHolds ==
    ASSUME RunInv, NEW s \in Session, NEW t, NEW i, NEW last, Holds(run[s], t, i, last),
           ModelAnswers(s) \/ ModelThrows(s)
    PROVE  Holds(run'[s], t, i, last)
<1> DEFINE r == run[s]
<1>1. r \in RunRecord /\ Sound(r) /\ r.pc = "asking" /\ r.world \in World
      /\ r.outcome = "none" /\ Order[r.pos] \in Step \ Deterministic
  BY Listing DEF RunInv, ModelAnswers, ModelThrows, RunRecord, Sound, Placed, Over
<1>2. CASE ModelAnswers(s)
  <2> DEFINE obs(v) == [page |-> v, exit_code |-> None, output |-> v]
             q == Bind(r, Cur(s))
  <2>1. PICK v \in Value :
          run'[s] = IF Accepts(Expect[Cur(s)], Merge(r.world, obs(v)))
                    THEN Passed(q, Merge(r.world, obs(v)), obs(v))
                    ELSE Failed(q, Merge(r.world, obs(v)))
    BY <1>2 DEF ModelAnswers, RunInv
  <2>2. obs(v) \in World
    BY DEF World, Field
  <2>3. Merge(r.world, obs(v)) \in World
    BY <1>1, <2>2, Merged
  <2>4. q \in RunRecord /\ q.pos = r.pos /\ q.completed = r.completed /\ q.resume = r.resume
        /\ q.outcome = r.outcome /\ q.bound = r.bound \cup {Order[r.pos]}
    BY <1>1 DEF Bind, RunRecord, Cur
  <2> HIDE DEF q, obs
  <2>5. /\ Holds(Failed(q, Merge(r.world, obs(v))), t, i, last)
        /\ Holds(Passed(q, Merge(r.world, obs(v)), obs(v)), t, i, last)
    BY <1>1, <2>2, <2>3, <2>4, AnswerHolds
  <2>6. QED
    BY <2>1, <2>5
<1>3. CASE ModelThrows(s)
  <2> DEFINE q == [r EXCEPT !.pc = "threw"]
  <2>1. q.pc = "threw" /\ q.completed = r.completed /\ q.resume = r.resume /\ q.bound = r.bound
        /\ q.outcome = "none"
    BY <1>1 DEF RunRecord
  <2>2. run'[s] = q
    BY <1>3 DEF ModelThrows, RunInv
  <2> HIDE DEF q
  <2>3. Holds(q, t, i, last)
    BY <1>1, <2>1, OverHolds DEF AtWork, Over
  <2>4. QED
    BY <2>2, <2>3
<1>4. QED
  BY <1>2, <1>3

\* Everything a run does by itself leaves its session where it stands.
LEMMA WalkHolds ==
    ASSUME RunInv, NEW s \in Session, NEW t, NEW i, NEW last, Holds(run[s], t, i, last), Walk(s)
    PROVE  Holds(run'[s], t, i, last)
<1> DEFINE r == run[s]
           to(pc) == [r EXCEPT !.pc = pc]
<1>1. r \in RunRecord /\ Sound(r)
  BY DEF RunInv
<1>2. CASE Land(s)
  <2> DEFINE q == [r EXCEPT !.landed = TRUE]
  <2>1. q.pc = "calling" /\ q.pos = r.pos /\ q.completed = r.completed /\ q.resume = r.resume
        /\ q.bound = r.bound /\ q.outcome = r.outcome /\ r.pc = "calling" /\ r.outcome = "none"
    BY <1>1, <1>2 DEF Land, RunRecord, Sound, Placed, Over
  <2>2. run'[s] = q
    BY <1>2 DEF Land, RunInv
  <2>3. Behind(q) = Behind(r)
    BY <2>1 DEF Behind
  <2>4. (r.resume \cup r.completed) \ Deterministic \subseteq r.bound /\ Order[r.pos] \notin r.resume
    BY <2>1 DEF Holds, Resumed
  <2> HIDE DEF q
  <2>5. Holds(q, t, i, last)
    BY <2>1, <2>3, <2>4, WorkHolds DEF AtWork
  <2>6. QED
    BY <2>2, <2>5
<1>3. CASE FinalVerify(s)
  <2>1. r.pc = "step" /\ r.pos = Len(Order) + 1 /\ r.outcome = "none"
    BY <1>1, <1>3, Listing DEF FinalVerify, More, Sound, Placed, AtWork, Over, RunRecord
  <2>2. Using(i) => Done(last) = Step /\ i.phase = "open"
    <3>1. Behind(r) = Step /\ r.resume \subseteq Step
      BY <1>1, <2>1, Listing DEF RunRecord
    <3>2. QED
      BY <2>1, <3>1 DEF Holds, Following, AtWork
  <2>3. PICK o \in {"success", "verify_failed"} : run'[s] = Finish(r, o)
    BY <1>3 DEF FinalVerify, RunInv
  <2>4. /\ Finish(r, o).pc = "draining" /\ Finish(r, o).outcome = o
        /\ Finish(r, o).completed = r.completed /\ Finish(r, o).resume = r.resume
        /\ Finish(r, o).bound = r.bound
    BY <1>1, FinishFacts DEF Outcome
  <2>5. Holds(Finish(r, o), t, i, last)
    BY <2>1, <2>2, <2>4, OverHolds DEF AtWork, Over
  <2>6. QED
    BY <2>3, <2>5
<1>4. CASE Flush(s)
  <2> DEFINE q == [r EXCEPT !.flushed = @ + 1]
  <2>1. q.pc = r.pc /\ q.pos = r.pos /\ q.completed = r.completed /\ q.resume = r.resume
        /\ q.bound = r.bound /\ q.outcome = r.outcome
    BY <1>1 DEF RunRecord
  <2>2. run'[s] = q
    BY <1>4 DEF Flush, RunInv
  <2>3. Behind(q) = Behind(r)
    BY <2>1 DEF Behind
  <2> HIDE DEF q
  <2>4. Holds(q, t, i, last)
    BY <2>1, <2>3 DEF Holds, Resumed, Following
  <2>5. QED
    BY <2>2, <2>4
<1>5. CASE FlushFails(s) \/ WriteManifest(s) \/ Crash(s)
  <2>1. r.pc \in AtWork \cup {"hook", "draining"}
    BY <1>1, <1>5 DEF FlushFails, WriteManifest, Crash, Active, RunRecord, Pc, AtWork
  <2>2. PICK pc \in {"threw", "crashed", "ended"} : run'[s] = to(pc) /\ (pc = "ended" => r.pc = "draining")
    BY <1>5 DEF FlushFails, WriteManifest, Crash, RunInv
  <2>3. to(pc).pc = pc /\ to(pc).completed = r.completed /\ to(pc).resume = r.resume
        /\ to(pc).bound = r.bound /\ to(pc).outcome = r.outcome
    BY <1>1 DEF RunRecord
  <2>4. UsesInOrder => r.outcome # "unbound"
    BY <2>1 DEF Holds, Resumed, AtWork
  <2>5. pc = "ended" /\ Using(i) => i.phase = "open" /\ (r.outcome = "success" => Done(last) = Step)
    BY <2>2 DEF Holds, Following
  <2> HIDE DEF to
  <2>6. Holds(to(pc), t, i, last)
    BY <2>1, <2>2, <2>3, <2>4, <2>5, OverHolds DEF Over
  <2>7. QED
    BY <2>2, <2>6
<1>6. QED
  BY <1>2, <1>3, <1>4, <1>5, SkipHolds, DispatchHolds, ToolHolds, ModelHolds DEF Walk

-----------------------------------------------------------------------------
(* The steps of a session. *)

\* A step of one session keeps what the others hold.
LEMMA OneSession ==
    ASSUME TaskInv, NEW s \in Session, RunInv', task' \in [Session -> Task], generation' \in Nat, moves' \in Nat,
           LogHolds',
           \A t \in Session \ {s} : run'[t] = run[t] /\ task'[t] = task[t] /\ io'[t] = io[t],
           Last' = Last \/ \A t \in Session \ {s} : ~ Using(io[t]),
           Holds(run'[s], task'[s], io'[s], Last')
    PROVE  TaskInv'
<1>1. ASSUME NEW t \in Session \ {s} PROVE Holds(run'[t], task'[t], io'[t], Last')
  <2>1. Holds(run[t], task[t], io[t], Last)
    BY DEF TaskInv
  <2>2. CASE Last' = Last
    BY <2>1, <2>2
  <2>3. CASE ~ Using(io[t])
    <3>1. Holds(run[t], task[t], io[t], Last')
      BY <2>1, <2>3 DEF Holds
    <3>2. QED
      BY <3>1
  <2>4. QED
    BY <2>2, <2>3
<1>2. QED
  BY <1>1 DEF TaskInv

\* What a step of a session finds.
LEMMA Found ==
    ASSUME TaskInv, NEW s \in Session
    PROVE  /\ RunInv /\ LogHolds
           /\ run \in [Session -> RunRecord] /\ run[s] \in RunRecord /\ Sound(run[s])
           /\ task \in [Session -> Task] /\ task[s] \in Task
           /\ io \in [Session -> Log!IO] /\ io[s] \in Log!IO
           /\ generation \in Nat /\ moves \in Nat
           /\ Holds(run[s], task[s], io[s], Last)
           /\ Using(io[s]) <=> Log!AtWork(s)
  BY DEF TaskInv, RunInv, LogHolds, Log!TypeInv, Log!StoreTypeOK, Log!IO, Using, Log!AtWork

\* The evidence and the checkpoint a session writes.
LEMMA CheckpointType ==
    ASSUME TaskInv, NEW s \in Session, task[s].who \in Identity,
           NEW bound \in SUBSET (Step \ Deterministic), NEW status \in {"in_progress", "completed"}
    PROVE  NewCheckpoint(s, bound, status) \in Checkpoint
<1>1. Attested \in Evidence \cup {None}
  BY DEF Attested, Evidence, TaskInv, RunInv
<1>2. run[s].completed \subseteq Step
  BY Found DEF RunRecord
<1>3. QED
  BY <1>1, <1>2 DEF NewCheckpoint, Checkpoint

\* A step that leaves the application and the log's file as they are.
LEMMA RunUntouched == RunInv /\ UNCHANGED execVars => RunInv'
  BY DEF RunInv, execVars

\* Only the one session that reads is at work from now on.
LEMMA LoadKeeps == ASSUME Careless = {}, TaskInv, NEW s \in Session, Load(s) PROVE TaskInv'
<1> DEFINE who == task'[s].who
<1>1. Log!Open(s) /\ UNCHANGED <<execVars, outside>>
  BY SameStore DEF Load
<1>2. [Log!StoreNext]_(Log!storeVars) /\ UNCHANGED lines
  BY <1>1 DEF Log!StoreNext, Log!Open
<1>3. LogHolds' /\ Last' = Last
  BY <1>2, Found, LogUntouched
<1>4. PICK p \in Identity : task' = [task EXCEPT ![s].who = p, ![s].from = Last]
  BY DEF Load
<1>5. Last \in Checkpoint \cup {None}
  BY Found, LatestGood DEF Good
<1>6. task' \in [Session -> Task]
  BY <1>4, <1>5, Found DEF Task
<1>7. io[s].phase = "unopened" /\ run[s].pc = "idle" /\ task[s] = NewTask
  BY <1>1, Found DEF Log!Open, Holds
<1>8. io'[s].phase = "open" /\ \A t \in Session \ {s} : io'[t] = io[t]
  BY <1>1, Found DEF Log!Open, Log!IO
<1>9. task'[s].who = p /\ task'[s].from = Last /\ ~ task'[s].gated /\ ~ task'[s].closing
  BY <1>4, <1>7, Found DEF NewTask, Task
<1>10. run' = run
  BY <1>1 DEF execVars
<1>11. Resumed(run[s]) /\ run[s].outcome = "none"
  BY <1>7, Found DEF Resumed, Sound, Placed, Over
<1>12. Following(run[s], task'[s], io'[s], Last)
  BY <1>7, <1>8, <1>9, <1>11 DEF Following, AtWork
<1>13. Holds(run'[s], task'[s], io'[s], Last')
  BY <1>3, <1>7, <1>8, <1>10, <1>11, <1>12 DEF Holds, AtWork
<1>14. \A t \in Session \ {s} : run'[t] = run[t] /\ task'[t] = task[t] /\ io'[t] = io[t]
  BY <1>4, <1>8, <1>10, Found
<1>15. RunInv' /\ generation' \in Nat /\ moves' \in Nat
  BY <1>1, Found, RunUntouched DEF outside
<1>16. QED
  BY <1>3, <1>6, <1>13, <1>14, <1>15, OneSession

\* A session that has no run, or none any more, is done with the log.
LEMMA ClosedHolds ==
    ASSUME NEW r \in RunRecord, NEW t, NEW i, NEW last, Holds(r, t, i, last), r.pc \notin AtWork \cup {"hook"},
           NEW j, j.phase = "over"
    PROVE  Holds(r, t, j, last)
  BY DEF Holds, Using

LEMMA DoneKeeps ==
    ASSUME Careless = {}, TaskInv, NEW s \in Session, LoadThrows(s) \/ Mismatch(s) \/ Abandon(s) \/ Leave(s)
    PROVE  TaskInv'
<1>1. (Log!OpenThrows(s) \/ Log!Close(s)) /\ UNCHANGED <<execVars, task, outside>>
  BY SameStore DEF LoadThrows, Mismatch, Abandon, Leave
<1>2. [Log!StoreNext]_(Log!storeVars) /\ UNCHANGED lines
  BY <1>1 DEF Log!StoreNext, Log!OpenThrows, Log!Close
<1>3. LogHolds' /\ Last' = Last
  BY <1>2, Found, LogUntouched
<1>4. io'[s].phase = "over" /\ \A t \in Session \ {s} : io'[t] = io[t]
  BY <1>1, Found DEF Log!OpenThrows, Log!Close, Log!IO
<1>5. run[s].pc \notin AtWork \cup {"hook"}
  <2>1. CASE LoadThrows(s)
    BY <1>1, <2>1, Found DEF LoadThrows, Store!OpenThrows, Holds, Using
  <2>2. CASE Mismatch(s)
    BY <2>2, Found DEF Mismatch, AtGate, Holds, Following, Using, AtWork
  <2>3. CASE Abandon(s) \/ Leave(s)
    BY <2>3 DEF Abandon, Leave, AtWork
  <2>4. QED
    BY <2>1, <2>2, <2>3
<1>6. run' = run /\ task' = task
  BY <1>1 DEF execVars
<1>7. Holds(run[s], task[s], io'[s], Last)
  BY <1>4, <1>5, Found, ClosedHolds
<1>8. RunInv' /\ generation' \in Nat /\ moves' \in Nat
  BY <1>1, Found, RunUntouched DEF outside
<1>9. QED
  BY <1>3, <1>4, <1>6, <1>7, <1>8, Found, OneSession

\* A step that leaves the log alone.
LEMMA LogStutters ==
    ASSUME Careless = {}, TaskInv, UNCHANGED fileVars
    PROVE  LogHolds' /\ Last' = Last
<1>1. UNCHANGED Log!storeVars /\ UNCHANGED lines
  BY DEF fileVars, Log!storeVars
<1>2. QED
  BY <1>1, LogUntouched DEF TaskInv

\* A session passes the gate with the identity of the checkpoint it goes on from, which is
\* not the one that closes the log.
LEMMA GateKeeps == ASSUME Careless = {}, TaskInv, NEW s \in Session, Gate(s) PROVE TaskInv'
<1>1. LogHolds' /\ Last' = Last
  BY LogStutters DEF Gate
<1>2. run' = run /\ io' = io /\ RunInv' /\ generation' \in Nat /\ moves' \in Nat
  BY Found, RunUntouched DEF Gate, execVars, fileVars, outside
<1>3. task' = [task EXCEPT ![s].gated = TRUE]
  BY DEF Gate
<1>4. task' \in [Session -> Task] /\ task'[s].gated /\ task'[s].who = task[s].who
      /\ task'[s].from = task[s].from /\ task'[s].closing = task[s].closing
  BY <1>3, Found DEF Task
<1>5. Using(io[s]) /\ Following(run[s], task[s], io[s], Last) /\ ~ task[s].gated /\ io[s].phase # "unopened"
  BY Found DEF Gate, AtGate, Holds, Using
<1>6. run[s].pc = "idle" /\ task[s].from = Last
  BY <1>5 DEF Following
<1>7. Last # None => Last.who = task[s].who /\ Last.status = "in_progress"
  <2>1. Last # None => Last \in Checkpoint
    BY Found, LatestGood DEF Good
  <2>2. QED
    BY <1>6, <2>1 DEF Gate, Resumable, Checkpoint
<1>8. Following(run[s], task'[s], io[s], Last)
  BY <1>4, <1>5, <1>6, <1>7, Found DEF Following, Sound, Placed, Over, AtWork
<1>9. Holds(run'[s], task'[s], io'[s], Last')
  BY <1>1, <1>2, <1>5, <1>8, Found DEF Holds
<1>10. \A t \in Session \ {s} : run'[t] = run[t] /\ task'[t] = task[t] /\ io'[t] = io[t]
  BY <1>2, <1>3, Found
<1>11. QED
  BY <1>1, <1>2, <1>4, <1>9, <1>10, OneSession

\* The run begins where the checkpoint stood, with the answers that were bound.
LEMMA BeginRunKeeps == ASSUME Careless = {}, TaskInv, NEW s \in Session, BeginRun(s) PROVE TaskInv'
<1>1. LogHolds' /\ Last' = Last
  BY LogStutters DEF BeginRun
<1>2. task' = task /\ io' = io /\ generation' \in Nat /\ moves' \in Nat
  BY Found DEF BeginRun, fileVars, outside
<1>3. Using(io[s]) /\ Following(run[s], task[s], io[s], Last) /\ task[s].gated /\ io[s].phase = "open"
  BY Found DEF BeginRun, Holds, Using
<1>4. PICK stop \in StopAfter : Begin(s, Done(task[s].from), Bindings(task[s].from), stop)
  BY DEF BeginRun
<1>5. run[s].pc = "idle" /\ task[s].from = Last /\ ~ task[s].closing
  BY <1>3, <1>4 DEF Begin, Following
<1>6. Done(Last) \in SUBSET Step /\ Bindings(Last) \in SUBSET (Step \ Deterministic)
      /\ Done(Last) \ Deterministic \subseteq Bindings(Last) /\ \E n \in 0 .. Len(Order) : Done(Last) = Prefix(n)
  <2>1. CASE Last = None
    BY <2>1, Found, LatestGood DEF Done, Bindings
  <2>2. CASE Last # None
    <3>1. Good(Last) /\ Last.status = "in_progress"
      BY <1>3, <1>5, <2>2, Found, LatestGood DEF Following
    <3>2. QED
      BY <2>2, <3>1, Found, LatestGood DEF Good, Checkpoint, Done, Bindings
  <2>3. QED
    BY <2>1, <2>2
<1>7. RunInv'
  BY <1>4, <1>5, <1>6, Found, BeginKeeps
<1> DEFINE q == [Idle EXCEPT !.pc = "step", !.resume = Done(Last), !.bound = Bindings(Last), !.stop = stop]
<1>8. run' = [run EXCEPT ![s] = q]
  BY <1>4, <1>5 DEF Begin
<1>9. q.pc = "step" /\ q.pos = 1 /\ q.resume = Done(Last) /\ q.bound = Bindings(Last) /\ q.completed = {}
      /\ q.outcome = "none"
  BY DEF Idle
<1> HIDE DEF q
<1>10. Behind(q) = {}
  BY <1>9 DEF Behind
<1>11. Resumed(q)
  BY <1>6, <1>9 DEF Resumed
<1>12. Following(q, task[s], io[s], Last)
  BY <1>3, <1>5, <1>9, <1>10 DEF Following, AtWork
<1>13. Holds(run'[s], task'[s], io'[s], Last')
  BY <1>1, <1>2, <1>3, <1>8, <1>11, <1>12, Found DEF Holds
<1>14. \A t \in Session \ {s} : run'[t] = run[t] /\ task'[t] = task[t] /\ io'[t] = io[t]
  BY <1>2, <1>8, Found
<1>15. QED
  BY <1>1, <1>2, <1>7, <1>13, <1>14, Found, OneSession

\* The run goes on, or its checkpoint cannot be taken.
LEMMA ReplayKeeps == ASSUME Careless = {}, TaskInv, NEW s \in Session, Replay(s) PROVE TaskInv'
<1>1. LogHolds' /\ Last' = Last
  BY LogStutters DEF Replay
<1>2. Walk(s) /\ task' = task /\ io' = io /\ generation' \in Nat /\ moves' \in Nat
  BY Found DEF Replay, fileVars, outside
<1>3. RunInv'
  BY <1>2, Found, WalkKeeps
<1>4. Holds(run'[s], task[s], io[s], Last)
  BY <1>2, Found, WalkHolds
<1>5. \A t \in Session \ {s} : run'[t] = run[t]
  BY <1>2, Found DEF Walk, Skip, Dispatch, Unbound, Land, ToolFails, ToolPasses, ExpectFails, ModelAnswers,
     ModelThrows, FinalVerify, Flush, FlushFails, WriteManifest, Crash
<1>6. QED
  BY <1>1, <1>2, <1>3, <1>4, <1>5, Found, OneSession

\* The hook threw: the run is over.
LEMMA HookThrowsHolds ==
    ASSUME RunInv, NEW s \in Session, HookThrows(s), NEW t, NEW i, NEW j, NEW last, NEW then,
           Holds(run[s], t, i, last), i.phase # "unopened",
           (j = i /\ i.phase = "open" /\ then = last) \/ j.phase = "over"
    PROVE  Holds(run'[s], t, j, then) /\ \A u \in Session \ {s} : run'[u] = run[u]
<1> DEFINE r == run[s]
           q == Finish(r, "checkpoint_write_failed")
<1>1. r \in RunRecord /\ r.pc = "hook" /\ run' = [run EXCEPT ![s] = q] /\ run \in [Session -> RunRecord]
  BY DEF RunInv, HookThrows, HookFailed
<1>2. q.pc = "draining" /\ q.outcome = "checkpoint_write_failed" /\ q.completed = r.completed
      /\ q.resume = r.resume /\ q.bound = r.bound
  BY <1>1, FinishFacts DEF Outcome
<1> HIDE DEF q
<1>3. CASE j = i /\ i.phase = "open" /\ then = last
  BY <1>1, <1>2, <1>3, OverHolds DEF Over
<1>4. CASE j.phase = "over"
  <2>1. Resumed(q)
    BY <1>1, <1>2 DEF Holds, Resumed
  <2>2. QED
    BY <1>1, <1>2, <1>4, <2>1 DEF Holds, Using, AtWork
<1>5. QED
  BY <1>3, <1>4

LEMMA SaveThrowsKeeps == ASSUME Careless = {}, TaskInv, NEW s \in Session, SaveThrows(s) PROVE TaskInv'
<1>1. LogHolds' /\ Last' = Last
  BY LogStutters DEF SaveThrows
<1>2. HookThrows(s) /\ io[s].phase = "open" /\ task' = task /\ io' = io /\ generation' \in Nat /\ moves' \in Nat
  BY Found DEF SaveThrows, fileVars, outside
<1>3. RunInv'
  BY <1>2, Found, HookKeeps
<1>4. Holds(run'[s], task[s], io[s], Last) /\ \A t \in Session \ {s} : run'[t] = run[t]
  BY <1>2, Found, HookThrowsHolds
<1>5. QED
  BY <1>1, <1>2, <1>3, <1>4, Found, OneSession

\* The checkpoint of a step is on its way to the log.
LEMMA SaveStepKeeps == ASSUME Careless = {}, TaskInv, NEW s \in Session, SaveStep(s) PROVE TaskInv'
<1> DEFINE ck == NewCheckpoint(s, run[s].bound, "in_progress")
<1>1. run[s].pc = "hook" /\ Log!CallAppend(s, ck) /\ UNCHANGED <<execVars, task, outside>>
  BY SameStore DEF SaveStep
<1>2. Using(io[s]) /\ Following(run[s], task[s], io[s], Last)
  BY <1>1, Found DEF Holds
<1>3. ck \in Checkpoint /\ ck.who = task[s].who /\ ck.done = run[s].completed /\ ck.bound = run[s].bound
      /\ ck.status = "in_progress"
  <2>1. run[s].bound \in SUBSET (Step \ Deterministic)
    BY Found DEF RunRecord
  <2>2. ck \in Checkpoint
    BY <1>2, <2>1, CheckpointType DEF Following
  <2>3. QED
    BY <2>2 DEF NewCheckpoint
<1> HIDE DEF ck
<1>4. [Log!StoreNext]_(Log!storeVars) /\ UNCHANGED lines
  BY <1>1, <1>3 DEF Log!StoreNext, Log!CallAppend
<1>5. LogHolds' /\ Last' = Last
  BY <1>4, Found, LogUntouched
<1>6. io'[s].phase = "called" /\ io'[s].body = ck /\ \A t \in Session \ {s} : io'[t] = io[t]
  BY <1>1, Found DEF Log!CallAppend, Log!IO
<1>7. Following(run[s], task[s], io'[s], Last)
  BY <1>1, <1>2, <1>3, <1>6 DEF Following, AtWork
<1>8. Holds(run[s], task[s], io'[s], Last)
  BY <1>6, <1>7, Found DEF Holds, Using
<1>9. run' = run /\ task' = task /\ RunInv' /\ generation' \in Nat /\ moves' \in Nat
  BY <1>1, Found, RunUntouched DEF execVars, outside
<1>10. QED
  BY <1>5, <1>6, <1>8, <1>9, Found, OneSession

\* The record that closes the log follows a run that found or put every step on record.
LEMMA SaveCompletedKeeps == ASSUME Careless = {}, TaskInv, NEW s \in Session, SaveCompleted(s) PROVE TaskInv'
<1> DEFINE ck == NewCheckpoint(s, Bindings(task[s].from), "completed")
<1>1. run[s].pc = "ended" /\ run[s].outcome = "success" /\ ~ task[s].closing /\ Log!CallAppend(s, ck)
      /\ task' = [task EXCEPT ![s].closing = TRUE] /\ UNCHANGED <<execVars, outside>>
  BY SameStore DEF SaveCompleted
<1>2. io[s].phase = "open" /\ Using(io[s]) /\ Following(run[s], task[s], io[s], Last)
  BY <1>1, Found DEF Holds, Using, Log!CallAppend
<1>3. ck \in Checkpoint /\ ck.who = task[s].who /\ ck.done = Step /\ ck.status = "completed"
  <2>1. Bindings(task[s].from) \in SUBSET (Step \ Deterministic)
    BY Found, NoCheckpointAssumption DEF Bindings, Task, Checkpoint
  <2>2. ck \in Checkpoint
    BY <1>2, <2>1, CheckpointType DEF Following
  <2>3. run[s].completed = Step
    BY <1>1, Found DEF Sound, Earned
  <2>4. QED
    BY <2>2, <2>3 DEF NewCheckpoint
<1> HIDE DEF ck
<1>4. [Log!StoreNext]_(Log!storeVars) /\ UNCHANGED lines
  BY <1>1, <1>3 DEF Log!StoreNext, Log!CallAppend
<1>5. LogHolds' /\ Last' = Last
  BY <1>4, Found, LogUntouched
<1>6. io'[s].phase = "called" /\ io'[s].body = ck /\ \A t \in Session \ {s} : io'[t] = io[t]
  BY <1>1, Found DEF Log!CallAppend, Log!IO
<1>7. task' \in [Session -> Task] /\ task'[s].closing /\ task'[s].who = task[s].who
      /\ task'[s].gated = task[s].gated /\ \A t \in Session \ {s} : task'[t] = task[t]
  BY <1>1, Found DEF Task
<1>8. Following(run[s], task'[s], io'[s], Last)
  BY <1>1, <1>2, <1>3, <1>6, <1>7 DEF Following, AtWork
<1>9. Holds(run[s], task'[s], io'[s], Last)
  BY <1>6, <1>8, Found DEF Holds, Using
<1>10. run' = run /\ RunInv' /\ generation' \in Nat /\ moves' \in Nat
  BY <1>1, Found, RunUntouched DEF execVars, outside
<1>11. QED
  BY <1>5, <1>6, <1>7, <1>9, <1>10, OneSession

LEMMA AppendGoesOnKeeps == ASSUME Careless = {}, TaskInv, NEW s \in Session, AppendGoesOn(s) PROVE TaskInv'
<1>1. run[s].pc \in {"hook", "ended"} /\ (Log!CheckSeq(s) \/ Log!LookAtEnd(s)) /\ UNCHANGED <<execVars, task, outside>>
  BY SameStore DEF AppendGoesOn, Writing
<1>2. [Log!StoreNext]_(Log!storeVars) /\ UNCHANGED lines
  BY <1>1 DEF Log!StoreNext, Log!CheckSeq, Log!LookAtEnd
<1>3. LogHolds' /\ Last' = Last
  BY <1>2, Found, LogUntouched
<1>4. io[s].phase \in {"called", "checked"} /\ io'[s].phase \in {"checked", "ready"}
      /\ io'[s].body = io[s].body /\ \A t \in Session \ {s} : io'[t] = io[t]
  BY <1>1, Found DEF Log!CheckSeq, Log!LookAtEnd, Log!IO
<1>5. Following(run[s], task[s], io[s], Last)
  BY <1>4, Found DEF Holds, Using
<1>6. Following(run[s], task[s], io'[s], Last)
  BY <1>1, <1>4, <1>5 DEF Following, AtWork
<1>7. Holds(run[s], task[s], io'[s], Last)
  BY <1>4, <1>6, Found DEF Holds, Using
<1>8. run' = run /\ task' = task /\ RunInv' /\ generation' \in Nat /\ moves' \in Nat
  BY <1>1, Found, RunUntouched DEF execVars, outside
<1>9. QED
  BY <1>3, <1>4, <1>7, <1>8, Found, OneSession

\* A run that waits for its checkpoint has everything behind it on record.
LEMMA AtHook ==
    ASSUME TaskInv, NEW s \in Session, run[s].pc = "hook"
    PROVE  /\ run[s].pos \in 1 .. Len(Order) /\ Order[run[s].pos] \in Step
           /\ run[s].completed = Behind(run[s]) \cup {Order[run[s].pos]}
           /\ run[s].resume \subseteq Behind(run[s]) /\ Order[run[s].pos] \notin Behind(run[s])
           /\ Done(Last) = Behind(run[s]) /\ run[s].outcome = "none"
           /\ run[s].completed \ Deterministic \subseteq run[s].bound
           /\ run[s].completed = Prefix(run[s].pos)
<1> DEFINE r == run[s]
<1>1. r.pos \in 1 .. Len(Order) /\ r.completed = Behind(r) \cup {Order[r.pos]} /\ r.outcome = "none"
  <2>1. Placed(r) /\ r.pos \in Nat \ {0} /\ r.pc = "hook"
    BY Found DEF Sound, RunRecord
  <2>2. QED
    BY <2>1, Listing DEF Placed, Over
<1>2. Order[r.pos] \in Step
  BY <1>1, Listing
<1>3. Order[r.pos] \notin r.resume /\ (\E n \in 0 .. Len(Order) : r.resume = Prefix(n))
      /\ r.completed \ Deterministic \subseteq r.bound
  BY Found DEF Holds, Resumed
<1>4. r.resume \subseteq Prefix(r.pos - 1) /\ Order[r.pos] \notin Prefix(r.pos - 1)
  BY <1>1, <1>3, PrefixBelow, NotBefore
<1>5. Behind(r) = Prefix(r.pos - 1)
  BY BehindIs
<1>6. Done(Last) = Behind(r)
  BY Found DEF Holds, Following
<1>7. Prefix(r.pos) = Behind(r) \cup {Order[r.pos]}
  <2>1. r.pos \in Nat /\ 1 .. r.pos = (1 .. r.pos - 1) \cup {r.pos}
    BY <1>1, Listing
  <2>2. QED
    BY <2>1, <1>5 DEF Prefix
<1>8. QED
  BY <1>1, <1>2, <1>3, <1>4, <1>5, <1>6, <1>7

\* What is on its way to the log is good, and continues the latest checkpoint.
LEMMA OnItsWay ==
    ASSUME TaskInv, NEW s \in Session, Using(io[s]), io[s].phase # "open", run[s].pc \in {"hook", "ended"}
    PROVE  /\ Good(io[s].body) /\ io[s].body.who = task[s].who
           /\ io[s].body.status = IF run[s].pc = "hook" THEN "in_progress" ELSE "completed"
           /\ io[s].body.done = IF run[s].pc = "hook" THEN run[s].completed ELSE Step
           /\ Last # None => Continues(Last, io[s].body)
<1> DEFINE ck == io[s].body
<1>1. Following(run[s], task[s], io[s], Last)
  BY Found DEF Holds
<1>2. Last # None => Last.who = task[s].who /\ Last.status = "in_progress" /\ Done(Last) = Last.done
  BY <1>1 DEF Following, Done
<1>3. CASE run[s].pc = "hook"
  <2>1. ck \in Checkpoint /\ ck.who = task[s].who /\ ck.done = run[s].completed
        /\ ck.status = "in_progress" /\ ck.bound = run[s].bound
    BY <1>1, <1>3 DEF Following
  <2>2. Good(ck)
    BY <1>3, <2>1, AtHook DEF Good
  <2>3. ASSUME Last # None PROVE Continues(Last, ck)
    <3>1. ck.done \ Last.done = {Order[run[s].pos]} /\ Last.done \subseteq ck.done
      BY <1>2, <1>3, <2>1, <2>3, AtHook
    <3>2. Cardinality(ck.done \ Last.done) = 1
      BY <3>1, FS_Singleton
    <3>3. QED
      BY <1>2, <2>1, <2>3, <3>1, <3>2 DEF Continues
  <2>4. QED
    BY <1>3, <2>1, <2>2, <2>3
<1>4. CASE run[s].pc = "ended"
  <2>1. ck \in Checkpoint /\ ck.who = task[s].who /\ ck.done = Step /\ ck.status = "completed" /\ Done(Last) = Step
    BY <1>1, <1>4 DEF Following
  <2>2. Step = Prefix(Len(Order)) /\ Len(Order) \in 0 .. Len(Order)
    BY Listing, PlaybookAssumption DEF Prefix
  <2>3. Good(ck)
    BY <2>1, <2>2 DEF Good
  <2>4. ASSUME Last # None PROVE Continues(Last, ck)
    <3>1. ck.done \ Last.done = {} /\ Last.done \subseteq ck.done
      BY <1>2, <2>1, <2>4
    <3>2. Cardinality(ck.done \ Last.done) = 0
      BY <3>1, FS_EmptySet
    <3>3. QED
      BY <1>2, <2>1, <2>4, <3>1, <3>2 DEF Continues
  <2>5. QED
    BY <1>4, <2>1, <2>3, <2>4
<1>5. QED
  BY <1>3, <1>4

\* The session that writes is the only one at work.
LEMMA AtTheFile ==
    ASSUME TaskInv, Careless = {}, NEW s \in Session, io[s].phase \in {"called", "ready"}
    PROVE  /\ Using(io[s]) /\ io[s].phase # "open" /\ Log!LogInv /\ io[s].next \in Nat
           /\ \A t \in Session \ {s} : ~ Using(io[t])
<1>1. Using(io[s]) /\ Log!AtWork(s) /\ io[s].phase # "open" /\ io[s].next \in Nat
  BY Found DEF Using, Log!IO
<1>2. Log!LogInv
  BY <1>1, Found DEF LogHolds
<1>3. \A t \in Session \ {s} : ~ Log!AtWork(t)
  BY <1>1, <1>2, NobodyCareless DEF Log!LogInv, Log!Alone
<1>4. QED
  BY <1>1, <1>2, <1>3 DEF Using, Log!AtWork

\* A hook that resolved: the run goes on to the next step, or stops where it was asked to.
LEMMA HookResolvesTo ==
    ASSUME RunInv, NEW s \in Session, HookResolves(s)
    PROVE  /\ run[s].pc = "hook" /\ run \in [Session -> RunRecord]
           /\ \E q \in RunRecord :
                /\ run' = [run EXCEPT ![s] = q]
                /\ q.completed = run[s].completed /\ q.resume = run[s].resume /\ q.bound = run[s].bound
                /\ \/ q.pc = "draining" /\ q.outcome = "interrupted"
                   \/ q.pc = "step" /\ q.pos = run[s].pos + 1 /\ q.outcome = run[s].outcome
<1> DEFINE r == run[s]
           q == [r EXCEPT !.hooked = @ \cup {Cur(s)}]
<1>1. r \in RunRecord /\ Sound(r) /\ r.pc = "hook" /\ run \in [Session -> RunRecord]
  BY DEF RunInv, HookResolves
<1>2. Cur(s) \in Step
  BY <1>1, Listing DEF Sound, Placed, RunRecord, Cur
<1>3. q \in RunRecord /\ q.completed = r.completed /\ q.pos = r.pos /\ q.resume = r.resume
      /\ q.outcome = r.outcome /\ q.bound = r.bound
  BY <1>1, <1>2 DEF RunRecord
<1>4. run' = [run EXCEPT ![s] = Finish(q, "interrupted")] \/ run' = [run EXCEPT ![s] = Onward(q)]
  BY DEF HookResolves
<1> HIDE DEF q
<1>5. CASE run' = [run EXCEPT ![s] = Finish(q, "interrupted")]
  <2>1. /\ Finish(q, "interrupted") \in RunRecord /\ Finish(q, "interrupted").pc = "draining"
        /\ Finish(q, "interrupted").outcome = "interrupted" /\ Finish(q, "interrupted").bound = r.bound
        /\ Finish(q, "interrupted").completed = r.completed /\ Finish(q, "interrupted").resume = r.resume
    BY <1>3, FinishFacts DEF Outcome
  <2>2. QED
    BY <1>1, <1>5, <2>1
<1>6. CASE run' = [run EXCEPT ![s] = Onward(q)]
  <2>1. /\ Onward(q) \in RunRecord /\ Onward(q).pc = "step" /\ Onward(q).pos = r.pos + 1
        /\ Onward(q).completed = r.completed /\ Onward(q).resume = r.resume
        /\ Onward(q).outcome = r.outcome /\ Onward(q).bound = r.bound
    BY <1>3, OnwardFacts
  <2>2. QED
    BY <1>1, <1>6, <2>1
<1>7. QED
  BY <1>4, <1>5, <1>6

\* The record is on its line, and the run goes on from it.
LEMMA AppendDoneKeeps == ASSUME Careless = {}, TaskInv, NEW s \in Session, AppendDone(s) PROVE TaskInv'
<1> DEFINE ck == io[s].body
           r == run[s]
<1>1. /\ Log!Write(s) /\ io[s].phase = "ready" /\ UNCHANGED <<task, outside>>
      /\ HookResolves(s) \/ (r.pc = "ended" /\ UNCHANGED execVars)
  BY SameStore DEF AppendDone, Log!Write
<1>2. Using(io[s]) /\ io[s].phase # "open" /\ Log!LogInv /\ io[s].next \in Nat
      /\ \A t \in Session \ {s} : ~ Using(io[t])
  BY <1>1, AtTheFile
<1>3. r.pc \in {"hook", "ended"}
  BY <1>1 DEF HookResolves
<1>4. Good(ck) /\ ck.who = task[s].who /\ (Last # None => Continues(Last, ck))
      /\ ck.status = (IF r.pc = "hook" THEN "in_progress" ELSE "completed")
      /\ ck.done = (IF r.pc = "hook" THEN r.completed ELSE Step)
  BY <1>2, <1>3, OnItsWay
<1>5. lines' = Append(lines, Log!RecordOf(io[s].next, ck))
  BY <1>1, <1>2, StoreAssumed, Log!NoGlue
<1>6. [Log!StoreNext]_(Log!storeVars)
  BY <1>1 DEF Log!StoreNext
<1>7. LogHolds' /\ Last' = ck
  BY <1>2, <1>4, <1>5, <1>6, Found, LogGrows
<1>8. io'[s].phase = "open" /\ \A t \in Session \ {s} : io'[t] = io[t]
  BY <1>1, Found DEF Log!Write, Log!IO
<1>9. Following(r, task[s], io[s], Last)
  BY <1>2, Found DEF Holds
<1>10. task' = task /\ generation' \in Nat /\ moves' \in Nat
  BY <1>1, Found DEF outside
<1>11. ck # None /\ Done(ck) = ck.done
  BY <1>4, NoCheckpointAssumption DEF Good, Done
<1>12. CASE HookResolves(s)
  <2>1. r.pc = "hook" /\ run \in [Session -> RunRecord]
    BY <1>12, Found, HookResolvesTo
  <2>2. PICK q \in RunRecord :
          /\ run' = [run EXCEPT ![s] = q]
          /\ q.completed = r.completed /\ q.resume = r.resume /\ q.bound = r.bound
          /\ \/ q.pc = "draining" /\ q.outcome = "interrupted"
             \/ q.pc = "step" /\ q.pos = r.pos + 1 /\ q.outcome = r.outcome
    BY <1>12, Found, HookResolvesTo
  <2>3. /\ r \in RunRecord /\ r.pos \in 1 .. Len(Order) /\ r.completed = Behind(r) \cup {Order[r.pos]}
        /\ r.resume \subseteq Behind(r) /\ r.outcome = "none"
    BY <2>1, AtHook, Found
  <2>4. q.pc = "step" => Done(ck) = q.resume \cup Behind(q)
    BY <1>4, <1>11, <2>1, <2>2, <2>3, OneMoreBehind
  <2>5. Resumed(q)
    BY <2>1, <2>2, <2>3, Found DEF Holds, Resumed
  <2>6. Following(q, task[s], io'[s], ck)
    BY <1>4, <1>8, <1>9, <2>1, <2>2, <2>3, <2>4 DEF Following, AtWork
  <2>7. Holds(run'[s], task[s], io'[s], ck)
    BY <1>8, <2>1, <2>2, <2>5, <2>6 DEF Holds, Using
  <2>8. RunInv' /\ \A t \in Session \ {s} : run'[t] = run[t]
    BY <1>12, <2>1, <2>2, Found, HookKeeps
  <2>9. QED
    BY <1>2, <1>7, <1>8, <1>10, <2>7, <2>8, Found, OneSession
<1>13. CASE r.pc = "ended" /\ UNCHANGED execVars
  <2>1. run' = run /\ RunInv'
    BY <1>13, Found, RunUntouched DEF execVars
  <2>2. task[s].closing
    BY <1>2, <1>9, <1>13 DEF Following
  <2>3. Following(r, task[s], io'[s], ck)
    BY <1>4, <1>8, <1>9, <1>11, <1>13, <2>2 DEF Following, AtWork
  <2>4. Holds(r, task[s], io'[s], ck)
    BY <1>8, <1>13, <2>3, Found DEF Holds, Using
  <2>5. QED
    BY <1>2, <1>7, <1>8, <1>10, <2>1, <2>4, Found, OneSession
<1>14. QED
  BY <1>1, <1>12, <1>13

\* An append that failed left nothing, a fragment or its whole record; the session is over.
LEMMA AppendThrowsKeeps == ASSUME Careless = {}, TaskInv, NEW s \in Session, AppendThrows(s) PROVE TaskInv'
<1> DEFINE ck == io[s].body
           r == run[s]
<1>1. /\ Log!RefuseSeq(s) \/ Log!WriteCut(s)
      /\ HookThrows(s) \/ (r.pc = "hook" /\ Crash(s)) \/ (r.pc = "ended" /\ UNCHANGED execVars)
      /\ UNCHANGED <<task, outside>>
  BY SameStore DEF AppendThrows
<1>2. r.pc \in {"hook", "ended"} /\ io[s].phase \in {"called", "ready"}
  BY <1>1 DEF HookThrows, Log!RefuseSeq, Log!WriteCut
<1>3. Using(io[s]) /\ io[s].phase # "open" /\ Log!LogInv /\ io[s].next \in Nat
      /\ \A t \in Session \ {s} : ~ Using(io[t])
  BY <1>2, AtTheFile
<1>4. [Log!StoreNext]_(Log!storeVars)
  BY <1>1 DEF Log!StoreNext
<1>5. io'[s].phase = "over" /\ \A t \in Session \ {s} : io'[t] = io[t]
  BY <1>1, Found DEF Log!RefuseSeq, Log!WriteCut, Log!IO
<1>6. LogHolds'
  <2>1. CASE UNCHANGED lines
    BY <1>4, <2>1, Found, LogUntouched
  <2>2. CASE lines' = Append(lines, Log!Torn)
    BY <1>4, <2>2, Found, LogTorn
  <2>3. CASE lines' = Append(lines, Log!RecordOf(io[s].next, ck))
    <3>1. Good(ck) /\ (Last # None => Continues(Last, ck))
      BY <1>2, <1>3, OnItsWay
    <3>2. QED
      BY <1>3, <1>4, <2>3, <3>1, Found, LogGrows
  <2>4. CASE Log!WriteCut(s)
    <3>1. Log!Partial(s) \/ UNCHANGED lines
      BY <2>4 DEF Log!WriteCut
    <3>2. io[s].phase = "ready"
      BY <2>4 DEF Log!WriteCut
    <3>3. QED
      BY <1>3, <2>1, <2>2, <2>3, <3>1, <3>2, StoreAssumed, Log!NoGlue
  <2>5. CASE Log!RefuseSeq(s)
    BY <2>1, <2>5 DEF Log!RefuseSeq
  <2>6. QED
    BY <1>1, <2>4, <2>5
<1>7. Holds(run'[s], task[s], io'[s], Last') /\ RunInv' /\ \A t \in Session \ {s} : run'[t] = run[t]
  <2>1. CASE HookThrows(s)
    <3>1. io[s].phase # "unopened"
      BY <1>2
    <3>2. RunInv'
      BY <2>1, Found, HookKeeps
    <3>3. QED
      BY <1>5, <2>1, <3>1, <3>2, Found, HookThrowsHolds
  <2>2. CASE r.pc = "hook" /\ Crash(s)
    <3> DEFINE q == [r EXCEPT !.pc = "crashed"]
    <3>1. run' = [run EXCEPT ![s] = q] /\ q.pc = "crashed" /\ q.resume = r.resume /\ q.completed = r.completed
          /\ q.bound = r.bound /\ q.outcome = r.outcome
      BY <2>2, Found DEF Crash, RunRecord
    <3> HIDE DEF q
    <3>2. Resumed(q)
      BY <2>2, <3>1, Found DEF Holds, Resumed
    <3>3. Holds(q, task[s], io'[s], Last')
      BY <1>5, <3>1, <3>2 DEF Holds, Using, AtWork
    <3>4. RunInv'
      BY <2>2, Found, RecordingKeeps
    <3>5. QED
      BY <3>1, <3>3, <3>4, Found
  <2>3. CASE r.pc = "ended" /\ UNCHANGED execVars
    <3>1. Holds(r, task[s], io'[s], Last')
      BY <1>2, <1>5, <2>3, Found DEF Holds, Using, AtWork
    <3>2. QED
      BY <2>3, <3>1, Found, RunUntouched DEF execVars
  <2>4. QED
    BY <1>1, <2>1, <2>2, <2>3
<1>8. task' = task /\ generation' \in Nat /\ moves' \in Nat
  BY <1>1, Found DEF outside
<1>9. QED
  BY <1>3, <1>5, <1>6, <1>7, <1>8, Found, OneSession

\* What others do to the application is no concern of the sessions' record.
LEMMA OthersMoveKeeps == ASSUME Careless = {}, TaskInv, OthersMove PROVE TaskInv'
<1>1. UNCHANGED <<run, fileVars, task>> /\ moves' = moves + 1
  BY DEF OthersMove
<1>2. LogHolds' /\ Last' = Last
  BY <1>1, LogStutters
<1>3. effects' \in [Step -> Nat] /\ generation' \in Nat /\ moves' \in Nat
  BY <1>1 DEF OthersMove, TaskInv, RunInv
<1>4. RunInv'
  BY <1>1, <1>3 DEF TaskInv, RunInv
<1>5. run' = run /\ task' = task /\ io' = io
  BY <1>1 DEF fileVars
<1>6. QED
  BY <1>2, <1>3, <1>4, <1>5 DEF TaskInv

\* A new task, or one whose log cannot be read.
LEMMA TaskBegins == TaskInit => TaskInv
<1> SUFFICES ASSUME TaskInit PROVE TaskInv
  OBVIOUS
<1>1. RunInv /\ \A s \in Session : run[s] = Idle
  BY RunInit DEF TaskInit, Init
<1>2. \A s \in Session : io[s] = Log!Unopened /\ ~ Log!AtWork(s)
  <2>1. io = [s \in Session |-> Store!Unopened]
    BY DEF TaskInit, LogInit, Store!StoreInit
  <2>2. Store!Unopened = Log!Unopened /\ Log!Unopened.phase = "unopened"
    BY DEF Store!Unopened, Log!Unopened
  <2>3. QED
    BY <2>1, <2>2 DEF Log!AtWork
<1>3. Log!TypeInv /\ (Log!LogInv \/ ~ Log!Readable) /\ Log!Records = {}
  <2>1. CASE Store!StoreInit
    <3>1. Log!StoreInit
      BY <2>1 DEF Store!StoreInit, Log!StoreInit, Store!Unopened, Log!Unopened
    <3>2. Log!LogInv /\ Log!TypeInv
      BY <3>1, StoreAssumed, Log!LogInit, Log!TypeInit
    <3>3. Len(lines) = 0
      BY <3>1 DEF Log!StoreInit
    <3>4. QED
      BY <3>2, <3>3 DEF Log!Records
  <2>2. CASE lines = <<Store!Garbled>> /\ cut = FALSE /\ io = [s \in Session |-> Store!Unopened]
    <3>1. Log!Garbled \in Log!Line /\ lines = <<Log!Garbled>> /\ Log!Garbled.kind = "garbled"
      BY <2>2 DEF Log!Garbled, Store!Garbled, Log!Line
    <3>2. lines \in Seq(Log!Line) /\ Len(lines) = 1 /\ lines[1].kind = "garbled"
      BY <3>1
    <3>3. Log!Unopened \in Log!IO /\ io = [s \in Session |-> Log!Unopened]
      BY <2>2 DEF Store!Unopened, Log!Unopened, Log!IO
    <3>4. Log!TypeInv
      BY <2>2, <3>2, <3>3 DEF Log!TypeInv, Log!StoreTypeOK, Log!CutLine, Log!IO
    <3>5. ~ Log!Readable /\ Log!Records = {}
      BY <3>2 DEF Log!Readable, Log!Records
    <3>6. QED
      BY <3>4, <3>5
  <2>3. QED
    BY <2>1, <2>2 DEF TaskInit, LogInit
<1>4. LogHolds
  BY <1>2, <1>3 DEF LogHolds
<1>5. \A s \in Session : task[s] = NewTask /\ NewTask \in Task
  BY DEF TaskInit, NewTask, Task
<1>6. ASSUME NEW s \in Session PROVE Holds(run[s], task[s], io[s], Last)
  BY <1>1, <1>2, <1>5 DEF Holds, Using, Log!Unopened, Resumed, Idle, AtWork
<1>7. QED
  BY <1>1, <1>4, <1>5, <1>6 DEF TaskInit, TaskInv

LEMMA TaskGoesOn == Careless = {} /\ TaskInv /\ [TaskNext]_vars => TaskInv'
<1> SUFFICES ASSUME Careless = {}, TaskInv, [TaskNext]_vars PROVE TaskInv'
  OBVIOUS
<1>1. CASE UNCHANGED vars
  <2>1. UNCHANGED <<execVars, fileVars, task, outside>>
    BY <1>1 DEF vars, execVars, fileVars, outside
  <2>2. LogHolds' /\ Last' = Last
    BY <2>1, LogStutters
  <2>3. RunInv'
    BY <2>1, RunUntouched DEF TaskInv
  <2>4. QED
    BY <2>1, <2>2, <2>3 DEF TaskInv, execVars, fileVars, outside
<1>2. ASSUME NEW s \in Session,
             \/ Load(s) \/ LoadThrows(s) \/ Gate(s) \/ Mismatch(s) \/ BeginRun(s)
             \/ Abandon(s) \/ Replay(s) \/ SaveStep(s) \/ SaveThrows(s)
             \/ SaveCompleted(s) \/ AppendGoesOn(s) \/ AppendDone(s)
             \/ AppendThrows(s) \/ Leave(s)
      PROVE  TaskInv'
  BY <1>2, LoadKeeps, DoneKeeps, GateKeeps, BeginRunKeeps, ReplayKeeps, SaveStepKeeps, SaveThrowsKeeps,
     SaveCompletedKeeps, AppendGoesOnKeeps, AppendDoneKeeps, AppendThrowsKeeps
<1>3. CASE OthersMove
  BY <1>3, OthersMoveKeeps
<1>4. QED
  BY <1>1, <1>2, <1>3 DEF TaskNext

LEMMA TaskKept == Careless = {} => (TaskSpec => []TaskInv)
<1> SUFFICES ASSUME Careless = {} PROVE TaskSpec => []TaskInv
  OBVIOUS
<1>1. TaskInv /\ [TaskNext]_vars => TaskInv'
  BY TaskGoesOn
<1>2. QED
  BY <1>1, TaskBegins, PTL DEF TaskSpec

\* Each checkpoint extends the one before it by the one step that was completed, under the
\* same identity, and the record that closes the log is its last, as long as no two sessions
\* are at work at once (continue-task.ts:89-129).
THEOREM CheckpointsContinue == Careless = {} => (TaskSpec => []RecordsFollow)
<1> SUFFICES ASSUME Careless = {} PROVE TaskSpec => []RecordsFollow
  OBVIOUS
<1>1. TaskInv => RecordsFollow
  BY LastIs DEF TaskInv, LogHolds, RecordsFollow, Continues
<1>2. QED
  BY <1>1, TaskKept, PTL

-----------------------------------------------------------------------------
(* What is in hand, and what is on record. *)

\* A session at work on a step is the only one, everything before the step is on record,
\* the step is not, and the log is open.
LEMMA InHandIs ==
    ASSUME TaskInv, Careless = {}, NEW s \in Session, run[s].pc \in AtWork
    PROVE  /\ Recorded = run[s].resume \cup Behind(run[s]) /\ ~ Closed
           /\ \A t \in Session \ {s} : ~ Busy(t)
<1>1. Using(io[s]) /\ Following(run[s], task[s], io[s], Last) /\ run[s].pc # "idle"
  BY Found DEF Holds, AtWork
<1>2. Recorded = run[s].resume \cup Behind(run[s]) /\ ~ Closed
  BY <1>1 DEF Following, Recorded, Closed, Done, AtWork
<1>3. Log!LogInv /\ Log!AtWork(s)
  BY <1>1, Found DEF LogHolds
<1>4. \A t \in Session \ {s} : ~ Log!AtWork(t)
  BY <1>3, NobodyCareless DEF Log!LogInv, Log!Alone
<1>5. ASSUME NEW t \in Session \ {s} PROVE ~ Busy(t)
  BY <1>4, Found DEF Busy, Holds, AtWork
<1>6. QED
  BY <1>2, <1>5

LEMMA NothingTwice == ASSUME TaskInv, Careless = {} PROVE NoRecordedStepInHand
<1>1. ASSUME NEW s \in Session, Busy(s) PROVE Cur(s) \notin Recorded /\ ~ Closed
  <2>1. run[s].pc \in AtWork /\ run[s].pc \in {"calling", "asking"}
    BY <1>1 DEF Busy, AtWork
  <2>2. run[s].pos \in 1 .. Len(Order)
    <3>1. Placed(run[s]) /\ run[s].pos \in Nat \ {0}
      BY Found DEF Sound, RunRecord
    <3>2. QED
      BY <2>1, <3>1, Listing DEF Placed
  <2>3. Cur(s) \notin run[s].resume
    BY <2>1, Found DEF Holds, Resumed, Cur
  <2>4. Cur(s) \notin Behind(run[s])
    BY <2>2, NotBefore, BehindIs DEF Cur
  <2>5. QED
    BY <2>1, <2>3, <2>4, InHandIs
<1>2. QED
  BY <1>1 DEF NoRecordedStepInHand, InHand

LEMMA AlwaysBound == ASSUME TaskInv, UsesInOrder PROVE NeverUnbound
<1>1. ASSUME NEW s \in Session PROVE run[s].outcome # "unbound"
  <2>1. Placed(run[s])
    BY Found DEF Sound
  <2>2. CASE run[s].pc = "idle"
    BY <2>1, <2>2 DEF Placed, Over
  <2>3. CASE run[s].pc # "idle"
    BY <2>3, Found DEF Holds, Resumed
  <2>4. QED
    BY <2>2, <2>3
<1>2. QED
  BY <1>1 DEF NeverUnbound

-----------------------------------------------------------------------------
(* The log only grows, by what a session at the file writes. *)

\* A session appends the checkpoint it carries, whole.
Appends(s) ==
    /\ AppendDone(s) \/ AppendThrows(s)
    /\ io[s].phase = "ready" /\ run[s].pc \in {"hook", "ended"}
    /\ lines' = Append(lines, Log!RecordOf(io[s].next, io[s].body))

LEMMA DoneAppends ==
    ASSUME Careless = {}, TaskInv, NEW s \in Session, AppendDone(s)
    PROVE  Appends(s)
<1>1. io[s].phase = "ready" /\ run[s].pc \in {"hook", "ended"} /\ Log!Write(s)
  BY SameStore DEF AppendDone, HookResolves, Store!Write
<1>2. lines' = Append(lines, Log!RecordOf(io[s].next, io[s].body))
  BY <1>1, AtTheFile, StoreAssumed, Log!NoGlue
<1>3. QED
  BY <1>1, <1>2 DEF Appends

\* A step of session s, of whatever kind.
Steps(s) ==
    \/ Load(s) \/ LoadThrows(s) \/ Gate(s) \/ Mismatch(s) \/ BeginRun(s)
    \/ Abandon(s) \/ Replay(s) \/ SaveStep(s) \/ SaveThrows(s)
    \/ SaveCompleted(s) \/ AppendGoesOn(s) \/ AppendDone(s)
    \/ AppendThrows(s) \/ Leave(s)

LEMMA SessionWrites ==
    ASSUME Careless = {}, TaskInv, NEW s \in Session, Steps(s)
    PROVE  UNCHANGED lines \/ lines' = Append(lines, Log!Torn) \/ Appends(s)
<1>1. CASE AppendDone(s) \/ AppendThrows(s)
  <2>1. run[s].pc \in {"hook", "ended"}
    BY <1>1 DEF AppendDone, AppendThrows, HookResolves, HookThrows
  <2>2. Log!Write(s) \/ Log!WriteCut(s) \/ Log!RefuseSeq(s)
    BY <1>1, SameStore DEF AppendDone, AppendThrows
  <2>3. CASE Log!RefuseSeq(s)
    BY <2>3 DEF Log!RefuseSeq
  <2>4. CASE Log!Write(s) \/ Log!WriteCut(s)
    <3>1. io[s].phase = "ready" /\ (Log!Write(s) \/ Log!Partial(s) \/ UNCHANGED lines)
      BY <2>4 DEF Log!Write, Log!WriteCut
    <3>2. Log!LogInv
      BY <3>1, AtTheFile
    <3>3. \/ UNCHANGED lines \/ lines' = Append(lines, Log!Torn)
          \/ lines' = Append(lines, Log!RecordOf(io[s].next, io[s].body))
      BY <3>1, <3>2, StoreAssumed, Log!NoGlue
    <3>4. QED
      BY <1>1, <2>1, <3>1, <3>3 DEF Appends
  <2>5. QED
    BY <2>2, <2>3, <2>4
<1>2. CASE \/ Load(s) \/ LoadThrows(s) \/ Gate(s) \/ Mismatch(s) \/ BeginRun(s)
           \/ Abandon(s) \/ Replay(s) \/ SaveStep(s) \/ SaveThrows(s)
           \/ SaveCompleted(s) \/ AppendGoesOn(s) \/ Leave(s)
  BY <1>2 DEF Load, LoadThrows, Gate, Mismatch, BeginRun, Abandon, Replay, SaveStep, SaveThrows, SaveCompleted,
     AppendGoesOn, Leave, fileVars, Store!Open, Store!OpenThrows, Store!Close, Store!CallAppend, Store!CheckSeq,
     Store!LookAtEnd
<1>3. QED
  BY <1>1, <1>2 DEF Steps

LEMMA FileSteps ==
    ASSUME Careless = {}, TaskInv, [TaskNext]_vars
    PROVE  \/ UNCHANGED lines
           \/ lines' = Append(lines, Log!Torn)
           \/ \E s \in Session : Appends(s)
<1>1. UNCHANGED vars \/ OthersMove => UNCHANGED lines
  BY DEF vars, OthersMove, fileVars
<1>2. QED
  BY <1>1, SessionWrites DEF TaskNext, Steps

\* The latest record stays when nothing, or half a record, is written.
LEMMA LatestStays ==
    ASSUME Careless = {}, TaskInv, [TaskNext]_vars, UNCHANGED lines \/ lines' = Append(lines, Log!Torn)
    PROVE  Last' = Last
<1>1. CASE UNCHANGED lines
  BY <1>1 DEF Last, Store!Records, Store!Latest, Store!IsLast
<1>2. CASE lines' = Append(lines, Log!Torn)
  <2>1. TaskInv'
    BY TaskGoesOn
  <2>2. Log!StoreTypeOK /\ Log!StoreTypeOK' /\ Log!Torn \in Log!Line /\ Log!Torn.kind # "record"
    BY <2>1 DEF TaskInv, LogHolds, Log!TypeInv, Log!Torn, Log!Line
  <2>3. QED
    BY <1>2, <2>2, StoreAssumed, Log!LastBodyAfter, LastIs, LastIsThen
<1>3. QED
  BY <1>1, <1>2

\* A record more, by the only session at work: a step that is next, or the end.
LEMMA RecordMore ==
    ASSUME Careless = {}, TaskInv, NEW s \in Session, Appends(s)
    PROVE  /\ Last' = io[s].body /\ Last' # None
           /\ Log!Records' = Log!Records \cup {Len(lines) + 1} /\ Log!Records \subseteq 1 .. Len(lines)
           /\ lines'[Len(lines) + 1].body = io[s].body /\ \A i \in Log!Records : lines'[i] = lines[i]
           /\ ~ Closed /\ Recorded = Done(Last)
           /\ \A t \in Session \ {s} : ~ Using(io[t]) /\ run'[t] = run[t]
           /\ run'[s].pc \notin {"calling", "asking"}
<1> DEFINE ck == io[s].body
           line == Log!RecordOf(io[s].next, ck)
<1>1. Using(io[s]) /\ io[s].phase # "open" /\ io[s].next \in Nat /\ \A t \in Session \ {s} : ~ Using(io[t])
  BY AtTheFile DEF Appends
<1>2. Good(ck)
  BY <1>1, OnItsWay DEF Appends
<1>3. line \in Log!Line /\ line.kind = "record" /\ line.body = ck
  BY <1>1, <1>2 DEF Log!RecordOf, Log!Line, Good
<1>4. lines' = Append(lines, line)
  BY DEF Appends
<1> HIDE DEF line
<1>5. Log!StoreTypeOK /\ Log!StoreTypeOK'
  <2>1. TaskInv'
    BY AppendDoneKeeps, AppendThrowsKeeps DEF Appends
  <2>2. QED
    BY <2>1 DEF TaskInv, LogHolds, Log!TypeInv
<1>6. Last' = ck
  BY <1>3, <1>4, <1>5, StoreAssumed, Log!LastBodyAfter, LastIsThen
<1>7. /\ Len(lines) \in Nat /\ Log!Records \subseteq 1 .. Len(lines)
      /\ Log!Records' = Log!Records \cup {Len(lines) + 1}
      /\ (\A i \in 1 .. Len(lines) : lines'[i] = lines[i]) /\ lines'[Len(lines) + 1] = line
  BY <1>3, <1>4, <1>5, StoreAssumed, Log!OneMoreLine
<1>8. ck # None
  BY <1>2, NoCheckpointAssumption DEF Good
<1>9. ~ Closed /\ Recorded = Done(Last)
  <2>1. Following(run[s], task[s], io[s], Last)
    BY <1>1, Found DEF Holds
  <2>2. task[s].gated /\ (Last # None => Last.status = "in_progress")
    BY <1>1, <2>1 DEF Following, Appends
  <2>3. QED
    BY <2>2 DEF Closed, Recorded, Done
<1>10. (\A t \in Session \ {s} : run'[t] = run[t]) /\ run'[s].pc \notin {"calling", "asking"}
  <2>1. CASE HookResolves(s)
    BY <2>1, Found, HookResolvesTo
  <2>2. CASE HookThrows(s)
    <3>1. Finish(run[s], "checkpoint_write_failed").pc = "draining"
      BY Found, FinishFacts DEF Outcome
    <3>2. run' = [run EXCEPT ![s] = Finish(run[s], "checkpoint_write_failed")]
      BY <2>2 DEF HookThrows, HookFailed
    <3>3. QED
      BY <3>1, <3>2, Found
  <2>3. CASE Crash(s)
    BY <2>3, Found DEF Crash, RunRecord
  <2>4. CASE run[s].pc = "ended" /\ UNCHANGED execVars
    BY <2>4 DEF execVars
  <2>5. QED
    BY <2>1, <2>2, <2>3, <2>4 DEF Appends, AppendDone, AppendThrows
<1>11. QED
  BY <1>1, <1>3, <1>6, <1>7, <1>8, <1>9, <1>10

-----------------------------------------------------------------------------
(* What is on record was done in the application. *)

\* A call that landed took effect, and a tool step that waits for its checkpoint did.
Reached(r, e) ==
    /\ r.landed => r.pc \in {"calling"} \cup Over
    /\ r.pc = "calling" /\ r.landed => e[Order[r.pos]] > 0
    /\ r.pc = "hook" /\ Order[r.pos] \in Deterministic => e[Order[r.pos]] > 0

\* As long as nobody else changes the application.
TruthInv == moves = 0 => RecordsAreTrue /\ \A s \in Session : Reached(run[s], effects)

\* A run tells a call that landed from one that did not until the call is recorded.
LEMMA LandedFacts ==
    ASSUME NEW r \in RunRecord
    PROVE  /\ Onward(r).landed = r.landed /\ Onward(r).pc = "step"
           /\ \A o \in Outcome : Finish(r, o).landed = r.landed /\ Finish(r, o).pc = "draining"
           /\ \A w \in World, obs \in World :
                Passed(r, w, obs).landed = r.landed /\ Passed(r, w, obs).pos = r.pos /\ Passed(r, w, obs).pc = "hook"
           /\ \A w \in World : Failed(r, w).landed = r.landed /\ Failed(r, w).pc \in {"step", "draining"}
<1>1. Onward(r).landed = r.landed /\ Onward(r).pc = "step"
  BY DEF Onward, RunRecord
<1>2. ASSUME NEW q \in RunRecord, NEW o \in Outcome
      PROVE  Finish(q, o).landed = q.landed /\ Finish(q, o).pc = "draining"
  BY DEF Finish, RunRecord
<1>3. ASSUME NEW w \in World, NEW obs \in World
      PROVE  Passed(r, w, obs).landed = r.landed /\ Passed(r, w, obs).pos = r.pos /\ Passed(r, w, obs).pc = "hook"
  BY DEF Passed, RunRecord
<1>4. ASSUME NEW w \in World PROVE Failed(r, w).landed = r.landed /\ Failed(r, w).pc \in {"step", "draining"}
  <2> DEFINE stepping == [r EXCEPT !.pc = "step"]
             seen == [r EXCEPT !.world = w]
  <2>1. stepping.landed = r.landed /\ stepping.pc = "step" /\ seen \in RunRecord /\ seen.landed = r.landed
    BY DEF RunRecord
  <2>2. Failed(r, w) = IF Retries(r) THEN stepping ELSE Finish(seen, "fallback")
    BY DEF Failed
  <2> HIDE DEF stepping, seen
  <2>3. QED
    BY <1>2, <2>1, <2>2 DEF Outcome
<1>5. QED
  BY <1>1, <1>2, <1>3, <1>4

\* One session moves, and it may be at its beginning, on its walk, or at its hook.
Moves(s) ==
    \/ Walk(s) \/ HookResolves(s) \/ HookThrows(s)
    \/ \E done, bound : \E stop \in StopAfter : Begin(s, done, bound, stop)

LEMMA OnlySkips ==
    ASSUME RunInv, NEW s \in Session, Skip(s) \/ Dispatch(s) \/ Unbound(s), Reached(run[s], effects)
    PROVE  Reached(run'[s], effects') /\ effects' = effects
<1> DEFINE r == run[s]
<1>1. r \in RunRecord /\ r.pc = "step" /\ ~ r.landed
  BY DEF RunInv, Skip, Dispatch, Unbound, AtStep, RunRecord, Reached, Over
<1>2. CASE Skip(s)
  <2> DEFINE q == [r EXCEPT !.completed = @ \cup {Cur(s)}]
  <2>1. run'[s] = Onward(q)
    BY <1>2 DEF Skip, RunInv
  <2>2. q \in RunRecord /\ q.landed = r.landed
    BY <1>1, <1>2, Listing DEF RunRecord, Skip
  <2> HIDE DEF q
  <2>3. QED
    BY <1>1, <1>2, <2>1, <2>2, LandedFacts DEF Reached, Skip
<1>3. CASE Dispatch(s)
  BY <1>1, <1>3 DEF Dispatch, RunInv, RunRecord, Reached
<1>4. CASE Unbound(s)
  BY <1>1, <1>4 DEF Unbound, RunInv, RunRecord, Reached
<1>5. QED
  BY <1>2, <1>3, <1>4

LEMMA ToolReached ==
    ASSUME RunInv, NEW s \in Session, Reached(run[s], effects),
           ToolFails(s) \/ ToolPasses(s) \/ ExpectFails(s) \/ ModelAnswers(s) \/ ModelThrows(s)
    PROVE  Reached(run'[s], effects') /\ effects' = effects
<1> DEFINE r == run[s]
<1>1. r \in RunRecord /\ Sound(r) /\ r.world \in World /\ effects' = effects
  BY DEF RunInv, RunRecord, ToolFails, ToolPasses, ExpectFails, ModelAnswers, ModelThrows
<1>2. Record(r) \in RunRecord /\ Record(r).pos = r.pos /\ ~ Record(r).landed
  BY <1>1, RecordFacts DEF Record, RunRecord
<1>3. \A obs \in Answer : obs \in World /\ Merge(r.world, obs) \in World
  BY <1>1, Merged, ChecksAssumption
<1>4. CASE ToolFails(s) \/ ExpectFails(s)
  <2>1. PICK w \in World : run'[s] = Failed(Record(r), w)
    BY <1>1, <1>3, <1>4 DEF ToolFails, ExpectFails, RunInv
  <2>2. ~ Failed(Record(r), w).landed /\ Failed(Record(r), w).pc \in {"step", "draining"}
    BY <1>2, LandedFacts
  <2>3. QED
    BY <1>1, <2>1, <2>2 DEF Reached
<1>5. CASE ToolPasses(s)
  <2>1. PICK w \in World, obs \in World : run'[s] = Passed(Record(r), w, obs)
    BY <1>3, <1>5 DEF ToolPasses, RunInv
  <2>2. effects[Order[r.pos]] > 0
    BY <1>5 DEF ToolPasses, Reached
  <2>3. /\ ~ Passed(Record(r), w, obs).landed /\ Passed(Record(r), w, obs).pos = r.pos
        /\ Passed(Record(r), w, obs).pc = "hook"
    BY <1>2, LandedFacts
  <2>4. QED
    BY <1>1, <2>1, <2>2, <2>3 DEF Reached
<1>6. CASE ModelAnswers(s)
  <2> DEFINE obs(v) == [page |-> v, exit_code |-> None, output |-> v]
             q == Bind(r, Cur(s))
  <2>1. r.pc = "asking" /\ ~ r.landed /\ Order[r.pos] \notin Deterministic
    BY <1>1, <1>6 DEF ModelAnswers, Reached, Over, Sound, Placed
  <2>2. PICK v \in Value : run'[s] = Passed(q, Merge(r.world, obs(v)), obs(v)) \/ run'[s] = Failed(q, Merge(r.world, obs(v)))
    BY <1>6 DEF ModelAnswers, RunInv
  <2>3. obs(v) \in World /\ Merge(r.world, obs(v)) \in World
    <3>1. obs(v) \in World
      BY DEF World, Field
    <3>2. QED
      BY <1>1, <3>1, Merged
  <2>4. q \in RunRecord /\ q.pos = r.pos /\ ~ q.landed
    <3>1. Cur(s) \in Step \ Deterministic
      BY <1>1, <2>1, Listing DEF Cur, Sound, Placed, RunRecord
    <3>2. QED
      BY <1>1, <2>1, <3>1 DEF Bind, RunRecord
  <2> HIDE DEF q, obs
  <2>5. QED
    BY <1>1, <2>1, <2>2, <2>3, <2>4, LandedFacts DEF Reached
<1>7. CASE ModelThrows(s)
  BY <1>1, <1>7 DEF ModelThrows, RunInv, RunRecord, Reached, Over
<1>8. QED
  BY <1>4, <1>5, <1>6, <1>7

\* Whatever a run does by itself, no effect is taken back.
LEMMA MoveReached ==
    ASSUME RunInv, NEW s \in Session, Moves(s), Reached(run[s], effects)
    PROVE  /\ Reached(run'[s], effects') /\ \A x \in Step : effects'[x] >= effects[x]
           /\ \A t \in Session \ {s} : run'[t] = run[t]
<1> DEFINE r == run[s]
<1>1. r \in RunRecord /\ Sound(r) /\ run \in [Session -> RunRecord] /\ effects \in [Step -> Nat]
  BY DEF RunInv
<1>2. \A t \in Session \ {s} : run'[t] = run[t]
  BY <1>1 DEF Moves, Begin, HookResolves, HookThrows, Walk, Skip, Dispatch, Unbound, Land, ToolFails, ToolPasses,
     ExpectFails, ModelAnswers, ModelThrows, FinalVerify, Flush, FlushFails, WriteManifest, Crash
<1>3. CASE \E done, bound, stop : Begin(s, done, bound, stop)
  <2>1. PICK done, bound, stop : Begin(s, done, bound, stop)
    BY <1>3
  <2> DEFINE q == [Idle EXCEPT !.pc = "step", !.resume = done, !.bound = bound, !.stop = stop]
  <2>2. q.pc = "step" /\ ~ q.landed
    BY DEF Idle
  <2>3. run'[s] = q /\ effects' = effects
    BY <1>1, <2>1 DEF Begin
  <2> HIDE DEF q
  <2>4. QED
    BY <1>1, <1>2, <2>2, <2>3 DEF Reached
<1>4. CASE HookResolves(s) \/ HookThrows(s) \/ FinalVerify(s)
  <2>1. ~ r.landed /\ effects' = effects
    BY <1>1, <1>4 DEF HookResolves, HookThrows, FinalVerify, Reached, RunRecord, Over
  <2>2. \E q \in RunRecord : q.landed = r.landed /\ \/ run'[s] = Onward(q)
                                                    \/ \E o \in Outcome : run'[s] = Finish(q, o)
    <3>1. CASE HookResolves(s)
      <4> DEFINE q == [r EXCEPT !.hooked = @ \cup {Cur(s)}]
      <4>1. Cur(s) \in Step
        BY <1>1, <3>1, Listing DEF HookResolves, Sound, Placed, RunRecord, Cur
      <4>2. q \in RunRecord /\ q.landed = r.landed
        BY <1>1, <4>1 DEF RunRecord
      <4>3. run'[s] = Onward(q) \/ run'[s] = Finish(q, "interrupted")
        BY <1>1, <3>1 DEF HookResolves
      <4>4. QED
        BY <4>2, <4>3 DEF Outcome
    <3>2. CASE HookThrows(s) \/ FinalVerify(s)
      BY <1>1, <3>2 DEF HookThrows, HookFailed, FinalVerify, Outcome
    <3>3. QED
      BY <1>4, <3>1, <3>2
  <2>3. run'[s].pc \in {"step", "draining"} /\ ~ run'[s].landed
    BY <2>1, <2>2, LandedFacts
  <2>4. QED
    BY <1>1, <1>2, <2>1, <2>3 DEF Reached
<1>5. CASE Land(s)
  <2>1. r.pc = "calling" /\ effects' = [effects EXCEPT ![Cur(s)] = @ + 1] /\ run'[s] = [r EXCEPT !.landed = TRUE]
    BY <1>1, <1>5 DEF Land
  <2>2. Order[r.pos] \in Step
    BY <1>1, <2>1, Listing DEF Sound, Placed, RunRecord
  <2>3. effects'[Order[r.pos]] > 0 /\ \A x \in Step : effects'[x] >= effects[x]
    BY <1>1, <2>1, <2>2 DEF Cur
  <2>4. run'[s].pc = "calling" /\ run'[s].pos = r.pos
    BY <1>1, <2>1 DEF RunRecord
  <2>5. QED
    BY <1>2, <2>3, <2>4 DEF Reached
<1>6. CASE Flush(s) \/ FlushFails(s) \/ WriteManifest(s) \/ Crash(s)
  <2>1. effects' = effects
    BY <1>6 DEF Flush, FlushFails, WriteManifest, Crash
  <2>2. CASE Flush(s)
    BY <1>1, <1>2, <2>1, <2>2 DEF Flush, Reached, RunRecord
  <2>3. CASE FlushFails(s) \/ WriteManifest(s) \/ Crash(s)
    <3>1. run'[s].pc \in Over
      BY <1>1, <2>3 DEF FlushFails, WriteManifest, Crash, RunRecord, Over
    <3>2. QED
      BY <1>1, <1>2, <2>1, <3>1 DEF Reached, Over
  <2>4. QED
    BY <1>6, <2>2, <2>3
<1>7. QED
  BY <1>1, <1>2, <1>3, <1>4, <1>5, <1>6, OnlySkips, ToolReached DEF Moves, Walk

\* A step of the task is one of somebody else, of one run, or of none.
LEMMA WhoMoves ==
    ASSUME [TaskNext]_vars
    PROVE  OthersMove \/ UNCHANGED <<execVars, moves>> \/ \E s \in Session : Moves(s) /\ UNCHANGED moves
<1>1. ASSUME NEW s \in Session,
             \/ Load(s) \/ LoadThrows(s) \/ Gate(s) \/ Mismatch(s) \/ Abandon(s) \/ SaveStep(s)
             \/ SaveCompleted(s) \/ AppendGoesOn(s) \/ Leave(s)
      PROVE  UNCHANGED <<execVars, moves>>
  BY <1>1 DEF Load, LoadThrows, Gate, Mismatch, Abandon, SaveStep, SaveCompleted, AppendGoesOn, Leave, outside
<1>2. ASSUME NEW s \in Session, BeginRun(s) \/ Replay(s) \/ SaveThrows(s)
      PROVE  Moves(s) /\ UNCHANGED moves
  BY <1>2 DEF BeginRun, Replay, SaveThrows, Moves, outside
<1>3. ASSUME NEW s \in Session, AppendDone(s) \/ AppendThrows(s)
      PROVE  UNCHANGED moves /\ (Moves(s) \/ UNCHANGED execVars)
  BY <1>3 DEF AppendDone, AppendThrows, Moves, Walk, outside
<1>4. QED
  BY <1>1, <1>2, <1>3 DEF TaskNext, vars, execVars

LEMMA TruthKept ==
    ASSUME Careless = {}, TaskInv, TruthInv, [TaskNext]_vars
    PROVE  TruthInv'
<1> SUFFICES ASSUME moves' = 0
             PROVE  RecordsAreTrue' /\ \A s \in Session : Reached(run'[s], effects')
  BY DEF TruthInv
<1>1. ~ OthersMove
  BY DEF OthersMove, TaskInv
<1>2. moves = 0 /\ RecordsAreTrue /\ (\A s \in Session : Reached(run[s], effects)) /\ RunInv
  BY <1>1, WhoMoves DEF TruthInv, TaskInv
<1>3. (\A s \in Session : Reached(run'[s], effects')) /\ \A x \in Step : effects'[x] >= effects[x]
  <2>1. CASE UNCHANGED <<execVars, moves>>
    BY <1>2, <2>1 DEF execVars, RunInv
  <2>2. ASSUME NEW s \in Session, Moves(s)
        PROVE  (\A t \in Session : Reached(run'[t], effects')) /\ \A x \in Step : effects'[x] >= effects[x]
    <3>1. /\ Reached(run'[s], effects') /\ \A x \in Step : effects'[x] >= effects[x]
          /\ \A t \in Session \ {s} : run'[t] = run[t]
      BY <1>2, <2>2, MoveReached
    <3>2. \A t \in Session : Order[run[t].pos] \in Step \/ run[t].pc \notin {"calling", "hook"}
      <4>1. ASSUME NEW t \in Session, run[t].pc \in {"calling", "hook"} PROVE Order[run[t].pos] \in Step
        <5>1. Placed(run[t]) /\ run[t].pos \in Nat \ {0}
          BY Found DEF Sound, RunRecord
        <5>2. QED
          BY <4>1, <5>1, Listing DEF Placed
      <4>2. QED
        BY <4>1
    <3>3. effects \in [Step -> Nat] /\ effects' \in [Step -> Nat]
      BY TaskGoesOn DEF TaskInv, RunInv
    <3>4. ASSUME NEW t \in Session \ {s} PROVE Reached(run'[t], effects')
      <4>1. run'[t] = run[t] /\ Reached(run[t], effects)
        BY <1>2, <3>1
      <4>2. run[t].pc \in {"calling", "hook"} /\ effects[Order[run[t].pos]] > 0 => effects'[Order[run[t].pos]] > 0
        BY <3>1, <3>2, <3>3
      <4>3. QED
        BY <4>1, <4>2 DEF Reached
    <3>5. QED
      BY <3>1, <3>4
  <2>3. QED
    BY <1>1, <2>1, <2>2, WhoMoves
<1>4. effects \in [Step -> Nat] /\ effects' \in [Step -> Nat] /\ Deterministic \subseteq Step
  BY TaskGoesOn, PlaybookAssumption DEF TaskInv, RunInv
<1>5. \A i \in Log!Records : \A x \in lines[i].body.done \cap Deterministic : effects'[x] > 0
  BY <1>2, <1>3, <1>4, LastIs DEF RecordsAreTrue
<1>6. (\A i \in Log!Records' : \A x \in lines'[i].body.done \cap Deterministic : effects'[x] > 0) => RecordsAreTrue'
  BY LastIsThen DEF RecordsAreTrue
<1>7. CASE UNCHANGED lines
  <2>1. Log!Records' = Log!Records
    BY <1>7 DEF Log!Records
  <2>2. QED
    BY <1>3, <1>5, <1>6, <1>7, <2>1
<1>8. CASE lines' = Append(lines, Log!Torn)
  <2>1. Log!StoreTypeOK /\ Log!Torn \in Log!Line /\ Log!Torn.kind # "record"
    BY DEF TaskInv, LogHolds, Log!TypeInv, Log!Torn, Log!Line
  <2>2. Log!Records' = Log!Records /\ \A i \in Log!Records : lines'[i] = lines[i]
    BY <1>8, <2>1, StoreAssumed, Log!OneMoreLine
  <2>3. QED
    BY <1>3, <1>5, <1>6, <2>2
<1>9. ASSUME NEW s \in Session, Appends(s) PROVE RecordsAreTrue'
  <2>1. /\ Log!Records' = Log!Records \cup {Len(lines) + 1} /\ \A i \in Log!Records : lines'[i] = lines[i]
        /\ lines'[Len(lines) + 1].body = io[s].body
    BY <1>9, RecordMore
  <2>2. \A x \in Done(Last) \cap Deterministic : effects'[x] > 0
    BY <1>5, LatestGood DEF TaskInv, Done
  <2>3. Using(io[s]) /\ io[s].phase # "open" /\ run[s].pc \in {"hook", "ended"}
    BY <1>9 DEF Appends, Using
  <2>4. io[s].body.done = IF run[s].pc = "hook" THEN run[s].completed ELSE Step
    BY <2>3, OnItsWay
  <2>5. CASE run[s].pc = "hook"
    <3>1. run[s].completed = Done(Last) \cup {Order[run[s].pos]} /\ Order[run[s].pos] \in Step
      BY <2>5, AtHook
    <3>2. Order[run[s].pos] \in Deterministic => effects'[Order[run[s].pos]] > 0
      <4>1. Order[run[s].pos] \in Deterministic => effects[Order[run[s].pos]] > 0
        BY <1>2, <2>5 DEF Reached
      <4>2. QED
        BY <1>3, <1>4, <3>1, <4>1
    <3>3. QED
      BY <1>5, <1>6, <2>1, <2>2, <2>4, <2>5, <3>1, <3>2
  <2>6. CASE run[s].pc = "ended"
    <3>1. Done(Last) = Step
      BY <2>3, <2>6, Found DEF Holds, Following
    <3>2. QED
      BY <1>5, <1>6, <2>1, <2>2, <2>4, <2>6, <3>1
  <2>7. QED
    BY <2>3, <2>5, <2>6
<1>10. QED
  BY <1>3, <1>7, <1>8, <1>9, FileSteps

\* At first nothing is on record: the log is empty, or holds a line that is none.
LEMMA NothingOnRecord == TaskInit => Store!Records = {} /\ Last = None
<1> SUFFICES ASSUME TaskInit PROVE Store!Records = {} /\ Last = None
  OBVIOUS
<1>1. CASE lines = <<>>
  BY <1>1 DEF Last, Store!Records
<1>2. CASE lines = <<Store!Garbled>>
  BY <1>2 DEF Last, Store!Records, Store!Garbled
<1>3. QED
  BY <1>1, <1>2 DEF TaskInit, LogInit, Store!StoreInit

LEMMA TruthBegins == TaskInit => TruthInv
<1> SUFFICES ASSUME TaskInit PROVE RecordsAreTrue /\ \A s \in Session : Reached(run[s], effects)
  BY DEF TruthInv
<1>1. \A s \in Session : Reached(run[s], effects)
  BY DEF TaskInit, Init, Idle, Reached
<1>2. RecordsAreTrue
  BY NothingOnRecord DEF RecordsAreTrue
<1>3. QED
  BY <1>1, <1>2

\* What a session finds on record it can go on from: each step on record was done in the
\* application, no session is at work on one, and the answers it left are bound
\* (executor.ts:276-281, continue-task.ts:118-129), for a playbook whose steps use the
\* answers of earlier ones, and as long as no two sessions are at work at once.
THEOREM RecordIsGoodToGoOn == Careless = {} /\ UsesInOrder => (TaskSpec => []RecordsHold)
<1> SUFFICES ASSUME Careless = {}, UsesInOrder PROVE TaskSpec => []RecordsHold
  OBVIOUS
<1>1. TaskInv /\ TruthInv /\ [TaskNext]_vars => TruthInv'
  BY TruthKept
<1>2. TaskInv /\ TruthInv => RecordsHold
  BY NothingTwice, AlwaysBound DEF RecordsHold, TruthInv, RecordsAreTrue
<1>3. QED
  BY <1>1, <1>2, TaskKept, TruthBegins, PTL DEF TaskSpec

-----------------------------------------------------------------------------
(* The task progresses as TaskProgress says. *)

\* An answer leaves the run at its step and attempt.
SameAttempt(r, q) == q.pos = r.pos /\ q.attempt = r.attempt

LEMMA AnswerAttempt ==
    ASSUME NEW r \in RunRecord, NEW w \in World, NEW obs \in World
    PROVE  SameAttempt(r, Record(r)) /\ SameAttempt(r, Passed(r, w, obs)) /\ SameAttempt(r, Failed(r, w))
<1>1. SameAttempt(r, Record(r)) /\ SameAttempt(r, Passed(r, w, obs))
  BY DEF SameAttempt, Record, Passed, RunRecord
<1>2. SameAttempt(r, Failed(r, w))
  <2> DEFINE stepping == [r EXCEPT !.pc = "step"]
             seen == [r EXCEPT !.world = w]
  <2>1. SameAttempt(r, stepping) /\ seen \in RunRecord /\ SameAttempt(r, seen)
    BY DEF RunRecord, SameAttempt
  <2>2. Failed(r, w) = IF Retries(r) THEN stepping ELSE Finish(seen, "fallback")
    BY DEF Failed
  <2> HIDE DEF stepping, seen
  <2>3. SameAttempt(seen, Finish(seen, "fallback"))
    BY <2>1, FinishCounts DEF SameAttempt, SameCounts, Outcome
  <2>4. QED
    BY <2>1, <2>2, <2>3 DEF SameAttempt
<1>3. QED
  BY <1>1, <1>2

\* An answer, of a tool or of the model.
Answers(s) == ToolFails(s) \/ ToolPasses(s) \/ ExpectFails(s) \/ ModelAnswers(s)

LEMMA AnswerLeads ==
    ASSUME RunInv, NEW s \in Session, Answers(s)
    PROVE  \E q \in RunRecord, w \in World, obs \in World :
              SameAttempt(run[s], q) /\ (run'[s] = Failed(q, w) \/ run'[s] = Passed(q, w, obs))
<1> DEFINE r == run[s]
<1>1. r \in RunRecord /\ Sound(r) /\ r.world \in World /\ run \in [Session -> RunRecord]
  BY DEF RunInv, RunRecord
<1>2. CASE ToolFails(s) \/ ToolPasses(s) \/ ExpectFails(s)
  <2>1. \A obs \in Answer : obs \in World /\ Merge(r.world, obs) \in World
    BY <1>1, Merged, ChecksAssumption
  <2>2. PICK w \in World, obs \in World : run'[s] = Failed(Record(r), w) \/ run'[s] = Passed(Record(r), w, obs)
    BY <1>1, <1>2, <2>1 DEF ToolFails, ToolPasses, ExpectFails
  <2>3. Record(r) \in RunRecord /\ SameAttempt(r, Record(r))
    BY <1>1, <2>2, RecordFacts, AnswerAttempt
  <2>4. QED
    BY <2>2, <2>3
<1>3. CASE ModelAnswers(s)
  <2> DEFINE obs(v) == [page |-> v, exit_code |-> None, output |-> v]
             q == Bind(r, Cur(s))
  <2>1. PICK v \in Value : run'[s] = Passed(q, Merge(r.world, obs(v)), obs(v)) \/ run'[s] = Failed(q, Merge(r.world, obs(v)))
    BY <1>1, <1>3 DEF ModelAnswers
  <2>2. obs(v) \in World
    BY DEF World, Field
  <2>3. Merge(r.world, obs(v)) \in World
    BY <1>1, <2>2, Merged
  <2>4. Cur(s) \in Step \ Deterministic
    BY <1>1, <1>3, Listing DEF ModelAnswers, Cur, Sound, Placed, RunRecord
  <2>5. q \in RunRecord /\ SameAttempt(r, q)
    BY <1>1, <2>4 DEF Bind, RunRecord, SameAttempt
  <2> HIDE DEF q, obs
  <2>6. QED
    BY <2>1, <2>2, <2>3, <2>5
<1>4. QED
  BY <1>2, <1>3 DEF Answers

LEMMA AnswerStays ==
    ASSUME RunInv, NEW s \in Session, Answers(s)
    PROVE  /\ SameAttempt(run[s], run'[s]) /\ effects' = effects
           /\ run[s].pc \in {"calling", "asking"} /\ run'[s].pc \in {"step", "hook", "draining"}
<1>1. PICK q \in RunRecord, w \in World, obs \in World :
        SameAttempt(run[s], q) /\ (run'[s] = Failed(q, w) \/ run'[s] = Passed(q, w, obs))
  BY AnswerLeads
<1>2. SameAttempt(q, Failed(q, w)) /\ SameAttempt(q, Passed(q, w, obs))
  BY AnswerAttempt
<1>3. SameAttempt(run[s], run'[s])
  BY <1>1, <1>2 DEF SameAttempt
<1>4. run'[s].pc \in {"step", "hook", "draining"}
  BY <1>1, LandedFacts
<1>5. QED
  BY <1>3, <1>4 DEF Answers, ToolFails, ToolPasses, ExpectFails, ModelAnswers

\* Only a dispatch takes a step in hand; only the landing of its effect and the queue leave
\* it there.
LEMMA OffTheStep ==
    ASSUME RunInv, NEW s \in Session, Moves(s), ~ Dispatch(s), ~ Land(s), ~ Flush(s)
    PROVE  run'[s].pc \notin {"calling", "asking"}
<1> DEFINE r == run[s]
<1>1. r \in RunRecord /\ Sound(r) /\ r.world \in World /\ run \in [Session -> RunRecord]
  BY DEF RunInv, RunRecord
<1>2. CASE Skip(s)
  <2> DEFINE q == [r EXCEPT !.completed = @ \cup {Cur(s)}]
  <2>1. q \in RunRecord /\ run'[s] = Onward(q)
    BY <1>1, <1>2, Listing DEF RunRecord, Skip
  <2> HIDE DEF q
  <2>2. QED
    BY <2>1, LandedFacts
<1>3. CASE Answers(s)
  BY <1>1, <1>3, AnswerStays
<1>4. CASE HookResolves(s)
  BY <1>1, <1>4, HookResolvesTo
<1>5. CASE HookThrows(s) \/ FinalVerify(s)
  BY <1>1, <1>5, LandedFacts DEF HookThrows, HookFailed, FinalVerify, Outcome
<1>6. CASE Unbound(s) \/ ModelThrows(s) \/ FlushFails(s) \/ WriteManifest(s) \/ Crash(s)
  BY <1>1, <1>6 DEF Unbound, ModelThrows, FlushFails, WriteManifest, Crash, RunRecord
<1>7. CASE \E done, bound, stop : Begin(s, done, bound, stop)
  <2>1. PICK done, bound, stop : Begin(s, done, bound, stop)
    BY <1>7
  <2> DEFINE q == [Idle EXCEPT !.pc = "step", !.resume = done, !.bound = bound, !.stop = stop]
  <2>2. q.pc = "step" /\ run'[s] = q
    BY <1>1, <2>1 DEF Idle, Begin
  <2> HIDE DEF q
  <2>3. QED
    BY <2>2
<1>8. QED
  BY <1>2, <1>3, <1>4, <1>5, <1>6, <1>7 DEF Moves, Walk, Answers

\* A step that leaves the record as it is takes one step of the playbook in hand, puts it
\* down, or does neither.
LEMMA HandMoves ==
    ASSUME Careless = {}, TaskInv, NEW s \in Session, Moves(s), Last' = Last
    PROVE  [Progress!Next]_(Progress!progressVars)
<1>1. Recorded' = Recorded /\ Closed' = Closed
  BY DEF Recorded, Closed
<1>2. run \in [Session -> RunRecord] /\ RunInv /\ \A t \in Session \ {s} : run'[t] = run[t]
  <2>1. run \in [Session -> RunRecord] /\ RunInv
    BY Found
  <2>2. QED
    BY <2>1 DEF Moves, Begin, HookResolves, HookThrows, Walk, Skip, Dispatch, Unbound, Land, ToolFails, ToolPasses,
       ExpectFails, ModelAnswers, ModelThrows, FinalVerify, Flush, FlushFails, WriteManifest, Crash
<1>3. \A t \in Session \ {s} : (Busy(t)' <=> Busy(t)) /\ Cur(t)' = Cur(t)
  BY <1>2 DEF Busy, Cur
<1>4. CASE Dispatch(s)
  <2>1. run[s].pc = "step" /\ run[s].pos \in 1 .. Len(Order) /\ Cur(s) \notin run[s].resume
    BY <1>2, <1>4, Listing DEF Dispatch, AtStep, More, RunRecord
  <2>2. Recorded = run[s].resume \cup Behind(run[s]) /\ ~ Closed /\ \A t \in Session \ {s} : ~ Busy(t)
    BY <2>1, InHandIs DEF AtWork
  <2>3. run[s].resume \subseteq Behind(run[s])
    <3>1. PICK n \in 0 .. Len(Order) : run[s].resume = Prefix(n)
      BY <2>1, Found DEF Holds, Resumed
    <3>2. QED
      BY <2>1, <3>1, PrefixBelow, BehindIs DEF Cur
  <2>4. InHand = {} /\ InHand' = {Cur(s)}
    <3>1. ~ Busy(s) /\ Busy(s)' /\ Cur(s)' = Cur(s)
      BY <1>2, <1>4, <2>1 DEF Busy, Dispatch, Cur, RunRecord
    <3>2. QED
      BY <1>3, <2>2, <3>1 DEF InHand
  <2>5. Progress!IsNext(Cur(s)) /\ Cur(s) \in Step
    BY <2>1, <2>2, <2>3, Listing DEF Progress!IsNext, Behind, Cur
  <2>6. Progress!TakeUp(Cur(s))
    BY <1>1, <2>2, <2>4, <2>5 DEF Progress!TakeUp
  <2>7. QED
    BY <2>5, <2>6 DEF Progress!Next
<1>5. CASE Busy(s) /\ ~ Dispatch(s)
  <2>1. \A t \in Session \ {s} : ~ Busy(t)
    BY <1>5, InHandIs DEF Busy, AtWork
  <2>2. CASE Busy(s)'
    <3>1. Land(s) \/ Flush(s)
      BY <1>2, <1>5, <2>2, LandedFacts, OffTheStep DEF Moves, Busy
    <3>2. Cur(s)' = Cur(s)
      BY <1>2, <3>1 DEF Land, Flush, Cur, RunRecord
    <3>3. InHand' = InHand
      BY <1>3, <1>5, <2>2, <3>2 DEF InHand
    <3>4. QED
      BY <1>1, <3>3 DEF Progress!progressVars
  <2>3. CASE ~ Busy(s)'
    <3>1. InHand' = {}
      BY <1>3, <2>1, <2>3 DEF InHand
    <3>2. QED
      BY <1>1, <3>1 DEF Progress!Next, Progress!PutDown
  <2>4. QED
    BY <2>2, <2>3
<1>6. CASE ~ Busy(s) /\ ~ Dispatch(s)
  <2>1. ~ Busy(s)'
    <3>1. CASE Flush(s)
      BY <1>2, <1>6, <3>1 DEF Flush, Busy, RunRecord
    <3>2. CASE ~ Flush(s)
      <4>1. ~ Land(s)
        BY <1>6 DEF Land, Busy
      <4>2. QED
        BY <1>2, <1>6, <3>2, <4>1, OffTheStep DEF Busy
    <3>3. QED
      BY <3>1, <3>2
  <2>2. InHand' = InHand
    BY <1>3, <1>6, <2>1 DEF InHand
  <2>3. QED
    BY <1>1, <2>2 DEF Progress!progressVars
<1>7. QED
  BY <1>4, <1>5, <1>6

\* A record takes the playbook one step further, or closes the task.
LEMMA RecordMoves ==
    ASSUME Careless = {}, TaskInv, NEW s \in Session, Appends(s)
    PROVE  Progress!Next
<1> DEFINE ck == io[s].body
<1>1. /\ Last' = ck /\ Last' # None /\ ~ Closed /\ Recorded = Done(Last)
      /\ \A t \in Session \ {s} : ~ Using(io[t]) /\ run'[t] = run[t]
      /\ run'[s].pc \notin {"calling", "asking"}
  BY RecordMore
<1>2. Using(io[s]) /\ io[s].phase # "open" /\ run[s].pc \in {"hook", "ended"}
  BY DEF Appends, Using
<1>3. /\ ck.status = IF run[s].pc = "hook" THEN "in_progress" ELSE "completed"
      /\ ck.done = IF run[s].pc = "hook" THEN run[s].completed ELSE Step
  BY <1>2, OnItsWay
<1>4. InHand = {} /\ InHand' = {}
  <2>1. \A t \in Session \ {s} : run[t].pc \notin {"calling", "asking"}
    BY <1>1, Found DEF Holds, AtWork
  <2>2. \A t \in Session : ~ Busy(t) /\ ~ Busy(t)'
    BY <1>1, <1>2, <2>1 DEF Busy
  <2>3. QED
    BY <2>2 DEF InHand
<1>5. Recorded' = ck.done /\ (Closed' <=> ck.status = "completed")
  BY <1>1 DEF Recorded, Closed
<1>6. CASE run[s].pc = "hook"
  <2> DEFINE x == Order[run[s].pos]
  <2>1. /\ run[s].pos \in 1 .. Len(Order) /\ x \in Step /\ run[s].completed = Behind(run[s]) \cup {x}
        /\ Recorded = Behind(run[s])
    BY <1>1, <1>6, AtHook
  <2>2. Progress!IsNext(x)
    BY <2>1 DEF Progress!IsNext, Behind
  <2>3. Recorded' = Recorded \cup {x} /\ Closed' = Closed
    BY <1>1, <1>3, <1>5, <1>6, <2>1 DEF Closed
  <2>4. Progress!RecordStep(x)
    BY <1>1, <1>4, <2>2, <2>3 DEF Progress!RecordStep
  <2>5. QED
    BY <2>1, <2>4 DEF Progress!Next
<1>7. CASE run[s].pc = "ended"
  <2>1. Recorded = Step
    BY <1>1, <1>2, <1>7, Found DEF Holds, Following
  <2>2. Progress!Close
    BY <1>3, <1>4, <1>5, <1>7, <2>1 DEF Progress!Close
  <2>3. QED
    BY <2>2 DEF Progress!Next
<1>8. QED
  BY <1>2, <1>6, <1>7

LEMMA ProgressStep ==
    ASSUME Careless = {}, TaskInv, [TaskNext]_vars
    PROVE  [Progress!Next]_(Progress!progressVars)
<1>1. ASSUME NEW s \in Session, Appends(s) PROVE Progress!Next
  BY <1>1, RecordMoves
<1>2. CASE UNCHANGED lines \/ lines' = Append(lines, Log!Torn)
  <2>1. Last' = Last
    BY <1>2, LatestStays
  <2>2. CASE run' = run
    <3>1. Recorded' = Recorded /\ Closed' = Closed /\ InHand' = InHand
      BY <2>1, <2>2 DEF Recorded, Closed, InHand, Busy, Cur
    <3>2. QED
      BY <3>1 DEF Progress!progressVars
  <2>3. CASE \E s \in Session : Moves(s)
    BY <2>1, <2>3, HandMoves
  <2>4. QED
    BY <2>2, <2>3, WhoMoves DEF OthersMove, execVars
<1>3. QED
  BY <1>1, <1>2, FileSteps DEF Progress!Next

LEMMA ProgressBegins == TaskInit => Progress!Init
<1> SUFFICES ASSUME TaskInit PROVE Progress!Init
  OBVIOUS
<1>1. Last = None
  BY NothingOnRecord
<1>2. \A s \in Session : ~ Busy(s)
  BY DEF TaskInit, Init, Idle, Busy
<1>3. QED
  BY <1>1, <1>2 DEF Progress!Init, Recorded, Closed, InHand

\* Continuation implements the abstract progress of a task: whatever crashes, is torn or is
\* refused, one step at a time is taken up, never one on record, the record grows by the
\* step that is next, and it is closed once it holds them all (continue-task.ts:59-132), as
\* long as no two sessions are at work at once.
THEOREM ContinuationProgresses == Careless = {} => (TaskSpec => TaskProgresses)
<1> SUFFICES ASSUME Careless = {} PROVE TaskSpec => TaskProgresses
  OBVIOUS
<1>1. TaskInv /\ [TaskNext]_vars => [Progress!Next]_(Progress!progressVars)
  BY ProgressStep
<1>2. QED
  BY <1>1, ProgressBegins, TaskKept, PTL DEF TaskSpec, TaskProgresses, Progress!Spec

-----------------------------------------------------------------------------
(* What the oracle sees at the gate. *)

\* The attempts at step x that may have taken effect in the run, once it is past the gate.
Taken(r, x) ==
    IF r.pc # "idle" /\ r.pos <= Len(Order) /\ Order[r.pos] = x
    THEN IF r.pc = "calling" /\ ~ r.landed THEN r.attempt - 1 ELSE r.attempt
    ELSE 0

\* A step took effect only when those before it were on record.
EffectsInOrder == \A i \in 1 .. Len(Order) : effects[Order[i]] > 0 => Prefix(i - 1) \subseteq Recorded

\* From the record of the first tool step on, the latest checkpoint refers to evidence in
\* which no step that is not on record took effect.
EvidenceOf(refs) == refs \in Evidence /\ \A y \in Step \ Recorded : refs.effects[y] = 0
RefersToEvidence ==
    Last # None /\ Last.status = "in_progress" /\ Recorded \cap Deterministic # {} => EvidenceOf(Last.refs)

\* Evidence on its way to the log is that of the application as it stands.
CarriesEvidence(r, i) == Using(i) /\ i.phase # "open" /\ r.pc = "hook" => i.body.refs = Attested

\* What a session that passed the gate finds without a record is its own doing.
OwnDoing(r, t, i) ==
    Using(i) /\ t.gated /\ r.pc \in {"idle", "hook"} \cup AtWork =>
        \A x \in Step \ Recorded : FirstTool(x) \/ effects[x] <= Taken(r, x)

\* The inductive invariant of a task with an oracle, as long as nobody else interferes.
OracleHolds ==
    /\ AccountInv
    /\ \A x \in Step \ Deterministic : effects[x] = 0
    /\ \A x \in Step : effects[x] <= Attempts[x] \/ FirstTool(x)
    /\ EffectsInOrder
    /\ RefersToEvidence
    /\ \A s \in Session : CarriesEvidence(run[s], io[s]) /\ OwnDoing(run[s], task[s], io[s])

OracleInv == Oracle /\ moves = 0 => OracleHolds

\* The attempts a run took stay taken, and an effect that lands is one of them.
LEMMA TakenIsNat ==
    ASSUME NEW r \in RunRecord, Tries(r), NEW x \in Step
    PROVE  Taken(r, x) \in Nat /\ Taken(r, x) <= Attempts[x]
<1>1. r.attempt \in Nat /\ Attempts[x] \in Nat
  BY AttemptsOf DEF RunRecord
<1>2. QED
  BY <1>1 DEF Taken, Tries

LEMMA WalkTakes ==
    ASSUME AccountInv, AccountInv', NEW s \in Session, Walk(s), Reached(run[s], effects),
           run'[s].pc \in {"hook"} \cup AtWork, NEW x \in Step, x \notin run[s].resume,
           effects[x] <= Taken(run[s], x)
    PROVE  effects'[x] <= Taken(run'[s], x)
<1> DEFINE r == run[s]
           q == run'[s]
<1>1. r \in RunRecord /\ Sound(r) /\ Tries(r) /\ RunInv /\ run \in [Session -> RunRecord] /\ effects \in [Step -> Nat]
  BY AccountsOf DEF AccountInv, RunInv
<1>2. q \in RunRecord /\ Tries(q) /\ Taken(q, x) \in Nat
  <2>1. q \in RunRecord /\ Tries(q)
    BY DEF AccountInv, RunInv, Tries
  <2>2. QED
    BY <2>1, TakenIsNat
<1>3. r.attempt \in Nat /\ effects[x] \in Nat
  BY <1>1 DEF RunRecord
<1>4. CASE Skip(s)
  <2>1. r.pc = "step" /\ Order[r.pos] # x /\ effects' = effects
    BY <1>4 DEF Skip, Cur
  <2>2. effects'[x] = 0
    BY <1>3, <2>1 DEF Taken
  <2>3. QED
    BY <1>2, <2>2
<1>5. CASE Dispatch(s)
  <2>1. r.pc = "step" /\ ~ r.landed /\ effects' = effects
    BY <1>1, <1>5 DEF Dispatch, AtStep, Reached, Over, RunRecord
  <2>2. q.pc \in {"calling", "asking"} /\ q.pos = r.pos /\ q.attempt = r.attempt + 1 /\ q.landed = r.landed
    BY <1>1, <1>5 DEF Dispatch, RunRecord
  <2>3. Taken(r, x) <= Taken(q, x)
    BY <1>3, <2>1, <2>2 DEF Taken
  <2>4. QED
    BY <1>2, <1>3, <2>1, <2>3 DEF Taken
<1>6. CASE Land(s)
  <2>1. r.pc = "calling" /\ ~ r.landed /\ effects' = [effects EXCEPT ![Order[r.pos]] = @ + 1]
    BY <1>6 DEF Land, Cur
  <2>2. q.pc = "calling" /\ q.pos = r.pos /\ q.attempt = r.attempt /\ q.landed
    BY <1>1, <1>6 DEF Land, RunRecord
  <2>3. CASE Order[r.pos] = x
    <3>1. r.pos <= Len(Order)
      BY <1>1, <2>1 DEF Sound, Placed
    <3>2. effects'[x] = effects[x] + 1 /\ Taken(r, x) = r.attempt - 1 /\ Taken(q, x) = r.attempt
      BY <1>1, <2>1, <2>2, <2>3, <3>1 DEF Taken
    <3>3. QED
      BY <1>3, <3>2
  <2>4. CASE Order[r.pos] # x
    BY <1>1, <1>3, <2>1, <2>2, <2>4 DEF Taken
  <2>5. QED
    BY <2>3, <2>4
<1>7. CASE Answers(s)
  <2>1. q.pos = r.pos /\ q.attempt = r.attempt /\ effects' = effects /\ r.pc \in {"calling", "asking"}
        /\ q.pc \in {"step", "hook"}
    BY <1>1, <1>7, AnswerStays DEF SameAttempt, AtWork
  <2>2. QED
    BY <1>3, <2>1 DEF Taken
<1>8. CASE Flush(s)
  BY <1>1, <1>3, <1>8 DEF Flush, RunRecord, Taken
<1>9. ~ (Unbound(s) \/ ModelThrows(s) \/ FinalVerify(s) \/ FlushFails(s) \/ WriteManifest(s) \/ Crash(s))
  <2>1. CASE FinalVerify(s)
    BY <1>1, <2>1, LandedFacts DEF FinalVerify, Outcome, AtWork
  <2>2. CASE Unbound(s) \/ ModelThrows(s) \/ FlushFails(s) \/ WriteManifest(s) \/ Crash(s)
    BY <1>1, <2>2 DEF Unbound, ModelThrows, FlushFails, WriteManifest, Crash, RunRecord, AtWork
  <2>3. QED
    BY <2>1, <2>2
<1>10. QED
  BY <1>4, <1>5, <1>6, <1>7, <1>8, <1>9 DEF Walk, Answers

LEMMA Elsewhere ==
    ASSUME TaskInv, NEW s \in Session, Steps(s)
    PROVE  /\ \A t \in Session \ {s} : run'[t] = run[t] /\ task'[t] = task[t] /\ io'[t] = io[t]
           /\ generation' = generation /\ moves' = moves
<1>1. generation' = generation /\ moves' = moves
  BY DEF Steps, Load, LoadThrows, Gate, Mismatch, BeginRun, Abandon, Replay, SaveStep, SaveThrows, SaveCompleted,
         AppendGoesOn, AppendDone, AppendThrows, Leave, outside
<1>2. \A t \in Session \ {s} : task'[t] = task[t]
  BY Found DEF Steps, Load, LoadThrows, Gate, Mismatch, BeginRun, Abandon, Replay, SaveStep, SaveThrows, SaveCompleted,
               AppendGoesOn, AppendDone, AppendThrows, Leave
<1>3. \A t \in Session \ {s} : io'[t] = io[t]
  BY Found DEF Steps, Load, LoadThrows, Gate, Mismatch, BeginRun, Abandon, Replay, SaveStep, SaveThrows, SaveCompleted,
               AppendGoesOn, AppendDone, AppendThrows, Leave, fileVars, Store!Open, Store!OpenThrows, Store!Close,
               Store!CallAppend, Store!CheckSeq, Store!LookAtEnd, Store!Write, Store!WriteCut, Store!RefuseSeq
<1>4. UNCHANGED execVars \/ Moves(s)
  BY DEF Steps, Load, LoadThrows, Gate, Mismatch, BeginRun, Abandon, Replay, SaveStep, SaveThrows, SaveCompleted,
         AppendGoesOn, AppendDone, AppendThrows, Leave, Moves, Walk
<1>5. \A t \in Session \ {s} : run'[t] = run[t]
  BY <1>4, Found DEF execVars, Moves, Begin, HookResolves, HookThrows, Walk, Skip, Dispatch, Unbound, Land, ToolFails,
     ToolPasses, ExpectFails, ModelAnswers, ModelThrows, FinalVerify, Flush, FlushFails, WriteManifest, Crash
<1>6. QED
  BY <1>1, <1>2, <1>3, <1>5

\* Only the landing of a call changes the application.
LEMMA OnlyLands ==
    ASSUME NEW s \in Session, Moves(s), ~ Land(s)
    PROVE  effects' = effects
  BY DEF Moves, Begin, HookResolves, HookThrows, Walk, Skip, Dispatch, Unbound, ToolFails, ToolPasses, ExpectFails,
         ModelAnswers, ModelThrows, FinalVerify, Flush, FlushFails, WriteManifest, Crash

\* The accounts of the executor are kept by the runs of a task.
LEMMA MoveAccounts ==
    ASSUME AccountInv, RunInv', NEW s \in Session, Moves(s)
    PROVE  AccountInv'
<1>1. CASE Walk(s) \/ HookResolves(s) \/ HookThrows(s)
  BY <1>1, AccountNext DEF Next
<1>2. ASSUME NEW done, NEW bound, NEW stop \in StopAfter, Begin(s, done, bound, stop)
      PROVE  AccountInv'
  <2> DEFINE q == [Idle EXCEPT !.pc = "step", !.resume = done, !.bound = bound, !.stop = stop]
  <2>1. run'[s] = q
    BY <1>2 DEF Begin, AccountInv, RunInv
  <2>2. q.resume = done /\ q.bound = bound
    BY DEF Idle
  <2> HIDE DEF q
  <2>3. done \in SUBSET Step /\ bound \in SUBSET (Step \ Deterministic)
    BY <2>1, <2>2 DEF RunInv, RunRecord
  <2>4. QED
    BY <1>2, <2>3, BeginAccounts
<1>3. QED
  BY <1>1, <1>2 DEF Moves

\* The gate lets a session through when the application shows no step without a record, but
\* perhaps the first tool step.
LEMMA GateSees ==
    ASSUME TaskInv, Oracle, OracleHolds, NEW s \in Session, Gate(s), NEW x \in Step \ Recorded,
           effects[x] > 0
    PROVE  FirstTool(x)
<1>1. PICK i \in 1 .. Len(Order) : Order[i] = x
  BY PlaybookAssumption
<1>2. Prefix(i - 1) \subseteq Recorded
  BY <1>1 DEF OracleHolds, EffectsInOrder
<1>3. x \in Deterministic
  BY DEF OracleHolds
<1>4. CASE Recorded \cap Deterministic = {}
  <2>1. \A j \in 1 .. i - 1 : Order[j] \in Prefix(i - 1)
    BY DEF Prefix
  <2>2. \A j \in 1 .. i - 1 : Order[j] \notin Deterministic
    BY <1>2, <1>4, <2>1
  <2>3. QED
    BY <1>1, <1>3, <2>2 DEF FirstTool
<1>5. CASE Recorded \cap Deterministic # {}
  <2>1. Last # None
    BY <1>5 DEF Recorded
  <2>2. task[s].from = Last
    <3>1. Using(io[s]) /\ run[s].pc = "idle"
      BY Found DEF Gate, AtGate, Using, Holds, Following
    <3>2. QED
      BY <3>1, Found DEF Holds, Following
  <2>3. Last.status = "in_progress" /\ (Last.refs # None => Last.refs = Attested)
    <3>1. Last \in Checkpoint
      BY <2>1, LatestGood DEF TaskInv, Good
    <3>2. QED
      BY <2>1, <2>2, <3>1 DEF Gate, Resumable, Checkpoint
  <2>4. Last.refs \in Evidence /\ Last.refs.effects[x] = 0
    BY <1>5, <2>1, <2>3 DEF OracleHolds, RefersToEvidence, EvidenceOf
  <2>5. Last.refs = [generation |-> generation, effects |-> effects]
    BY <2>3, <2>4, NoCheckpointAssumption DEF Attested
  <2>6. QED
    BY <2>4, <2>5
<1>6. QED
  BY <1>4, <1>5

\* A session that does not move keeps what it knows, if nobody changes the application and
\* the record while it is at work.
LEMMA OnlookerKeeps ==
    ASSUME OracleHolds, NEW t \in Session, run'[t] = run[t], task'[t] = task[t], io'[t] = io[t],
           generation' = generation, (effects' = effects /\ Last' = Last) \/ ~ Using(io[t])
    PROVE  (CarriesEvidence(run[t], io[t]) /\ OwnDoing(run[t], task[t], io[t]))'
<1>1. CASE ~ Using(io[t])
  BY <1>1 DEF CarriesEvidence, OwnDoing, Using
<1>2. CASE effects' = effects /\ Last' = Last
  <2>1. Attested' = Attested /\ Recorded' = Recorded
    BY <1>2 DEF Attested, Recorded
  <2>2. QED
    BY <1>2, <2>1 DEF OracleHolds, CarriesEvidence, OwnDoing, FirstTool
<1>3. QED
  BY <1>1, <1>2

\* A step that does not land a call, of the session that takes it.
LEMMA QuietKeeps ==
    ASSUME Careless = {}, TaskInv, Oracle, OracleHolds, NEW s \in Session, Steps(s), UNCHANGED execVars, Last' = Last,
           ~ Appends(s)
    PROVE  (CarriesEvidence(run[s], io[s]) /\ OwnDoing(run[s], task[s], io[s]))'
<1>1. run' = run /\ effects' = effects /\ generation' = generation /\ Attested' = Attested /\ Recorded' = Recorded
  BY Elsewhere DEF execVars, Attested, Recorded
<1>2. CASE Load(s) \/ LoadThrows(s) \/ Mismatch(s) \/ Abandon(s) \/ Leave(s) \/ AppendThrows(s)
  <2>1. ~ Using(io'[s]) \/ (~ task'[s].gated /\ run[s].pc # "hook")
    <3>1. CASE Load(s)
      <4>1. io[s].phase = "unopened"
        BY <3>1 DEF Load, Store!Open
      <4>2. run[s].pc = "idle" /\ task[s] = NewTask
        BY <4>1, Found DEF Holds
      <4>3. task'[s].gated = task[s].gated
        BY <3>1, Found DEF Load, Task
      <4>4. QED
        BY <4>2, <4>3 DEF NewTask
    <3>2. CASE LoadThrows(s) \/ Mismatch(s) \/ Abandon(s) \/ Leave(s) \/ AppendThrows(s)
      BY <3>2, Found DEF LoadThrows, Mismatch, Abandon, Leave, AppendThrows, Store!OpenThrows, Store!Close,
         Store!RefuseSeq, Store!WriteCut, Using, Log!IO
    <3>3. QED
      BY <1>2, <3>1, <3>2
  <2>2. QED
    BY <1>1, <2>1 DEF CarriesEvidence, OwnDoing
<1>3. CASE Gate(s)
  <2>1. io' = io /\ run[s].pc = "idle"
    BY <1>3, Found DEF Gate, AtGate, fileVars, Holds, Following, Using
  <2>2. ASSUME NEW x \in Step \ Recorded PROVE FirstTool(x) \/ effects[x] <= Taken(run[s], x)
    <3>1. effects[x] > 0 => FirstTool(x)
      BY <1>3, GateSees
    <3>2. effects[x] \in Nat /\ Taken(run[s], x) = 0
      BY <2>1 DEF TaskInv, RunInv, Taken
    <3>3. QED
      BY <3>1, <3>2
  <2>3. QED
    BY <1>1, <2>1, <2>2 DEF CarriesEvidence, OwnDoing, FirstTool
<1>4. CASE SaveStep(s) \/ SaveCompleted(s) \/ AppendGoesOn(s)
  <2>1. Using(io[s]) /\ task'[s].gated = task[s].gated
    BY <1>4, Found DEF SaveStep, SaveCompleted, AppendGoesOn, Store!CallAppend, Store!CheckSeq, Store!LookAtEnd, Using, Task
  <2>2. io'[s].phase # "open" /\ run[s].pc = "hook" => io'[s].body.refs = Attested
    <3>1. CASE SaveStep(s)
      BY <3>1, Found DEF SaveStep, Store!CallAppend, NewCheckpoint, Log!IO
    <3>2. CASE SaveCompleted(s)
      BY <3>2 DEF SaveCompleted
    <3>3. CASE AppendGoesOn(s)
      <4>1. io[s].phase # "open" /\ io'[s].body = io[s].body
        BY <3>3, Found DEF AppendGoesOn, Store!CheckSeq, Store!LookAtEnd, Log!IO
      <4>2. QED
        BY <2>1, <4>1 DEF OracleHolds, CarriesEvidence
    <3>4. QED
      BY <1>4, <3>1, <3>2, <3>3
  <2>3. OwnDoing(run[s], task[s], io[s])
    BY DEF OracleHolds
  <2>4. QED
    BY <1>1, <2>1, <2>2, <2>3 DEF CarriesEvidence, OwnDoing, FirstTool
<1>5. CASE BeginRun(s) \/ Replay(s) \/ SaveThrows(s)
  <2>1. io' = io /\ task' = task
    BY <1>5 DEF BeginRun, Replay, SaveThrows, fileVars
  <2>2. QED
    BY <1>1, <2>1 DEF OracleHolds, CarriesEvidence, OwnDoing, FirstTool
<1>6. CASE AppendDone(s)
  BY <1>6, DoneAppends
<1>7. QED
  BY <1>2, <1>3, <1>4, <1>5, <1>6 DEF Steps

\* A run that is at work after a step was at work before it, and at its hook only the queue
\* moves.
LEMMA WalkFrom ==
    ASSUME RunInv, NEW s \in Session, Walk(s), run'[s].pc \in {"idle", "hook"} \cup AtWork
    PROVE  /\ run[s].pc \in {"hook"} \cup AtWork /\ run'[s].pc \in {"hook"} \cup AtWork
           /\ run[s].pc = "hook" => effects' = effects
<1>1. run \in [Session -> RunRecord] /\ run[s] \in RunRecord
  BY DEF RunInv
<1>2. ~ (Unbound(s) \/ ModelThrows(s) \/ FlushFails(s) \/ WriteManifest(s) \/ Crash(s) \/ FinalVerify(s))
  <2>1. CASE FinalVerify(s)
    BY <1>1, <2>1, LandedFacts DEF FinalVerify, Outcome, AtWork
  <2>2. CASE Unbound(s) \/ ModelThrows(s) \/ FlushFails(s) \/ WriteManifest(s) \/ Crash(s)
    BY <1>1, <2>2 DEF Unbound, ModelThrows, FlushFails, WriteManifest, Crash, RunRecord, AtWork
  <2>3. QED
    BY <2>1, <2>2
<1>3. CASE Flush(s)
  BY <1>1, <1>3 DEF Flush, Active, RunRecord, AtWork
<1>4. CASE Answers(s)
  BY <1>4, AnswerStays DEF AtWork
<1>5. CASE Land(s) \/ Dispatch(s)
  BY <1>1, <1>5 DEF Land, Dispatch, AtStep, RunRecord, AtWork
<1>6. CASE Skip(s)
  <2>1. run'[s].pc = "step"
    <3> DEFINE q == [run[s] EXCEPT !.completed = @ \cup {Cur(s)}]
    <3>1. q \in RunRecord /\ run'[s] = Onward(q)
      BY <1>1, <1>6, Listing DEF RunRecord, Skip
    <3> HIDE DEF q
    <3>2. QED
      BY <3>1, LandedFacts
  <2>2. QED
    BY <1>6, <2>1 DEF Skip, AtWork
<1>7. QED
  BY <1>2, <1>3, <1>4, <1>5, <1>6 DEF Walk, Answers

\* A run on its way: what it attempts, and what lands of it, is its own doing.
LEMMA MovingKeeps ==
    ASSUME Careless = {}, TaskInv, TaskInv', TruthInv, moves = 0, Oracle, OracleHolds, AccountInv',
           NEW s \in Session, Steps(s), ~ UNCHANGED execVars, Last' = Last, ~ Appends(s)
    PROVE  (CarriesEvidence(run[s], io[s]) /\ OwnDoing(run[s], task[s], io[s]))'
<1>1. generation' = generation /\ Recorded' = Recorded
  BY Elsewhere DEF Recorded
<1>2. CASE run'[s].pc \notin {"idle", "hook"} \cup AtWork
  BY <1>2 DEF CarriesEvidence, OwnDoing
<1>3. CASE run'[s].pc \in {"idle", "hook"} \cup AtWork
  <2>1. Replay(s) \/ BeginRun(s)
    <3>1. ~ AppendDone(s)
      BY DoneAppends
    <3>2. ~ HookThrows(s) /\ ~ Crash(s)
      <4>1. CASE HookThrows(s)
        BY <1>3, <4>1, Found, LandedFacts DEF HookThrows, HookFailed, Outcome, AtWork
      <4>2. CASE Crash(s)
        BY <1>3, <4>2, Found DEF Crash, RunRecord, AtWork
      <4>3. QED
        BY <4>1, <4>2
    <3>3. ~ SaveThrows(s) /\ ~ AppendThrows(s)
      BY <3>2 DEF SaveThrows, AppendThrows
    <3>4. QED
      BY <3>1, <3>3 DEF Steps, Load, LoadThrows, Gate, Mismatch, Abandon, SaveStep, SaveCompleted, AppendGoesOn, Leave
  <2>2. io' = io /\ task' = task
    BY <2>1 DEF Replay, BeginRun, fileVars
  <2>3. CASE BeginRun(s)
    <3>1. PICK stop \in StopAfter : Begin(s, Done(task[s].from), Bindings(task[s].from), stop)
      BY <2>3 DEF BeginRun
    <3> DEFINE q == [Idle EXCEPT !.pc = "step", !.resume = Done(task[s].from), !.bound = Bindings(task[s].from), !.stop = stop]
    <3>2. q.pc = "step" /\ q.attempt = 0
      BY DEF Idle
    <3>3. run'[s] = q /\ effects' = effects /\ run[s].pc = "idle"
      BY <3>1, Found DEF Begin
    <3> HIDE DEF q
    <3>4. \A x \in Step : Taken(q, x) = 0 /\ Taken(run[s], x) = 0
      BY <3>2, <3>3 DEF Taken
    <3>5. OwnDoing(run[s], task[s], io[s])
      BY DEF OracleHolds
    <3>6. QED
      BY <1>1, <2>2, <3>2, <3>3, <3>4, <3>5 DEF CarriesEvidence, OwnDoing, FirstTool
  <2>4. CASE Replay(s)
    <3>1. /\ Walk(s) /\ run[s].pc \in {"hook"} \cup AtWork /\ run'[s].pc \in {"hook"} \cup AtWork
          /\ run[s].pc = "hook" => effects' = effects
      BY <1>3, <2>4, Found, WalkFrom DEF Replay
    <3>2. Using(io[s]) /\ task[s].gated /\ run[s].resume \subseteq Recorded
      <4>1. Using(io[s]) /\ Following(run[s], task[s], io[s], Last) /\ run[s].pc # "idle"
        BY <3>1, Found DEF Holds, AtWork
      <4>2. run[s].pc = "hook" => run[s].resume \subseteq Recorded
        BY AtHook DEF Recorded, Done
      <4>3. run[s].pc \in AtWork => run[s].resume \subseteq Recorded
        BY InHandIs
      <4>4. QED
        BY <3>1, <4>1, <4>2, <4>3 DEF Following
    <3>3. ASSUME NEW x \in Step \ Recorded PROVE FirstTool(x) \/ effects'[x] <= Taken(run'[s], x)
      <4>1. x \notin run[s].resume /\ (FirstTool(x) \/ effects[x] <= Taken(run[s], x))
        BY <3>1, <3>2 DEF OracleHolds, OwnDoing
      <4>2. Reached(run[s], effects)
        BY DEF TruthInv
      <4>3. QED
        BY <3>1, <4>1, <4>2, WalkTakes DEF OracleHolds
    <3>4. io[s].phase # "open" /\ run'[s].pc = "hook" => io[s].body.refs = Attested'
      <4>1. CASE run[s].pc = "hook"
        <5>1. Attested' = Attested
          BY <1>1, <3>1, <4>1 DEF Attested
        <5>2. QED
          BY <3>2, <4>1, <5>1 DEF OracleHolds, CarriesEvidence
      <4>2. CASE run[s].pc \in AtWork
        BY <3>2, <4>2, Found DEF Holds, Following
      <4>3. QED
        BY <3>1, <4>1, <4>2
    <3>5. QED
      BY <1>1, <2>2, <3>3, <3>4 DEF CarriesEvidence, OwnDoing, FirstTool
  <2>5. QED
    BY <2>1, <2>3, <2>4
<1>4. QED
  BY <1>2, <1>3

\* The application when a call lands, or when nothing does.
LEMMA EffectsKeep ==
    ASSUME Careless = {}, TaskInv, TruthInv, moves = 0, Oracle, OracleHolds, AccountInv',
           NEW s \in Session, UNCHANGED execVars \/ Moves(s), Recorded \subseteq Recorded'
    PROVE  /\ \A x \in Step \ Deterministic : effects'[x] = 0
           /\ \A x \in Step : effects'[x] <= Attempts[x] \/ FirstTool(x)
           /\ EffectsInOrder'
<1>1. CASE effects' = effects
  BY <1>1 DEF OracleHolds, EffectsInOrder
<1>2. CASE Land(s)
  <2> DEFINE x == Order[run[s].pos]
  <2>1. /\ run[s] \in RunRecord /\ run[s].pc = "calling" /\ Tries(run[s]) /\ x \in Deterministic
        /\ run[s].pos \in 1 .. Len(Order)
    <3>1. run[s] \in RunRecord /\ run[s].pc = "calling" /\ Tries(run[s]) /\ Placed(run[s])
      BY <1>2, AccountsOf DEF Land, OracleHolds, Sound
    <3>2. QED
      BY <3>1, Listing DEF Placed, RunRecord
  <2>2. effects' = [effects EXCEPT ![x] = @ + 1] /\ effects \in [Step -> Nat] /\ x \in Step
    BY <1>2, <2>1, PlaybookAssumption DEF Land, Cur, TaskInv, RunInv
  <2>3. Recorded = run[s].resume \cup Behind(run[s]) /\ Using(io[s]) /\ task[s].gated
        /\ x \notin Recorded
    <3>1. Recorded = run[s].resume \cup Behind(run[s])
      BY <2>1, InHandIs DEF AtWork
    <3>2. Using(io[s]) /\ task[s].gated /\ x \notin run[s].resume
      BY <2>1, Found DEF Holds, Following, Resumed, AtWork
    <3>3. x \notin Behind(run[s])
      BY <2>1, NotBefore, BehindIs
    <3>4. QED
      BY <3>1, <3>2, <3>3
  <2>4. effects'[x] <= Attempts[x] \/ FirstTool(x)
    <3>1. FirstTool(x) \/ effects[x] <= Taken(run[s], x)
      BY <2>1, <2>2, <2>3 DEF OracleHolds, OwnDoing, AtWork
    <3>2. Taken(run[s], x) = run[s].attempt - 1
      BY <1>2, <2>1 DEF Taken, Land
    <3>3. run[s].attempt \in Nat /\ Attempts[x] \in Nat /\ run[s].attempt <= Attempts[x] /\ effects[x] \in Nat
      BY <2>1, <2>2, AttemptsOf DEF RunRecord, Tries
    <3>4. QED
      BY <2>2, <3>1, <3>2, <3>3
  <2>5. \A y \in Step : y # x => effects'[y] = effects[y]
    BY <2>2
  <2>6. \A y \in Step : effects'[y] <= Attempts[y] \/ FirstTool(y)
    BY <2>4, <2>5 DEF OracleHolds
  <2>7. \A y \in Step \ Deterministic : effects'[y] = 0
    BY <2>1, <2>5 DEF OracleHolds
  <2>8. EffectsInOrder'
    <3>1. ASSUME NEW i \in 1 .. Len(Order), effects'[Order[i]] > 0
          PROVE  Prefix(i - 1) \subseteq Recorded'
      <4>1. CASE Order[i] = x
        <5>1. i = run[s].pos
          BY <2>1, <4>1, PlaybookAssumption
        <5>2. QED
          BY <2>3, <5>1, BehindIs
      <4>2. CASE Order[i] # x
        BY <2>5, <3>1, <4>2, Listing DEF OracleHolds, EffectsInOrder
      <4>3. QED
        BY <4>1, <4>2
    <3>2. QED
      BY <3>1 DEF EffectsInOrder, Prefix
  <2>9. QED
    BY <2>6, <2>7, <2>8
<1>3. QED
  BY <1>1, <1>2, OnlyLands DEF execVars

\* A session that waits for its checkpoint finds nothing done beyond the step it waits for.
LEMMA NothingBeyond ==
    ASSUME TaskInv, OracleHolds, NEW s \in Session, run[s].pc = "hook", NEW y \in Step \ run[s].completed
    PROVE  effects[y] = 0
<1>1. PICK j \in 1 .. Len(Order) : Order[j] = y
  BY PlaybookAssumption
<1>2. /\ run[s].pos \in 1 .. Len(Order) /\ Order[run[s].pos] \notin Behind(run[s])
      /\ Recorded = Behind(run[s]) /\ run[s].completed = Prefix(run[s].pos)
  BY AtHook DEF Recorded, Done
<1>3. j > run[s].pos
  BY <1>1, <1>2 DEF Prefix
<1>4. Order[run[s].pos] \in Prefix(j - 1)
  BY <1>1, <1>2, <1>3 DEF Prefix
<1>5. ~ (effects[y] > 0)
  BY <1>1, <1>2, <1>4 DEF OracleHolds, EffectsInOrder
<1>6. QED
  BY <1>5 DEF TaskInv, RunInv

LEMMA RecordKeeps ==
    ASSUME Careless = {}, TaskInv, TaskInv', TruthInv', moves = 0, moves' = 0, Oracle, OracleHolds, AccountInv',
           NEW s \in Session, Appends(s), effects' = effects, generation' = generation
    PROVE  /\ RefersToEvidence' /\ Recorded \subseteq Recorded'
           /\ (CarriesEvidence(run[s], io[s]) /\ OwnDoing(run[s], task[s], io[s]))'
<1> DEFINE ck == io[s].body
<1>1. /\ Last' = ck /\ Last' # None /\ Recorded = Done(Last)
      /\ Log!Records' = Log!Records \cup {Len(lines) + 1} /\ lines'[Len(lines) + 1].body = ck
      /\ run'[s].pc \notin {"calling", "asking"}
  BY RecordMore
<1>2. Using(io[s]) /\ io[s].phase # "open" /\ run[s].pc \in {"hook", "ended"}
  BY DEF Appends, Using
<1>3. /\ ck.status = IF run[s].pc = "hook" THEN "in_progress" ELSE "completed"
      /\ ck.done = IF run[s].pc = "hook" THEN run[s].completed ELSE Step
  BY <1>2, OnItsWay
<1>4. Recorded' = ck.done
  BY <1>1 DEF Recorded
<1>5. run'[s] \in RunRecord /\ Tries(run'[s])
  BY DEF AccountInv, RunInv, Tries
<1>6. io'[s].phase \in {"open", "over"}
  BY Found DEF Appends, AppendDone, AppendThrows, Store!Write, Store!RefuseSeq, Store!WriteCut, Log!IO
<1>7. CarriesEvidence(run[s], io[s])'
  BY <1>6 DEF CarriesEvidence, Using
<1>8. CASE run[s].pc = "hook"
  <2>1. Recorded' = run[s].completed /\ Recorded \subseteq Recorded'
    <3>1. run[s].completed = Done(Last) \cup {Order[run[s].pos]}
      BY <1>8, AtHook
    <3>2. QED
      BY <1>1, <1>3, <1>4, <1>8, <3>1
  <2>2. \A y \in Step \ Recorded' : effects[y] = 0
    BY <1>8, <2>1, NothingBeyond
  <2>3. ASSUME Recorded' \cap Deterministic # {} PROVE EvidenceOf(Last.refs)'
    <3>1. PICK x \in Recorded' \cap Deterministic : TRUE
      BY <2>3
    <3>2. effects'[x] > 0
      BY <1>1, <1>4, <3>1, LastIsThen DEF TruthInv, RecordsAreTrue
    <3>3. Attested = [generation |-> generation, effects |-> effects]
      BY <3>1, <3>2, PlaybookAssumption DEF Attested
    <3>4. ck.refs = Attested
      BY <1>2, <1>8 DEF OracleHolds, CarriesEvidence
    <3>5. ck.refs \in Evidence /\ ck.refs.effects = effects
      BY <3>3, <3>4 DEF Evidence, TaskInv, RunInv
    <3>6. QED
      BY <1>1, <2>2, <3>5 DEF EvidenceOf
  <2>4. RefersToEvidence'
    BY <2>3 DEF RefersToEvidence
  <2>5. OwnDoing(run[s], task[s], io[s])'
    <3>1. ASSUME NEW x \in Step \ Recorded' PROVE effects'[x] <= Taken(run'[s], x)
      BY <1>5, <2>2, TakenIsNat
    <3>2. QED
      BY <3>1 DEF OwnDoing
  <2>6. QED
    BY <1>7, <2>1, <2>4, <2>5
<1>9. CASE run[s].pc = "ended"
  <2>1. Recorded' = Step /\ Last'.status = "completed"
    BY <1>1, <1>3, <1>4, <1>9
  <2>2. RefersToEvidence' /\ OwnDoing(run[s], task[s], io[s])'
    BY <2>1 DEF RefersToEvidence, OwnDoing
  <2>3. Recorded \subseteq Step
    BY <1>1, LatestGood DEF TaskInv
  <2>4. QED
    BY <1>7, <2>1, <2>2, <2>3
<1>10. QED
  BY <1>2, <1>8, <1>9

\* The log is in use by one session at a time.
LEMMA UsedByOne ==
    ASSUME Careless = {}, TaskInv, NEW s \in Session, Using(io[s])
    PROVE  \A t \in Session \ {s} : ~ Using(io[t])
<1>1. Log!LogInv
  BY Found DEF LogHolds
<1>2. QED
  BY <1>1, NobodyCareless, Found DEF Log!LogInv, Log!Alone

\* A step that appends no record leaves the latest one.
LEMMA LastKept ==
    ASSUME Careless = {}, TaskInv, NEW s \in Session, Steps(s), ~ Appends(s)
    PROVE  Last' = Last
<1>1. [TaskNext]_vars
  BY DEF TaskNext, Steps
<1>2. QED
  BY <1>1, SessionWrites, LatestStays

LEMMA OracleKept ==
    ASSUME Careless = {}, TaskInv, TruthInv, OracleInv, [TaskNext]_vars
    PROVE  OracleInv'
<1> SUFFICES ASSUME Oracle, moves' = 0 PROVE OracleHolds'
  BY DEF OracleInv
<1>1. TaskInv' /\ TruthInv'
  BY TaskGoesOn, TruthKept
<1>2. ~ OthersMove
  BY DEF OthersMove, TaskInv
<1>3. moves = 0 /\ OracleHolds
  <2>1. moves = 0
    BY <1>2, WhoMoves
  <2>2. QED
    BY <2>1 DEF OracleInv
<1>4. CASE UNCHANGED vars
  <2>1. Last' = Last /\ Attested' = Attested
    BY <1>4 DEF vars, execVars, fileVars, outside, Last, Store!Records, Store!Latest, Store!IsLast, Attested
  <2>2. AccountInv'
    BY <1>3, <1>4, AccountNext DEF OracleHolds, vars, execVars
  <2>3. run' = run /\ effects' = effects /\ io' = io /\ task' = task /\ Recorded' = Recorded
    BY <1>4, <2>1 DEF vars, Recorded
  <2>4. QED
    BY <1>3, <2>1, <2>2, <2>3 DEF OracleHolds, EffectsInOrder, RefersToEvidence, EvidenceOf, CarriesEvidence, OwnDoing
<1>5. ASSUME NEW s \in Session, Steps(s) PROVE OracleHolds'
  <2>1. /\ \A t \in Session \ {s} : run'[t] = run[t] /\ task'[t] = task[t] /\ io'[t] = io[t]
        /\ generation' = generation
    BY <1>5, Elsewhere
  <2>2. UNCHANGED execVars \/ Moves(s)
    BY <1>5 DEF Steps, Load, LoadThrows, Gate, Mismatch, BeginRun, Abandon, Replay, SaveStep, SaveThrows, SaveCompleted,
       AppendGoesOn, AppendDone, AppendThrows, Leave, Moves, Walk
  <2>3. AccountInv'
    <3>1. RunInv'
      BY <1>1 DEF TaskInv
    <3>2. UNCHANGED execVars => AccountInv'
      BY <1>3, AccountNext DEF OracleHolds
    <3>3. QED
      BY <1>3, <2>2, <3>1, <3>2, MoveAccounts DEF OracleHolds
  <2>4. CASE Appends(s)
    <3>1. effects' = effects
      BY <2>4 DEF Appends, AppendDone, AppendThrows, HookResolves, HookThrows, Crash, execVars
    <3>2. /\ RefersToEvidence' /\ Recorded \subseteq Recorded'
          /\ (CarriesEvidence(run[s], io[s]) /\ OwnDoing(run[s], task[s], io[s]))'
      BY <1>1, <1>3, <2>1, <2>3, <2>4, <3>1, RecordKeeps
    <3>3. /\ \A x \in Step \ Deterministic : effects'[x] = 0
          /\ \A x \in Step : effects'[x] <= Attempts[x] \/ FirstTool(x)
          /\ EffectsInOrder'
      BY <1>3, <2>2, <2>3, <3>2, EffectsKeep
    <3>4. ASSUME NEW t \in Session \ {s}
          PROVE  (CarriesEvidence(run[t], io[t]) /\ OwnDoing(run[t], task[t], io[t]))'
      <4>1. ~ Using(io[t])
        BY <2>4, RecordMore
      <4>2. QED
        BY <1>3, <2>1, <4>1, OnlookerKeeps
    <3>5. QED
      BY <2>3, <3>2, <3>3, <3>4 DEF OracleHolds, FirstTool
  <2>5. CASE ~ Appends(s)
    <3>1. Last' = Last
      BY <1>5, <2>5, LastKept
    <3>2. Recorded' = Recorded /\ RefersToEvidence'
      BY <1>3, <3>1 DEF Recorded, OracleHolds, RefersToEvidence, EvidenceOf
    <3>3. /\ \A x \in Step \ Deterministic : effects'[x] = 0
          /\ \A x \in Step : effects'[x] <= Attempts[x] \/ FirstTool(x)
          /\ EffectsInOrder'
      BY <1>3, <2>2, <2>3, <3>2, EffectsKeep
    <3>4. (CarriesEvidence(run[s], io[s]) /\ OwnDoing(run[s], task[s], io[s]))'
      BY <1>1, <1>3, <1>5, <2>3, <2>5, <3>1, QuietKeeps, MovingKeeps
    <3>5. ASSUME NEW t \in Session \ {s}
          PROVE  (CarriesEvidence(run[t], io[t]) /\ OwnDoing(run[t], task[t], io[t]))'
      <4>1. effects' = effects \/ ~ Using(io[t])
        <5>1. CASE Land(s)
          <6>1. Using(io[s])
            BY <5>1, Found DEF Land, Holds, AtWork
          <6>2. ~ Using(io[t])
            BY <6>1, UsedByOne
          <6>3. QED
            BY <6>2
        <5>2. CASE ~ Land(s)
          BY <2>2, <5>2, OnlyLands DEF execVars
        <5>3. QED
          BY <5>1, <5>2
      <4>2. QED
        BY <1>3, <2>1, <3>1, <4>1, OnlookerKeeps
    <3>6. QED
      BY <2>3, <3>2, <3>3, <3>4, <3>5 DEF OracleHolds, FirstTool
  <2>6. QED
    BY <2>4, <2>5
<1>6. QED
  BY <1>2, <1>4, <1>5 DEF TaskNext, Steps

\* At first nothing took effect, and nothing is on record.
LEMMA OracleBegins == TaskInit => OracleInv
<1> SUFFICES ASSUME TaskInit PROVE OracleHolds
  BY DEF OracleInv
<1>1. Last = None
  BY NothingOnRecord
<1>2. AccountInv
  BY AccountInit DEF TaskInit
<1>3. /\ \A x \in Step : effects[x] = 0
      /\ \A s \in Session : ~ Using(io[s])
  BY DEF TaskInit, Init, LogInit, Store!StoreInit, Store!Unopened, Using
<1>4. EffectsInOrder
  BY <1>3, PlaybookAssumption DEF EffectsInOrder
<1>5. RefersToEvidence
  BY <1>1 DEF RefersToEvidence
<1>6. \A x \in Step : Attempts[x] \in Nat \ {0}
  BY PlaybookAssumption
<1>7. QED
  BY <1>2, <1>3, <1>4, <1>5, <1>6 DEF OracleHolds, CarriesEvidence, OwnDoing

\* With an oracle and nobody else at work in the application, a step is repeated beyond its
\* attempts only if it is the first tool step (resume-gate.ts:68-78, continue-task.ts:59-132),
\* however often a session dies between an effect and its record, and as long as no two
\* sessions are at work at once.
THEOREM OracleStopsRepeats == Careless = {} => (TaskSpec => []RepeatsOnlyFirstTool)
<1> SUFFICES ASSUME Careless = {} PROVE TaskSpec => []RepeatsOnlyFirstTool
  OBVIOUS
<1>1. OracleInv => RepeatsOnlyFirstTool
  BY DEF OracleInv, OracleHolds, RepeatsOnlyFirstTool
<1>2. TaskInv /\ TruthInv /\ [TaskNext]_vars => TruthInv'
  BY TruthKept
<1>3. TaskInv /\ TruthInv /\ OracleInv /\ [TaskNext]_vars => OracleInv'
  BY OracleKept
<1>4. QED
  BY <1>1, <1>2, <1>3, TaskKept, TruthBegins, OracleBegins, PTL DEF TaskSpec
=============================================================================
