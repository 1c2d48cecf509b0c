--------------------------- MODULE AgentLoop_proofs ---------------------------
(***************************************************************************)
(* What a run of the agent guarantees for any controls and any budgets of  *)
(* steps, repairs and corrective calls.                                    *)
(***************************************************************************)
EXTENDS AgentLoop, FiniteSetTheorems, TLAPS

\* A turn is under way and its step is not listed yet.
InTurn == pc \in {"planning", "checking", "acting", "deciding"}

\* The loop's counter, the steps listed and the trajectory agree, and the
\* recorder is not finished before the loop is left.
Shape ==
    /\ pc = "turn" \/ InTurn => Len(steps) = step /\ trail = step /\ finishes = 0
    /\ InTurn \/ pc = "recording" => step < MaxSteps
    /\ pc = "recording" =>
         Len(steps) = step + 1 /\ trail = step /\ finishes = 0 /\ steps[step + 1] = cur
    /\ pc = "finishing" => finishes = 1
    /\ finishes <= 1

\* The types, with what keeps the loop's own counts in step.
TypeInv == TypeOK /\ Shape

-----------------------------------------------------------------------------
(* Types. *)

\* The fields a step of the loop sets keep the locals of a turn what they are.
LEMMA TurnUpdates ==
    ASSUME NEW t \in Turn
    PROVE  /\ \A a \in Action : [t EXCEPT !.action = a] \in Turn
           /\ \A e \in {"none", "target", "output", "world", "postcondition"} :
                [t EXCEPT !.error = e] \in Turn
           /\ \A v \in {"holds", "refuted", "threw"} : [t EXCEPT !.verdict = v] \in Turn
           /\ \A f \in BOOLEAN : [t EXCEPT !.fuzzy = f] \in Turn
           /\ [t EXCEPT !.landed = TRUE] \in Turn
           /\ [t EXCEPT !.author = "frontier"] \in Turn
<1>1. \A a \in Action : [t EXCEPT !.action = a] \in Turn
  BY DEF Turn
<1>2. \A e \in {"none", "target", "output", "world", "postcondition"} :
        [t EXCEPT !.error = e] \in Turn
  BY DEF Turn
<1>3. \A v \in {"holds", "refuted", "threw"} : [t EXCEPT !.verdict = v] \in Turn
  BY DEF Turn
<1>4. \A f \in BOOLEAN : [t EXCEPT !.fuzzy = f] \in Turn
  BY DEF Turn
<1>5. [t EXCEPT !.landed = TRUE] \in Turn /\ [t EXCEPT !.author = "frontier"] \in Turn
  BY DEF Turn
<1>6. QED
  BY <1>1, <1>2, <1>3, <1>4, <1>5

\* A turn begins with a page and a planner, and nothing planned.
LEMMA FreshTurn ==
    ASSUME NEW p \in Nat, NEW s \in {"planner", "repair"}, NEW a \in {"frontier", "routine"}
    PROVE  [NewTurn EXCEPT !.page = p, !.source = s, !.author = a] \in Turn
  BY DEF NewTurn, Turn

\* The model calls of the steps are a number of calls.
LEMMA UsageIsNat == usages \in Usage => UsageOfSteps \in Nat
  BY DEF UsageOfSteps, Usage

\* What the catch of the loop does to the recorder, and to nothing else (run.ts:311-323).
LEMMA ThrowFacts ==
    ASSUME TypeInv, NEW carried \in Nat, Throw(carried)
    PROVE  /\ pc' \in {"finishing", "threw"}
           /\ pc' = "finishing" => finishes' = 1
           /\ finishes' \in Nat /\ finishes' <= 1
           /\ manifest' \in [outcome : {"none", "success", "failure"}, tokens : Nat,
                             throws : BOOLEAN]
<1>1. usages \in Usage /\ finishes \in Nat /\ finishes <= 1
  BY DEF TypeInv, TypeOK, Shape
<1>2. UsageOfSteps + carried \in Nat
  BY <1>1, UsageIsNat
<1>3. CASE MayFinish
  <2>1. manifest' = [outcome |-> "failure", tokens |-> UsageOfSteps + carried, throws |-> TRUE]
    BY <1>3 DEF Throw, Finish
  <2>2. pc' = "finishing" /\ finishes' = finishes + 1
    BY <1>3 DEF Throw, Finish
  <2>3. finishes = 0
    BY <1>3 DEF MayFinish
  <2>4. manifest' \in [outcome : {"none", "success", "failure"}, tokens : Nat,
                             throws : BOOLEAN]
    BY <1>2, <2>1
  <2>5. QED
    BY <2>2, <2>3, <2>4
<1>4. CASE ~ MayFinish
  BY <1>1, <1>4 DEF Throw, TypeInv, TypeOK
<1>5. QED
  BY <1>3, <1>4

\* Whatever is thrown, the loop is left.
LEMMA ThrowLeaves ==
    ASSUME NEW carried, Throw(carried)
    PROVE  pc' \in {"finishing", "threw"}
  BY DEF Throw, Finish

\* A listed turn is the last of the steps, and the others stay where they are.
LEMMA Listed ==
    ASSUME TypeInv, NEW turn \in Turn, List(turn)
    PROVE  /\ steps' \in Seq(Turn) /\ Len(steps') = Len(steps) + 1
           /\ Len(steps) \in Nat
           /\ steps'[Len(steps) + 1] = turn
           /\ \A i \in 1 .. Len(steps) : steps'[i] = steps[i]
           /\ usages' \in Usage
<1>1. steps \in Seq(Turn) /\ usage \in Usage /\ usages \in Usage
  BY DEF TypeInv, TypeOK
<1>2. usages' \in Usage
  BY <1>1 DEF List, Usage
<1>3. steps' = Append(steps, turn)
  BY DEF List
<1>4. QED
  BY <1>1, <1>2, <1>3

\* What an action drops on is a control, or none, until it is resolved and after.
LEMMA DropTypes ==
    ASSUME TypeInv
    PROVE  /\ drop \in [on : Control \cup {None}, fuzzy : BOOLEAN]
           /\ NoDrop \in [on : Control \cup {None}, fuzzy : BOOLEAN]
           /\ \A action \in Action : \A control \in Target(action) :
                [NoDrop EXCEPT !.on = control] \in [on : Control \cup {None}, fuzzy : BOOLEAN]
           /\ \A f \in BOOLEAN :
                [drop EXCEPT !.fuzzy = f] \in [on : Control \cup {None}, fuzzy : BOOLEAN]
<1>1. drop \in [on : Control \cup {None}, fuzzy : BOOLEAN]
  BY DEF TypeInv, TypeOK
<1>2. NoDrop \in [on : Control \cup {None}, fuzzy : BOOLEAN]
  BY DEF NoDrop
<1>3. \A action \in Action : \A control \in Target(action) : control \in Control \cup {None}
  BY DEF Target
<1>4. \A control \in Control \cup {None} :
        [NoDrop EXCEPT !.on = control] \in [on : Control \cup {None}, fuzzy : BOOLEAN]
  BY DEF NoDrop
<1>5. \A f \in BOOLEAN :
        [drop EXCEPT !.fuzzy = f] \in [on : Control \cup {None}, fuzzy : BOOLEAN]
  BY <1>1
<1>6. QED
  BY <1>1, <1>2, <1>3, <1>4, <1>5

\* A run that has not begun.
LEMMA TypeInit == Init => TypeInv
<1> SUFFICES ASSUME Init PROVE TypeInv
  OBVIOUS
<1>1. cur \in Turn
  BY DEF Init, NewTurn, Turn
<1>2. usage \in Usage /\ usages \in Usage
  BY DEF Init, NoUsage, Usage
<1>3. steps \in Seq(Turn) /\ Len(steps) = 0
  BY DEF Init
<1>4. TypeOK
  <2>1. call \in [which : {"plan", "escalated", "target", None},
                 tries : 0 .. MaxOutputRepairs, usages : Nat]
    BY AgentAssumption DEF Init, NoCall, AgentAssumption
  <2>2. manifest \in [outcome : {"none", "success", "failure"}, tokens : Nat,
                     throws : BOOLEAN]
    BY DEF Init, NoManifest
  <2>3. 0 \in 0 .. MaxSteps /\ 0 \in 0 .. MaxRepairs /\ 0 <= MaxSteps
    BY AgentAssumption DEF AgentAssumption
  <2>4. drop \in [on : Control \cup {None}, fuzzy : BOOLEAN]
    BY DEF Init, NoDrop
  <2>5. QED
    BY <1>1, <1>2, <1>3, <2>1, <2>2, <2>3, <2>4 DEF Init, TypeOK
<1>5. Shape
  BY <1>3 DEF Init, Shape, InTurn
<1>6. QED
  BY <1>4, <1>5 DEF TypeInv

\* Every step of the loop keeps the types, and the counters in step.
LEMMA TypeNext == TypeInv /\ [Next]_vars => TypeInv'
<1> SUFFICES ASSUME TypeInv, [Next]_vars PROVE TypeInv'
  OBVIOUS
<1> USE DEF TypeInv, TypeOK, Shape, InTurn, budget, world, record
<1>b. MaxSteps \in Nat /\ MaxRepairs \in Nat /\ MaxOutputRepairs \in Nat /\ None \notin Nat
  BY AgentAssumption DEF AgentAssumption
<1>c. cur \in Turn /\ usage \in Usage /\ call.usages \in Nat
  BY DEF TypeInv, TypeOK
<1>e. /\ effects \in Nat /\ kept \in Nat \cup {None} /\ pending \in BOOLEAN
      /\ call \in [which : {"plan", "escalated", "target", None},
                    tries : 0 .. MaxOutputRepairs, usages : Nat]
  BY DEF TypeInv, TypeOK
<1>d. UsageOfSteps \in Nat
  BY UsageIsNat DEF TypeInv, TypeOK
<1>1. CASE Observe
  <2>1. cur' \in Turn
    <3>1. (IF kept = None THEN effects ELSE kept) \in Nat
      BY <1>e
    <3>2. (IF pending THEN "repair" ELSE "planner") \in {"planner", "repair"}
      OBVIOUS
    <3>3. Routes \subseteq {"frontier", "routine"}
      BY DEF Routes
    <3>4. PICK planner \in Routes :
            cur' = [NewTurn EXCEPT !.page = IF kept = None THEN effects ELSE kept,
                                   !.source = IF pending THEN "repair" ELSE "planner",
                                   !.author = planner]
      BY <1>1 DEF Observe
    <3>5. QED
      BY <3>1, <3>2, <3>3, <3>4, FreshTurn
  <2>2. usage' \in Usage
    BY <1>1 DEF Observe, NoUsage, Usage
  <2>3. QED
    BY <1>1, <1>b, <2>1, <2>2 DEF Observe, Ask, NoCall
<1>2. CASE ObserveThrows
  BY <1>2, <1>b, ThrowFacts DEF ObserveThrows
<1>3. CASE Planned
  <2> HIDE DEF TypeInv
  <2>1. cur' \in Turn
    <3>1. PICK action \in Action : cur' = [cur EXCEPT !.action = action]
      BY <1>3 DEF Planned
    <3>2. QED
      BY <1>c, <3>1, TurnUpdates
  <2>2. usage' \in Usage
    BY <1>3, <1>c DEF Planned, Usage
  <2>3. pc = "planning" /\ pc' \in {"deciding", "checking"}
    BY <1>3 DEF Planned
  <2>4. UNCHANGED <<step, call, repairs, kept, ids, effects, steps, usages, trail, finishes,
                    manifest, sealed>>
    BY <1>3 DEF Planned, world, record
  <2>5. spent' \in Nat /\ pending' \in BOOLEAN
    <3>1. spent' = spent + 1
      BY <1>3 DEF Planned
    <3>2. pending' = FALSE
      BY <1>3 DEF Planned
    <3>3. spent \in Nat
      BY DEF TypeInv, TypeOK
    <3>4. pending' \in BOOLEAN
      BY <3>2
    <3>5. spent' \in Nat
      BY <3>1, <3>3
    <3>6. QED
      BY <3>4, <3>5
  <2>6. drop' \in [on : Control \cup {None}, fuzzy : BOOLEAN]
    <3>1. PICK action \in Action :
            \E control \in Target(action) : drop' = [NoDrop EXCEPT !.on = control]
      BY <1>3 DEF Planned
    <3>2. QED
      BY <3>1, DropTypes
  <2>7. TypeOK'
    BY <1>b, <2>1, <2>2, <2>3, <2>4, <2>5, <2>6 DEF TypeInv, TypeOK
  <2>8. QED
    BY <2>3, <2>4, <2>7 DEF TypeInv, Shape, InTurn
<1>4. CASE PlansAgain
  <2>1. call' \in [which : {"plan", "escalated", "target", None},
                   tries : 0 .. MaxOutputRepairs, usages : Nat]
    <3>1. call.tries \in 0 .. MaxOutputRepairs /\ call.tries < MaxOutputRepairs
      BY <1>4, <1>e DEF PlansAgain
    <3>2. call.tries + 1 \in 0 .. MaxOutputRepairs /\ call.usages + 1 \in Nat
      BY <1>b, <1>c, <3>1
    <3>3. call' = [call EXCEPT !.tries = call.tries + 1, !.usages = call.usages + 1]
      BY <1>4 DEF PlansAgain
    <3>4. QED
      BY <1>e, <3>2, <3>3
  <2>2. QED
    BY <1>4, <1>b, <2>1 DEF PlansAgain
<1>5. CASE Escalates
  <2>1. cur' \in Turn
    BY <1>5, <1>c, TurnUpdates DEF Escalates
  <2>2. usage' \in Usage
    <3>1. usage \in Usage /\ call.usages + 1 \in Nat
      BY <1>c
    <3>2. usage' = [usage EXCEPT !.escalated = call.usages + 1]
      BY <1>5 DEF Escalates
    <3>3. QED
      BY <3>1, <3>2 DEF Usage
  <2>3. QED
    BY <1>5, <1>b, <2>1, <2>2 DEF Escalates, OutputFails, Ask, NoCall
<1>6. CASE PlanFails
  <2>1. call.usages + 1 \in Nat
    BY <1>c
  <2>2. QED
    BY <1>6, <1>b, <2>1, ThrowFacts DEF PlanFails, OutputFails
<1>7. CASE TargetPlanFails
  <2>1. cur' \in Turn
    BY <1>7, <1>c, TurnUpdates DEF TargetPlanFails
  <2>2. call.usages + 1 \in Nat
    BY <1>c
  <2>3. call' \in [which : {"plan", "escalated", "target", None}, tries : 0 .. MaxOutputRepairs, usages : Nat]
    BY <1>7, <1>e, <2>2 DEF TargetPlanFails
  <2>4. QED
    BY <1>7, <1>b, <2>1, <2>3 DEF TargetPlanFails, OutputFails
<1>8. CASE ProviderFails
  <2>1. cur' \in Turn
    BY <1>8, <1>c, TurnUpdates DEF ProviderFails
  <2>2. CASE call.which = "target"
    BY <1>8, <1>b, <2>1, <2>2 DEF ProviderFails, NoCall
  <2>3. CASE call.which # "target"
    <3>1. Throw(0) /\ 0 \in Nat
      BY <1>8, <2>3 DEF ProviderFails
    <3>2. /\ pc' \in {"finishing", "threw"} /\ (pc' = "finishing" => finishes' = 1)
          /\ finishes' \in Nat /\ finishes' <= 1
          /\ manifest' \in [outcome : {"none", "success", "failure"}, tokens : Nat, throws : BOOLEAN]
      BY <3>1, ThrowFacts
    <3>3. QED
      BY <1>8, <1>b, <2>1, <2>3, <3>2 DEF ProviderFails, NoCall
  <2>4. QED
    BY <2>2, <2>3
<1>9. CASE CheckPasses
  <2>1. cur' \in Turn
    <3>1. PICK f \in BOOLEAN : cur' = [cur EXCEPT !.fuzzy = f]
      BY <1>9 DEF CheckPasses
    <3>2. QED
      BY <1>c, <3>1, TurnUpdates
  <2>2. drop' \in [on : Control \cup {None}, fuzzy : BOOLEAN]
    <3>1. PICK f \in BOOLEAN : drop' = [drop EXCEPT !.fuzzy = f]
      BY <1>9 DEF CheckPasses
    <3>2. QED
      BY <3>1, DropTypes
  <2>3. /\ pc = "checking" /\ pc' \in {"acting", "deciding"}
        /\ UNCHANGED <<call, usage, budget, world, spent, record>>
    BY <1>9 DEF CheckPasses
  <2>4. TypeOK'
    BY <2>1, <2>2, <2>3
  <2>5. QED
    BY <2>3, <2>4
<1>10. CASE CheckThrows \/ ActFails
  <2>1. cur' \in Turn
    BY <1>10, <1>c, TurnUpdates DEF CheckThrows, ActFails
  <2>2. drop' \in [on : Control \cup {None}, fuzzy : BOOLEAN]
    BY <1>10, DropTypes DEF CheckThrows, ActFails
  <2>3. QED
    BY <1>10, <1>b, <2>1, <2>2 DEF CheckThrows, ActFails
<1>11. CASE Rejected
  <2>1. cur' \in Turn
    BY <1>11, <1>c, TurnUpdates DEF Rejected
  <2>2. drop' \in [on : Control \cup {None}, fuzzy : BOOLEAN]
    BY <1>11, DropTypes DEF Rejected
  <2>3. /\ call' \in [which : {"plan", "escalated", "target", None},
                      tries : 0 .. MaxOutputRepairs, usages : Nat]
        /\ pc = "checking" /\ pc' \in {"planning", "deciding"}
    BY <1>11, <1>b, <1>e DEF Rejected, Ask, NoCall
  <2>4. UNCHANGED <<usage, budget, world, spent, record>>
    BY <1>11 DEF Rejected
  <2>5. TypeOK'
    BY <2>1, <2>2, <2>3, <2>4
  <2>6. QED
    BY <2>3, <2>4, <2>5
<1>12. CASE ActHolds \/ ActDisproved
  <2>1. cur' \in Turn
    BY <1>12, <1>c, TurnUpdates DEF ActHolds, ActDisproved, Acted
  <2>2. drop' \in [on : Control \cup {None}, fuzzy : BOOLEAN]
    BY <1>12, DropTypes DEF ActHolds, ActDisproved, Acted
  <2>3. QED
    BY <1>12, <1>b, <2>1, <2>2 DEF ActHolds, ActDisproved, Acted, KeptAfter
<1>13. CASE Land
  <2>1. cur' \in Turn
    BY <1>13, <1>c, TurnUpdates DEF Land
  <2>2. QED
    BY <1>13, <1>b, <2>1 DEF Land
<1>14. CASE Verify \/ RecordStep
  <2>1. cur' \in Turn /\ List(cur')
    <3>1. CASE Verify
      <4>1. PICK verdict \in {"holds", "refuted", "threw"} : cur' = [cur EXCEPT !.verdict = verdict]
        BY <3>1 DEF Verify
      <4>2. List(cur')
        BY <3>1 DEF Verify
      <4>3. QED
        BY <1>c, <4>1, <4>2, TurnUpdates
    <3>2. CASE RecordStep
      BY <1>c, <3>2 DEF RecordStep
    <3>3. QED
      BY <1>14, <3>1, <3>2
  <2>2. /\ steps' \in Seq(Turn) /\ Len(steps') = Len(steps) + 1 /\ usages' \in Usage
        /\ steps'[Len(steps) + 1] = cur'
    BY <2>1, Listed
  <2>3. QED
    BY <1>14, <1>b, <2>1, <2>2 DEF Verify, RecordStep
<1>15. CASE Recorded
  <2>1. CASE GoesOn \/ Repairs
    <3>1. step' = step + 1 /\ pc = "recording" /\ pc' = "turn" /\ trail' = trail + 1
      BY <1>15, <2>1 DEF Recorded, GoesOn, Repairs, NextStep
    <3>2. repairs' \in 0 .. MaxRepairs /\ pending' \in BOOLEAN
      <4>1. repairs \in 0 .. MaxRepairs
        BY DEF TypeInv, TypeOK
      <4>2. CASE GoesOn
        BY <1>e, <4>1, <4>2 DEF GoesOn
      <4>3. CASE Repairs
        BY <1>b, <4>1, <4>3 DEF Repairs, Repairable
      <4>4. QED
        BY <2>1, <4>2, <4>3
    <3>3. UNCHANGED <<cur, drop, call, usage, world, spent, steps, usages, finishes,
                      manifest, sealed>>
      BY <1>15, <2>1 DEF Recorded, GoesOn, Repairs
    <3>4. QED
      BY <1>b, <3>1, <3>2, <3>3 DEF TypeInv, TypeOK, Shape, InTurn, world, budget
  <2>2. CASE ThrowsError
    <3>1. (IF cur.error = "output" THEN call.usages ELSE 0) \in Nat
      BY <1>c
    <3>2. QED
      BY <1>15, <1>b, <2>2, <3>1, ThrowFacts DEF Recorded, ThrowsError
  <2>3. CASE Decides
    BY <1>15, <1>b, <1>d, <2>3 DEF Recorded, Decides, Finish, DecidedOutcome
  <2>4. QED
    BY <1>15, <2>1, <2>2, <2>3 DEF Recorded
<1>16. CASE RecordThrows
  BY <1>16, <1>b, ThrowFacts DEF RecordThrows
<1>17. CASE StepsExhausted
  BY <1>17, <1>b, <1>d DEF StepsExhausted, OutOfSteps, Finish
<1>18. CASE ManifestWritten
  BY <1>18, <1>b DEF ManifestWritten
<1>19. CASE ManifestFails
  BY <1>19, <1>b, ThrowFacts DEF ManifestFails
<1>20. CASE Crash \/ UNCHANGED vars
  BY <1>20, <1>b DEF Crash, vars
<1>21. QED
  BY <1>1, <1>2, <1>3, <1>4, <1>5, <1>6, <1>7, <1>8, <1>9, <1>10, <1>11, <1>12,
     <1>13, <1>14, <1>15, <1>16, <1>17, <1>18, <1>19, <1>20 DEF Next, Advance

\* The types of the agent loop, for any controls and budgets (run.ts:108-309).
THEOREM AgentTypes == Spec => []TypeOK
<1>1. TypeInv => TypeOK
  BY DEF TypeInv
<1>2. QED
  BY TypeInit, TypeNext, <1>1, PTL DEF Spec

-----------------------------------------------------------------------------
(* The turn under way. *)

\* What a turn knows of the application: it was planned on a page that shows every
\* effect before it, and once it has an effect of its own it neither ends the run
\* nor is judged.  A repair is the frontier's.
TurnInv ==
    /\ pc \in {"planning", "checking", "acting"} => kept = None /\ cur.error = "none"
    /\ pc \in {"turn", "deciding", "recording"} => kept \in {None, effects}
    /\ pc \in {"planning", "checking"} => cur.landed = FALSE
    /\ pc = "acting" => ~ Ends(cur.action)
    /\ InTurn => cur.verdict = "none"
    /\ InTurn \/ pc = "recording" =>
         /\ cur.landed = FALSE => cur.page = effects
         /\ cur.landed = TRUE => ~ Ends(cur.action)
         /\ cur.source = "repair" => cur.author = "frontier"
    /\ pc = "recording" /\ cur.verdict # "none" => cur.action = "done" /\ cur.error = "none"

\* Nothing is known of a turn that has not begun.
LEMMA TurnInit == Init => TurnInv
  BY DEF Init, TurnInv, InTurn

\* Every step of the loop keeps what its turn knows.
LEMMA TurnNext == TypeInv /\ TurnInv /\ [Next]_vars => TurnInv'
<1> SUFFICES ASSUME TypeInv, TurnInv, [Next]_vars PROVE TurnInv'
  OBVIOUS
<1>c. cur \in Turn /\ kept \in Nat \cup {None} /\ effects \in Nat /\ pending \in BOOLEAN
  BY DEF TypeInv, TypeOK
<1>n. None \notin Nat
  BY AgentAssumption DEF AgentAssumption
<1>1. CASE Observe
  <2>1. PICK planner \in Routes :
          cur' = [NewTurn EXCEPT !.page = IF kept = None THEN effects ELSE kept,
                                 !.source = IF pending THEN "repair" ELSE "planner",
                                 !.author = planner]
    BY <1>1 DEF Observe
  <2>2. /\ cur'.landed = FALSE /\ cur'.verdict = "none" /\ cur'.error = "none"
        /\ cur'.page = (IF kept = None THEN effects ELSE kept)
        /\ cur'.source = (IF pending THEN "repair" ELSE "planner") /\ cur'.author = planner
    BY <2>1 DEF NewTurn
  <2>3. pc = "turn" /\ pc' = "planning" /\ kept' = None /\ UNCHANGED effects
    BY <1>1 DEF Observe
  <2>4. cur'.page = effects
    BY <2>2, <2>3 DEF TurnInv
  <2>5. cur'.source = "repair" => cur'.author = "frontier"
    BY <2>1, <2>2 DEF Routes
  <2>6. QED
    BY <2>2, <2>3, <2>4, <2>5 DEF TurnInv, InTurn
<1>2. CASE Planned \/ PlansAgain
  BY <1>2, <1>c DEF Planned, PlansAgain, TurnInv, InTurn, Turn, world, budget
<1>3. CASE Escalates \/ TargetPlanFails
  BY <1>3, <1>c DEF Escalates, TargetPlanFails, OutputFails, TurnInv, InTurn, Turn, world,
                         budget
<1>4. CASE CheckPasses \/ CheckThrows \/ Rejected
  BY <1>4, <1>c DEF CheckPasses, CheckThrows, Rejected, TurnInv, InTurn, Turn, world, budget
<1>5. CASE ActFails \/ Land
  BY <1>5, <1>c DEF ActFails, Land, TurnInv, InTurn, Turn, world, budget
<1>6. CASE ActHolds \/ ActDisproved
  BY <1>6, <1>c DEF ActHolds, ActDisproved, Acted, KeptAfter, TurnInv, InTurn, Turn, budget
<1>7. CASE Verify \/ RecordStep
  BY <1>7, <1>c DEF Verify, RecordStep, Verifies, TurnInv, InTurn, Turn, world, budget
<1>8. CASE ProviderFails
  BY <1>8, <1>c, ThrowLeaves DEF ProviderFails, TurnInv, InTurn, Turn, world, budget
<1>9. CASE ObserveThrows \/ PlanFails \/ RecordThrows \/ ManifestFails
  <2>1. pc' \in {"finishing", "threw"}
    BY <1>9, ThrowLeaves DEF ObserveThrows, PlanFails, RecordThrows, ManifestFails
  <2>2. QED
    BY <2>1 DEF TurnInv, InTurn
<1>10. CASE Recorded
  BY <1>10, <1>c DEF Recorded, GoesOn, Repairs, ThrowsError, Decides, Throw, Finish, TurnInv,
                          InTurn, world, budget
<1>11. CASE StepsExhausted \/ ManifestWritten \/ Crash \/ UNCHANGED vars
  BY <1>11 DEF StepsExhausted, Finish, ManifestWritten, Crash, vars, TurnInv, InTurn
<1>12. QED
  BY <1>1, <1>2, <1>3, <1>4, <1>5, <1>6, <1>7, <1>8, <1>9, <1>10, <1>11 DEF Next, Advance

\* A repair is pending until it is planned; what corrects a target was planned before.
PendingInv ==
    /\ pc \in {"checking", "acting", "deciding", "recording"} => pending = FALSE
    /\ pc = "planning" /\ call.which = "target" => pending = FALSE

\* Planning, whichever planner, settles what is pending.
LEMMA PendingNext == TypeInv /\ PendingInv /\ [Next]_vars => PendingInv'
<1> SUFFICES ASSUME TypeInv, PendingInv, [Next]_vars PROVE PendingInv'
  OBVIOUS
<1>c. call \in [which : {"plan", "escalated", "target", None},
                tries : 0 .. MaxOutputRepairs, usages : Nat]
  BY DEF TypeInv, TypeOK
<1>1. CASE Observe
  <2>1. pc' = "planning" /\ call'.which = "plan"
    BY <1>1 DEF Observe, Ask, NoCall
  <2>2. QED
    BY <2>1 DEF PendingInv
<1>2. CASE Planned
  BY <1>2, Zenon DEF Planned, PendingInv
<1>3. CASE Escalates
  <2>1. pc' = "planning" /\ call'.which = "escalated"
    BY <1>3 DEF Escalates, OutputFails, Ask, NoCall
  <2>2. QED
    BY <2>1 DEF PendingInv
<1>4. CASE PlansAgain
  <2>1. pc = "planning" /\ pc' = pc /\ pending' = pending /\ call'.which = call.which
    BY <1>4, <1>c DEF PlansAgain, budget
  <2>2. QED
    BY <2>1 DEF PendingInv
<1>5. CASE TargetPlanFails
  BY <1>5 DEF TargetPlanFails, OutputFails, PendingInv, budget
<1>6. CASE ProviderFails
  BY <1>6, ThrowLeaves DEF ProviderFails, PendingInv, budget
<1>7. CASE CheckPasses \/ CheckThrows \/ Rejected
  BY <1>7 DEF CheckPasses, CheckThrows, Rejected, PendingInv, budget
<1>8. CASE ActFails \/ Land \/ ActHolds \/ ActDisproved
  BY <1>8 DEF ActFails, Land, ActHolds, ActDisproved, Acted, PendingInv, budget
<1>9. CASE Verify \/ RecordStep
  BY <1>9 DEF Verify, RecordStep, PendingInv, budget
<1>10. CASE ObserveThrows \/ PlanFails \/ RecordThrows \/ ManifestFails
  <2>1. pc' \in {"finishing", "threw"}
    BY <1>10, ThrowLeaves DEF ObserveThrows, PlanFails, RecordThrows, ManifestFails
  <2>2. QED
    BY <2>1 DEF PendingInv
<1>11. CASE Recorded
  <2>1. pc' \in {"turn", "finishing", "threw"}
    BY <1>11, ThrowLeaves DEF Recorded, GoesOn, Repairs, ThrowsError, Decides, Finish
  <2>2. QED
    BY <2>1 DEF PendingInv
<1>12. CASE StepsExhausted \/ ManifestWritten \/ Crash \/ UNCHANGED vars
  BY <1>12 DEF StepsExhausted, Finish, ManifestWritten, Crash, vars, PendingInv
<1>13. QED
  BY <1>1, <1>2, <1>3, <1>4, <1>5, <1>6, <1>7, <1>8, <1>9, <1>10, <1>11, <1>12
     DEF Next, Advance

-----------------------------------------------------------------------------
(* The steps listed. *)

\* The run has not left the loop.
Going == pc = "turn" \/ InTurn \/ pc = "recording"

\* What a step of the run can do to the steps listed and to the turn under way:
\* the loop is left,
Leave ==
    /\ ~ Going'
    /\ UNCHANGED <<steps, repairs, effects>>

\* a turn begins, as a repair or not,
Begin ==
    /\ pc = "turn" /\ pc' = "planning"
    /\ cur'.source = (IF pending THEN "repair" ELSE "planner")
    /\ UNCHANGED <<step, steps, repairs, effects, manifest>>

\* a turn goes on, and may have its one effect,
Within ==
    /\ InTurn /\ InTurn'
    /\ cur'.source = cur.source
    /\ \/ UNCHANGED effects /\ cur'.landed = cur.landed
       \/ effects' = effects + 1 /\ cur.landed = FALSE /\ cur'.landed = TRUE
    /\ UNCHANGED <<step, steps, repairs, manifest>>

\* its step is listed,
Lists ==
    /\ InTurn /\ pc' = "recording" /\ List(cur')
    /\ cur'.source = cur.source /\ cur'.landed = cur.landed
    /\ UNCHANGED <<step, repairs, effects, manifest>>

\* or the step is recorded, and the loop goes on.
Continues ==
    /\ pc = "recording" /\ pc' = "turn" /\ step' = step + 1
    /\ GoesOn \/ Repairs
    /\ UNCHANGED <<steps, effects, manifest>>

\* There is nothing else it can do.
LEMMA StepKinds ==
    TypeInv /\ [Next]_vars =>
        \/ Leave \/ Begin \/ Within \/ Lists \/ Continues \/ UNCHANGED vars
<1> SUFFICES ASSUME TypeInv, [Next]_vars
             PROVE  Leave \/ Begin \/ Within \/ Lists \/ Continues \/ UNCHANGED vars
  OBVIOUS
<1>c. cur \in Turn
  BY DEF TypeInv, TypeOK
<1>1. CASE Observe
  BY <1>1 DEF Observe, NewTurn, Begin, record, budget
<1>2. CASE Planned \/ PlansAgain
  BY <1>2, <1>c DEF Planned, PlansAgain, Within, InTurn, Turn, world, record, budget
<1>3. CASE Escalates \/ TargetPlanFails
  BY <1>3, <1>c
     DEF Escalates, TargetPlanFails, OutputFails, Within, InTurn, Turn, world, record, budget
<1>4. CASE CheckPasses \/ CheckThrows \/ Rejected
  BY <1>4, <1>c
     DEF CheckPasses, CheckThrows, Rejected, Within, InTurn, Turn, world, record, budget
<1>5. CASE ActFails \/ Land
  BY <1>5, <1>c DEF ActFails, Land, Within, InTurn, Turn, world, record, budget
<1>6. CASE ActHolds \/ ActDisproved
  BY <1>6, <1>c DEF ActHolds, ActDisproved, Acted, Within, InTurn, Turn, record, budget
<1>7. CASE Verify \/ RecordStep
  BY <1>7, <1>c DEF Verify, RecordStep, Lists, InTurn, Turn, List, world, budget
<1>8. CASE ProviderFails
  <2>1. CASE call.which = "target"
    BY <1>8, <2>1, <1>c DEF ProviderFails, Within, InTurn, Turn, world, budget
  <2>2. CASE call.which # "target"
    BY <1>8, <2>2, ThrowLeaves DEF ProviderFails, Leave, Going, InTurn, world, budget
  <2>3. QED
    BY <2>1, <2>2
<1>9. CASE ObserveThrows \/ PlanFails \/ RecordThrows \/ ManifestFails
  <2>1. pc' \in {"finishing", "threw"}
    BY <1>9, ThrowLeaves DEF ObserveThrows, PlanFails, RecordThrows, ManifestFails
  <2>2. QED
    BY <1>9, <2>1
       DEF ObserveThrows, PlanFails, RecordThrows, ManifestFails, Leave, Going, InTurn,
           world, budget
<1>10. CASE Recorded
  <2>1. CASE GoesOn \/ Repairs
    BY <1>10, <2>1 DEF Recorded, GoesOn, Repairs, NextStep, Continues, world
  <2>2. CASE ThrowsError
    BY <1>10, <2>2, ThrowLeaves DEF Recorded, ThrowsError, Leave, Going, InTurn, world, budget
  <2>3. CASE Decides
    BY <1>10, <2>3 DEF Recorded, Decides, Finish, Leave, Going, InTurn, world, budget
  <2>4. QED
    BY <1>10, <2>1, <2>2, <2>3 DEF Recorded
<1>11. CASE StepsExhausted \/ ManifestWritten \/ Crash
  BY <1>11
     DEF StepsExhausted, Finish, ManifestWritten, Crash, Leave, Going, InTurn, world,
         record, budget
<1>12. QED
  BY <1>1, <1>2, <1>3, <1>4, <1>5, <1>6, <1>7, <1>8, <1>9, <1>10, <1>11 DEF Next, Advance

\* What is known of the steps listed before the turn under way: none is judged, and
\* those that failed failed a postcondition.
ListInv ==
    Going => \A i \in 1 .. step :
               steps[i].verdict = "none" /\ steps[i].error \in {"none", "postcondition"}

\* How the steps listed grow, with the lengths in step with the loop's counter.
LEMMA ListsFacts ==
    ASSUME TypeInv, TypeInv', Lists
    PROVE  /\ step \in Nat /\ step' = step /\ Len(steps) = step /\ Len(steps') = step + 1
           /\ steps'[step + 1] = cur'
           /\ \A i \in 1 .. step : steps'[i] = steps[i]
<1>1. cur' \in Turn /\ List(cur')
  BY DEF Lists, TypeInv, TypeOK
<1>2. /\ Len(steps') = Len(steps) + 1 /\ steps'[Len(steps) + 1] = cur'
      /\ \A i \in 1 .. Len(steps) : steps'[i] = steps[i]
  BY <1>1, Listed
<1>3. Len(steps) = step /\ step \in Nat /\ step' = step
  BY AgentAssumption DEF Lists, InTurn, TypeInv, TypeOK, Shape, AgentAssumption
<1>4. QED
  BY <1>2, <1>3

\* The loop only goes on from a step that holds, or whose failed postcondition is to
\* be repaired.
LEMMA ContinuesFrom ==
    ASSUME TypeInv, TurnInv, Continues
    PROVE  /\ step \in Nat /\ Len(steps) = step + 1 /\ steps[step + 1] = cur
           /\ cur.verdict = "none" /\ cur.error \in {"none", "postcondition"}
           /\ GoesOn => cur.error = "none"
<1>1. pc = "recording" /\ (GoesOn \/ Repairs)
  BY DEF Continues
<1>2. step \in Nat /\ Len(steps) = step + 1 /\ steps[step + 1] = cur
  BY <1>1, AgentAssumption DEF TypeInv, TypeOK, Shape, AgentAssumption
<1>3. CASE GoesOn
  BY <1>1, <1>2, <1>3 DEF GoesOn, TurnInv, Ends
<1>4. CASE Repairs
  BY <1>1, <1>2, <1>4 DEF Repairs, Repairable, TurnInv, GoesOn
<1>5. QED
  BY <1>1, <1>3, <1>4

\* The steps listed stay so: one joins them when the loop goes on from it.
LEMMA ListNext == TypeInv /\ TypeInv' /\ TurnInv /\ ListInv /\ [Next]_vars => ListInv'
<1> SUFFICES ASSUME TypeInv, TypeInv', TurnInv, ListInv, [Next]_vars PROVE ListInv'
  OBVIOUS
<1>1. CASE Leave
  BY <1>1 DEF Leave, ListInv
<1>2. CASE Begin \/ Within
  BY <1>2 DEF Begin, Within, ListInv, Going
<1>3. CASE Lists
  BY <1>3, ListsFacts DEF Lists, ListInv, Going
<1>4. CASE Continues
  <2>1. step' = step + 1 /\ UNCHANGED steps /\ Going
    BY <1>4 DEF Continues, Going
  <2>2. /\ step \in Nat /\ steps[step + 1].verdict = "none"
        /\ steps[step + 1].error \in {"none", "postcondition"}
    BY <1>4, ContinuesFrom
  <2>3. QED
    BY <2>1, <2>2 DEF ListInv
<1>5. CASE UNCHANGED vars
  BY <1>5 DEF vars, ListInv, Going, InTurn
<1>6. QED
  BY <1>1, <1>2, <1>3, <1>4, <1>5, StepKinds

-----------------------------------------------------------------------------
(* What the verifier judged. *)

\* A verdict is about the page of its turn, and no effect comes after it.
LEMMA HeldNext ==
    TypeInv /\ TypeInv' /\ TurnInv /\ TurnInv' /\ ListInv /\ VerifiedAfterLastEffect
        /\ [Next]_vars => VerifiedAfterLastEffect'
<1> SUFFICES ASSUME TypeInv, TypeInv', TurnInv, TurnInv', ListInv, VerifiedAfterLastEffect,
                    [Next]_vars
             PROVE  VerifiedAfterLastEffect'
  OBVIOUS
<1>1. CASE Leave \/ Begin \/ Continues \/ UNCHANGED vars
  BY <1>1 DEF Leave, Begin, Continues, vars, VerifiedAfterLastEffect
<1>2. CASE Within
  <2>1. Len(steps) = step /\ UNCHANGED steps
    BY <1>2 DEF Within, InTurn, TypeInv, Shape
  <2>2. \A i \in 1 .. Len(steps) : steps[i].verdict = "none"
    BY <1>2, <2>1 DEF ListInv, Within, Going
  <2>3. QED
    BY <2>1, <2>2 DEF VerifiedAfterLastEffect
<1>3. CASE Lists
  <2>1. effects' = effects /\ pc' = "recording" /\ InTurn
    BY <1>3 DEF Lists
  <2>2. cur'.verdict = "holds" => cur'.page = effects'
    <3>1. SUFFICES ASSUME cur'.verdict = "holds" PROVE cur'.page = effects'
      OBVIOUS
    <3>2. cur'.action = "done"
      BY <2>1, <3>1 DEF TurnInv
    <3>3. cur'.landed \in BOOLEAN
      BY DEF TypeInv, TypeOK, Turn
    <3>4. cur'.landed = FALSE
      BY <2>1, <3>2, <3>3 DEF TurnInv, Ends
    <3>5. QED
      BY <2>1, <3>4 DEF TurnInv
  <2>3. \A i \in 1 .. step : steps[i].verdict = "none"
    BY <2>1 DEF ListInv, Going
  <2>4. QED
    BY <1>3, <2>2, <2>3, ListsFacts DEF VerifiedAfterLastEffect
<1>4. QED
  BY <1>1, <1>2, <1>3, StepKinds

-----------------------------------------------------------------------------
(* Success. *)

\* A run that succeeds does so with the step it records last, and nothing follows.
LEMMA SuccessOnly ==
    ASSUME TypeInv, [Next]_vars, manifest'.outcome = "success"
    PROVE  \/ /\ manifest.outcome = "success"
              /\ pc \in {"turn", "recording"} \/ InTurn \/ trail' = trail
           \/ /\ pc = "recording" /\ trail' = trail + 1 /\ UNCHANGED steps
              /\ cur.verdict = "holds" /\ cur.error = "none" /\ ~ Going'
<1>1. CASE ObserveThrows \/ PlanFails \/ RecordThrows \/ ManifestFails \/ ProviderFails
  <2>1. manifest' = manifest
    BY <1>1
       DEF ObserveThrows, PlanFails, RecordThrows, ManifestFails, ProviderFails, Throw, Finish
  <2>2. pc = "recording" \/ pc = "turn" \/ pc = "planning" \/ trail' = trail
    BY <1>1 DEF ObserveThrows, PlanFails, RecordThrows, ManifestFails, ProviderFails
  <2>3. QED
    BY <2>1, <2>2 DEF InTurn
<1>2. CASE Recorded
  <2>1. CASE GoesOn \/ Repairs
    BY <1>2, <2>1 DEF Recorded, GoesOn, Repairs
  <2>2. CASE ThrowsError
    BY <1>2, <2>2 DEF Recorded, ThrowsError, Throw, Finish
  <2>3. CASE Decides
    BY <1>2, <2>3 DEF Recorded, Decides, DecidedOutcome, Finish, Going, InTurn
  <2>4. QED
    BY <1>2, <2>1, <2>2, <2>3 DEF Recorded
<1>3. CASE StepsExhausted
  BY <1>3 DEF StepsExhausted, Finish
<1>4. CASE ~ (ObserveThrows \/ PlanFails \/ RecordThrows \/ ManifestFails \/ ProviderFails
             \/ Recorded \/ StepsExhausted)
  <2>1. UNCHANGED <<trail, manifest>>
    BY <1>4
       DEF Next, Advance, vars, Observe, Planned, PlansAgain, Escalates, TargetPlanFails,
           CheckPasses, CheckThrows, Rejected, ActFails, ActHolds, ActDisproved, Acted,
           Verify, RecordStep, ManifestWritten, Land, Crash, record
  <2>2. QED
    BY <2>1
<1>5. QED
  BY <1>1, <1>2, <1>3, <1>4

\* A run that goes on has not succeeded; one that succeeded shows that it may.
SuccessInv == (Going => manifest.outcome # "success") /\ NeverSilentSuccess

\* Success is decided once, by the step the verifier judged.
LEMMA SuccessNext ==
    TypeInv /\ TypeInv' /\ TurnInv /\ ListInv /\ SuccessInv /\ [Next]_vars => SuccessInv'
<1> SUFFICES ASSUME TypeInv, TypeInv', TurnInv, ListInv, SuccessInv, [Next]_vars
             PROVE  SuccessInv'
  OBVIOUS
<1>1. Going' => manifest'.outcome # "success"
  BY StepKinds DEF Leave, Begin, Within, Lists, Continues, vars, SuccessInv, Going, InTurn
<1>2. ASSUME manifest'.outcome = "success", manifest.outcome = "success"
      PROVE  NeverSilentSuccess'
  <2>1. ~ Going
    BY <1>2 DEF SuccessInv
  <2>2. UNCHANGED <<steps, trail>>
    BY <1>2, <2>1, SuccessOnly, StepKinds
       DEF Leave, Begin, Within, Lists, Continues, vars, Going
  <2>3. QED
    BY <1>2, <2>2 DEF SuccessInv, NeverSilentSuccess
<1>3. ASSUME manifest'.outcome = "success", manifest.outcome # "success"
      PROVE  NeverSilentSuccess'
  <2>1. /\ pc = "recording" /\ trail' = trail + 1 /\ UNCHANGED steps
        /\ cur.verdict = "holds" /\ cur.error = "none"
    BY <1>3, SuccessOnly
  <2>2. /\ step \in Nat /\ Len(steps) = step + 1 /\ trail' = step + 1
        /\ steps[step + 1] = cur /\ steps \in Seq(Turn)
    BY <2>1, AgentAssumption DEF TypeInv, TypeOK, Shape, AgentAssumption
  <2>3. \A i \in 1 .. step : steps[i].error \in {"none", "postcondition"}
    BY <2>1 DEF ListInv, Going
  <2>4. \A i \in 1 .. Len(steps) : steps[i].error \in {"none", "postcondition"}
    BY <2>1, <2>2, <2>3
  <2>5. steps # <<>>
    BY <2>2
  <2>6. QED
    BY <2>1, <2>2, <2>4, <2>5 DEF NeverSilentSuccess
<1>4. QED
  BY <1>1, <1>2, <1>3 DEF SuccessInv, NeverSilentSuccess

-----------------------------------------------------------------------------
(* Effects and repairs, counted. *)

\* The steps that had an effect, and those that were repairs.
Landed == {i \in 1 .. Len(steps) : steps[i].landed}
RepairSteps == {i \in 1 .. Len(steps) : steps[i].source = "repair"}

\* A set of positions, and the same with one more.
LEMMA Positions ==
    ASSUME NEW n \in Nat, NEW S \in SUBSET (1 .. n)
    PROVE  /\ IsFiniteSet(S) /\ Cardinality(S) \in 0 .. n
           /\ Cardinality(S \cup {n + 1}) = Cardinality(S) + 1
<1>1. IsFiniteSet(1 .. n) /\ Cardinality(1 .. n) = n
  <2>1. Cardinality(1 .. n) = IF 1 > n THEN 0 ELSE n - 1 + 1
    BY FS_Interval
  <2>2. IsFiniteSet(1 .. n)
    BY FS_Interval
  <2>3. QED
    BY <2>1, <2>2
<1>2. IsFiniteSet(S) /\ Cardinality(S) <= n
  BY <1>1, FS_Subset
<1>3. Cardinality(S) \in Nat
  BY <1>2, FS_CardinalityType
<1>4. n + 1 \notin S
  OBVIOUS
<1>5. Cardinality(S \cup {n + 1}) = Cardinality(S) + 1
  BY <1>2, <1>4, FS_AddElement
<1>6. QED
  BY <1>2, <1>3, <1>5

\* Both are sets of positions of the list.
LEMMA Counted ==
    ASSUME TypeInv
    PROVE  /\ Len(steps) \in Nat
           /\ Landed \in SUBSET (1 .. Len(steps)) /\ RepairSteps \in SUBSET (1 .. Len(steps))
           /\ Cardinality(Landed) \in 0 .. Len(steps)
           /\ Cardinality(RepairSteps) \in 0 .. Len(steps)
<1>1. Len(steps) \in Nat
  BY DEF TypeInv, TypeOK
<1>2. Landed \in SUBSET (1 .. Len(steps)) /\ RepairSteps \in SUBSET (1 .. Len(steps))
  BY DEF Landed, RepairSteps
<1>3. QED
  BY <1>1, <1>2, Positions

\* Listing a step adds it to either, or leaves it as it was.
LEMMA CountedLists ==
    ASSUME TypeInv, TypeInv', Lists
    PROVE  /\ cur'.landed = TRUE => Cardinality(Landed') = Cardinality(Landed) + 1
           /\ cur'.landed = FALSE => Cardinality(Landed') = Cardinality(Landed)
           /\ cur'.source = "repair" => Cardinality(RepairSteps') = Cardinality(RepairSteps) + 1
           /\ cur'.source # "repair" => Cardinality(RepairSteps') = Cardinality(RepairSteps)
<1>1. /\ step \in Nat /\ Len(steps) = step /\ Len(steps') = step + 1
      /\ steps'[step + 1] = cur'
      /\ \A i \in 1 .. step : steps'[i] = steps[i]
  BY ListsFacts
<1>2. 1 .. (step + 1) = (1 .. step) \cup {step + 1}
  BY <1>1
<1>3. Landed \in SUBSET (1 .. step) /\ RepairSteps \in SUBSET (1 .. step)
  BY <1>1, Counted
<1>4. cur'.landed = TRUE => Landed' = Landed \cup {step + 1}
  BY <1>1, <1>2 DEF Landed
<1>5. cur'.landed = FALSE => Landed' = Landed
  BY <1>1, <1>2 DEF Landed
<1>6. cur'.source = "repair" => RepairSteps' = RepairSteps \cup {step + 1}
  BY <1>1, <1>2 DEF RepairSteps
<1>7. cur'.source # "repair" => RepairSteps' = RepairSteps
  BY <1>1, <1>2 DEF RepairSteps
<1>8. /\ Cardinality(Landed \cup {step + 1}) = Cardinality(Landed) + 1
      /\ Cardinality(RepairSteps \cup {step + 1}) = Cardinality(RepairSteps) + 1
  BY <1>1, <1>3, Positions
<1>9. QED
  BY <1>4, <1>5, <1>6, <1>7, <1>8

\* While the list stays, so do the counts.
LEMMA CountedStay ==
    UNCHANGED steps => UNCHANGED <<Landed, RepairSteps>>
  BY DEF Landed, RepairSteps

\* The effects of a run are those of its steps and, once it has it, of its turn.
EffectsInv ==
    /\ pc \in {"turn", "recording"} => effects = Cardinality(Landed)
    /\ InTurn => /\ cur.landed = TRUE => effects = Cardinality(Landed) + 1
                 /\ cur.landed = FALSE => effects = Cardinality(Landed)
    /\ EffectsOnRecord

\* A bound on effects outlives the growth of the trajectory.
LEMMA NoLater ==
    ASSUME NEW e \in Nat, NEW t \in Nat, NEW u \in {t, t + 1}, e <= t + 1
    PROVE  e <= u + 1
  OBVIOUS

\* The trajectory is never cut, and the recorder is finished from outside a turn, or
\* from a turn that has no plan.
LEMMA RecorderFacts ==
    ASSUME TypeInv, [Next]_vars
    PROVE  /\ trail' \in {trail, trail + 1}
           /\ finishes' > 0 => finishes > 0 \/ pc \in {"turn", "planning", "recording"}
           /\ finishes' > 0 => ~ (Going')
           /\ pc' = "recording" => UNCHANGED trail
<1>1. finishes \in Nat
  BY DEF TypeInv, TypeOK
<1>2. TypeInv'
  BY TypeNext
<1>3. finishes' > 0 => ~ (Going')
  BY <1>2 DEF TypeInv, Shape, Going
<1>4. CASE ObserveThrows \/ PlanFails \/ RecordThrows \/ ProviderFails \/ Recorded
           \/ StepsExhausted
  <2>1. pc \in {"turn", "planning", "recording"} /\ trail' \in {trail, trail + 1}
    BY <1>4
       DEF ObserveThrows, PlanFails, OutputFails, RecordThrows, ProviderFails, Recorded,
           StepsExhausted
  <2>2. pc' # "recording"
    BY <1>4, ThrowLeaves
       DEF ObserveThrows, PlanFails, RecordThrows, ProviderFails, Recorded,
           StepsExhausted, Finish, GoesOn, Repairs, ThrowsError, Decides
  <2>3. QED
    BY <1>3, <2>1, <2>2
<1>5. CASE ManifestFails
  <2>1. pc = "finishing" /\ trail' = trail
    BY <1>5 DEF ManifestFails
  <2>2. finishes > 0
    BY <2>1 DEF TypeInv, Shape
  <2>3. QED
    BY <1>3, <2>1, <2>2
<1>6. CASE ~ (ObserveThrows \/ PlanFails \/ RecordThrows \/ ProviderFails \/ Recorded
             \/ StepsExhausted \/ ManifestFails)
  <2>1. UNCHANGED <<trail, finishes>>
    BY <1>6
       DEF Next, Advance, vars, Observe, Planned, PlansAgain, Escalates, TargetPlanFails,
           CheckPasses, CheckThrows, Rejected, ActFails, ActHolds, ActDisproved, Acted,
           Verify, RecordStep, ManifestWritten, Land, Crash, record
  <2>2. QED
    BY <1>3, <2>1
<1>7. QED
  BY <1>4, <1>5, <1>6

\* An effect is counted with its turn, and with its step when that is listed.
LEMMA EffectsNext ==
    TypeInv /\ TypeInv' /\ TurnInv /\ EffectsInv /\ [Next]_vars => EffectsInv'
<1> SUFFICES ASSUME TypeInv, TypeInv', TurnInv, EffectsInv, [Next]_vars PROVE EffectsInv'
  OBVIOUS
<1>1. /\ cur.landed \in BOOLEAN /\ effects \in Nat /\ trail \in Nat /\ finishes \in Nat
      /\ Cardinality(Landed) \in 0 .. Len(steps) /\ Len(steps) \in Nat
  BY Counted DEF TypeInv, TypeOK, Turn
<1>2. /\ trail' \in {trail, trail + 1}
      /\ finishes' > 0 => ~ (Going')
      /\ finishes' > 0 => finishes > 0 \/ pc \in {"turn", "planning", "recording"}
  BY RecorderFacts
<1>3. CASE Leave
  <2>1. UNCHANGED <<steps, effects>> /\ Landed' = Landed /\ ~ (Going')
    BY <1>3, CountedStay DEF Leave
  <2>2. effects' <= trail' + 1
    <3>1. effects <= trail + 1
      BY DEF EffectsInv, EffectsOnRecord
    <3>2. trail' \in {trail, trail + 1}
      BY <1>2
    <3>3. effects \in Nat /\ trail \in Nat
      BY <1>1
    <3>4. effects <= trail' + 1
      BY <3>1, <3>2, <3>3, NoLater
    <3>5. effects' = effects
      BY <2>1
    <3>6. QED
      BY <3>4, <3>5
  <2>3. finishes' > 0 => effects' = Cardinality(Landed')
    <3>1. pc = "planning" => cur.landed = FALSE
      BY DEF TurnInv
    <3>2. QED
      BY <1>2, <2>1, <3>1 DEF EffectsInv, EffectsOnRecord, InTurn, Landed
  <2>4. QED
    BY <2>1, <2>2, <2>3 DEF EffectsInv, EffectsOnRecord, Going, InTurn, Landed
<1>4. CASE Begin \/ Within \/ Continues \/ UNCHANGED vars
  <2>1. UNCHANGED steps /\ Landed' = Landed
    BY <1>4, CountedStay DEF Begin, Within, Continues, vars
  <2>2. CASE Begin
    <3>1. pc = "turn" /\ pc' = "planning" /\ effects' = effects
      BY <2>2 DEF Begin
    <3>2. cur'.landed = FALSE
      BY TurnNext, <3>1 DEF TurnInv
    <3>3. effects' <= trail' + 1
      BY <1>1, <1>2, <3>1 DEF EffectsInv, EffectsOnRecord
    <3>4. ~ (finishes' > 0)
      BY <1>2, <3>1 DEF Going, InTurn
    <3>5. QED
      BY <2>1, <3>1, <3>2, <3>3, <3>4 DEF EffectsInv, EffectsOnRecord, InTurn
  <2>3. CASE Within
    <3>1. ~ (finishes' > 0)
      BY <1>2, <2>3 DEF Within, Going
    <3>2. trail = Len(steps) /\ InTurn /\ InTurn'
      BY <2>3 DEF Within, TypeInv, Shape
    <3>3. /\ cur'.landed = TRUE => effects' = Cardinality(Landed) + 1
          /\ cur'.landed = FALSE => effects' = Cardinality(Landed)
      BY <1>1, <2>3 DEF Within, EffectsInv
    <3>4. cur'.landed \in BOOLEAN
      BY DEF TypeInv, TypeOK, Turn
    <3>5. effects' <= trail' + 1
      BY <1>1, <1>2, <3>2, <3>3, <3>4
    <3>6. QED
      BY <2>1, <3>1, <3>2, <3>3, <3>5 DEF EffectsInv, EffectsOnRecord, InTurn
  <2>4. CASE Continues
    <3>1. pc = "recording" /\ pc' = "turn" /\ effects' = effects
      BY <2>4 DEF Continues
    <3>2. ~ (finishes' > 0)
      BY <1>2, <3>1 DEF Going
    <3>3. effects' <= trail' + 1
      BY <1>1, <1>2, <3>1 DEF EffectsInv, EffectsOnRecord
    <3>4. QED
      BY <2>1, <3>1, <3>2, <3>3 DEF EffectsInv, EffectsOnRecord, InTurn
  <2>5. CASE UNCHANGED vars
    BY <2>1, <2>5 DEF vars, EffectsInv, EffectsOnRecord, InTurn, Landed
  <2>6. QED
    BY <1>4, <2>2, <2>3, <2>4, <2>5
<1>5. CASE Lists
  <2>1. /\ InTurn /\ pc' = "recording" /\ effects' = effects /\ cur'.landed = cur.landed
        /\ trail' = trail
    BY <1>5, RecorderFacts DEF Lists
  <2>2. effects' = Cardinality(Landed')
    BY <1>1, <1>5, <2>1, CountedLists DEF EffectsInv
  <2>3. effects' <= trail' + 1
    BY <2>1 DEF EffectsInv, EffectsOnRecord
  <2>4. ~ (finishes' > 0)
    BY <1>2, <2>1 DEF Going
  <2>5. QED
    BY <2>1, <2>2, <2>3, <2>4 DEF EffectsInv, EffectsOnRecord, InTurn
<1>6. QED
  BY <1>3, <1>4, <1>5, StepKinds

\* The repairs bought are those of the steps listed, of the turn under way and the one
\* that is pending; what failed last is what is being repaired.
RepairsInv ==
    /\ pc = "recording" => repairs = Cardinality(RepairSteps)
    /\ pc = "turn" =>
         /\ pending = TRUE => repairs = Cardinality(RepairSteps) + 1
         /\ pending = FALSE => /\ repairs = Cardinality(RepairSteps)
                               /\ step > 0 => steps[step].error = "none"
    /\ InTurn =>
         /\ cur.source = "repair" => repairs = Cardinality(RepairSteps) + 1
         /\ cur.source # "repair" => /\ repairs = Cardinality(RepairSteps)
                                     /\ step > 0 => steps[step].error = "none"
    /\ Cardinality(RepairSteps) <= repairs
    /\ FailureBuysOneRepair

\* Repairs are used up by Repairs alone.
LEMMA RepairsNext ==
    TypeInv /\ TypeInv' /\ TurnInv /\ TurnInv' /\ PendingInv /\ ListInv /\ RepairsInv
        /\ [Next]_vars => RepairsInv'
<1> SUFFICES ASSUME TypeInv, TypeInv', TurnInv, TurnInv', PendingInv, ListInv, RepairsInv,
                    [Next]_vars
             PROVE  RepairsInv'
  OBVIOUS
<1>1. /\ repairs \in 0 .. MaxRepairs /\ repairs' \in 0 .. MaxRepairs /\ MaxRepairs \in Nat
      /\ Cardinality(RepairSteps) \in Nat
  <2>1. repairs \in 0 .. MaxRepairs /\ repairs' \in 0 .. MaxRepairs
    BY DEF TypeInv, TypeOK
  <2>2. MaxRepairs \in Nat
    BY AgentAssumption DEF AgentAssumption
  <2>3. Cardinality(RepairSteps) \in Nat
    <3>1. Len(steps) \in Nat /\ Cardinality(RepairSteps) \in 0 .. Len(steps)
      BY Counted
    <3>2. QED
      BY <3>1
  <2>4. QED
    BY <2>1, <2>2, <2>3
<1>p. pending \in BOOLEAN
  BY DEF TypeInv, TypeOK
<1>s. Going => step \in Nat
  BY AgentAssumption DEF TypeInv, TypeOK, AgentAssumption
<1>2. FailureBuysOneRepair /\ Cardinality(RepairSteps) <= repairs
  BY DEF RepairsInv
<1>3. ASSUME UNCHANGED <<steps, repairs>>
      PROVE  /\ RepairSteps' = RepairSteps
             /\ FailureBuysOneRepair' /\ Cardinality(RepairSteps') <= repairs'
  <2>1. RepairSteps' = RepairSteps
    BY <1>3, CountedStay
  <2>2. FailureBuysOneRepair'
    BY <1>2, <1>3 DEF FailureBuysOneRepair
  <2>3. QED
    BY <1>2, <1>3, <2>1, <2>2
<1>4. CASE Leave
  <2>1. ~ (Going') /\ UNCHANGED <<steps, repairs>>
    BY <1>4 DEF Leave
  <2>2. QED
    BY <1>3, <2>1 DEF RepairsInv, Going
<1>5. CASE Begin
  <2>1. /\ pc = "turn" /\ pc' = "planning" /\ UNCHANGED <<step, steps, repairs>>
        /\ cur'.source = (IF pending THEN "repair" ELSE "planner")
    BY <1>5 DEF Begin
  <2>2. CASE pending = TRUE
    BY <1>3, <2>1, <2>2 DEF RepairsInv, InTurn
  <2>3. CASE pending = FALSE
    <3>1. cur'.source # "repair"
      BY <2>1, <2>3
    <3>2. repairs = Cardinality(RepairSteps) /\ (step > 0 => steps[step].error = "none")
      BY <2>1, <2>3 DEF RepairsInv
    <3>3. QED
      BY <1>3, <2>1, <3>1, <3>2 DEF RepairsInv, InTurn
  <2>4. QED
    BY <1>p, <2>2, <2>3
<1>6. CASE Within
  BY <1>3, <1>6 DEF Within, RepairsInv, InTurn
<1>7. CASE Lists
  <2>1. InTurn /\ pc' = "recording" /\ cur'.source = cur.source /\ repairs' = repairs
    BY <1>7 DEF Lists
  <2>2. repairs' = Cardinality(RepairSteps')
    BY <1>1, <1>7, <2>1, CountedLists DEF RepairsInv
  <2>3. /\ step \in Nat /\ Len(steps) = step /\ Len(steps') = step + 1
        /\ steps'[step + 1] = cur'
        /\ \A i \in 1 .. step : steps'[i] = steps[i]
    BY <1>7, ListsFacts
  <2>4. \A i \in 1 .. Len(steps') - 1 : steps'[i].error # "none" =>
          /\ steps'[i].error = "postcondition"
          /\ steps'[i + 1].source = "repair" /\ steps'[i + 1].author = "frontier"
    <3>1. SUFFICES ASSUME NEW i \in 1 .. step, steps[i].error # "none"
                   PROVE  /\ steps[i].error = "postcondition"
                          /\ steps'[i + 1].source = "repair" /\ steps'[i + 1].author = "frontier"
      BY <2>3
    <3>2. steps[i].error = "postcondition"
      BY <2>1, <3>1 DEF ListInv, Going
    <3>3. CASE i < step
      BY <1>2, <2>3, <3>1, <3>3 DEF FailureBuysOneRepair
    <3>4. CASE i = step
      <4>1. cur.source = "repair"
        BY <2>1, <2>3, <3>1, <3>4 DEF RepairsInv
      <4>2. cur'.author = "frontier"
        BY <2>1, <4>1 DEF TurnInv
      <4>3. QED
        BY <2>1, <2>3, <3>2, <3>4, <4>1, <4>2
    <3>5. QED
      BY <2>3, <3>2, <3>3, <3>4
  <2>5. Cardinality(RepairSteps') <= MaxRepairs
    BY <1>1, <2>2
  <2>6. FailureBuysOneRepair'
    BY <2>4, <2>5 DEF FailureBuysOneRepair, RepairSteps
  <2>7. QED
    BY <1>1, <2>1, <2>2, <2>6 DEF RepairsInv, InTurn
<1>8. CASE Continues
  <2>1. /\ pc = "recording" /\ pc' = "turn" /\ step' = step + 1 /\ UNCHANGED steps
        /\ GoesOn \/ Repairs
    BY <1>8 DEF Continues
  <2>2. /\ step \in Nat /\ steps[step + 1] = cur /\ GoesOn => cur.error = "none"
    BY <1>8, ContinuesFrom
  <2>3. pending = FALSE /\ repairs = Cardinality(RepairSteps)
    BY <2>1 DEF PendingInv, RepairsInv
  <2>4. RepairSteps' = RepairSteps /\ FailureBuysOneRepair'
    BY <1>2, <2>1, CountedStay DEF FailureBuysOneRepair
  <2>5. CASE GoesOn
    <3>1. pending' = pending /\ repairs' = repairs
      BY <2>5 DEF GoesOn
    <3>2. steps'[step'].error = "none"
      BY <1>8, <2>1, <2>5, ContinuesFrom
    <3>3. QED
      BY <1>1, <2>1, <2>3, <2>4, <3>1, <3>2 DEF RepairsInv, InTurn
  <2>6. CASE Repairs
    <3>1. pending' = TRUE /\ repairs' = repairs + 1
      BY <2>6 DEF Repairs
    <3>2. QED
      BY <1>1, <2>1, <2>3, <2>4, <3>1 DEF RepairsInv, InTurn
  <2>7. QED
    BY <2>1, <2>5, <2>6
<1>9. CASE UNCHANGED vars
  BY <1>3, <1>9 DEF vars, RepairsInv, InTurn
<1>10. QED
  BY <1>4, <1>5, <1>6, <1>7, <1>8, <1>9, StepKinds

-----------------------------------------------------------------------------
(* Identities. *)

\* A turn that resolved by likeness has a control; a dispatch that was answered is
\* remembered.
LikenessInv ==
    /\ pc \in {"planning", "checking"} => cur.fuzzy = FALSE /\ cur.landed = FALSE
    /\ pc \in {"deciding", "recording"} =>
         (cur.landed = TRUE /\ cur.error \in {"none", "postcondition"} /\ cur.action \in Control
            => cur.action \in ids)

\* Only a dispatch that was answered is remembered, and it is before its step is.
LEMMA LikenessNext == TypeInv /\ LikenessInv /\ [Next]_vars => LikenessInv'
<1> SUFFICES ASSUME TypeInv, LikenessInv, [Next]_vars PROVE LikenessInv'
  OBVIOUS
<1>c. cur \in Turn /\ ids \subseteq Control
  BY DEF TypeInv, TypeOK
<1>1. CASE Observe
  <2>1. pc' = "planning" /\ cur'.fuzzy = FALSE /\ cur'.landed = FALSE
    BY <1>1 DEF Observe, NewTurn
  <2>2. QED
    BY <2>1 DEF LikenessInv
<1>2. CASE Planned \/ PlansAgain
  BY <1>2, <1>c DEF Planned, PlansAgain, LikenessInv, Turn, world
<1>3. CASE Escalates \/ TargetPlanFails
  BY <1>3, <1>c DEF Escalates, TargetPlanFails, OutputFails, LikenessInv, Turn, world
<1>4. CASE CheckPasses \/ CheckThrows \/ Rejected
  BY <1>4, <1>c DEF CheckPasses, CheckThrows, Rejected, LikenessInv, Turn, world
<1>5. CASE ActFails \/ Land
  BY <1>5, <1>c DEF ActFails, Land, LikenessInv, Turn, world
<1>6. CASE ActHolds \/ ActDisproved
  BY <1>6, <1>c DEF ActHolds, ActDisproved, Acted, LikenessInv, Turn
<1>7. CASE Verify \/ RecordStep
  BY <1>7, <1>c DEF Verify, RecordStep, LikenessInv, Turn, world
<1>8. CASE ProviderFails
  BY <1>8, <1>c, ThrowLeaves DEF ProviderFails, LikenessInv, Turn, world
<1>9. CASE ObserveThrows \/ PlanFails \/ RecordThrows \/ ManifestFails
  <2>1. pc' \in {"finishing", "threw"}
    BY <1>9, ThrowLeaves DEF ObserveThrows, PlanFails, RecordThrows, ManifestFails
  <2>2. QED
    BY <2>1 DEF LikenessInv
<1>10. CASE Recorded
  <2>1. pc' \in {"turn", "finishing", "threw"}
    BY <1>10, ThrowLeaves DEF Recorded, GoesOn, Repairs, ThrowsError, Decides, Finish
  <2>2. QED
    BY <2>1 DEF LikenessInv
<1>11. CASE StepsExhausted \/ ManifestWritten \/ Crash \/ UNCHANGED vars
  BY <1>11 DEF StepsExhausted, Finish, ManifestWritten, Crash, vars, LikenessInv
<1>12. QED
  BY <1>1, <1>2, <1>3, <1>4, <1>5, <1>6, <1>7, <1>8, <1>9, <1>10, <1>11 DEF Next, Advance

\* Identities are only added; a turn keeps its control once it was checked, and passes
\* the check by likeness only with one that is not among them.
LEMMA IdentityFacts ==
    ASSUME TypeInv, LikenessInv, [Next]_vars
    PROVE  /\ ids \subseteq ids'
           /\ (InTurn' \/ pc' = "recording") /\ cur'.fuzzy = TRUE =>
                \/ (InTurn \/ pc = "recording") /\ cur.fuzzy = TRUE /\ cur'.action = cur.action
                \/ Within /\ cur'.action \in Control \ ids
<1>c. cur \in Turn
  BY DEF TypeInv, TypeOK
<1>1. CASE CheckPasses
  <2>1. PICK fuzzy \in BOOLEAN : /\ fuzzy => cur.action \in Control
                                 /\ ~ Stale(cur.action, fuzzy)
                                 /\ cur' = [cur EXCEPT !.fuzzy = fuzzy]
    BY <1>1 DEF CheckPasses
  <2>2. cur'.fuzzy = fuzzy /\ cur'.action = cur.action
    BY <1>c, <2>1 DEF Turn
  <2>3. cur'.fuzzy = TRUE => cur'.action \in Control \ ids
    BY <2>1, <2>2 DEF Stale
  <2>4. Within /\ UNCHANGED ids
    BY <1>1, <1>c DEF CheckPasses, Within, InTurn, Turn, world, record, budget
  <2>5. QED
    BY <2>3, <2>4
<1>2. CASE Observe
  BY <1>2 DEF Observe, NewTurn
<1>3. CASE Planned \/ PlansAgain \/ Escalates \/ TargetPlanFails \/ Rejected \/ CheckThrows
  <2>1. cur.fuzzy = FALSE
    BY <1>3
       DEF Planned, PlansAgain, Escalates, TargetPlanFails, OutputFails, Rejected,
           CheckThrows, LikenessInv
  <2>2. cur'.fuzzy = FALSE
    BY <1>3, <1>c, <2>1
       DEF Planned, PlansAgain, Escalates, TargetPlanFails, OutputFails, Rejected,
           CheckThrows, Turn
  <2>3. UNCHANGED ids
    BY <1>3
       DEF Planned, PlansAgain, Escalates, TargetPlanFails, OutputFails, Rejected,
           CheckThrows, world
  <2>4. QED
    BY <2>2, <2>3
<1>4. CASE ProviderFails
  <2>1. InTurn' \/ pc' = "recording" => cur'.fuzzy = FALSE
    BY <1>4, <1>c, ThrowLeaves DEF ProviderFails, LikenessInv, InTurn, Turn
  <2>2. UNCHANGED ids
    BY <1>4 DEF ProviderFails, world
  <2>3. QED
    BY <2>1, <2>2
<1>5. CASE ActFails \/ Land \/ Verify \/ RecordStep
  BY <1>5, <1>c DEF ActFails, Land, Verify, RecordStep, InTurn, Turn, world
<1>6. CASE ActHolds \/ ActDisproved
  BY <1>6, <1>c DEF ActHolds, ActDisproved, Acted, InTurn, Turn
<1>7. CASE ObserveThrows \/ PlanFails \/ RecordThrows \/ ManifestFails
  <2>1. pc' \in {"finishing", "threw"} /\ UNCHANGED ids
    BY <1>7, ThrowLeaves
       DEF ObserveThrows, PlanFails, RecordThrows, ManifestFails, world
  <2>2. QED
    BY <2>1 DEF InTurn
<1>8. CASE Recorded
  <2>1. pc' \in {"turn", "finishing", "threw"} /\ UNCHANGED ids
    BY <1>8, ThrowLeaves
       DEF Recorded, GoesOn, Repairs, ThrowsError, Decides, Finish, world
  <2>2. QED
    BY <2>1 DEF InTurn
<1>9. CASE StepsExhausted \/ ManifestWritten \/ Crash \/ UNCHANGED vars
  BY <1>9 DEF StepsExhausted, Finish, ManifestWritten, Crash, vars, InTurn, world
<1>10. QED
  BY <1>1, <1>2, <1>3, <1>4, <1>5, <1>6, <1>7, <1>8, <1>9 DEF Next, Advance

\* The controls of the effects on record are remembered, and a turn that goes by
\* likeness goes to none of them.
LookalikeInv ==
    /\ Going => \A i \in 1 .. step :
                  steps[i].landed = TRUE /\ steps[i].action \in Control
                    => steps[i].action \in ids
    /\ (InTurn \/ pc = "recording") /\ cur.fuzzy = TRUE =>
         /\ cur.action \in Control
         /\ \A i \in 1 .. step : steps[i].landed = TRUE => steps[i].action # cur.action
    /\ LookalikeRefused

\* What is bound by likeness was dispatched to by no step before it.
LEMMA LookalikeNext ==
    TypeInv /\ TypeInv' /\ TurnInv /\ LikenessInv /\ LookalikeInv /\ [Next]_vars
        => LookalikeInv'
<1> SUFFICES ASSUME TypeInv, TypeInv', TurnInv, LikenessInv, LookalikeInv, [Next]_vars
             PROVE  LookalikeInv'
  OBVIOUS
<1>1. ids \subseteq ids'
  BY IdentityFacts
<1>2. (InTurn' \/ pc' = "recording") /\ cur'.fuzzy = TRUE =>
        \/ (InTurn \/ pc = "recording") /\ cur.fuzzy = TRUE /\ cur'.action = cur.action
        \/ Within /\ cur'.action \in Control \ ids
  BY IdentityFacts
<1>3. ASSUME UNCHANGED <<step, steps>>, Going
      PROVE  /\ (InTurn' \/ pc' = "recording") /\ cur'.fuzzy = TRUE =>
                  /\ cur'.action \in Control
                  /\ \A i \in 1 .. step' : steps'[i].landed = TRUE => steps'[i].action # cur'.action
             /\ \A i \in 1 .. step' : steps'[i].landed = TRUE /\ steps'[i].action \in Control
                                         => steps'[i].action \in ids'
             /\ LookalikeRefused'
  <2>1. \A i \in 1 .. step : steps[i].landed = TRUE /\ steps[i].action \in Control
                                => steps[i].action \in ids
    BY <1>3 DEF LookalikeInv
  <2>2. LookalikeRefused'
    BY <1>3 DEF LookalikeInv, LookalikeRefused
  <2>3. ASSUME InTurn' \/ pc' = "recording", cur'.fuzzy = TRUE
        PROVE  /\ cur'.action \in Control
               /\ \A i \in 1 .. step : steps[i].landed = TRUE => steps[i].action # cur'.action
    BY <1>2, <2>1, <2>3 DEF LookalikeInv
  <2>4. QED
    BY <1>1, <1>3, <2>1, <2>2, <2>3
<1>4. CASE Leave
  BY <1>4 DEF Leave, LookalikeInv, LookalikeRefused, Going
<1>5. CASE Begin \/ Within \/ UNCHANGED vars
  <2>1. UNCHANGED <<step, steps>>
    BY <1>5 DEF Begin, Within, vars
  <2>2. CASE Going
    BY <1>3, <2>1, <2>2 DEF LookalikeInv
  <2>3. CASE ~ Going
    <3>1. UNCHANGED vars
      BY <1>5, <2>3 DEF Begin, Within, Going
    <3>2. QED
      BY <2>1, <2>3, <3>1 DEF vars, LookalikeInv, LookalikeRefused, Going, InTurn
  <2>4. QED
    BY <2>2, <2>3
<1>6. CASE Lists
  <2>1. InTurn /\ pc' = "recording"
    BY <1>6 DEF Lists
  <2>2. /\ step \in Nat /\ step' = step /\ Len(steps) = step /\ Len(steps') = step + 1
        /\ steps'[step + 1] = cur'
        /\ \A i \in 1 .. step : steps'[i] = steps[i]
    BY <1>6, ListsFacts
  <2>3. cur'.fuzzy = TRUE => cur.fuzzy = TRUE /\ cur'.action = cur.action
    BY <1>2, <1>6, <2>1 DEF Lists, Within, InTurn
  <2>4. cur'.fuzzy = TRUE =>
          /\ cur'.action \in Control
          /\ \A i \in 1 .. step : steps[i].landed = TRUE => steps[i].action # cur'.action
    BY <2>1, <2>3 DEF LookalikeInv
  <2>5. \A i \in 1 .. step : steps[i].landed = TRUE /\ steps[i].action \in Control
                                => steps[i].action \in ids
    BY <2>1 DEF LookalikeInv, Going
  <2>6. LookalikeRefused'
    <3>1. SUFFICES ASSUME NEW i \in 1 .. Len(steps'), NEW j \in 1 .. Len(steps'),
                          i < j, steps'[i].landed, steps'[j].landed, steps'[j].fuzzy
                   PROVE  steps'[i].action # steps'[j].action
      BY DEF LookalikeRefused
    <3>2. i \in 1 .. step /\ steps'[i] = steps[i]
      BY <2>2, <3>1
    <3>3. CASE j \in 1 .. step
      BY <2>2, <3>1, <3>2, <3>3 DEF LookalikeInv, LookalikeRefused
    <3>4. CASE j = step + 1
      <4>1. steps[i].landed = TRUE /\ cur'.fuzzy = TRUE
        <5>1. steps[i] \in Turn /\ cur' \in Turn
          BY <2>2, <3>2 DEF TypeInv, TypeOK
        <5>2. QED
          BY <2>2, <3>1, <3>2, <3>4, <5>1 DEF Turn
      <4>2. QED
        BY <2>2, <2>4, <3>2, <3>4, <4>1
    <3>5. QED
      BY <2>2, <3>1, <3>3, <3>4
  <2>7. QED
    BY <1>1, <2>1, <2>2, <2>4, <2>5, <2>6 DEF LookalikeInv
<1>7. CASE Continues
  <2>1. pc = "recording" /\ pc' = "turn" /\ step' = step + 1 /\ UNCHANGED steps
    BY <1>7 DEF Continues
  <2>2. /\ step \in Nat /\ steps[step + 1] = cur /\ cur.error \in {"none", "postcondition"}
    BY <1>7, ContinuesFrom
  <2>3. cur.landed = TRUE /\ cur.action \in Control => cur.action \in ids
    BY <2>1, <2>2 DEF LikenessInv
  <2>4. \A i \in 1 .. step : steps[i].landed = TRUE /\ steps[i].action \in Control
                                => steps[i].action \in ids
    BY <2>1 DEF LookalikeInv, Going
  <2>5. \A i \in 1 .. step' : steps'[i].landed = TRUE /\ steps'[i].action \in Control
                                 => steps'[i].action \in ids'
    BY <1>1, <2>1, <2>2, <2>3, <2>4
  <2>6. QED
    BY <2>1, <2>5 DEF LookalikeInv, LookalikeRefused, InTurn
<1>8. QED
  BY <1>4, <1>5, <1>6, <1>7, StepKinds

-----------------------------------------------------------------------------
(* Spend. *)

\* The model calls of the turn under way.
UsageOfTurn == usage.planned + usage.escalated

\* Every completed call is with the steps listed, with the turn or with the planner
\* that is asked; of a planner that failed at its provider, fewer are.
SpendInv ==
    /\ pc = "turn" => spent = UsageOfSteps
    /\ pc = "planning" => spent = UsageOfSteps + UsageOfTurn + call.usages
    /\ pc = "planning" /\ call.which = "plan" => UsageOfTurn = 0
    /\ pc \in {"checking", "acting"} => spent = UsageOfSteps + UsageOfTurn
    /\ pc = "deciding" =>
         /\ UsageOfSteps + UsageOfTurn <= spent
         /\ cur.error = "output" => spent = UsageOfSteps + UsageOfTurn + call.usages
         /\ cur.error \notin {"output", "world"} => spent = UsageOfSteps + UsageOfTurn
    /\ pc = "recording" =>
         /\ UsageOfSteps <= spent
         /\ cur.error = "output" => spent = UsageOfSteps + call.usages
         /\ cur.error \notin {"output", "world"} => spent = UsageOfSteps
    /\ manifest.tokens <= spent
    /\ pc = "finishing" /\ manifest.throws = FALSE => manifest.tokens = spent
    /\ pc = "returned" => manifest.tokens = spent

\* The tokens of a run that throws are among those that were spent.
LEMMA ThrowSpends ==
    ASSUME TypeInv, NEW carried \in Nat, Throw(carried), UsageOfSteps + carried <= spent',
           manifest.tokens <= spent'
    PROVE  SpendInv'
<1>1. CASE MayFinish
  <2>1. /\ pc' = "finishing"
        /\ manifest' = [outcome |-> "failure", tokens |-> UsageOfSteps + carried, throws |-> TRUE]
    BY <1>1 DEF Throw, Finish
  <2>2. manifest'.tokens = UsageOfSteps + carried /\ manifest'.throws = TRUE
    BY <2>1
  <2>3. QED
    BY <2>1, <2>2 DEF SpendInv
<1>2. CASE ~ MayFinish
  BY <1>2 DEF Throw, SpendInv
<1>3. QED
  BY <1>1, <1>2

\* Every completed call is with the steps listed, the turn, or the planner asked.
LEMMA SpendNext == TypeInv /\ TypeInv' /\ TurnInv /\ SpendInv /\ [Next]_vars => SpendInv'
<1> SUFFICES ASSUME TypeInv, TypeInv', TurnInv, SpendInv, [Next]_vars PROVE SpendInv'
  OBVIOUS
<1>c. cur \in Turn /\ spent \in Nat /\ manifest.tokens \in Nat
  BY DEF TypeInv, TypeOK
<1>d. call \in [which : {"plan", "escalated", "target", None},
                tries : 0 .. MaxOutputRepairs, usages : Nat]
  BY DEF TypeInv, TypeOK
<1>e. call.usages \in Nat
  BY <1>d
<1>u. usage \in Usage /\ usages \in Usage
  BY DEF TypeInv, TypeOK
<1>f. /\ usage.planned \in Nat /\ usage.escalated \in Nat
      /\ UsageOfSteps \in Nat /\ UsageOfTurn \in Nat
  BY <1>u DEF Usage, UsageOfTurn, UsageOfSteps
<1>g. pc = "planning" => cur.error = "none"
  BY DEF TurnInv
<1>s. UNCHANGED usages => UNCHANGED UsageOfSteps
  BY DEF UsageOfSteps
<1>t. UNCHANGED usage => UNCHANGED UsageOfTurn
  BY DEF UsageOfTurn
<1>1. CASE Observe
  <2>1. /\ pc = "turn" /\ pc' = "planning" /\ call'.usages = 0
        /\ usage'.planned = 0 /\ usage'.escalated = 0
        /\ UNCHANGED <<spent, usages, manifest>>
    BY <1>1 DEF Observe, Ask, NoCall, NoUsage, record
  <2>2. UsageOfTurn' = 0
    BY <2>1 DEF UsageOfTurn
  <2>3. QED
    BY <1>c, <1>f, <1>s, <2>1, <2>2 DEF SpendInv
<1>2. CASE Planned
  <2>1. /\ pc = "planning" /\ pc' \in {"deciding", "checking"} /\ spent' = spent + 1
        /\ cur'.error = "none" /\ UNCHANGED <<usages, manifest>>
    BY <1>2, <1>c, <1>g DEF Planned, Turn, record
  <2>2. usage' = [usage EXCEPT !.planned = usage.planned + call.usages + 1]
    BY <1>2 DEF Planned
  <2>3. usage'.planned = usage.planned + call.usages + 1 /\ usage'.escalated = usage.escalated
    BY <1>u, <2>2 DEF Usage
  <2>4. UsageOfTurn' = UsageOfTurn + call.usages + 1
    BY <1>e, <1>f, <2>3 DEF UsageOfTurn
  <2>5. spent = UsageOfSteps + UsageOfTurn + call.usages /\ manifest.tokens <= spent
    BY <2>1 DEF SpendInv
  <2>6. /\ spent' = UsageOfSteps' + UsageOfTurn' /\ manifest'.tokens <= spent'
        /\ UsageOfSteps' + UsageOfTurn' <= spent'
    BY <1>c, <1>e, <1>f, <1>s, <2>1, <2>4, <2>5
  <2>7. QED
    BY <2>1, <2>6 DEF SpendInv
<1>3. CASE PlansAgain
  <2>1. /\ pc = "planning" /\ pc' = "planning" /\ spent' = spent + 1
        /\ call' = [call EXCEPT !.tries = call.tries + 1, !.usages = call.usages + 1]
        /\ UNCHANGED <<usage, usages, manifest>>
    BY <1>3 DEF PlansAgain, record
  <2>2. call'.which = call.which /\ call'.usages = call.usages + 1
    BY <1>d, <2>1
  <2>3. QED
    BY <1>c, <1>e, <1>f, <1>s, <1>t, <2>1, <2>2 DEF SpendInv
<1>4. CASE Escalates
  <2>1. /\ pc = "planning" /\ pc' = "planning" /\ spent' = spent + 1 /\ call.which = "plan"
        /\ usage' = [usage EXCEPT !.escalated = call.usages + 1]
        /\ call'.which = "escalated" /\ call'.usages = 0
        /\ UNCHANGED <<usages, manifest>>
    BY <1>4 DEF Escalates, OutputFails, Ask, NoCall, record
  <2>2. usage'.planned = usage.planned /\ usage'.escalated = call.usages + 1
    BY <1>u, <2>1 DEF Usage
  <2>3. UsageOfTurn = 0 /\ spent = UsageOfSteps + UsageOfTurn + call.usages
    BY <2>1 DEF SpendInv
  <2>4. UsageOfTurn' = call.usages + 1
    BY <1>e, <1>f, <2>2, <2>3 DEF UsageOfTurn
  <2>5. QED
    BY <1>c, <1>e, <1>f, <1>s, <2>1, <2>3, <2>4 DEF SpendInv
<1>5. CASE PlanFails
  <2>1. pc = "planning" /\ spent' = spent + 1 /\ Throw(call.usages + 1)
    BY <1>5 DEF PlanFails, OutputFails
  <2>2. UsageOfSteps + (call.usages + 1) <= spent' /\ manifest.tokens <= spent'
    BY <1>c, <1>e, <1>f, <2>1 DEF SpendInv
  <2>3. call.usages + 1 \in Nat
    BY <1>e
  <2>4. QED
    BY <2>1, <2>2, <2>3, ThrowSpends
<1>6. CASE TargetPlanFails
  <2>1. /\ pc = "planning" /\ pc' = "deciding" /\ spent' = spent + 1 /\ cur'.error = "output"
        /\ call' = [call EXCEPT !.usages = call.usages + 1]
        /\ UNCHANGED <<usage, usages, manifest>>
    BY <1>6, <1>c DEF TargetPlanFails, OutputFails, Turn, record
  <2>2. call'.usages = call.usages + 1
    BY <1>d, <2>1
  <2>3. QED
    BY <1>c, <1>e, <1>f, <1>s, <1>t, <2>1, <2>2 DEF SpendInv
<1>7. CASE ProviderFails
  <2>1. pc = "planning" /\ UNCHANGED <<spent, usage, usages>>
    BY <1>7 DEF ProviderFails
  <2>2. CASE call.which = "target"
    <3>1. pc' = "deciding" /\ cur'.error = "world" /\ UNCHANGED manifest
      BY <1>7, <1>c, <2>2 DEF ProviderFails, Turn
    <3>2. QED
      BY <1>c, <1>e, <1>f, <1>s, <1>t, <2>1, <3>1 DEF SpendInv
  <2>3. CASE call.which # "target"
    <3>1. Throw(0)
      BY <1>7, <2>3 DEF ProviderFails
    <3>2. UsageOfSteps + 0 <= spent' /\ manifest.tokens <= spent'
      BY <1>c, <1>e, <1>f, <2>1 DEF SpendInv
    <3>3. QED
      BY <3>1, <3>2, ThrowSpends
  <2>4. QED
    BY <2>2, <2>3
<1>8. CASE CheckPasses \/ CheckThrows \/ Land \/ ActFails \/ ActHolds \/ ActDisproved
  <2>1. /\ pc \in {"checking", "acting"} /\ pc' \in {"acting", "deciding"}
        /\ UNCHANGED <<spent, usage, usages, manifest>>
    BY <1>8
       DEF CheckPasses, CheckThrows, Land, ActFails, ActHolds, ActDisproved, Acted, record
  <2>2. cur.error = "none"
    BY <2>1 DEF TurnInv
  <2>3. cur'.error # "output"
    BY <1>8, <1>c, <2>2
       DEF CheckPasses, CheckThrows, Land, ActFails, ActHolds, ActDisproved, Acted, Turn
  <2>4. QED
    BY <1>c, <1>f, <1>s, <1>t, <2>1, <2>3 DEF SpendInv
<1>9. CASE Rejected
  <2>1. /\ pc = "checking" /\ UNCHANGED <<spent, usage, usages, manifest>>
    BY <1>9 DEF Rejected, record
  <2>2. \/ pc' = "planning" /\ call'.usages = 0 /\ call'.which = "target"
        \/ pc' = "deciding" /\ cur'.error = "target"
    BY <1>9, <1>c DEF Rejected, Ask, NoCall, Turn
  <2>3. QED
    BY <1>c, <1>f, <1>s, <1>t, <2>1, <2>2 DEF SpendInv
<1>10. CASE Verify \/ RecordStep
  <2>1. /\ pc = "deciding" /\ pc' = "recording" /\ cur'.error = cur.error
        /\ UNCHANGED <<spent, call, manifest>>
    BY <1>10, <1>c DEF Verify, RecordStep, Turn
  <2>2. usages' = [planned |-> usages.planned + usage.planned,
                   escalated |-> usages.escalated + usage.escalated]
    BY <1>10 DEF Verify, RecordStep, List
  <2>3. /\ usages'.planned = usages.planned + usage.planned
        /\ usages'.escalated = usages.escalated + usage.escalated
        /\ usages.planned \in Nat /\ usages.escalated \in Nat
    BY <1>u, <2>2 DEF Usage
  <2>4. UsageOfSteps' = UsageOfSteps + UsageOfTurn
    BY <1>f, <2>3 DEF UsageOfSteps, UsageOfTurn
  <2>5. QED
    BY <1>c, <1>e, <1>f, <2>1, <2>4 DEF SpendInv
<1>11. CASE Recorded
  <2>1. /\ pc = "recording" /\ UNCHANGED <<cur, call, spent, usages>>
        /\ GoesOn \/ Repairs \/ ThrowsError \/ Decides
    BY <1>11 DEF Recorded
  <2>2. CASE GoesOn \/ Repairs
    <3>1. pc' = "turn" /\ cur.error \in {"none", "postcondition"} /\ UNCHANGED manifest
      BY <2>2 DEF GoesOn, Repairs, Repairable
    <3>2. QED
      BY <1>c, <1>f, <1>s, <2>1, <3>1 DEF SpendInv
  <2>3. CASE ThrowsError
    <3>1. PICK carried \in Nat : /\ carried = (IF cur.error = "output" THEN call.usages ELSE 0)
                                 /\ Throw(carried)
      BY <1>e, <2>3 DEF ThrowsError
    <3>2. UsageOfSteps + carried <= spent' /\ manifest.tokens <= spent'
      BY <1>c, <1>e, <1>f, <2>1, <3>1 DEF SpendInv
    <3>3. QED
      BY <3>1, <3>2, ThrowSpends
  <2>4. CASE Decides
    <3>1. /\ pc' = "finishing" /\ manifest'.tokens = UsageOfSteps /\ cur.error = "none"
      BY <2>4 DEF Decides, Finish
    <3>2. spent' = UsageOfSteps
      BY <2>1, <3>1 DEF SpendInv
    <3>3. QED
      BY <1>f, <3>1, <3>2 DEF SpendInv
  <2>5. QED
    BY <2>1, <2>2, <2>3, <2>4
<1>12. CASE ObserveThrows \/ RecordThrows
  <2>1. /\ pc \in {"turn", "recording"} /\ Throw(0) /\ UNCHANGED spent
    BY <1>12 DEF ObserveThrows, RecordThrows
  <2>2. UsageOfSteps + 0 <= spent' /\ manifest.tokens <= spent'
    BY <1>c, <1>f, <2>1 DEF SpendInv
  <2>3. QED
    BY <2>1, <2>2, ThrowSpends
<1>13. CASE StepsExhausted
  <2>1. /\ pc = "turn" /\ pc' = "finishing" /\ manifest'.tokens = UsageOfSteps /\ UNCHANGED spent
    BY <1>13 DEF StepsExhausted, Finish
  <2>2. QED
    BY <1>c, <1>f, <2>1 DEF SpendInv
<1>14. CASE ManifestWritten
  <2>1. /\ pc = "finishing" /\ UNCHANGED <<spent, manifest>>
        /\ pc' = IF manifest.throws THEN "threw" ELSE "returned"
    BY <1>14 DEF ManifestWritten
  <2>2. manifest.throws \in BOOLEAN
    BY DEF TypeInv, TypeOK
  <2>3. QED
    BY <2>1, <2>2 DEF SpendInv
<1>15. CASE ManifestFails
  <2>1. pc = "finishing" /\ pc' \in {"finishing", "threw"} /\ UNCHANGED spent
    BY <1>15, ThrowLeaves DEF ManifestFails
  <2>2. finishes # 0
    BY <2>1 DEF TypeInv, Shape
  <2>3. pc' = "threw" /\ UNCHANGED manifest
    BY <1>15, <2>2 DEF ManifestFails, Throw, MayFinish
  <2>4. QED
    BY <2>1, <2>3 DEF SpendInv
<1>16. CASE Crash \/ UNCHANGED vars
  <2>1. /\ pc' = "crashed" \/ UNCHANGED <<pc, cur, call, usage>>
        /\ UNCHANGED <<spent, usages, manifest>>
    BY <1>16 DEF Crash, vars, record
  <2>2. QED
    BY <1>s, <1>t, <2>1 DEF SpendInv
<1>17. QED
  BY <1>1, <1>2, <1>3, <1>4, <1>5, <1>6, <1>7, <1>8, <1>9, <1>10, <1>11, <1>12, <1>13,
     <1>14, <1>15, <1>16 DEF Next, Advance

-----------------------------------------------------------------------------
(* The run. *)

\* All of it is inductive together: what a property says of the steps listed rests on
\* what is known of the turn under way, and that on the loop's own bookkeeping.
LoopInv ==
    /\ TypeInv /\ TurnInv /\ PendingInv
    /\ ListInv /\ VerifiedAfterLastEffect /\ SuccessInv
    /\ EffectsInv /\ RepairsInv /\ LikenessInv /\ LookalikeInv /\ SpendInv

\* A run begins with nothing listed, counted or claimed.
LEMMA LoopInit == Init => LoopInv
<1> SUFFICES ASSUME Init PROVE LoopInv
  OBVIOUS
<1>1. TypeInv /\ TurnInv
  BY TypeInit, TurnInit
<1>2. /\ pc = "turn" /\ step = 0 /\ steps = <<>> /\ Len(steps) = 0 /\ 1 .. Len(steps) = {}
      /\ effects = 0 /\ repairs = 0 /\ trail = 0 /\ finishes = 0 /\ pending = FALSE
      /\ manifest.outcome = "none"
  BY DEF Init, NoManifest
<1>3. PendingInv /\ LikenessInv
  BY <1>2 DEF PendingInv, LikenessInv
<1>4. ListInv /\ VerifiedAfterLastEffect /\ LookalikeInv
  BY <1>2 DEF ListInv, VerifiedAfterLastEffect, LookalikeInv, LookalikeRefused, InTurn
<1>5. SuccessInv
  BY <1>2 DEF SuccessInv, NeverSilentSuccess
<1>6. Landed = {} /\ RepairSteps = {} /\ Cardinality({}) = 0
  BY <1>2, FS_EmptySet DEF Landed, RepairSteps
<1>7. EffectsInv
  BY <1>2, <1>6 DEF EffectsInv, EffectsOnRecord, Landed, InTurn
<1>8. RepairsInv
  <2>1. MaxRepairs \in Nat
    BY AgentAssumption DEF AgentAssumption
  <2>2. FailureBuysOneRepair
    BY <1>2, <1>6, <2>1 DEF FailureBuysOneRepair, RepairSteps
  <2>3. QED
    BY <1>2, <1>6, <2>2 DEF RepairsInv, InTurn
<1>9. SpendInv
  <2>1. spent = 0 /\ usages.planned = 0 /\ usages.escalated = 0 /\ manifest.tokens = 0
    BY DEF Init, NoUsage, NoManifest
  <2>2. UsageOfSteps = 0
    BY <2>1 DEF UsageOfSteps
  <2>3. QED
    BY <1>2, <2>1, <2>2 DEF SpendInv
<1>10. QED
  BY <1>1, <1>3, <1>4, <1>5, <1>7, <1>8, <1>9 DEF LoopInv

\* Every step of the run keeps it.
LEMMA LoopNext == LoopInv /\ [Next]_vars => LoopInv'
<1> SUFFICES ASSUME LoopInv, [Next]_vars PROVE LoopInv'
  OBVIOUS
<1> USE DEF LoopInv
<1>1. TypeInv'
  BY TypeNext
<1>2. TurnInv'
  BY TurnNext
<1>3. PendingInv' /\ LikenessInv'
  BY PendingNext, LikenessNext
<1>4. ListInv' /\ SuccessInv'
  BY <1>1, ListNext, SuccessNext
<1>5. VerifiedAfterLastEffect'
  BY <1>1, <1>2, HeldNext
<1>6. EffectsInv'
  BY <1>1, EffectsNext
<1>7. RepairsInv'
  BY <1>1, <1>2, RepairsNext
<1>8. LookalikeInv'
  BY <1>1, LookalikeNext
<1>9. SpendInv'
  BY <1>1, SpendNext
<1>10. QED
  BY <1>1, <1>2, <1>3, <1>4, <1>5, <1>6, <1>7, <1>8, <1>9

\* It holds throughout.
THEOREM LoopKept == Spec => []LoopInv
  BY LoopInit, LoopNext, PTL DEF Spec

\* A run that reports success was verified in its last step, every step before it
\* held or was repaired, and all are in the trajectory (run.ts:299-309).
THEOREM SuccessIsEarned == Spec => []NeverSilentSuccess
<1>1. LoopInv => NeverSilentSuccess
  BY DEF LoopInv, SuccessInv
<1>2. QED
  BY LoopKept, <1>1, PTL

\* What the verifier judged shows every effect of the run, the post-action capture
\* being the next turn's page (run.ts:199, 235).
THEOREM VerifierSeesAll == Spec => []VerifiedAfterLastEffect
<1>1. LoopInv => VerifiedAfterLastEffect
  BY DEF LoopInv
<1>2. QED
  BY LoopKept, <1>1, PTL

\* A failed postcondition buys one repair by the frontier, within the budget of
\* repairs, or ends the run (run.ts:270-297).
THEOREM RepairsAreBounded == Spec => []FailureBuysOneRepair
<1>1. LoopInv => FailureBuysOneRepair
  BY DEF LoopInv, RepairsInv
<1>2. QED
  BY LoopKept, <1>1, PTL

\* At most the last effect is not in the trajectory yet, and a run that comes to
\* finish() has a step for each (run.ts:199-268).
THEOREM EffectsAreRecorded == Spec => []EffectsOnRecord
<1>1. LoopInv => EffectsOnRecord
  BY DEF LoopInv, EffectsInv
<1>2. QED
  BY LoopKept, <1>1, PTL

\* No effect of a run acts, by likeness, on a control it had acted on before, whatever a
\* drag among them drops on (run.ts:441-449).
THEOREM LookalikesAreRefused == Spec => []LookalikeRefused
<1>1. LoopInv => LookalikeRefused
  BY DEF LoopInv, LookalikeInv
<1>2. QED
  BY LoopKept, <1>1, PTL

\* A run that returns has every model call that completed in its manifest, and no
\* manifest claims more (run.ts:311-323, 382).
THEOREM ReturnedSpend == Spec => []ReturnedSpendIsWhole
<1>1. LoopInv => ReturnedSpendIsWhole
  BY DEF LoopInv, SpendInv, ReturnedSpendIsWhole
<1>2. QED
  BY LoopKept, <1>1, PTL

\* A repair is within the budget and by the frontier, and never acts on a lookalike of a
\* control the run acted on; what it may drop on one is not promised (run.ts:270-297,
\* 441-449).
THEOREM RepairsStaySafe == Spec => []RepairsAreSafe
  BY RepairsAreBounded, LookalikesAreRefused, PTL DEF RepairsAreSafe

\* The trajectory has every effect but at most the last, and a run that returns has its
\* whole spend in the manifest (run.ts:199-268, 311-323, 382).
THEOREM RecordsAreWhole == Spec => []RecordIsWhole
  BY EffectsAreRecorded, ReturnedSpend, PTL DEF RecordIsWhole
=============================================================================
