---------------------------- MODULE TaskProgress ----------------------------
(***************************************************************************)
(* What continuation promises of one task, without sessions, files or      *)
(* crashes: a durable record of the steps completed, which grows by one    *)
(* step at a time in the order of the playbook, and is closed at the end.  *)
(* A step may be taken up and abandoned any number of times before it is   *)
(* recorded, and never after.                                              *)
(***************************************************************************)
EXTENDS Naturals, Sequences

CONSTANTS Step, Order

VARIABLES recorded, inHand, closed

progressVars == <<recorded, inHand, closed>>

Init == recorded = {} /\ inHand = {} /\ closed = FALSE

\* x is the first step of the playbook that is not on record.
IsNext(x) == \E i \in 1 .. Len(Order) :
    Order[i] = x /\ recorded = {Order[j] : j \in 1 .. i - 1}

TakeUp(x) ==
    /\ inHand = {} /\ ~ closed /\ IsNext(x)
    /\ inHand' = {x}
    /\ UNCHANGED <<recorded, closed>>

PutDown ==
    /\ inHand' = {}
    /\ UNCHANGED <<recorded, closed>>

RecordStep(x) ==
    /\ inHand = {} /\ ~ closed /\ IsNext(x)
    /\ recorded' = recorded \cup {x}
    /\ UNCHANGED <<inHand, closed>>

Close ==
    /\ inHand = {} /\ recorded = Step
    /\ closed' = TRUE
    /\ UNCHANGED <<recorded, inHand>>

Next == Close \/ PutDown \/ \E x \in Step : TakeUp(x) \/ RecordStep(x)

Spec == Init /\ [][Next]_progressVars
=============================================================================
