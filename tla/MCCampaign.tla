----------------------------- MODULE MCCampaign -----------------------------
(***************************************************************************)
(* A campaign of one repetition, over the four cells, of every gate that   *)
(* can be selected; judged by a protocol of one, and by one of two, for    *)
(* which it is a smoke run.  An earlier collection may have left the run   *)
(* that is distilled, or one that is compared.                             *)
(***************************************************************************)
EXTENDS Campaign

MCCell(id, of, minimum) == [id |-> id, gate |-> of, minimum |-> minimum, tags |-> Telemetry(of), reset |-> "reset", oracle |-> "oracle"]
MCProtocol == [repetitions |-> 1, pricing |-> "v1", model |-> "frontier",
               cells |-> <<MCCell(1, "t0", 1), MCCell(2, "t2", 1), MCCell(3, "routing", 1), MCCell(4, "b4", 2)>>]
MCBinding(cell) == [cell |-> cell, task |-> cell, ask |-> cell, asks |-> [n \in {} |-> None]]
MCOptions == [bindings |-> <<MCBinding(1), MCBinding(2), MCBinding(3), MCBinding(4)>>, brief |-> 1, routine |-> "routine"]
MCGates == {None, "t0", "t2", "routing", "b4"}
MCSources == {1, 2}
MCLeft == {{}, {<<1, "cold", 1>>}, {<<3, "routing_on", 1>>}}
MCStream == <<<<0, 0>>, <<9, 9>>>>
MCFloors == [t0 |-> 800, t2 |-> 100, routing |-> 100, retreat |-> 0]
=============================================================================
