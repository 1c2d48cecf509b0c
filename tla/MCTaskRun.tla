------------------------------ MODULE MCTaskRun ------------------------------
EXTENDS GuiServer

CONSTANTS order, the, d1, d2, n1, n2, t1, t2, t3, r0

MCCasts == {{t2, t3}, {t1, d1}, {t2, d1, d2}}
MCBefore == {[name |-> None, run |-> None], [name |-> n1, run |-> r0]}
MCTokensOf(text) == {text, the}
MCAsked(d) == IF d = d1 THEN {[name |-> n1, run |-> r] : r \in {r0, Cold(t1)}}
              ELSE {[name |-> n, run |-> r0] : n \in {n1, n2}}
MCWants(t) == "codex"
MCRun == {r0} \cup {Warm(t) : t \in Attempt} \cup {Cold(t) : t \in Attempt}
=============================================================================
