--------------------------- MODULE MCContinuation ---------------------------
(* Sessions of a task of three steps: two tool steps and a slot between     *)
(* them, whose answer the second tool step uses.                            *)
EXTENDS Continuation, TLC

CONSTANTS a, m, b, ok, bad

MCOrder == <<a, m, b>>
MCDeterministic == {a, b}
MCUses == [x \in Step |-> IF x = b THEN {m} ELSE {}]
OneAttempt == [x \in Step |-> 1]
MCValue == {ok, bad}
StopAtM == {None, m}
Exchanges == Permutations(Session) \cup Permutations(Identity)

PageOk == [field |-> "page", accepts |-> {ok}]
MCExpect == [x \in Step |-> PageOk]
MCVerify == {PageOk}
Page(v) == [page |-> v, exit_code |-> None, output |-> v]
GoodPage == {Page(ok)}
=============================================================================
