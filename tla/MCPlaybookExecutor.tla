------------------------ MODULE MCPlaybookExecutor ------------------------
(* A playbook of three steps: a tool step that may be retried, a slot the   *)
(* model fills, and a tool step whose arguments use the slot.               *)
EXTENDS PlaybookExecutor

CONSTANTS a, m, b, ok, bad

MCOrder == <<a, m, b>>
MCDeterministic == {a, b}
MCUses == [x \in Step |-> IF x = b THEN {m} ELSE {}]
MCAttempts == [x \in Step |-> IF x = a THEN 2 ELSE 1]
MCValue == {ok, bad}
AnyStop == Step \cup {None}

Anything == [field |-> "page", accepts |-> MCValue \cup {None}]
PageOk == [field |-> "page", accepts |-> {ok}]
OutputOk == [field |-> "output", accepts |-> {ok}]
ExitOk == [field |-> "exit_code", accepts |-> {ok}]

MCExpect == [x \in Step |-> CASE x = a -> PageOk [] x = m -> Anything
                              [] OTHER -> OutputOk]
MCVerify == {PageOk, OutputOk}

\* A full page, a page that shows the wrong thing, a result without a page.
MCAnswer == {[page |-> ok, exit_code |-> None, output |-> ok],
             [page |-> bad, exit_code |-> None, output |-> ok],
             [page |-> None, exit_code |-> ok, output |-> ok],
             [page |-> None, exit_code |-> None, output |-> bad]}

\* The same playbook with checks of the exit code.
ExitExpect == [x \in Step |-> IF x = m THEN Anything ELSE ExitOk]
=============================================================================
