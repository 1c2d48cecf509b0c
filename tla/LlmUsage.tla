------------------------------- MODULE LlmUsage -------------------------------
(***************************************************************************)
(* What a call of a provider is accounted at: the clients of packages/llm  *)
(* (anthropic.ts, openai.ts, subscription-cli.ts).                         *)
(*                                                                         *)
(* A number a payload lacks is None; what a client cannot account is an    *)
(* error, which is Unaccounted here.  A payload of Anthropic has input,    *)
(* read, write, hour and output; one of OpenAI input, cached, written and  *)
(* output, or is None.  What the command of Codex prints is a sequence of  *)
(* events [type, text, usage], or None for a line that is no JSON; that of *)
(* Claude Code one result [type, error, text, usage].                      *)
(***************************************************************************)
EXTENDS Integers, SequencesExt

CONSTANT None

Unaccounted == [accounted |-> FALSE, text |-> None, input |-> 0, read |-> 0, write |-> 0, output |-> 0]
Accounted(text, input, read, write, output) ==
    [accounted |-> TRUE, text |-> text, input |-> input, read |-> read, write |-> write, output |-> output]
OrZero(n) == IF n = None THEN 0 ELSE n
IsNumber(n) == n # None /\ n >= 0
OptionalNumber(n) == n = None \/ n >= 0

\* Input excludes the cache; a write for an hour has another price.
CompleteAnthropic(text, usage) ==
    IF OrZero(usage.hour) > 0 THEN Unaccounted
    ELSE Accounted(text, usage.input, OrZero(usage.read), OrZero(usage.write), usage.output)

\* Mutant: the input is read as that of the other provider is.
Remainder(usage) == usage.input
\* Input includes the cache.
Uncached(usage) == usage.input - OrZero(usage.cached) - OrZero(usage.written)
CompleteOpenAi(text, usage) ==
    IF usage = None THEN Unaccounted
    ELSE IF Uncached(usage) < 0 THEN Unaccounted
    ELSE Accounted(text, Uncached(usage), OrZero(usage.cached), OrZero(usage.written), usage.output)

-----------------------------------------------------------------------------
(* The commands of the two subscriptions.  One that fails has no usage.     *)

LastOf(events, Wanted(_)) == SelectLastInSeq(events, Wanted)
CodexUsage(text, usage) ==
    IF ~ (IsNumber(usage.input) /\ OptionalNumber(usage.cached) /\ IsNumber(usage.output)) \/ OrZero(usage.cached) > usage.input THEN Unaccounted
    ELSE Accounted(text, usage.input - OrZero(usage.cached), OrZero(usage.cached), 0, usage.output)
\* The last message is the answer and the last turn the usage.
CompleteCodex(exit, events) ==
    LET message == LastOf(events, LAMBDA e : e # None /\ e.type = "message")
        turn == LastOf(events, LAMBDA e : e # None /\ e.type = "turn")
    IN  IF exit # 0 \/ turn = 0 THEN Unaccounted
        ELSE CodexUsage(IF message = 0 THEN None ELSE events[message].text, events[turn].usage)

Concludes(result) == result # None /\ result.type = "result" /\ ~ result.error /\ result.text # None /\ result.usage # None
CompleteClaudeCode(exit, result) ==
    IF exit # 0 \/ ~ Concludes(result) THEN Unaccounted
    ELSE LET u == result.usage
         IN  IF IsNumber(u.input) /\ OptionalNumber(u.read) /\ OptionalNumber(u.write) /\ IsNumber(u.output)
             THEN Accounted(result.text, u.input, OrZero(u.read), OrZero(u.write), u.output) ELSE Unaccounted

-----------------------------------------------------------------------------

Logical(answer) == answer.input + answer.read + answer.write

\* One prompt, of which some was read from the cache and some written to it, is accounted
\* alike by every client, each from what its provider reports of it: nothing is counted
\* twice and nothing left out.
ProvidersAgree(fresh, read, write, output) ==
    LET answers == {CompleteAnthropic(None, [input |-> fresh, read |-> read, write |-> write, hour |-> None, output |-> output]),
                    CompleteOpenAi(None, [input |-> fresh + read + write, cached |-> read, written |-> write, output |-> output])}
        usage == [input |-> fresh, read |-> read, write |-> write, output |-> output]
        commands == {CompleteClaudeCode(0, [type |-> "result", error |-> FALSE, text |-> "t", usage |-> usage])} \cup
                    (IF write = 0 THEN {CompleteCodex(0, <<[type |-> "turn", text |-> None, usage |-> [input |-> fresh + read, cached |-> read, output |-> output]]>>)} ELSE {})
    IN  \A x \in answers \cup commands :
            x.accounted /\ Logical(x) = fresh + read + write /\ <<x.read, x.write, x.output>> = <<read, write, output>>

\* No usage is not zero usage: an answer is accounted only if its numbers were there and
\* none was negative, and what the cache gave never exceeds the prompt.
NothingIsGuessed(exit, events, usage) ==
    LET codex == CompleteCodex(exit, events)
        claude == CompleteClaudeCode(exit, [type |-> "result", error |-> FALSE, text |-> "t", usage |-> usage])
        openai == CompleteOpenAi(None, usage)
    IN  /\ exit # 0 => ~ codex.accounted /\ ~ claude.accounted
        /\ codex.accounted => \E e \in ToSet(events) : e # None /\ e.type = "turn" /\ None \notin {e.usage.input, e.usage.output}
        /\ claude.accounted => usage # None /\ None \notin {usage.input, usage.output}
        /\ \A x \in {codex, claude, openai} : \A n \in {x.input, x.read, x.write, x.output} : n >= 0
=============================================================================
