------------------------------ MODULE BenchStats ------------------------------
(***************************************************************************)
(* The arithmetic every benchmark report shares: prices                    *)
(* (packages/bench/src/pricing.ts) and statistics (stats.ts and the        *)
(* bootstraps of competitor-gate.ts).                                      *)
(*                                                                         *)
(* A ratio is a whole number of thousandths, rounded down.  A mean is its  *)
(* total and its count.  The seeded generator is a stream: a sequence of   *)
(* resamples, each the sequence of the tenths it draws.                    *)
(***************************************************************************)
EXTENDS Integers, SequencesExt, FiniteSetsExt, TLC

Parts == 1000
Tenths == 10

Total(s) == FoldSeq(LAMBDA x, y : x + y, 0, s)
Reduction(subject, baseline) ==
    LET s == subject[1] * baseline[2]
        b == baseline[1] * subject[2]
    IN  IF b <= 0 THEN 0 ELSE (Parts * (b - s)) \div b
Mean(s) == <<Total(s), Max({Len(s), 1})>>

\* The percentile p of an ascending sequence, between its two neighbours.
Percentile(sorted, p) ==
    LET rank == p * (Len(sorted) - 1)
        lo == rank \div Parts
        hi == IF rank % Parts = 0 THEN lo ELSE lo + 1
        weight == rank % Parts
    IN  IF sorted = <<>> THEN 0 ELSE (sorted[lo + 1] * (Parts - weight) + sorted[hi + 1] * weight) \div Parts

\* Mutant: the draws as they came.
AsDrawn(draws) == draws
Sorted(draws) == SortSeq(draws, <)
IntervalOf(point, draws, confidence) ==
    LET alpha == (Parts - confidence) \div 2
    IN  [point |-> point, lower |-> Percentile(Sorted(draws), alpha), upper |-> Percentile(Sorted(draws), Parts - alpha)]
NoInterval == [point |-> 0, lower |-> 0, upper |-> 0]

Draw(values, tenths) == [i \in DOMAIN values |-> values[1 + (tenths[i] * Len(values)) \div Tenths]]
Rest(tenths, drawn) == SubSeq(tenths, drawn + 1, Len(tenths))

\* Each harness is resampled on its own.
IndependentInterval(subject, baseline, stream, confidence) ==
    LET draw(tenths) == Reduction(Mean(Draw(subject, tenths)), Mean(Draw(baseline, Rest(tenths, Len(subject)))))
    IN  IF subject = <<>> \/ baseline = <<>> THEN NoInterval
        ELSE IntervalOf(Reduction(Mean(subject), Mean(baseline)), [k \in DOMAIN stream |-> draw(stream[k])], confidence)

\* The pairs are resampled, the two sides of a pair together.
MatchedInterval(subject, baseline, stream, confidence) ==
    LET draw(tenths) == Reduction(Mean(Draw(subject, tenths)), Mean(Draw(baseline, tenths)))
    IN  IntervalOf(Reduction(Mean(subject), Mean(baseline)), [k \in DOMAIN stream |-> draw(stream[k])], confidence)

-----------------------------------------------------------------------------
(* Prices in twentieths, so that the rates of the cache are whole: a read   *)
(* is a tenth of an input token, a write of five minutes five quarters,     *)
(* unless the model states its own.                                         *)

CONSTANT None

Or(value, fallback) == IF value = None THEN fallback ELSE value
RunCost(tokens, price) ==
    20 * tokens.input * price.input + 20 * tokens.output * price.output
        + tokens.read * Or(price.read, 2 * price.input) + tokens.write * Or(price.write, 25 * price.input)
PriceForModel(model, table) == IF model \in DOMAIN table.prices THEN table.prices[model] ELSE None
=============================================================================
