---------------------------- MODULE WelfordStats ----------------------------
(***************************************************************************)
(* SummaryStats (src/src/flow/stats.rs) with its moments: the mean and m2, *)
(* the sum of squared deviations from it, both updated by each value       *)
(* without looking at the others again.                                    *)
(*                                                                         *)
(* The moments are fractions.  They are kept multiplied by Scale, which is *)
(* divisible by what the algorithm divides by, so that the model computes  *)
(* exactly what the code approximates in floating point.                   *)
(***************************************************************************)
EXTENDS SummaryStats

CONSTANTS
    MaxCount,           \* bound: values of one stream
    Scale

ASSUME ScaleAssumption ==
    /\ MaxCount \in Nat
    /\ Scale \in Nat \ {0}
    /\ \A n \in 1 .. MaxCount - 1 : Scale % (n * (n + 1)) = 0

\* A summary with its two moments.
Samples(s, mean, m2) ==
    [count |-> s.count, sum |-> s.sum, min |-> s.min, max |-> s.max,
     mean |-> mean, m2 |-> m2]

NewSamples == Samples(NewStats, 0, 0)

\* A mutated form: both deviations are from the old mean.
MutAddSample(s, v) ==
    LET delta == Scale * v - s.mean
        mean == s.mean + delta \div (s.count + 1)
    IN  Samples(AddValue(s, v), mean, s.m2 + (delta * delta) \div Scale)

\* SummaryStats::add_value
AddSample(s, v) ==
    LET delta == Scale * v - s.mean
        mean == s.mean + delta \div (s.count + 1)
        delta2 == Scale * v - mean
    IN  Samples(AddValue(s, v), mean, s.m2 + (delta * delta2) \div Scale)
=============================================================================
