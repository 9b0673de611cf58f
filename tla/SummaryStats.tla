---------------------------- MODULE SummaryStats ----------------------------
(***************************************************************************)
(* The running summary that src/src/flow/stats.rs keeps of a stream of     *)
(* values.  Count, sum and range are modelled; the Welford moments (mean,  *)
(* m2) are functions of the same stream that nothing modelled here reads.  *)
(***************************************************************************)
EXTENDS Integers

Stats == [count: Nat, sum: Int, min: Int, max: Int]

\* SummaryStats::new.  The f64::MAX and f64::MIN sentinels are never read
\* while the count is zero (the getters return 0.0), so 0 stands for both.
NewStats == [count |-> 0, sum |-> 0, min |-> 0, max |-> 0]

\* SummaryStats::add_value: the first value always replaces the sentinels.
AddValue(s, v) ==
    [count |-> s.count + 1,
     sum   |-> s.sum + v,
     min   |-> IF s.count = 0 \/ v < s.min THEN v ELSE s.min,
     max   |-> IF s.count = 0 \/ v > s.max THEN v ELSE s.max]
=============================================================================
