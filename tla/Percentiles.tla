---------------------------- MODULE Percentiles -----------------------------
(***************************************************************************)
(* internal/stats: Recorder.Summarize over the latencies recorded.  A      *)
(* quantile is given in thousandths; latencies are naturals.               *)
(***************************************************************************)
EXTENDS Integers, Sequences, Sorting, Sums

(* Mutant: the rank is rounded down. *)
QuantileFloor(sorted, q) ==
  LET n == Len(sorted)
      idx == (q * n) \div 1000 - 1
  IN IF n = 0 THEN 0
     ELSE sorted[1 + (IF idx < 0 THEN 0 ELSE IF idx >= n THEN n - 1 ELSE idx)]

(* quantile: the rank ceil(q*n), as an index from 0 kept within bounds.    *)
Quantile(sorted, q) ==
  LET n == Len(sorted)
      idx == (q * n + 999) \div 1000 - 1
  IN IF n = 0 THEN 0
     ELSE sorted[1 + (IF idx < 0 THEN 0 ELSE IF idx >= n THEN n - 1 ELSE idx)]

(* Summarize: all zero when nothing was recorded.                          *)
Summarized(samples) ==
  LET s == InOrder(samples)
      n == Len(s)
  IN [Count |-> n,
      Min  |-> IF n = 0 THEN 0 ELSE s[1],
      Max  |-> IF n = 0 THEN 0 ELSE s[n],
      Mean |-> IF n = 0 THEN 0 ELSE Total(s) \div n,
      P50  |-> Quantile(s, 500),
      P95  |-> Quantile(s, 950),
      P99  |-> Quantile(s, 990),
      P999 |-> Quantile(s, 999)]
=============================================================================
