----------------------------- MODULE TargetBand -----------------------------
(***************************************************************************)
(* bandedTargets: which ranks of the reachable vertices, in the order of   *)
(* their distance, a band of the flags -band-lo and -band-hi selects.      *)
(***************************************************************************)
EXTENDS Integers

AtMost(a, b) == IF a < b THEN a ELSE b
AtLeast(a, b) == IF a < b THEN b ELSE a

(* Mutant: the rank a degenerate band falls back to is not clamped. *)
BandNoClamp(lo0, hi0, n) ==
  LET lo == AtLeast(lo0, 0)
      hi == AtMost(hi0, n)
  IN IF lo < hi THEN <<lo, hi>> ELSE <<lo, lo + 1>>

(* reach[lo:hi], or the single rank lo when the band is degenerate.        *)
Band(lo0, hi0, n) ==
  LET lo == AtLeast(lo0, 0)
      hi == AtMost(hi0, n)
  IN IF lo < hi THEN <<lo, hi>>
     ELSE <<AtMost(lo, n - 1), AtMost(lo, n - 1) + 1>>
=============================================================================
