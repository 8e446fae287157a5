--------------------------- MODULE MCClaimTiming ---------------------------
EXTENDS ClaimTiming

(* 6-bit integers: i64 is -32..31, u64 is 0..63. Start values: i64::MIN,  *)
(* the last value whose elapsed time overflows at the last clock tick and *)
(* the first that does not, an ordinary past and future start, and the     *)
(* one-year limit and one past it at the clock's end.                      *)
MC_StartValues == {-32, -28, -27, 0, 2, 14, 15}
(* period_seconds 0 is refused with InvalidPeriod. *)
MC_PeriodSecondsValues == {0, 2, 3}
MC_ExpiresValues == {0, 3}
(* issued_at: i64::MIN and i64::MAX, and values around the clock. *)
MC_IssuedValues == {-32, -1, 0, 1, 2, 3, 4, 5, 31}
=============================================================================
