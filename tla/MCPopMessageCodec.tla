------------------------- MODULE MCPopMessageCodec -------------------------
EXTENDS PopMessageCodec

(* Two-byte keys and hashes. Each field has its own non-zero value, so a  *)
(* read at a wrong offset yields a different message; the chain and audit *)
(* hashes may also be zero (genesis, v1).                                 *)
MC_FieldBytes ==
    [f \in {"grant", "claimer", "prev", "stream", "audit", "entry"} |->
        CASE f = "grant" -> {<<1, 2>>}
          [] f = "claimer" -> {<<2, 1>>}
          [] f = "prev" -> {<<3, 0>>, ZeroHash}
          [] f = "stream" -> {<<0, 3>>, ZeroHash}
          [] f = "audit" -> {<<1, 1>>}
          [] f = "entry" -> {<<2, 2>>}]

(* Two-byte integers: 0..15 unsigned, -8..7 signed. 1 and 4 tell the byte *)
(* orders apart; the extremes are u64::MAX, i64::MIN and i64::MAX scaled. *)
MC_PeriodValues == {0, 1, 4, 15}
MC_IssuedValues == {-8, -1, 1, 7}
=============================================================================
