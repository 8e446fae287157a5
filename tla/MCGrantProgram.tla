--------------------------- MODULE MCGrantProgram ---------------------------
(***************************************************************************)
(* Model-checking instance of GrantProgram.  Times are scaled down: one   *)
(* model second stands for one second, periods are 2 or 3 seconds long,   *)
(* the PoP skew bound is 1 second (600 in lib.rs) and the start_ts       *)
(* horizon of create_grant is 10 seconds (one year in lib.rs).  These     *)
(* keep every boundary of require_claim_timing and of the skew check      *)
(* reachable within MaxTime.                                              *)
(***************************************************************************)
EXTENDS GrantProgram, TLC

\* Two schedules: the second starts later, has longer periods and an
\* expiry, so re-creating the grant moves period boundaries.
MC_GrantParams ==
  { [amount_per_period |-> 1, period_seconds |-> 2, start_ts |-> 0, expires_at |-> 0],
    [amount_per_period |-> 1, period_seconds |-> 3, start_ts |-> 1, expires_at |-> 4] }

\* A single schedule: the authority may re-create the grant, but only with
\* the parameters it was created with.
MC_FixedParams ==
  { [amount_per_period |-> 1, period_seconds |-> 2, start_ts |-> 0, expires_at |-> 0] }

MC_FundAmounts == {3}

\* Unit fundings: a grant closed after a payment can be re-created,
\* funded again and claimed again within MaxFunded.
MC_UnitFunding == {1}

\* The two signer keys play interchangeable roles.
MC_Symmetry == Permutations(Signers)

=============================================================================
