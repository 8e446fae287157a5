----------------------------- MODULE ClaimTiming -----------------------------
(***************************************************************************)
(* The period and freshness arithmetic of lib.rs at its real width:       *)
(* create_grant's start_ts check (lines 48-79), require_claim_timing       *)
(* (563-579), the skew check of verify_and_record_pop_proof (696-697) and *)
(* absolute_i64_diff (858-864).                                            *)
(*                                                                         *)
(* i64 and u64 keep their behaviour at a scaled width of Width bits:       *)
(* checked_sub fails outside [I64Min, I64Max], "/" truncates toward zero,  *)
(* "as u64" wraps modulo 2^Width. Time is scaled as in GrantProgram. The  *)
(* clock stays far below I64Max - YEAR_SECONDS, as the real clock does,    *)
(* so now + 365 days never overflows.                                      *)
(***************************************************************************)
EXTENDS Integers

CONSTANTS
    Width,                  \* bits of an i64 / u64 (64 in the code)
    YEAR_SECONDS,           \* 365 * 24 * 60 * 60, scaled
    POP_MAX_SKEW_SECONDS,   \* 600, scaled
    MaxTime,                \* the last clock value explored
    StartValues,            \* start_ts arguments of create_grant
    PeriodSecondsValues,    \* period_seconds arguments
    ExpiresValues,          \* expires_at arguments
    IssuedValues            \* issued_at values of proofs

I64Min == -(2 ^ (Width - 1))
I64Max == 2 ^ (Width - 1) - 1
U64Range == 2 ^ Width

ASSUME MaxTime + YEAR_SECONDS <= I64Max
ASSUME StartValues \cup ExpiresValues \cup IssuedValues \subseteq I64Min..I64Max

NoGrant == [start_ts |-> 0, period_seconds |-> 0, expires_at |-> 0]
NoClaim == [period_index |-> 0, t |-> 0, issued_at |-> 0, grant |-> NoGrant]

VARIABLES
    now,        \* Clock::unix_timestamp
    grant,      \* the schedule fields of the Grant account, or NoGrant
    lastClaim   \* the last admitted claim and the schedule it was checked under

vars == <<now, grant, lastClaim>>

(* i64::checked_sub. *)
CheckedSub(a, b) == [ok |-> a - b \in I64Min..I64Max, val |-> a - b]

(* i64 division, truncating toward zero. *)
TruncDiv(a, b) == IF a >= 0 THEN a \div b ELSE -((-a) \div b)

(* "as u64" of an i64. *)
AsU64(x) == x % U64Range

(* A wrapping subtraction in place of the checked one. *)
WrapI64(x) == ((x - I64Min) % U64Range) + I64Min
AbsoluteI64DiffWrapping(a, b) ==
    IF a >= b THEN [ok |-> TRUE, val |-> WrapI64(a - b)]
    ELSE [ok |-> TRUE, val |-> WrapI64(b - a)]
(* absolute_i64_diff. *)
AbsoluteI64Diff(a, b) == IF a >= b THEN CheckedSub(a, b) ELSE CheckedSub(b, a)

(* The skew check of verify_and_record_pop_proof. *)
PopFresh(t, issued) ==
    LET skew == AbsoluteI64Diff(t, issued)
    IN  skew.ok /\ skew.val <= POP_MAX_SKEW_SECONDS

RequireClaimTimingNoStartCheck(g, t, p) ==
    /\ g.expires_at # 0 => t <= g.expires_at
    /\ LET elapsed == CheckedSub(t, g.start_ts)
       IN  elapsed.ok /\ p = AsU64(TruncDiv(elapsed.val, g.period_seconds))
(* require_claim_timing. *)
RequireClaimTiming(g, t, p) ==
    /\ g.expires_at # 0 => t <= g.expires_at
    /\ t >= g.start_ts
    /\ LET elapsed == CheckedSub(t, g.start_ts)
       IN  elapsed.ok /\ p = AsU64(TruncDiv(elapsed.val, g.period_seconds))

-----------------------------------------------------------------------------
Init ==
    /\ now = 0
    /\ grant = NoGrant
    /\ lastClaim = NoClaim

CreateGrantNoPeriodCheck(period, start, expires) ==
    /\ start <= now + YEAR_SECONDS
    /\ grant' = [start_ts |-> start, period_seconds |-> period, expires_at |-> expires]
    /\ UNCHANGED <<now, lastClaim>>
(* create_grant (init_if_needed): a positive period and a start no more   *)
(* than a year ahead; the amount check is not about time and is left out. *)
CreateGrant(period, start, expires) ==
    /\ period > 0
    /\ start <= now + YEAR_SECONDS
    /\ grant' = [start_ts |-> start, period_seconds |-> period, expires_at |-> expires]
    /\ UNCHANGED <<now, lastClaim>>

(* claim_grant: the proof's skew check, then require_claim_timing, for a  *)
(* period_index the client chose. Any other failure is a stutter.          *)
Claim(p, issued) ==
    /\ grant # NoGrant
    /\ PopFresh(now, issued)
    /\ RequireClaimTiming(grant, now, p)
    /\ lastClaim' = [period_index |-> p, t |-> now, issued_at |-> issued, grant |-> grant]
    /\ UNCHANGED <<now, grant>>

Tick ==
    /\ now < MaxTime
    /\ now' = now + 1
    /\ UNCHANGED <<grant, lastClaim>>

Next ==
    \/ \E pr \in PeriodSecondsValues, st \in StartValues, ex \in ExpiresValues :
          CreateGrant(pr, st, ex)
    \/ \E p \in 0..(U64Range - 1), iss \in IssuedValues : Claim(p, iss)
    \/ Tick

Spec == Init /\ [][Next]_vars

-----------------------------------------------------------------------------
(* Types, and a grant's period is positive (spec section 3), so the      *)
(* division in require_claim_timing is defined.                           *)
TypeOK ==
    /\ now \in 0..MaxTime
    /\ grant \in {NoGrant} \cup [start_ts: StartValues,
                                  period_seconds: PeriodSecondsValues \ {0},
                                  expires_at: ExpiresValues]
    /\ lastClaim.period_index \in 0..(U64Range - 1)

(* An admitted claim lies in the period it names, measured exactly from   *)
(* start_ts (start + p * period <= now < start + (p + 1) * period) and    *)
(* inside the expiry, whatever the truncating division and the u64 cast   *)
(* do to an elapsed time near zero or near the width's limits.            *)
AdmittedInWindow ==
    lastClaim # NoClaim =>
        LET g == lastClaim.grant
            p == lastClaim.period_index
        IN  /\ g.start_ts + p * g.period_seconds <= lastClaim.t
            /\ lastClaim.t < g.start_ts + (p + 1) * g.period_seconds
            /\ g.expires_at = 0 \/ lastClaim.t <= g.expires_at

(* An admitted claim's proof was issued within the skew bound of the      *)
(* claim time in exact arithmetic, even for issued_at values near i64::MIN *)
(* or i64::MAX that the signer may put in a message.                       *)
AdmittedFresh ==
    lastClaim # NoClaim =>
        /\ lastClaim.t - lastClaim.issued_at <= POP_MAX_SKEW_SECONDS
        /\ lastClaim.issued_at - lastClaim.t <= POP_MAX_SKEW_SECONDS

(* The comment in create_grant says an extremely old start_ts is limited  *)
(* as a likely mistake. If it were, every grant it accepts could compute  *)
(* its period index whenever it is open; require_claim_timing's           *)
(* checked_sub would never return MathOverflow.                            *)
OpenGrantClaimable ==
    (grant # NoGrant /\ now >= grant.start_ts
        /\ (grant.expires_at = 0 \/ now <= grant.expires_at))
        => CheckedSub(now, grant.start_ts).ok

=============================================================================
