----------------------------- MODULE TogglePure -----------------------------
(* The pure business rules of the program: pure.rs and the immutable figures  *)
(* of constants.rs.  Amounts are lamports, times are seconds.                 *)
(*                                                                            *)
(* The products are computed in u128 and no u64 operand can overflow them, so *)
(* they are plain integers here.  Every sum the code checks against u64 or    *)
(* i64 is guarded at its use with FitsU64 or FitsI64.                         *)
EXTENDS Integers

CONSTANTS MAX_U64, MAX_I64   \* the ceilings of u64 and i64; instances shrink them

ASSUME WidthAssumption == MAX_U64 \in Nat /\ MAX_I64 \in Nat

FEE_BPS == 1500
DEFAULT_MIN_RAISE_BPS == 500
DEFAULT_BASE_WINDOW_SECS == 30

FitsU64(n) == 0 <= n /\ n <= MAX_U64
FitsI64(n) == -MAX_I64 - 1 <= n /\ n <= MAX_I64

\* Fault: any higher bid passes.
any_raise(base, bid, min_raise_bps) == bid > base

\* Division-free raise check: the bid clears base by at least min_raise_bps.
require_min_raise(base, bid, min_raise_bps) ==
  bid * 10000 >= base * (10000 + min_raise_bps)

\* A bid at `now` is answerable for a full window.  The overflow of
\* checked_add is the caller's FitsI64 guard.
compute_window_reset(base_window_secs, now) == now + base_window_secs

\* Faults: both shares rounded down, and the fee rounded up.
split_losing_dust(winning_price, fee_bps) ==
  [fee  |-> (winning_price * fee_bps) \div 10000,
   burn |-> (winning_price * (10000 - fee_bps)) \div 10000]

split_rounding_up(winning_price, fee_bps) ==
  LET fee == (winning_price * fee_bps + 9999) \div 10000
  IN  [fee |-> fee, burn |-> winning_price - fee]

\* Treasury and burn shares of a winning price; the fee is rounded down.
compute_split(winning_price, fee_bps) ==
  LET fee == (winning_price * fee_bps) \div 10000
  IN  [fee |-> fee, burn |-> winning_price - fee]

\* saturating_add on i64, for the operands that occur (both signs of a).
saturating_add(a, b) == IF a + b > MAX_I64 THEN MAX_I64
                        ELSE IF a + b < -MAX_I64 - 1 THEN -MAX_I64 - 1 ELSE a + b

\* How much of a linear release is unlocked at `now`.
compute_vested_unlocked(total, start_ts, duration_secs, now) ==
  IF now <= start_ts THEN 0
  ELSE IF duration_secs <= 0 \/ now >= saturating_add(start_ts, duration_secs)
       THEN total
       ELSE (total * (now - start_ts)) \div duration_secs
=============================================================================
