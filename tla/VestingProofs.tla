---------------------------- MODULE VestingProofs ----------------------------
(* The vesting lock stays funded and follows its schedule, for every total,    *)
(* start, duration and clock.                                                  *)
EXTENDS Vesting, TLAPS

USE WidthAssumption, VestingAssumption

-----------------------------------------------------------------------------
(* Arithmetic *)

LEMMA QuotientBound ==
  ASSUME NEW p \in Nat, NEW d \in Nat \ {0}
  PROVE  /\ p \div d \in Nat
         /\ (p \div d) * d <= p
  OBVIOUS

LEMMA ProductGrows ==
  ASSUME NEW a \in Nat, NEW x \in Int, NEW y \in Int, x <= y
  PROVE  a * x <= a * y
  OBVIOUS

LEMMA CancelFactor ==
  ASSUME NEW a \in Nat, NEW b \in Nat, NEW d \in Nat \ {0}, a * d <= b * d
  PROVE  a <= b
<1>1. CASE a >= b + 1
  <2>1. d * (b + 1) <= d * a
    BY <1>1, ProductGrows
  <2> QED
    BY <2>1
<1> QED
  BY <1>1

\* What has unlocked is at most the total, and before the end at most the
\* straight line, for every argument an i64 clock and schedule can give.
LEMMA VestedBounds ==
  ASSUME NEW total \in Nat, NEW start \in Int, NEW d \in Nat \ {0}, NEW t \in Int,
         FitsI64(start), t < MAX_I64,
         NEW unlocked, unlocked = compute_vested_unlocked(total, start, d, t)
  PROVE  /\ unlocked \in Nat /\ unlocked <= total
         /\ t >= start /\ t < start + d => unlocked * d <= total * (t - start)
<1>1. CASE t <= start
  <2>1. unlocked = 0
    BY <1>1 DEF compute_vested_unlocked
  <2>2. t >= start => total * (t - start) = 0
    BY <1>1
  <2> QED
    BY <2>1, <2>2
<1>2. CASE t > start /\ t >= start + d
  <2>1. t >= saturating_add(start, d)
    BY <1>2, WidthAssumption DEF saturating_add, FitsI64
  <2>2. unlocked = total
    BY <1>2, <2>1 DEF compute_vested_unlocked
  <2> QED
    BY <1>2, <2>2
<1>3. CASE t > start /\ t < start + d
  <2>1. ~(t >= saturating_add(start, d))
    BY <1>3, WidthAssumption DEF saturating_add, FitsI64
  <2>2. unlocked = (total * (t - start)) \div d
    BY <1>3, <2>1 DEF compute_vested_unlocked
  <2> DEFINE elapsed == t - start
  <2>3. elapsed \in Nat /\ elapsed <= d
    BY <1>3
  <2> HIDE DEF elapsed
  <2>4. total * elapsed \in Nat /\ total * elapsed <= total * d
    BY <2>3, ProductGrows
  <2> DEFINE p == total * elapsed
  <2>5. p \in Nat /\ p <= total * d
    BY <2>4
  <2> HIDE DEF p
  <2>6. p \div d \in Nat /\ (p \div d) * d <= p
    BY <2>5, QuotientBound
  <2>7. unlocked = p \div d
    BY <2>2 DEF p, elapsed
  <2>8. unlocked \in Nat /\ unlocked * d <= p
    BY <2>6, <2>7
  <2>9. unlocked * d <= total * d
    <3>1. unlocked * d \in Int /\ total * d \in Int
      BY <2>8
    <3> QED
      BY <2>5, <2>8, <3>1
  <2>10. unlocked <= total
    BY <2>8, <2>9, CancelFactor
  <2> QED
    BY <2>8, <2>10 DEF p, elapsed
<1> QED
  BY <1>1, <1>2, <1>3

LEMMA Rails ==
  MIN_DURATION_SECS \in Nat \ {0} /\ MAX_DURATION_SECS \in Nat
  BY SMT DEF MIN_DURATION_SECS, MAX_DURATION_SECS

-----------------------------------------------------------------------------
(* The inductive invariant *)

IInv == TypeOK /\ LockIsFunded /\ FitsI64(start_ts) /\ (~Locked => claimed_amount = 0)

\* What is paid is positive, and brings the claims to what has unlocked.
LEMMA ClaimFacts ==
  ASSUME IInv, NEW s \in Signers, NEW m \in Mints, ClaimVested(s, m),
         NEW unlocked,
         unlocked = compute_vested_unlocked(total_amount, start_ts, duration_secs, now)
  PROVE  /\ unlocked \in Nat /\ unlocked <= total_amount
         /\ claimed_amount' = unlocked /\ claimed_amount' > claimed_amount
         /\ now < start_ts + duration_secs =>
              unlocked * duration_secs <= total_amount * (now - start_ts)
<1>1. /\ Locked /\ now >= start_ts /\ unlocked - claimed_amount > 0
      /\ claimed_amount' = claimed_amount + (unlocked - claimed_amount)
  BY DEF ClaimVested, Payable, ClaimedTotal
<1>2. /\ total_amount \in Nat /\ start_ts \in Int /\ duration_secs \in Nat \ {0}
      /\ now \in Int /\ FitsI64(start_ts) /\ now < MAX_I64 /\ claimed_amount \in Nat
  <2>1. duration_secs \in MIN_DURATION_SECS .. MAX_DURATION_SECS
    BY <1>1 DEF IInv, TypeOK
  <2>2. duration_secs \in Nat \ {0}
    BY <2>1, Rails
  <2> QED
    BY <2>2, VestingAssumption DEF IInv, TypeOK
<1>3. /\ unlocked \in Nat /\ unlocked <= total_amount
      /\ now >= start_ts /\ now < start_ts + duration_secs =>
           unlocked * duration_secs <= total_amount * (now - start_ts)
  BY <1>2, VestedBounds
<1> QED
  BY <1>1, <1>2, <1>3

LEMMA InitTeamVestingInv ==
  ASSUME IInv, NEW s \in Signers, NEW m \in Mints, NEW a \in TotalAmounts,
         NEW t \in StartTimes, NEW d \in Durations, InitTeamVesting(s, m, a, t, d)
  PROVE  IInv'
<1>1. a \in Nat /\ a > 0 /\ t \in Int /\ d \in Int /\ FitsI64(t) /\ m # NoMint
  BY VestingAssumption DEF InitTeamVesting
<1>2. d \in MIN_DURATION_SECS .. MAX_DURATION_SECS
  BY <1>1, Rails DEF InitTeamVesting, DurationAllowed
<1>3. admin_toggld_ata \in [Mints -> Nat] /\ admin_toggld_ata = Holdings /\ now \in Instants
      /\ opened_atas \subseteq Mints
  BY DEF IInv, TypeOK, LockIsFunded, InitTeamVesting
<1>4. admin_toggld_ata' \in [Mints -> Nat] /\ admin_toggld_ata'[m] = Holdings[m] - a
  BY <1>1, <1>3 DEF InitTeamVesting
<1>5. TypeOK'
  BY <1>1, <1>2, <1>3, <1>4 DEF InitTeamVesting, TypeOK, Locked
<1>6. LockIsFunded'
  BY <1>1, <1>4 DEF InitTeamVesting, LockIsFunded, Locked
<1>7. start_ts' = t /\ claimed_amount' = 0
  BY DEF InitTeamVesting
<1> QED
  BY <1>1, <1>5, <1>6, <1>7 DEF IInv, FitsI64

LEMMA ClaimVestedInv ==
  ASSUME IInv, NEW s \in Signers, NEW m \in Mints, ClaimVested(s, m)
  PROVE  IInv'
<1> DEFINE unlocked == compute_vested_unlocked(total_amount, start_ts, duration_secs, now)
           paid == unlocked - claimed_amount
<1>1. /\ unlocked \in Nat /\ unlocked <= total_amount /\ claimed_amount' = unlocked
      /\ claimed_amount' > claimed_amount
  <2> DEFINE u == unlocked
  <2>1. u = compute_vested_unlocked(total_amount, start_ts, duration_secs, now)
    OBVIOUS
  <2> HIDE DEF u
  <2>2. /\ u \in Nat /\ u <= total_amount /\ claimed_amount' = u
        /\ claimed_amount' > claimed_amount
    BY <2>1, ClaimFacts
  <2> QED
    BY <2>2 DEF u
<1>2. /\ Locked /\ m = mint /\ team_vesting_ata' = team_vesting_ata - paid
      /\ admin_toggld_ata' = [admin_toggld_ata EXCEPT ![m] = @ + paid]
      /\ UNCHANGED <<scheduleVars, opened_atas, now>>
  BY DEF ClaimVested, Payable
<1> HIDE DEF unlocked
<1>3. /\ claimed_amount \in Nat /\ total_amount \in Nat
      /\ team_vesting_ata = total_amount - claimed_amount
      /\ admin_toggld_ata \in [Mints -> Nat]
      /\ admin_toggld_ata[mint] = Holdings[mint] - team_vesting_ata
  BY <1>2 DEF IInv, TypeOK, LockIsFunded
<1>4. paid \in Nat /\ team_vesting_ata' = total_amount - unlocked
  BY <1>1, <1>2, <1>3
<1> HIDE DEF paid
<1>5. /\ admin_toggld_ata' \in [Mints -> Nat]
      /\ admin_toggld_ata'[m] = admin_toggld_ata[m] + paid
  BY <1>2, <1>3, <1>4
<1>6. TypeOK'
  BY <1>1, <1>2, <1>3, <1>4, <1>5 DEF IInv, TypeOK, Locked, scheduleVars
<1>7. LockIsFunded'
  <2>1. team_vesting_ata \in Int /\ team_vesting_ata' = team_vesting_ata - paid
        /\ Holdings[mint] \in Int /\ mint' = mint /\ total_amount' = total_amount
    BY <1>2, <1>3 DEF scheduleVars
  <2> QED
    BY <1>1, <1>2, <1>3, <1>4, <1>5, <2>1 DEF LockIsFunded, Locked
<1>8. FitsI64(start_ts)' /\ Locked'
  BY <1>2 DEF IInv, FitsI64, Locked, scheduleVars
<1> QED
  BY <1>6, <1>7, <1>8 DEF IInv

LEMMA NextIInv == IInv /\ [Next]_vars => IInv'
<1> SUFFICES ASSUME IInv, [Next]_vars PROVE IInv'
  OBVIOUS
<1>1. ASSUME NEW t \in Instants, Tick(t) PROVE IInv'
  BY <1>1 DEF Tick, IInv, TypeOK, LockIsFunded, Locked, scheduleVars
<1>2. CASE UNCHANGED vars
  BY <1>2 DEF vars, IInv, TypeOK, LockIsFunded, Locked, scheduleVars
<1>3. ASSUME NEW m \in Mints, OpenAta(m) PROVE IInv'
  BY <1>3 DEF OpenAta, IInv, TypeOK, LockIsFunded, Locked, scheduleVars
<1> QED
  BY <1>1, <1>2, <1>3, InitTeamVestingInv, ClaimVestedInv DEF Next

\* The inductive invariant holds in every reachable state: init_team_vesting sets
\* it up, and neither a claim nor the clock nor an account a stranger opens breaks it.
THEOREM VestingInvariance == Spec => []IInv
<1>1. Init => IInv
  BY WidthAssumption, VestingAssumption DEF Init, IInv, TypeOK, LockIsFunded, Locked, FitsI64
<1> QED
  BY <1>1, NextIInv, PTL DEF Spec

\* Every field of the lock keeps its type.
THEOREM VestingTypeCorrect == Spec => []TypeOK
<1>1. IInv => TypeOK
  BY DEF IInv
<1> QED
  BY <1>1, VestingInvariance, PTL

\* The lock's token account holds exactly what is still to be claimed, after
\* any sequence of partial claims.
THEOREM LockStaysFunded == Spec => []LockIsFunded
<1>1. IInv => LockIsFunded
  BY DEF IInv
<1> QED
  BY <1>1, VestingInvariance, PTL

\* No claim runs ahead of the straight line from start to end.
THEOREM ClaimsKeepToSchedule == Spec => ClaimsFollowSchedule
<1> DEFINE Follows ==
      claimed_amount' # claimed_amount =>
        /\ claimed_amount' > claimed_amount
        /\ now < start_ts + duration_secs =>
             claimed_amount' * duration_secs <= total_amount * (now - start_ts)
<1>1. IInv /\ [Next]_vars => Follows
  <2> SUFFICES ASSUME IInv, [Next]_vars, claimed_amount' # claimed_amount PROVE Follows
    OBVIOUS
  <2>1. PICK s \in Signers, m \in Mints : ClaimVested(s, m)
    BY DEF Next, Tick, OpenAta, InitTeamVesting, IInv, vars
  <2> DEFINE unlocked == compute_vested_unlocked(total_amount, start_ts, duration_secs, now)
             Bounds(u) == /\ claimed_amount' = u /\ claimed_amount' > claimed_amount
                          /\ now < start_ts + duration_secs =>
                               u * duration_secs <= total_amount * (now - start_ts)
  <2>2. Bounds(unlocked)
    BY <2>1, ClaimFacts
  <2> QED
    BY <2>2
<1> QED
  BY <1>1, VestingInvariance, PTL DEF Spec, ClaimsFollowSchedule

\* Whatever the arguments, at most an hour's worth of the shortest release is
\* unlocked when a lock is made.
THEOREM NewLocksAreLocked == Spec => NothingUnlocksAtOnce
<1> DEFINE AtOnce ==
      ~Locked /\ Locked' =>
        compute_vested_unlocked(total_amount, start_ts, duration_secs, now)' * MIN_DURATION_SECS
          <= total_amount' * MAX_START_BACKDATE_SECS
<1>1. IInv /\ [Next]_vars => [AtOnce]_vars
  <2> SUFFICES ASSUME IInv, Next, ~Locked, Locked'
               PROVE  compute_vested_unlocked(total_amount, start_ts, duration_secs, now)'
                        * MIN_DURATION_SECS <= total_amount' * MAX_START_BACKDATE_SECS
    OBVIOUS
  <2>1. PICK s \in Signers, m \in Mints, a \in TotalAmounts, t \in StartTimes, d \in Durations :
          InitTeamVesting(s, m, a, t, d)
    BY DEF Next, ClaimVested, Tick, OpenAta, Locked, scheduleVars
  <2>2. /\ a \in Nat /\ t \in Int /\ d \in Int /\ FitsI64(t) /\ now \in Int /\ now < MAX_I64
        /\ total_amount' = a /\ start_ts' = t /\ duration_secs' = d /\ now' = now
        /\ t >= now - 3600 /\ d >= MIN_DURATION_SECS
    BY <2>1, VestingAssumption, SMT
       DEF InitTeamVesting, StartAllowed, DurationAllowed, IInv, TypeOK, MAX_START_BACKDATE_SECS
  <2>3. MIN_DURATION_SECS \in Nat /\ MIN_DURATION_SECS > 3600
    BY SMT DEF MIN_DURATION_SECS
  <2> DEFINE unlocked == compute_vested_unlocked(a, t, d, now)
             least == MIN_DURATION_SECS
  <2>4. /\ unlocked \in Nat
        /\ now >= t /\ now < t + d => unlocked * d <= a * (now - t)
    BY <2>2, <2>3, VestedBounds
  <2>5. now < t => unlocked = 0
    BY <2>2 DEF compute_vested_unlocked
  <2> HIDE DEF unlocked, least
  <2>6. unlocked * least <= a * 3600
    <3>0. least \in Nat /\ least > 3600 /\ d >= least
      BY <2>2, <2>3 DEF least
    <3>1. CASE now < t
      BY <3>1, <2>2, <2>5, <3>0
    <3>2. CASE now >= t
      <4>1. unlocked * d <= a * (now - t)
        BY <2>2, <2>4, <3>0, <3>2
      <4>2. a * (now - t) <= a * 3600
        BY <2>2, ProductGrows
      <4>3. unlocked * least <= unlocked * d
        BY <2>2, <2>4, <3>0, ProductGrows
      <4>4. /\ unlocked * d \in Int /\ a * (now - t) \in Int /\ a * 3600 \in Int
            /\ unlocked * least \in Int
        BY <2>2, <2>4, <3>0
      <4> QED
        BY <4>1, <4>2, <4>3, <4>4
    <3> QED
      BY <2>2, <3>1, <3>2
  <2> QED
    BY <2>2, <2>6, SMT DEF unlocked, least, MAX_START_BACKDATE_SECS
<1> QED
  BY <1>1, VestingInvariance, PTL DEF Spec, NothingUnlocksAtOnce
-----------------------------------------------------------------------------
(* The release over time, and what stands in a claim's way *)

LEMMA QuotientGrows ==
  ASSUME NEW p \in Nat, NEW q \in Nat, p <= q, NEW d \in Nat \ {0}
  PROVE  p \div d <= q \div d
<1>1. p \div d \in Nat /\ (p \div d) * d <= p
  BY QuotientBound
<1>2. q \div d \in Nat /\ q < (q \div d) * d + d
  OBVIOUS
<1> DEFINE x == p \div d
           y == q \div d
<1>3. x \in Nat /\ y \in Nat /\ x * d <= p /\ q < y * d + d
  BY <1>1, <1>2
<1> HIDE DEF x, y
<1>4. x * d < (y + 1) * d
  <2>1. (y + 1) * d = y * d + d /\ x * d \in Int /\ y * d \in Int
    BY <1>3
  <2> QED
    BY <1>3, <2>1
<1>5. CASE x >= y + 1
  <2>1. d * (y + 1) <= d * x
    BY <1>3, <1>5, ProductGrows
  <2>2. d * (y + 1) = (y + 1) * d /\ d * x = x * d /\ x * d \in Int /\ (y + 1) * d \in Int
    BY <1>3
  <2> QED
    BY <1>4, <2>1, <2>2
<1>6. CASE x <= y
  BY <1>6 DEF x, y
<1> QED
  BY <1>3, <1>5, <1>6

\* A release never shrinks: a later reading unlocks no less, whatever the total,
\* the schedule and the readings (compute_vested_unlocked, through its three
\* branches and the saturating end).
THEOREM ReleaseNeverShrinks ==
  ASSUME NEW total \in Nat, NEW start \in Int, NEW d \in Nat \ {0},
         NEW t \in Int, NEW u \in Int, t <= u, FitsI64(start), u < MAX_I64
  PROVE  compute_vested_unlocked(total, start, d, t)
           <= compute_vested_unlocked(total, start, d, u)
<1> DEFINE early == compute_vested_unlocked(total, start, d, t)
           late  == compute_vested_unlocked(total, start, d, u)
<1>1. /\ early = compute_vested_unlocked(total, start, d, t)
      /\ late = compute_vested_unlocked(total, start, d, u)
  OBVIOUS
<1> HIDE DEF early, late
<1>2. early \in Nat /\ early <= total /\ late \in Nat /\ late <= total
  BY <1>1, VestedBounds
<1>3. CASE t <= start
  <2>1. early = 0
    BY <1>1, <1>3 DEF compute_vested_unlocked
  <2> QED
    BY <1>1, <1>2, <2>1
<1>4. CASE t > start /\ u >= start + d
  <2>1. u >= saturating_add(start, d) /\ u > start
    BY <1>4, WidthAssumption DEF saturating_add, FitsI64
  <2>2. late = total
    BY <1>1, <2>1 DEF compute_vested_unlocked
  <2> QED
    BY <1>1, <1>2, <2>2
<1>5. CASE t > start /\ u < start + d
  <2>1. ~(t >= saturating_add(start, d)) /\ ~(u >= saturating_add(start, d))
    BY <1>5, WidthAssumption DEF saturating_add, FitsI64
  <2>2. early = (total * (t - start)) \div d /\ late = (total * (u - start)) \div d
    BY <1>1, <1>5, <2>1 DEF compute_vested_unlocked
  <2> DEFINE p == total * (t - start)
             q == total * (u - start)
  <2>3. p \in Nat /\ q \in Nat /\ p <= q
    <3> DEFINE x == t - start
               y == u - start
    <3>1. x \in Nat /\ y \in Nat /\ x <= y
      BY <1>5
    <3> HIDE DEF x, y
    <3>2. total * x <= total * y /\ total * x \in Nat /\ total * y \in Nat
      BY <3>1, ProductGrows
    <3> QED
      BY <3>2 DEF x, y
  <2>4. early = p \div d /\ late = q \div d
    BY <2>2
  <2> HIDE DEF p, q
  <2>5. early <= late
    BY <2>3, <2>4, QuotientGrows
  <2> QED
    BY <1>1, <2>5
<1> QED
  BY <1>3, <1>4, <1>5

\* No arguments an i64 clock and schedule can give make the release overflow ("no
\* combination of arguments can panic or overflow", pure.rs): the unchecked
\* subtraction of the start stays in an i64, the product in a u128, so its
\* saturation never bites, and what is cast back to u64 is less than the total.
THEOREM ReleaseNeverOverflows ==
  ASSUME NEW total \in 0 .. MAX_U64, NEW start \in Int, NEW secs \in Int, NEW t \in Int,
         FitsI64(start), FitsI64(secs), FitsI64(t), MAX_I64 <= MAX_U64
  PROVE  /\ compute_vested_unlocked(total, start, secs, t) \in 0 .. total
         /\ t > start /\ secs > 0 /\ t < saturating_add(start, secs) =>
              /\ FitsI64(t - start) /\ 0 < t - start /\ t - start < secs
              /\ total * (t - start) < (MAX_U64 + 1) * (MAX_U64 + 1)
              /\ total > 0 => (total * (t - start)) \div secs < total
<1>0. total \in Nat /\ MAX_U64 \in Nat /\ MAX_I64 \in Nat /\ total <= MAX_U64
  BY WidthAssumption
<1>1. CASE ~(t > start /\ secs > 0 /\ t < saturating_add(start, secs))
  <2>1. compute_vested_unlocked(total, start, secs, t) \in {0, total}
    BY <1>0, <1>1 DEF compute_vested_unlocked, saturating_add
  <2> QED
    BY <1>0, <1>1, <2>1
<1>2. CASE t > start /\ secs > 0 /\ t < saturating_add(start, secs)
  <2> DEFINE elapsed == t - start
             p == total * elapsed
  <2>1. saturating_add(start, secs) <= start + secs
    BY <1>0, <1>2 DEF saturating_add, FitsI64
  <2>2. /\ elapsed \in Nat \ {0} /\ elapsed < secs /\ elapsed <= MAX_I64 /\ secs \in Nat \ {0}
        /\ FitsI64(elapsed)
    <3>1. saturating_add(start, secs) \in Int
      BY <1>0 DEF saturating_add
    <3> QED
      BY <1>0, <1>2, <2>1, <3>1 DEF FitsI64
  <2>3. compute_vested_unlocked(total, start, secs, t) = p \div secs
    <3>1. ~(t <= start) /\ ~(secs <= 0) /\ ~(t >= saturating_add(start, secs))
      BY <1>0, <1>2 DEF saturating_add
    <3> QED
      BY <3>1, Zenon DEF compute_vested_unlocked
  <2> HIDE DEF elapsed
  <2>4. p \in Nat /\ p <= total * (secs - 1)
    BY <1>0, <2>2, ProductGrows
  <2>5. p < (MAX_U64 + 1) * (MAX_U64 + 1)
    <3>1. p <= total * MAX_U64
      BY <1>0, <2>2, ProductGrows
    <3>2. MAX_U64 * total <= MAX_U64 * MAX_U64
      BY <1>0, ProductGrows
    <3>3. MAX_U64 * total = total * MAX_U64 /\ total * MAX_U64 \in Nat
          /\ MAX_U64 * MAX_U64 \in Nat
      BY <1>0
    <3>4. (MAX_U64 + 1) * (MAX_U64 + 1) = MAX_U64 * MAX_U64 + MAX_U64 + MAX_U64 + 1
      BY <1>0
    <3> DEFINE a == total * MAX_U64
               b == MAX_U64 * MAX_U64
               c == (MAX_U64 + 1) * (MAX_U64 + 1)
    <3>5. p <= a /\ a <= b /\ a \in Nat /\ b \in Nat /\ c = b + MAX_U64 + MAX_U64 + 1
      BY <3>1, <3>2, <3>3, <3>4
    <3> HIDE DEF p, a, b, c
    <3>6. p < c
      BY <1>0, <2>4, <3>5
    <3> QED
      BY <3>6 DEF c
  <2>6. total * (secs - 1) = total * secs - total /\ total * secs \in Nat
    BY <1>0, <2>2
  <2> DEFINE q == p \div secs
             all == total * secs
  <2>7. p <= all - total /\ all \in Nat
    <3> HIDE DEF p
    <3> QED
      BY <2>4, <2>6
  <2> HIDE DEF p
  <2>8. q \in Nat /\ q * secs <= p
    BY <2>2, <2>4, QuotientBound
  <2> HIDE DEF q
  <2>9. q <= total
    <3>1. q * secs <= total * secs
      <4> DEFINE l == q * secs
      <4>1. l \in Int /\ l <= p
        BY <2>2, <2>8
      <4> HIDE DEF l, all
      <4>2. l <= all
        BY <1>0, <2>4, <2>7, <4>1
      <4> QED
        BY <4>2 DEF l, all
    <3> QED
      BY <1>0, <2>2, <2>8, <3>1, CancelFactor
  <2>10. total > 0 => q < total
    <3> SUFFICES ASSUME total > 0, q = total PROVE FALSE
      BY <1>0, <2>8, <2>9
    <3>1. q * secs = all
      BY DEF all
    <3> HIDE DEF all
    <3> QED
      BY <1>0, <2>4, <2>7, <2>8, <3>1
  <2>11. compute_vested_unlocked(total, start, secs, t) \in 0 .. total
    BY <1>0, <2>3, <2>8, <2>9 DEF q
  <2>12. total > 0 => (total * elapsed) \div secs < total
    BY <2>10 DEF q, p
  <2>13. total * elapsed < (MAX_U64 + 1) * (MAX_U64 + 1)
    BY <2>5 DEF p
  <2>14. 0 < elapsed /\ elapsed < secs /\ FitsI64(elapsed)
    BY <2>2
  <2> QED
    BY <2>11, <2>12, <2>13, <2>14 DEF elapsed
<1> QED
  BY <1>1, <1>2

LEMMA LockedTypes ==
  ASSUME IInv, Locked
  PROVE  /\ total_amount \in Nat /\ start_ts \in Int /\ duration_secs \in Nat \ {0}
         /\ claimed_amount \in Nat /\ now \in Int /\ FitsI64(start_ts) /\ now < MAX_I64
<1>1. duration_secs \in MIN_DURATION_SECS .. MAX_DURATION_SECS
  BY DEF IInv, TypeOK
<1>2. duration_secs \in Nat \ {0}
  BY <1>1, Rails
<1> QED
  BY <1>2, VestingAssumption DEF IInv, TypeOK

\* Of a lock, between nothing and the total has unlocked, and the total at the end.
LEMMA LockUnlocks ==
  ASSUME IInv, Locked,
         NEW unlocked,
         unlocked = compute_vested_unlocked(total_amount, start_ts, duration_secs, now)
  PROVE  /\ unlocked \in Nat /\ unlocked <= total_amount
         /\ now >= start_ts + duration_secs => unlocked = total_amount
<1>1. unlocked \in Nat /\ unlocked <= total_amount
  BY LockedTypes, VestedBounds
<1>2. CASE now >= start_ts + duration_secs
  <2>1. now > start_ts /\ now >= saturating_add(start_ts, duration_secs)
    BY <1>2, LockedTypes, WidthAssumption DEF saturating_add, FitsI64
  <2> QED
    BY <1>1, <2>1, LockedTypes DEF compute_vested_unlocked
<1> QED
  BY <1>1, <1>2

\* What was claimed had unlocked, and has still.
ClaimedHasUnlocked ==
  Locked => claimed_amount
              <= compute_vested_unlocked(total_amount, start_ts, duration_secs, now)

\* On a clock that never steps back nothing is ever claimed ahead of what has
\* unlocked: claim_vested's checked_sub of the two always has a result
\* (claim_vested.rs:72).
THEOREM NothingIsClaimedAhead ==
  ASSUME MaxSkew = 0
  PROVE  Spec => []ClaimedHasUnlocked
<1>1. Init => ClaimedHasUnlocked
  BY DEF Init, Locked, ClaimedHasUnlocked
<1>2. IInv /\ ClaimedHasUnlocked /\ [Next]_vars => ClaimedHasUnlocked'
  <2> SUFFICES ASSUME IInv, ClaimedHasUnlocked, [Next]_vars, Locked'
               PROVE  claimed_amount' <= compute_vested_unlocked(total_amount, start_ts,
                                                                 duration_secs, now)'
    BY DEF ClaimedHasUnlocked
  <2> DEFINE unlocked == compute_vested_unlocked(total_amount, start_ts, duration_secs, now)
  <2>1. ASSUME NEW s \in Signers, NEW m \in Mints, NEW a \in TotalAmounts,
               NEW t \in StartTimes, NEW d \in Durations, InitTeamVesting(s, m, a, t, d)
        PROVE  claimed_amount' <= unlocked'
    <3>1. IInv'
      BY <2>1, InitTeamVestingInv
    <3> DEFINE u == unlocked'
    <3>2. total_amount' = a /\ start_ts' = t /\ duration_secs' = d /\ now' = now
          /\ claimed_amount' = 0
      BY <2>1 DEF InitTeamVesting
    <3>3. u = compute_vested_unlocked(a, t, d, now)
      BY <3>2
    <3>4. /\ a \in Nat /\ t \in Int /\ d \in Nat \ {0} /\ FitsI64(t)
          /\ now \in Int /\ now < MAX_I64
      BY <2>1, Rails, VestingAssumption DEF InitTeamVesting, DurationAllowed, IInv, TypeOK
    <3> HIDE DEF u
    <3>5. u \in Nat
      BY <3>3, <3>4, VestedBounds
    <3> QED
      BY <3>2, <3>5 DEF u
  <2>2. ASSUME NEW s \in Signers, NEW m \in Mints, ClaimVested(s, m)
        PROVE  claimed_amount' <= unlocked'
    <3> DEFINE u == unlocked
    <3>1. u = compute_vested_unlocked(total_amount, start_ts, duration_secs, now)
      OBVIOUS
    <3>2. unlocked' = u
      BY <2>2 DEF ClaimVested, scheduleVars
    <3> HIDE DEF u
    <3>3. claimed_amount' = u /\ u \in Nat
      BY <2>2, <3>1, ClaimFacts
    <3> QED
      BY <3>2, <3>3
  <2>3. ASSUME NEW t \in Instants, Tick(t) PROVE claimed_amount' <= unlocked'
    <3>1. UNCHANGED <<scheduleVars, claimed_amount>> /\ now' = t /\ Locked
      BY <2>3 DEF Tick, Locked, scheduleVars
    <3>2. t \in Int /\ t < MAX_I64 /\ now <= t
      BY <2>3, VestingAssumption DEF Tick, IInv, TypeOK
    <3> DEFINE u == unlocked
               v == compute_vested_unlocked(total_amount, start_ts, duration_secs, t)
    <3>3. u <= v
      BY <3>1, <3>2, LockedTypes, ReleaseNeverShrinks
    <3>4. claimed_amount <= u /\ unlocked' = v
      BY <3>1 DEF ClaimedHasUnlocked, scheduleVars
    <3>5. u \in Nat /\ v \in Nat /\ claimed_amount \in Nat
      <4>1. /\ u = compute_vested_unlocked(total_amount, start_ts, duration_secs, now)
            /\ v = compute_vested_unlocked(total_amount, start_ts, duration_secs, t)
        OBVIOUS
      <4> HIDE DEF u, v
      <4> QED
        BY <3>1, <3>2, <4>1, LockedTypes, VestedBounds
    <3> HIDE DEF u, v
    <3> QED
      BY <3>1, <3>3, <3>4, <3>5
  <2>4. CASE UNCHANGED vars
    BY <2>4 DEF vars, scheduleVars, Locked, ClaimedHasUnlocked
  <2>5. ASSUME NEW m \in Mints, OpenAta(m) PROVE ~Locked'
    BY <2>5 DEF OpenAta, Locked, scheduleVars
  <2> QED
    BY <2>1, <2>2, <2>3, <2>4, <2>5 DEF Next
<1> QED
  BY <1>1, <1>2, VestingInvariance, PTL DEF Spec

\* What claim_vested asks of the state, and what it makes of it.
ClaimReady(signer, token) ==
  /\ Locked /\ signer = Admin /\ token = mint
  /\ now >= start_ts
  /\ Payable > 0 /\ team_vesting_ata >= Payable
  /\ FitsU64(ClaimedTotal(Payable))

ClaimMakes(token) ==
  /\ team_vesting_ata' = team_vesting_ata - Payable
  /\ admin_toggld_ata' = [admin_toggld_ata EXCEPT ![token] = @ + Payable]
  /\ claimed_amount' = ClaimedTotal(Payable)
  /\ UNCHANGED <<scheduleVars, opened_atas, now>>

LEMMA ClaimSplits ==
  ASSUME NEW s, NEW m
  PROVE  ClaimVested(s, m) <=> ClaimReady(s, m) /\ ClaimMakes(m)
  BY Zenon DEF ClaimVested, ClaimReady, ClaimMakes

\* Whatever has unlocked and was not claimed yet, the admin can claim at once;
\* and from the end on that is all that is left, so that one claim empties the lock.
UnlockedIsClaimable ==
  /\ Locked /\ FitsU64(total_amount) /\ Payable > 0 => ClaimReady(Admin, mint)
  /\ Locked /\ now >= start_ts + duration_secs => Payable = team_vesting_ata

\* Over any sequence of claims and clock readings, no guard of claim_vested ever
\* keeps the admin from what has unlocked: the token account holds it, the sum
\* fits u64 as the total does, and from the end on one claim pays all of it.
THEOREM AdminIsNeverBlocked == Spec => []UnlockedIsClaimable
<1>1. IInv => UnlockedIsClaimable
  <2> SUFFICES ASSUME IInv, Locked PROVE UnlockedIsClaimable
    BY DEF UnlockedIsClaimable
  <2> DEFINE u == compute_vested_unlocked(total_amount, start_ts, duration_secs, now)
  <2>1. u = compute_vested_unlocked(total_amount, start_ts, duration_secs, now)
        /\ Payable = u - claimed_amount
    BY DEF Payable
  <2>2. now < start_ts => u = 0
    BY LockedTypes DEF compute_vested_unlocked
  <2> HIDE DEF u
  <2>3. /\ u \in Nat /\ u <= total_amount
        /\ now >= start_ts + duration_secs => u = total_amount
    BY <2>1, LockUnlocks
  <2>4. claimed_amount <= total_amount /\ team_vesting_ata = total_amount - claimed_amount
    BY DEF IInv, LockIsFunded
  <2>5. ASSUME FitsU64(total_amount), Payable > 0 PROVE ClaimReady(Admin, mint)
    <3>1. now >= start_ts /\ team_vesting_ata >= Payable
      BY <2>1, <2>2, <2>3, <2>4, <2>5, LockedTypes
    <3>2. ClaimedTotal(Payable) = u
      BY <2>1, <2>3, LockedTypes DEF ClaimedTotal
    <3>3. FitsU64(u)
      BY <2>3, <2>5, LockedTypes, WidthAssumption DEF FitsU64
    <3> QED
      BY <2>5, <3>1, <3>2, <3>3 DEF ClaimReady
  <2>6. now >= start_ts + duration_secs => Payable = team_vesting_ata
    BY <2>1, <2>3, <2>4
  <2> QED
    BY <2>5, <2>6 DEF UnlockedIsClaimable
<1> QED
  BY <1>1, VestingInvariance, PTL
=============================================================================
