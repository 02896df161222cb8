------------------------------- MODULE Vesting -------------------------------
(* The team's token lock: the TeamVesting account, the token account (ATA) it  *)
(* owns, and the two instructions that change them, init_team_vesting and      *)
(* claim_vested.  They share nothing with the auction but the admin recorded   *)
(* in GlobalState, which no instruction ever changes.                          *)
EXTENDS TogglePure

CONSTANTS
  Signers, Admin,       \* keys that sign; GlobalState's admin
  Mints, NoMint,        \* token mints; the mint of a lock not made yet
  Holdings,             \* what the admin's own ATA of each mint holds at first
  TotalAmounts, StartTimes, Durations,  \* arguments init_team_vesting may be given
  Instants, MaxSkew     \* clock readings, and how far a reading may step back

ASSUME VestingAssumption ==
  /\ Admin \in Signers /\ NoMint \notin Mints
  /\ Holdings \in [Mints -> Nat]
  /\ TotalAmounts \subseteq Nat /\ Instants \subseteq Nat /\ MaxSkew \in Nat
  /\ StartTimes \subseteq Int /\ Durations \subseteq Int
  /\ \A s \in StartTimes : FitsI64(s)
  /\ \A t \in Instants : t < MAX_I64

\* TeamVesting's guard rails, in seconds: an hour, 30 days, 10 years.
MAX_START_BACKDATE_SECS == 3600
MIN_DURATION_SECS == 30 * 24 * 3600
MAX_DURATION_SECS == 10 * 365 * 24 * 3600

VARIABLES
  mint, total_amount, start_ts, duration_secs, claimed_amount,
                       \* the TeamVesting account; mint is NoMint until it exists
  team_vesting_ata,    \* tokens in the ATA the lock owns
  admin_toggld_ata,    \* tokens in the admin's own ATA of each mint
  opened_atas,         \* mints whose ATA of the lock exists before the lock
  now                  \* the Clock sysvar

scheduleVars == <<mint, total_amount, start_ts, duration_secs>>
vars == <<scheduleVars, claimed_amount, team_vesting_ata, admin_toggld_ata, opened_atas, now>>

Locked == mint # NoMint

-----------------------------------------------------------------------------
\* Fault: any start is accepted.
AnyStart(start) == TRUE

\* The release starts an hour ago at the earliest and runs 30 days to 10 years.
StartAllowed(start) == start >= now - MAX_START_BACKDATE_SECS
DurationAllowed(secs) == MIN_DURATION_SECS <= secs /\ secs <= MAX_DURATION_SECS

\* Anchor's init refuses an ATA that exists.
InitTeamVesting(signer, token, total, start, secs) ==
  /\ signer = Admin
  /\ ~Locked
  /\ total > 0
  /\ StartAllowed(start)
  /\ DurationAllowed(secs)
  /\ token \notin opened_atas
  /\ admin_toggld_ata[token] >= total
  /\ admin_toggld_ata' = [admin_toggld_ata EXCEPT ![token] = @ - total]
  /\ team_vesting_ata' = total
  /\ mint' = token
  /\ total_amount' = total
  /\ start_ts' = start
  /\ duration_secs' = secs
  /\ claimed_amount' = 0
  /\ UNCHANGED <<opened_atas, now>>

\* Faults: the unlocked amount is paid whatever was claimed before; what was
\* claimed is overwritten by the latest payment; the release is timed from the
\* epoch.
PayableForgettingClaims ==
  compute_vested_unlocked(total_amount, start_ts, duration_secs, now)
ClaimedLast(amount) == amount
PayableSinceEpoch ==
  compute_vested_unlocked(total_amount, 0, duration_secs, now) - claimed_amount

\* What has unlocked and was not claimed yet.
Payable ==
  compute_vested_unlocked(total_amount, start_ts, duration_secs, now) - claimed_amount

ClaimedTotal(amount) == claimed_amount + amount

ClaimVested(signer, token) ==
  /\ Locked
  /\ signer = Admin
  /\ token = mint
  /\ now >= start_ts
  /\ Payable > 0
  /\ team_vesting_ata >= Payable
  /\ FitsU64(ClaimedTotal(Payable))
  /\ team_vesting_ata' = team_vesting_ata - Payable
  /\ admin_toggld_ata' = [admin_toggld_ata EXCEPT ![token] = @ + Payable]
  /\ claimed_amount' = ClaimedTotal(Payable)
  /\ UNCHANGED <<scheduleVars, opened_atas, now>>

Tick(t) ==
  /\ t # now
  /\ t + MaxSkew >= now
  /\ now' = t
  /\ UNCHANGED <<scheduleVars, claimed_amount, team_vesting_ata, admin_toggld_ata, opened_atas>>

\* Anyone may open the lock's ATA of a mint, whose address is known before the
\* lock exists.
OpenAta(token) ==
  /\ ~Locked
  /\ token \notin opened_atas
  /\ opened_atas' = opened_atas \cup {token}
  /\ UNCHANGED <<scheduleVars, claimed_amount, team_vesting_ata, admin_toggld_ata, now>>

-----------------------------------------------------------------------------
Init ==
  /\ mint = NoMint
  /\ total_amount = 0 /\ start_ts = 0 /\ duration_secs = 0 /\ claimed_amount = 0
  /\ team_vesting_ata = 0
  /\ admin_toggld_ata = Holdings
  /\ opened_atas = {}
  /\ now \in Instants

Next ==
  \/ \E s \in Signers, m \in Mints, a \in TotalAmounts, t \in StartTimes, d \in Durations :
       InitTeamVesting(s, m, a, t, d)
  \/ \E s \in Signers, m \in Mints : ClaimVested(s, m)
  \/ \E t \in Instants : Tick(t)
  \/ \E m \in Mints : OpenAta(m)

Spec == Init /\ [][Next]_vars

\* The admin keeps claiming.
Fairness == WF_vars(ClaimVested(Admin, mint))

FairSpec == Spec /\ Fairness

-----------------------------------------------------------------------------
\* Every field has its type, and a lock has a positive total and an allowed
\* duration.
TypeOK ==
  /\ mint \in Mints \cup {NoMint}
  /\ total_amount \in Nat /\ start_ts \in Int /\ duration_secs \in Int
  /\ claimed_amount \in Nat /\ team_vesting_ata \in Nat
  /\ admin_toggld_ata \in [Mints -> Nat]
  /\ opened_atas \subseteq Mints
  /\ now \in Instants
  /\ Locked => /\ total_amount > 0
               /\ duration_secs \in MIN_DURATION_SECS .. MAX_DURATION_SECS

\* The lock's token account always holds exactly what is still to be claimed,
\* and the admin's account the rest, over any sequence of partial claims: no
\* payment is made twice, and rounding leaves nothing behind.
LockIsFunded ==
  /\ Locked => /\ claimed_amount <= total_amount
               /\ team_vesting_ata = total_amount - claimed_amount
               /\ admin_toggld_ata[mint] = Holdings[mint] - team_vesting_ata
  /\ ~Locked => team_vesting_ata = 0 /\ admin_toggld_ata = Holdings

\* Whatever the arguments, of a new lock at most an hour's worth of the shortest
\* release is unlocked at once ("not far enough to make a meaningful slice unlock
\* instantly", state.rs, MAX_START_BACKDATE_SECS).
NothingUnlocksAtOnce ==
  [][~Locked /\ Locked' =>
       compute_vested_unlocked(total_amount, start_ts, duration_secs, now)' * MIN_DURATION_SECS
         <= total_amount' * MAX_START_BACKDATE_SECS]_vars

\* A claim never brings the total ahead of the straight line from start_ts to
\* the end, and before the end it never empties the lock, even when the clock
\* stepped back between two claims.
ClaimsFollowSchedule ==
  [][claimed_amount' # claimed_amount =>
       /\ claimed_amount' > claimed_amount
       /\ now < start_ts + duration_secs =>
            claimed_amount' * duration_secs <= total_amount * (now - start_ts)]_vars

\* Once the clock has passed the end of the release for good, the lock is
\* emptied: no unit is stranded by the rounding of the claims made on the way.
EverythingVests ==
  <>[](Locked => now >= start_ts + duration_secs) =>
    (Locked ~> Locked /\ claimed_amount = total_amount)
=============================================================================
