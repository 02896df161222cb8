----------------------------- MODULE AwardChain -----------------------------
(* What the toggle and its Win NFTs promise about history, with no window,     *)
(* escrow, record account or asset in sight: a chain of awards that only grows *)
(* at its end, each to somebody who does not hold the toggle yet and each at   *)
(* a raise over the last price, and at most one certificate for an award, made *)
(* out to its winner at any later time.                                        *)
EXTENDS Integers

CONSTANTS Keys, Ids   \* who may win, and what tells certificates apart

VARIABLES
  count,        \* awards so far, the founder's included
  awards,       \* the awards, by their ordinals 0 .. count - 1
  price,        \* what the next award or defence has to beat
  certificates  \* the certificates given out

chainVars == <<count, awards, price, certificates>>

Extended(award) == [n \in 0 .. count |-> IF n = count THEN award ELSE awards[n]]

Init ==
  /\ count = 0 /\ awards = [n \in {} |-> 0]
  /\ price = 0
  /\ certificates = {}

\* The founder holds the toggle first and paid nothing for it.
Found(founder) ==
  /\ count = 0
  /\ count' = 1
  /\ awards' = Extended([winner |-> founder, price |-> 0])
  /\ price' \in Nat \ {0}
  /\ UNCHANGED certificates

Raised == price' \in Nat /\ 100 * price' >= 105 * price

Award(winner) ==
  /\ count > 0
  /\ winner # awards[count - 1].winner
  /\ Raised
  /\ count' = count + 1
  /\ awards' = Extended([winner |-> winner, price |-> price'])
  /\ UNCHANGED certificates

\* The holder outbids himself: the price rises and nothing is awarded.
Defend ==
  /\ count > 0
  /\ Raised
  /\ UNCHANGED <<count, awards, certificates>>

Certify(n, id) ==
  LET certificate == [id |-> id, nth |-> n, owner |-> awards[n].winner,
                      price |-> awards[n].price]
  IN
  /\ \A c \in certificates : c.nth # n /\ c.id # id
  /\ certificates' = certificates \cup {certificate}
  /\ UNCHANGED <<count, awards, price>>

Next ==
  \/ \E k \in Keys : Found(k) \/ Award(k)
  \/ Defend
  \/ \E n \in 0 .. (count - 1), i \in Ids : Certify(n, i)

Spec == Init /\ [][Next]_chainVars
=============================================================================
