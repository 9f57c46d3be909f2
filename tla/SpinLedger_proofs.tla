-------------------------- MODULE SpinLedger_proofs --------------------------
(***************************************************************************)
(* What the operations of SpinLedger do to the fields of a balance.        *)
(***************************************************************************)
EXTENDS SpinLedger, TLAPS

\* What is taken from the reserve is at most the reserve, and all that was
\* asked for when the reserve covers it.
LEMMA CoveredSpins ==
  ASSUME NEW n \in Nat, NEW r \in Nat
  PROVE  /\ Covered(n, r) \in 0 .. r
         /\ n <= r => Covered(n, r) = n
BY DEF Covered

LEMMA NewBalanceType == \A n \in Nat : NewBalance(n) \in Balance
BY DEF NewBalance, Balance

\* A reserve moves one spin from the free ones to the reserved ones.
LEMMA ReserveEffect ==
  ASSUME NEW b \in Balance, CanReserve(b)
  PROVE  LET r == ReserveSpin(b) IN
         /\ r \in Balance
         /\ r.spins = b.spins - 1
         /\ r.reserved = b.reserved + 1
         /\ r.confirmed = b.confirmed
<1>1. b.spins - 1 \in Nat /\ b.reserved + 1 \in Nat
  BY DEF Balance, CanReserve
<1>2. ReserveSpin(b) = [b EXCEPT !.spins = b.spins - 1, !.reserved = b.reserved + 1]
  BY DEF ReserveSpin
<1> QED BY <1>1, <1>2 DEF Balance

\* n confirms keep the type; when the reserve covers them they charge n.
LEMMA ConfirmEffect ==
  ASSUME NEW b \in Balance, NEW n \in Nat
  PROVE  LET c == ConfirmSpins(b, n) IN
         /\ c \in Balance
         /\ c.spins = b.spins
         /\ n <= b.reserved => /\ c.reserved = b.reserved - n
                               /\ c.confirmed = b.confirmed + n
<1>1. PICK k \in 0 .. b.reserved : k = Covered(n, b.reserved)
                                   /\ (n <= b.reserved => k = n)
  BY CoveredSpins DEF Balance
<1>2. b.reserved - k \in Nat /\ b.confirmed + k \in Nat
  BY <1>1 DEF Balance
<1>3. ConfirmSpins(b, n) =
        [b EXCEPT !.reserved = b.reserved - k, !.confirmed = b.confirmed + k]
  BY <1>1 DEF ConfirmSpins
<1> QED BY <1>1, <1>2, <1>3 DEF Balance

\* m releases keep the type; when the reserve covers them they free m.
LEMMA ReleaseEffect ==
  ASSUME NEW b \in Balance, NEW m \in Nat
  PROVE  LET r == ReleaseSpins(b, m) IN
         /\ r \in Balance
         /\ r.confirmed = b.confirmed
         /\ m <= b.reserved => /\ r.reserved = b.reserved - m
                               /\ r.spins = b.spins + m
<1>1. PICK k \in 0 .. b.reserved : k = Covered(m, b.reserved)
                                   /\ (m <= b.reserved => k = m)
  BY CoveredSpins DEF Balance
<1>2. b.reserved - k \in Nat /\ b.spins + k \in Nat
  BY <1>1 DEF Balance
<1>3. ReleaseSpins(b, m) =
        [b EXCEPT !.reserved = b.reserved - k, !.spins = b.spins + k]
  BY <1>1 DEF ReleaseSpins
<1> QED BY <1>1, <1>2, <1>3 DEF Balance

\* A transaction that closes n + m covered waitings moves n + m spins out of
\* the reserve: n are charged, m are free again.
LEMMA SettleEffect ==
  ASSUME NEW b \in Balance, NEW n \in Nat, NEW m \in Nat
  PROVE  LET a == ReleaseSpins(ConfirmSpins(b, n), m) IN
         /\ a \in Balance
         /\ n + m <= b.reserved => /\ a.reserved = b.reserved - (n + m)
                                   /\ a.confirmed = b.confirmed + n
                                   /\ a.spins = b.spins + m
<1> DEFINE c == ConfirmSpins(b, n)
<1>1. /\ c \in Balance
      /\ c.spins = b.spins
      /\ n <= b.reserved => c.reserved = b.reserved - n /\ c.confirmed = b.confirmed + n
  BY ConfirmEffect
<1> HIDE DEF c
<1>2. LET a == ReleaseSpins(c, m) IN
      /\ a \in Balance
      /\ a.confirmed = c.confirmed
      /\ m <= c.reserved => a.reserved = c.reserved - m /\ a.spins = c.spins + m
  BY <1>1, ReleaseEffect
<1>3. b.reserved \in Nat
  BY DEF Balance
<1> QED BY <1>1, <1>2, <1>3 DEF c
=============================================================================
