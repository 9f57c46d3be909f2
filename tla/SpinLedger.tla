----------------------------- MODULE SpinLedger -----------------------------
(***************************************************************************)
(* The balance of one user: UserBalance.spins and reserved_spins, and the  *)
(* number of CONFIRM rows the user has in balance_operations (apps/balance)*)
(* Every operation below is one SELECT ... FOR UPDATE of the row, a test,  *)
(* an update and one ledger row, in the transaction of its caller, so it   *)
(* is a function from the balance before to the balance after.             *)
(* count is 1 in every call the code makes.                                *)
(***************************************************************************)
EXTENDS Naturals

Balance == [spins : Nat, reserved : Nat, confirmed : Nat]

\* A user who was given n generations and has used none.
NewBalance(n) == [spins |-> n, reserved |-> 0, confirmed |-> 0]

\* Mutant of CanReserve: a generation on credit.
CanReserveOnCredit(b) == b.spins >= 0

CanReserve(b) == b.spins >= 1

\* Mutant of ReserveSpin: the spin is taken and not held.
ReserveSpinUnheld(b) == [b EXCEPT !.spins = @ - 1]

\* reserve_spins_no_commit past its test (its caller returns when it fails).
ReserveSpin(b) == [b EXCEPT !.spins = @ - 1, !.reserved = @ + 1]

\* n calls in a row of an operation that each take one reserved spin, or do
\* nothing and return False when none is left.
Covered(n, reserved) == IF n <= reserved THEN n ELSE reserved

\* n confirm_spins and then m release_spins on one balance.
ConfirmSpins(b, n) ==
  LET k == Covered(n, b.reserved)
  IN  [b EXCEPT !.reserved = @ - k, !.confirmed = @ + k]

\* Mutant of ReleaseSpins: the spins come back and stay reserved as well.
ReleaseSpinsKept(b, m) == [b EXCEPT !.spins = @ + Covered(m, b.reserved)]

ReleaseSpins(b, m) ==
  LET k == Covered(m, b.reserved)
  IN  [b EXCEPT !.reserved = @ - k, !.spins = @ + k]
=============================================================================
