---------------------------- MODULE SpinContract ----------------------------
(***************************************************************************)
(* What the product promises a user about the generations (spins) on the   *)
(* balance, one selection at a time and whatever goes wrong in between:    *)
(* a spin is held when the selection is ordered, and then either charged   *)
(* or returned, once.  A selection that is ready is bought in one step.    *)
(* Nothing else takes or gives a spin, and nothing is ordered on credit.   *)
(***************************************************************************)
EXTENDS Naturals, FiniteSets

CONSTANTS Users, Selections

VARIABLES free,     \* free[u]: spins u can order with
          promise   \* promise[u][s]: what happened to u's spin for s

Promise == {"none", "held", "charged", "returned"}

Init ==
  /\ free \in [Users -> Nat]
  /\ promise = [u \in Users |-> [s \in Selections |-> "none"]]

\* u orders s: one spin leaves the free ones and is held, or charged at once.
Order(u, s) ==
  /\ promise[u][s] = "none"
  /\ free[u] >= 1
  /\ free' = [free EXCEPT ![u] = @ - 1]
  /\ \E p \in {"held", "charged"} : promise' = [promise EXCEPT ![u][s] = p]

Returned(u) ==
  {s \in Selections : promise[u][s] = "held" /\ promise'[u][s] = "returned"}

\* Some held spins are settled together; the returned ones are free again.
Settle ==
  /\ promise' \in [Users -> [Selections -> Promise]]
  /\ \A u \in Users : \A s \in Selections :
       promise'[u][s] # promise[u][s] =>
         promise[u][s] = "held" /\ promise'[u][s] \in {"charged", "returned"}
  /\ free' = [u \in Users |-> free[u] + Cardinality(Returned(u))]

Next == Settle \/ \E u \in Users, s \in Selections : Order(u, s)

Spec == Init /\ [][Next]_<<free, promise>>
=============================================================================
