------------------------------- MODULE Escrow -------------------------------
(***************************************************************************)
(* What those who stake may rely on, of one pool and of one wager alike:   *)
(* every stake is a claim on the escrow; the escrow is settled once,       *)
(* either by returning the stakes or by an award of exactly what is held;  *)
(* then each claim is paid once, and nothing else ever leaves.             *)
(***************************************************************************)
EXTENDS Integers, Functions

VARIABLES
  phase,   \* "funding", then for ever "returning" or "awarded"
  due,     \* due[k]: what claim k is worth, for the claims not paid yet
  held     \* what is held for them

vars == <<phase, due, held>>

Init ==
  /\ phase = "funding"
  /\ DOMAIN due = {}
  /\ held = 0

\* Somebody stakes: one more claim, worth what he put in.
Deposit ==
  /\ phase = "funding" /\ phase' = "funding"
  /\ \E k \in DOMAIN due' \ DOMAIN due :
       /\ DOMAIN due' = DOMAIN due \cup {k}
       /\ \A j \in DOMAIN due : due'[j] = due[j]
       /\ held' = held + due'[k]

\* The claims in S are paid in full, the others keep their worth.
PayOut(S) ==
  /\ due' = [k \in DOMAIN due \ S |-> due[k]]
  /\ held' = held - SumFunction([k \in S |-> due[k]])

\* The stakes go back: to S in the same transaction, to the others on demand.
Return(S) == phase = "funding" /\ phase' = "returning" /\ PayOut(S)

\* What is held is divided anew, to the last unit.
Award ==
  /\ phase = "funding" /\ phase' = "awarded"
  /\ SumFunction(due') = held
  /\ held' = held

Pay(S) == phase # "funding" /\ phase' = phase /\ PayOut(S)

Next ==
  \/ Deposit
  \/ Award
  \/ \E S \in SUBSET DOMAIN due : Return(S) \/ Pay(S)

Spec == Init /\ [][Next]_vars

=============================================================================
