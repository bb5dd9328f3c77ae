------------------------------- MODULE Ledger -------------------------------
(***************************************************************************)
(* What the inventories promise: how many units of each thing every        *)
(* character, group and location holds, and that the only operation that   *)
(* touches two of them takes from one exactly what it gives to the other.  *)
(***************************************************************************)
EXTENDS Integers

CONSTANTS Owners, Names, MaxQuantity

VARIABLE held   \* held[o][n]: the units of n in the inventory of o

Init == held = [o \in Owners |-> [n \in Names |-> 0]]

Deposit(o, n, q) == held' = [held EXCEPT ![o][n] = @ + q]

Withdraw(o, n, q) ==
    /\ q <= held[o][n]
    /\ held' = [held EXCEPT ![o][n] = @ - q]

\* A line is renamed or recounted in place.
Recount(o, n, q, m, r) ==
    /\ q <= held[o][n]
    /\ held' = [held EXCEPT ![o] = [x \in Names |->
                    held[o][x] - (IF x = n THEN q ELSE 0) + (IF x = m THEN r ELSE 0)]]

Transfer(a, b, n, q) ==
    /\ a # b
    /\ q <= held[a][n]
    /\ held' = [held EXCEPT ![a][n] = @ - q, ![b][n] = @ + q]

Next ==
    \E o \in Owners, n \in Names, q \in 1 .. MaxQuantity :
        \/ Deposit(o, n, q)
        \/ Withdraw(o, n, q)
        \/ \E m \in Names, r \in 1 .. MaxQuantity : Recount(o, n, q, m, r)
        \/ \E b \in Owners : Transfer(o, b, n, q)

Spec == Init /\ [][Next]_held

=============================================================================
