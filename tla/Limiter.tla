------------------------------- MODULE Limiter -------------------------------
(***************************************************************************)
(* What the attempt limiter promises, key by key: bad attempts add up, from *)
(* some number on each one locks the key for a while, a good attempt or a   *)
(* long quiet spell forgets them.                                           *)
(***************************************************************************)
EXTENDS Integers

CONSTANTS
    Keys,
    MaxFailures,    \* the number of bad attempts that locks a key
    FailureCap,     \* attempts beyond this number are not told apart
    Lockout,        \* Lockout[n]: how long the n-th bad attempt locks a key
    Retention       \* how long a quiet key is remembered

VARIABLES
    count,  \* count[k]: the bad attempts remembered of k
    lock,   \* lock[k]: how long k stays locked
    quiet   \* quiet[k]: how long ago the last of them was

vars == <<count, lock, quiet>>

Nothing == [k \in Keys |-> 0]

Init == count = Nothing /\ lock = Nothing /\ quiet = Nothing

Fail(k) ==
    LET n == IF count[k] < FailureCap THEN count[k] + 1 ELSE FailureCap IN
    /\ count' = [count EXCEPT ![k] = n]
    /\ lock' = [lock EXCEPT ![k] = IF n >= MaxFailures THEN Lockout[n] ELSE 0]
    /\ quiet' = [quiet EXCEPT ![k] = 0]

Forgive(k) ==
    /\ count' = [count EXCEPT ![k] = 0]
    /\ lock' = [lock EXCEPT ![k] = 0]
    /\ quiet' = [quiet EXCEPT ![k] = 0]

Tick ==
    /\ count' = [k \in Keys |-> IF quiet[k] < Retention THEN count[k] ELSE 0]
    /\ lock' = [k \in Keys |-> IF lock[k] > 0 THEN lock[k] - 1 ELSE 0]
    /\ quiet' = [k \in Keys |->
                    IF count[k] > 0 /\ quiet[k] < Retention THEN quiet[k] + 1 ELSE 0]

ForgetAll == count' = Nothing /\ lock' = Nothing /\ quiet' = Nothing

Next == Tick \/ ForgetAll \/ \E k \in Keys : Fail(k) \/ Forgive(k)

Spec == Init /\ [][Next]_vars

=============================================================================
