----------------------------- MODULE MCThrottle -----------------------------
(* Instances of Throttle for TLC. *)
EXTENDS Throttle, TLC

Symmetric == Permutations(Keys)

=============================================================================
