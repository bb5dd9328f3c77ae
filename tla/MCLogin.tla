------------------------------ MODULE MCLogin ------------------------------
(* Instances of Login for TLC: two clients behind one address. *)
EXTENDS Login

CONSTANTS address, account, target

MCKeys == {address, account, target}

=============================================================================
