------------------------------ MODULE MCServer ------------------------------
(* An instance of Server for TLC: two processes, one client and two emails.  *)
EXTENDS Server, TLC

CONSTANTS p1, p2, c1, ann, bob, k1, k2

=============================================================================
