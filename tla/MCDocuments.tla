---------------------------- MODULE MCDocuments ----------------------------
(* Instances of Documents for TLC: a game master g and a player p whose      *)
(* character owns the private repository and is on day 0 of the group.       *)
EXTENDS Documents, TLC

CONSTANTS g, p, private, shared

MCReach == [t \in Tabs |-> [r \in Repos |-> IF t = p THEN 0 ELSE NoReach]]

\* p's character is a member of the group and p owns no private repository.
MCGroupReach == [t \in Tabs |-> [r \in Repos |-> IF t = p /\ r # private THEN 0 ELSE NoReach]]

\* Every document was shared directly with p's character.
MCSharedWithP == [t \in Tabs |-> IF t = p THEN DocIds ELSE {}]

\* Nobody was given a document directly.
MCNoShares == [t \in Tabs |-> {}]

Symmetric == Permutations(SecIds)

=============================================================================
