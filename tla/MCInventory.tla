---------------------------- MODULE MCInventory ----------------------------
(* Instances of Inventory for TLC: two players in one group, a location only *)
(* the first can see, and their characters' private inventories.             *)
EXTENDS Inventory, TLC

CONSTANTS ann, bob, annsBag, bobsBag, party, cave

MCAccess ==
    [u \in Users |-> Owners \cap
        (IF u = ann THEN {annsBag, party, cave} ELSE IF u = bob THEN {bobsBag, party} ELSE {})]

Symmetric == Permutations(LineIds)

=============================================================================
