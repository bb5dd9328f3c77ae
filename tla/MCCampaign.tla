----------------------------- MODULE MCCampaign -----------------------------
(* An instance of Campaign for TLC: a GM with two tabs and a player whose two *)
(* characters are interchangeable.                                           *)
EXTENDS Campaign, TLC

CONSTANTS gm1, gm2, ann, ayla, arin, party, i1, i2, n1, blank, ink

MCOwners == [c \in Characters |-> {ann}]

Symmetric == Permutations(Characters) \cup Permutations(RowIds) \cup Permutations({gm1, gm2})
                 \cup Permutations(Texts)

=============================================================================
