------------------------------ MODULE MCCoins ------------------------------
(* An instance of Coins for TLC: two currencies can be in the file, a third  *)
(* is created by the GM; one file has an invalid row, one seeds other ratios.*)
EXTENDS Coins, TLC

CONSTANTS gm, ann, hero, party, rope

MCAccess == [u \in Users |-> IF u = ann THEN Groups ELSE {}]

Coin(c, v) == [key |-> c, value |-> v]
MCFiles == {<<Coin(1, 1), Coin(2, 4), Coin(rope, 1)>>,
            <<Coin(2, 3), Coin(1, 0)>>,
            <<Coin(2, 2)>>}

Some(c, a) == [code |-> c, amount |-> a]
MCPurses == {<<Some(1, 7)>>, <<Some(1, 3), Some(2, 2)>>, <<Some(2, 9)>>}

Symmetric == Permutations(Ids)

=============================================================================
