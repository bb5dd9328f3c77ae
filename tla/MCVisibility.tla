---------------------------- MODULE MCVisibility ----------------------------
(* An instance of Visibility for TLC: a GM, ann with two characters, bob with *)
(* one; a group, its repository, ann's own and the general one.              *)
EXTENDS Visibility

CONSTANTS gm, ann, bob, ayla, arin, bree, party, general, partys, aylas, d1, cave

MCOwner  == [c \in Characters |-> IF c = bree THEN bob ELSE ann]
MCOwning == [r \in Repos |-> IF r = general THEN Campaign ELSE IF r = partys THEN party ELSE ayla]

Started(days, joined, row, shared, granted, n) ==
    [day |-> days, members |-> [g \in Groups |-> joined], docs |-> [d \in DocIds |-> row],
     shares |-> shared, grants |-> granted, places |-> [l \in Locations |-> n]]

MCMatches == {{"visible"}, {"gmOnly"}}

\* Ann's two characters a day apart, the one ahead outside the group.
Apart == [c \in Characters |-> IF c = arin THEN 1 ELSE 0]
Equal == [c \in Characters |-> 0]

MCStarts ==
    {Started(Apart, {ayla, bree}, [repo |-> partys, day |-> 1, text |-> {"visible"}], {},
             {[place |-> cave, to |-> party]}, 1),
     Started(Equal, {bree}, [repo |-> aylas, day |-> 0, text |-> {"visible"}],
             {[doc |-> d1, to |-> bree, day |-> 1]}, {}, 0),
     Started(Apart, {}, NoDoc, {}, {[place |-> cave, to |-> arin]}, 0)}

=============================================================================
