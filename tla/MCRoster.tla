------------------------------- MODULE MCRoster -------------------------------
(* Instances of Roster for TLC.                                            *)
EXTENDS Roster, TLC

CONSTANTS ann, bob, c1, c2, c3

\* Two connections of one player, one of another.
TwoAndOne == [c \in Conn |-> IF c = c3 THEN bob ELSE ann]

\* The two connections of one player differ in name only.
TwinSymmetry == Permutations({c1, c2}) \cup Permutations(Hero)
=============================================================================
