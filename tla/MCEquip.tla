-------------------------------- MODULE MCEquip --------------------------------
(* Instances of Equip for TLC.                                             *)
EXTENDS Equip, TLC

CONSTANTS ann, bob, c1, c2, cube, dust

\* A connection each.
OneEach == (c1 :> ann @@ c2 :> bob)

\* Numbers of pieces a request may lead to or name: one that is not positive too.
Numbers == {-1, 1, 2}

\* Ann's account was the first, and has a piece from the start.
AnnStarts == << <<ann, cube>> >>
=============================================================================
