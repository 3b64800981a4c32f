------------------------------ MODULE MCAccount ------------------------------
(* Instances of Account for TLC.                                           *)
EXTENDS Account, TLC

\* Ann's and Bob's addresses have one id, as their hashes differ by the range of
\* ids; Cid's has another.
CollidingHash == [e \in Email |-> IF e = "ann@x" THEN 1 ELSE IF e = "bob@x" THEN 1 + IdRange ELSE 0]

\* Two addresses with two ids.
DistinctHash == [e \in Email |-> IF e = "ann@x" THEN 0 ELSE 1]

\* What stands before the @.
OwnName == [e \in Email |-> IF e = "ann@x" THEN "ann" ELSE IF e = "bob@x" THEN "bob" ELSE "cid"]

\* Requests, and connections, differ in name only.
Symmetric == Permutations(Request) \cup Permutations(Session)
=============================================================================
