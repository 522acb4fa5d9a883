------------------------------ MODULE MCReplay ------------------------------
(* A small instance of Replay for TLC: a path of the index and the commit, *)
(* one that was taken out of the index, and one git does not know.         *)
EXTENDS Replay

CONSTANTS t, r, u, x, y

IndexAndCommit == [p \in Path |-> IF p = u THEN Absent ELSE x]
ReadingOrder == <<t, r, u>>
=============================================================================
