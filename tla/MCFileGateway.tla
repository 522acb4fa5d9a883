--------------------------- MODULE MCFileGateway ---------------------------
(* Small instances of FileGateway for TLC.                                 *)
EXTENDS FileGateway, TLC

Symmetry == Permutations(Approval) \cup Permutations(Grant) \cup Permutations(Run)
=============================================================================
