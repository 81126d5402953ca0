--------------------------- MODULE MCStagedIngestion --------------------------
(* Instances of StagedIngestion for TLC.  No definition tells slots apart.    *)
EXTENDS StagedIngestion, TLC

Symmetry == Permutations(Slots)
===============================================================================
