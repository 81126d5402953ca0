--------------------------- MODULE MCPdfControlPlane --------------------------
(* Instances of PdfControlPlane for TLC.                                     *)
EXTENDS PdfControlPlane, TLC

Symmetry == Permutations(Pages) \cup Permutations(Handlers)
===============================================================================
