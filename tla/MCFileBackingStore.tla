------------------------ MODULE MCFileBackingStore ------------------------
(***************************************************************************)
(* An instance of FileBackingStore for TLC, with values below, at and      *)
(* beyond the limits of the code.                                          *)
(***************************************************************************)
EXTENDS FileBackingStore, TLC

CONSTANTS small, other, oversize, huge

MCSize == [v \in Values |-> CASE v \in {small, other} -> MaxReasonableLength
                              [] v = oversize -> MaxReasonableLength + 1
                              [] v = huge -> DwordLimit]

Symmetry == Permutations(Keys) \cup Permutations({small, other})
=============================================================================
