------------------------------- MODULE MCFlow -------------------------------
(* The instances of Flow that TLC checks. *)
EXTENDS Flow, TLC

CONSTANTS p1, c1, c2, c3, s1, s2

MCParentOf == [c \in Children |-> p1]

SlotSymmetry == Permutations({s1, s2})

=============================================================================
