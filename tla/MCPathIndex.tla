---------------------------- MODULE MCPathIndex ------------------------------
(* Instances of PathIndex for TLC. *)
EXTENDS PathIndex

\* Neither name begins the other.
MCNames == {<<1>>, <<2>>}

\* Slider and Slider2: one name is the beginning of the other.
MCNestedNames == {<<1>>, <<1, 2>>}

\* The instances that are no root and no control are interchangeable.
InstSymmetry == Permutations(Insts \ ({Root} \cup Controls))
==============================================================================
