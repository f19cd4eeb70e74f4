---------------------------- MODULE MCSpecialize ----------------------------
EXTENDS Specialize, TLC

CONSTANTS p1, p2, p3

(* Only the zygote is distinguished. *)
Symmetry == Permutations(Procs \ {Zygote})
=============================================================================
