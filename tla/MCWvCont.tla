------------------------------ MODULE MCWvCont ------------------------------
(***************************************************************************)
(* Instances of WvCont.  Conts with the same stack size, tasks and values  *)
(* are interchangeable.                                                    *)
(***************************************************************************)
EXTENDS WvCont, TLC

Symmetry ==
    Permutations(Small) \cup Permutations(Conts \ Small)
        \cup Permutations(Tasks) \cup Permutations(Values)
=============================================================================
