---------------------------- MODULE MCUniConfNet ----------------------------
(***************************************************************************)
(* Instances of UniConfNet.  Keys and values are interchangeable.          *)
(***************************************************************************)
EXTENDS UniConfNet, TLC

\* Two overlapping operations of two clients, or longer histories of one.
TwoAtOnce == {[clients |-> Clients, budget |-> 2]} \cup {[clients |-> {c}, budget |-> 3] : c \in Clients}
AllTwice == {[clients |-> Clients, budget |-> 2]}

Symmetry == Permutations(Keys) \cup Permutations(Values)
=============================================================================
