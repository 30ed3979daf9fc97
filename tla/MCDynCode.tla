------------------------------ MODULE MCDynCode ------------------------------
(* Instances of DynCode for model checking. *)
EXTENDS DynCode, TLC

\* Every thread but the main one starts absent and they are interchangeable;
\* so are the regions.
Symmetry == Permutations(Thread \ {MainThread}) \cup Permutations(Region)
=============================================================================
