-------------------------------- MODULE MCVPC --------------------------------
(* Instances of VPC for TLC. *)
EXTENDS VPC, TLC

\* Rows, instances and administrators are interchangeable.
Symmetry == Permutations(Row) \cup Permutations(Instance) \cup Permutations(Admin)

=============================================================================
