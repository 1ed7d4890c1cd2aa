---------------------------- MODULE MCAddressPool ----------------------------
(* Instances of AddressPool for TLC. *)
EXTENDS AddressPool, TLC

\* Instances and addresses are interchangeable; entry ids are ordered.
Symmetry == Permutations(Instance) \cup Permutations(Address)

=============================================================================
