---------------------------- MODULE MCFirewallSync ----------------------------
(* Instances of FirewallSync for TLC. *)
EXTENDS FirewallSync, TLC

\* Instances, groups and requests are interchangeable.
Symmetry == Permutations(Instance) \cup Permutations(Group) \cup Permutations(Request)

=============================================================================
