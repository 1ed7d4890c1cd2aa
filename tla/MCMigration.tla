------------------------------ MODULE MCMigration ------------------------------
(* Instances of Migration for TLC. *)
EXTENDS Migration, TLC

\* Nodes and tokens are interchangeable.
Symmetry == Permutations(Agent) \cup Permutations(Token)

=============================================================================
