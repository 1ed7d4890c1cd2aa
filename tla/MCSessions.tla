------------------------------ MODULE MCSessions ------------------------------
(* Instances of Sessions for TLC. *)
EXTENDS Sessions, TLC

\* Replicas, requests and tokens of one kind are interchangeable.
Symmetry == Permutations(Replica) \cup Permutations(Request) \cup Permutations(Token \ Legacy)

=============================================================================
