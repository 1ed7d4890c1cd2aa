--------------------------- MODULE MCOperationFence ---------------------------
(* Instances of OperationFence for TLC. *)
EXTENDS OperationFence, TLC

\* Requests, tokens and ids are interchangeable.
Symmetry == Permutations(Request) \cup Permutations(Token) \cup Permutations(Ref)

=============================================================================
