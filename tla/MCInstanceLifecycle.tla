-------------------------- MODULE MCInstanceLifecycle --------------------------
(* Instances of InstanceLifecycle for TLC: all bounds are in the .cfg files. *)
EXTENDS InstanceLifecycle

=============================================================================
