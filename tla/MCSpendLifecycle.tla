-------------------------- MODULE MCSpendLifecycle --------------------------
(* SpendLifecycle on small instances. *)
EXTENDS SpendLifecycle

=============================================================================
