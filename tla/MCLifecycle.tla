---------------------------- MODULE MCLifecycle ----------------------------
(* Values of the constants of Lifecycle. *)
EXTENDS Lifecycle

\* Unset to out of range: 0 and 31 s fall back to 5 s, 1.9 s counts as 1 s.
MCDrainSettings == {0, 1900, 31000}
=============================================================================
