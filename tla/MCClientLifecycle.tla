-------------------------- MODULE MCClientLifecycle --------------------------
(* Small instances of ClientLifecycle for TLC. *)
EXTENDS ClientLifecycle
==============================================================================
