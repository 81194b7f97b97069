-------------------------- MODULE MCClientProvider --------------------------
(* Small instances of ClientProvider for TLC. *)
EXTENDS ClientProvider
=============================================================================
