---------------------------- MODULE MCCredential ----------------------------
(* An instance of Credential for TLC. *)
EXTENDS Credential

CONSTANTS u1
=============================================================================
