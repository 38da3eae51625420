-------------------------- MODULE MCIdentityFile --------------------------
(* Three processes of one user; one power loss.                              *)
EXTENDS IdentityFile
=============================================================================
