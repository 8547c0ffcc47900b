------------------------------ MODULE MCSetup ------------------------------
(***************************************************************************)
(* Small instances of Setup for TLC.                                       *)
(***************************************************************************)
EXTENDS Setup
=============================================================================
