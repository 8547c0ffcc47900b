----------------------------- MODULE MCSteward -----------------------------
(***************************************************************************)
(* A small instance of Steward for TLC, cut out of the catalog: the       *)
(* policy of a service that is granted nothing, then every kind of object  *)
(* of the service after it.                                                *)
(***************************************************************************)
EXTENDS Steward

TwoServices == <<"secret", "runtime">>
=============================================================================
