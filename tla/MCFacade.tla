------------------------------ MODULE MCFacade ------------------------------
(***************************************************************************)
(* Values of the constants of Facade for TLC.                              *)
(***************************************************************************)
EXTENDS Facade

=============================================================================
