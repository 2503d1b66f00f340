---------------------------- MODULE MCKeepAlive ----------------------------
(***************************************************************************)
(* Values of the constants of KeepAlive for TLC.                           *)
(***************************************************************************)
EXTENDS KeepAlive

OneScript == {<<"pause">>}

=============================================================================
