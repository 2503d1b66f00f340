------------------------------- MODULE MCVcr -------------------------------
(***************************************************************************)
(* Values of the constants of Vcr for TLC.                                 *)
(***************************************************************************)
EXTENDS Vcr

AllOps == {"pause", "forward", "rewind", "resume", "setVolume", "playFromStart"}
TrickOps == {"pause", "rewind", "resume"}

Backwards == {-2}
AllowedBackwards == {-2, -3, -4, -8, -16, -32}

=============================================================================
