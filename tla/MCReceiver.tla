----------------------------- MODULE MCReceiver -----------------------------
(***************************************************************************)
(* Values of the constants of Receiver for TLC: two frequencies of the band, *)
(* one outside it.                                                         *)
(***************************************************************************)
EXTENDS Receiver, TLC

TwoFrequencies == (600 :> {1}) @@ (700 :> {1, 2})
SomeWants == {<<600, 1>>, <<700, 2>>, <<950, 1>>}

=============================================================================
