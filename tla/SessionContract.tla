--------------------------- MODULE SessionContract ---------------------------
(***************************************************************************)
(* What a player promises the session manager: one session at a time, a    *)
(* heartbeat only while there is a session to keep alive, and a TEARDOWN    *)
(* only after the heartbeat that would report on that session has stopped. *)
(***************************************************************************)

VARIABLES
  open,      \* the server holds a session for this player
  beating    \* a heartbeat thread is reporting on it

Init == ~open /\ ~beating

SetUp     == ~open /\ ~beating /\ open' /\ UNCHANGED beating
BeatStart == open /\ ~beating /\ beating' /\ UNCHANGED open
BeatStop  == beating /\ ~beating' /\ UNCHANGED open
TearDown  == open /\ ~beating /\ ~open' /\ UNCHANGED beating

Next == SetUp \/ BeatStart \/ BeatStop \/ TearDown

Spec == Init /\ [][Next]_<<open, beating>>

=============================================================================
