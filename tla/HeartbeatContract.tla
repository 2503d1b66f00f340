-------------------------- MODULE HeartbeatContract --------------------------
(***************************************************************************)
(* What a keep-alive thread promises the player thread that watches it: the *)
(* flag if_keep_alive_error belongs to the thread that runs.  The thread    *)
(* lowers it once, when it first runs, and raises it once, when it gives the *)
(* connection up; from then on the flag stays up, so a poll of it however    *)
(* late still sees the loss.  Between the creation of a thread and its first *)
(* step the flag is what the thread before it left.                          *)
(***************************************************************************)

VARIABLES
  thread,  \* none; starting: created, not yet run; run; dead: it has given up
  flag,    \* if_keep_alive_error
  gone     \* the process has died, and its memory with it

Init == thread \in {"none", "starting"} /\ flag \in BOOLEAN /\ ~gone

Alive == ~gone /\ ~gone'

Begin == thread = "none" /\ thread' = "starting" /\ UNCHANGED flag
Start == thread = "starting" /\ thread' = "run" /\ ~flag'
Fail  == thread = "run" /\ thread' = "dead" /\ flag'
End   == thread # "none" /\ thread' = "none" /\ UNCHANGED flag
Death == ~gone /\ gone'

Next == (Alive /\ (Begin \/ Start \/ Fail \/ End)) \/ Death

Spec == Init /\ [][Next]_<<thread, flag, gone>>

=============================================================================
