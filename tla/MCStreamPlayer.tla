--------------------------- MODULE MCStreamPlayer ---------------------------
(***************************************************************************)
(* Values of the constants of StreamPlayer for TLC.                        *)
(***************************************************************************)
EXTENDS StreamPlayer

AllOps == StartOps \union StopOps \union {"setVolume", "vcr"}
AllEnv == {"json", "connect", "redirect", "setup", "setupReply", "ssBegin",
           "msConnect", "msBegin", "play", "tune", "search", "dvbplay", "resume",
           "tplay", "heartbeat", "announce"}

\* A page that plays one medium after the other.
PageOps == {"joinChannel", "setSingleMedia", "setVolume", "vcr", "stop", "destroy"}
PageEnv == AllEnv \ {"json", "setupReply", "msBegin"}
TvOps   == {"joinChannel", "setVolume", "leaveChannel"}
TvEnv   == PageEnv \ {"redirect"}

=============================================================================
