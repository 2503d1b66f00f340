-------------------------------- MODULE Vcr --------------------------------
(***************************************************************************)
(* The trick modes of a unicast medium (VOD, TVOD, TVS) while it plays: the *)
(* page calls pause, fastForward, fastRewind, resume, the volume and        *)
(* playFromStart; the player thread takes their messages from the queue,    *)
(* sends the streaming server its requests and sets decoder and sound.      *)
(*                                                                         *)
(* The page waits for trick_ok_flag, but not for ever: it may give up while *)
(* the thread still works on the command, and call again.  Page and thread  *)
(* share the flags, the speed and the state with no lock, so the reads and  *)
(* writes that can meet are steps of their own.                             *)
(***************************************************************************)
EXTENDS Integers, Sequences

CONSTANTS
  Ops,        \* the operations the page uses
  ForwardSpeeds, RewindSpeeds,  \* the speeds it asks for
  Volumes,    \* the volumes it sets
  MaxVolume,  \* MAX_VOLUME_SIZE
  SetupTypes, \* the kinds of medium: "VOD" or "TVS"
  Notices,    \* the notices the streaming server may send
  QueueCap,   \* messages the queue holds before msgsnd fails
  MaxCalls,   \* bound: operations called
  MaxFaults   \* bound: requests refused or unanswered, decoder failures, notices, lost heartbeats

ASSUME VcrAssumption ==
  /\ MaxVolume \in Nat /\ QueueCap \in Nat /\ MaxCalls \in Nat /\ MaxFaults \in Nat
  /\ ForwardSpeeds \subseteq Int /\ RewindSpeeds \subseteq Int /\ Volumes \subseteq Nat
  /\ Notices \subseteq {"play", "quit"} /\ SetupTypes \subseteq {"VOD", "TVS"}

Speeds  == ForwardSpeeds \union RewindSpeeds
VcrCmds == {"PAUSE", "PLAY", "FASTFORWARD", "FASTBACKWARD"}
Cmds    == VcrCmds \union {"VOLUMECHANGE", "SEEK"}
States  == {"PREINIT", "PLAYING", "PAUSED", "FASTFORWARD", "FASTBACKWARD"}
Trick   == {"FASTFORWARD", "FASTBACKWARD"}

VARIABLES
  cpc, last,       \* where the page's thread is; the trick operation it called last
  queue, ack,      \* the message queue; trick_ok_flag
  pauseInto, backInto,     \* pause_into_tvs, backward_into_tvs
  playspeed, volume,       \* playspeed; real_volume and volumesize
  playerstate, mspeed,     \* what getPlaybackMode reads
  tpc, cmd, reqs, attempt, \* player thread: place, command in hand, requests to send, which try
  server,          \* what the streaming server was told to play, and the scale it was sent
  sound, decode,   \* volume of the sound output, decode mode of the decoder
  status, lost,    \* player_status of the client; a heartbeat has failed
  tvs,             \* setup_type = SETUP_TVS
  calls, faults,   \* counters of the bounds
  known, replaced, \* history: playerstate comes from a trick command; a flag replaced a command
  dropped          \* history: a message found the queue full

pageVars   == <<cpc, last, volume, calls>>
queueVars  == <<queue, dropped>>
flagVars   == <<pauseInto, backInto>>
modeVars   == <<playerstate, mspeed, known>>
threadVars == <<tpc, cmd, reqs, attempt>>
outVars    == <<sound, decode>>
envVars    == <<status, lost>>
vars == <<pageVars, queueVars, ack, flagVars, playspeed, modeVars, threadVars, server, outVars,
          envVars, tvs, faults, replaced>>

\* Scale:%f prints a minus sign before a speed below 0, and rtsp_backward puts one
\* in front of whatever is printed.
Scale(play, speed) ==
  [minus |-> (IF speed < 0 THEN 1 ELSE 0) + (IF play = "backward" THEN 1 ELSE 0),
   size  |-> IF speed < 0 THEN -speed ELSE speed]

Sent(play, speed) == [play |-> play, scale |-> Scale(play, speed)]
Normal == Sent("normal", 1)

\* The medium has just begun to play.  playerstate and the two marks are never
\* initialised (only playFromStart and the description of a film write them), so
\* they are what the heap held, or what a pause during the set-up left.
Init ==
  /\ cpc = "idle" /\ last = "none" /\ calls = 0 /\ faults = 0
  /\ queue = <<>> /\ dropped = FALSE /\ ack = FALSE /\ backInto \in BOOLEAN
  /\ playspeed = 1 /\ volume \in {v \in Volumes : v <= MaxVolume} /\ sound \in {0, volume}
  /\ playerstate \in States /\ mspeed = 1 /\ known = FALSE /\ replaced = FALSE
  /\ tpc = "poll" /\ cmd = "NONE" /\ reqs = <<>> /\ attempt = 1
  /\ server = Normal /\ decode = "NORMAL" /\ status = "none" /\ lost = FALSE
  /\ tvs \in {k = "TVS" : k \in SetupTypes}
  /\ pauseInto \in {"INIT", "OTHERS"} \union (IF tvs THEN {"TRIG"} ELSE {})

-----------------------------------------------------------------------------
(* The page's thread *)

\* A full queue drops the message and no caller looks.
Post(c) ==
  /\ queue' = (IF Len(queue) < QueueCap THEN Append(queue, c) ELSE queue)
  /\ dropped' = (dropped \/ Len(queue) >= QueueCap)

Call(o) == cpc = "idle" /\ o \in Ops /\ calls < MaxCalls /\ calls' = calls + 1
threadFrame == UNCHANGED <<threadVars, server, outVars, envVars, tvs, faults, replaced, mspeed>>

Pause ==
  /\ Call("pause") /\ last' = "pause" /\ cpc' = "test"
  /\ ack' = FALSE /\ Post("PAUSE")
  /\ UNCHANGED <<volume, flagVars, playspeed, playerstate, known>> /\ threadFrame

\* The first pause is marked for the player thread, a later one is not.
PauseTest ==
  /\ cpc = "test" /\ cpc' = IF pauseInto = "INIT" THEN "trig" ELSE "others"
  /\ UNCHANGED <<last, volume, calls, queueVars, ack, flagVars, playspeed, playerstate, known>>
  /\ threadFrame
PauseMark ==
  /\ cpc \in {"trig", "others"} /\ cpc' = "wait"
  /\ pauseInto' = IF cpc = "trig" THEN "TRIG" ELSE "OTHERS"
  /\ UNCHANGED <<last, volume, calls, queueVars, ack, backInto, playspeed, playerstate, known>>
  /\ threadFrame

FastForward(s) ==
  /\ Call("forward") /\ last' = "forward" /\ cpc' = "clear"
  /\ playspeed' = s /\ Post("FASTFORWARD")
  /\ UNCHANGED <<volume, ack, flagVars, playerstate, known>> /\ threadFrame

FastRewind(s) ==
  /\ Call("rewind") /\ last' = "rewind" /\ cpc' = "mark"
  /\ playspeed' = s /\ Post("FASTBACKWARD")
  /\ UNCHANGED <<volume, ack, flagVars, playerstate, known>> /\ threadFrame
RewindMark ==
  /\ cpc = "mark" /\ cpc' = "clear"
  /\ backInto' = TRUE /\ pauseInto' = "OTHERS"
  /\ UNCHANGED <<last, volume, calls, queueVars, ack, playspeed, playerstate, known>> /\ threadFrame

Resume ==
  /\ Call("resume") /\ last' = "resume" /\ cpc' = "clear"
  /\ Post("PLAY")
  /\ UNCHANGED <<volume, ack, flagVars, playspeed, playerstate, known>> /\ threadFrame

\* fastForward, fastRewind and resume clear the flag after they sent the
\* message: an answer that was quicker is lost.
ClearAck ==
  /\ cpc = "clear" /\ cpc' = "wait" /\ ack' = FALSE
  /\ UNCHANGED <<last, volume, calls, queueVars, flagVars, playspeed, playerstate, known>>
  /\ threadFrame

\* The wait ends with the flag, or with its timeout of a second: it runs out
\* while the server keeps the thread waiting or when no answer will come.
Idle == tpc = "poll" /\ queue = <<>> /\ ~backInto /\ pauseInto # "TRIG" /\ status = "none"
WaitEnds ==
  /\ cpc = "wait" /\ cpc' = "idle"
  /\ ack \/ tpc \in {"request", "ended"} \/ Idle
  /\ UNCHANGED <<last, volume, calls, queueVars, ack, flagVars, playspeed, playerstate, known>>
  /\ threadFrame

SetVolume(v) ==
  /\ Call("setVolume") /\ volume' = v /\ Post("VOLUMECHANGE")
  /\ UNCHANGED <<cpc, last, ack, flagVars, playspeed, playerstate, known>> /\ threadFrame

\* On a running medium: SEEK, which the player thread does not know.
PlayFromStart ==
  /\ Call("playFromStart") /\ last' = "start"
  /\ pauseInto' = "INIT" /\ backInto' = FALSE /\ playerstate' = "PREINIT" /\ Post("SEEK")
  /\ known' = FALSE
  /\ UNCHANGED <<cpc, volume, ack, playspeed>> /\ threadFrame

Page ==
  \/ Pause \/ PauseTest \/ PauseMark \/ RewindMark \/ Resume \/ ClearAck \/ WaitEnds
  \/ PlayFromStart
  \/ \E s \in ForwardSpeeds : FastForward(s)
  \/ \E s \in RewindSpeeds : FastRewind(s)
  \/ \E v \in Volumes : SetVolume(v)

-----------------------------------------------------------------------------
(* The player thread: one round of its main loop, process_tvod_msg *)

hold == UNCHANGED <<pageVars, tvs>>
outFrame == UNCHANGED <<server, outVars>>
End == tpc' = "ended" /\ cmd' = "NONE" /\ reqs' = <<>> /\ ack' = TRUE
Fault == faults < MaxFaults /\ faults' = faults + 1

\* Mutant: whatever waits behind a message is dropped with it.
Rest_Dropped == <<>>

\* rcvfrom_mediaplayermsg takes the first message, if there is one.
Received == IF queue = <<>> THEN "NONE" ELSE Head(queue)
Rest == IF queue = <<>> THEN <<>> ELSE Tail(queue)

\* Mutant: the volume is not looked at before it is set.
InRange_Any == TRUE

InRange == volume <= MaxVolume

\* process_common_msg: a volume in range is set at once and ends the round; one
\* out of range goes on as a command that nothing knows.
Receive ==
  /\ tpc = "poll" /\ queue' = Rest
  /\ IF Received = "VOLUMECHANGE" /\ InRange
     THEN sound' = volume /\ UNCHANGED <<tpc, cmd>>
     ELSE tpc' = "notice" /\ cmd' = Received /\ UNCHANGED sound
  /\ UNCHANGED <<ack, flagVars, playspeed, modeVars, reqs, attempt, server, decode, envVars,
                 faults, replaced, dropped>> /\ hold

\* A begin of stream turns whatever was received into PLAY, an end of stream
\* into QUIT.
Notice ==
  /\ tpc = "notice" /\ tpc' = "pauseFlag" /\ status' = "none"
  /\ cmd' = CASE status = "play" -> "PLAY" [] status = "quit" -> "QUIT" [] OTHER -> cmd
  /\ playerstate' = IF status = "play" THEN "PLAYING" ELSE playerstate
  /\ UNCHANGED <<queueVars, ack, flagVars, playspeed, mspeed, known, reqs, attempt, lost, faults,
                 replaced>> /\ outFrame /\ hold

\* The first pause of a time-shifted programme: the decoder goes to I frames and
\* the command becomes PAUSE; if the decoder refuses, the round ends.
PauseFlag ==
  /\ tpc = "pauseFlag"
  /\ IF pauseInto = "TRIG" /\ tvs
     THEN /\ pauseInto' = "OTHERS"
          /\ replaced' = (replaced \/ cmd \notin {"PAUSE", "NONE"})
          /\ \/ decode' = "I" /\ cmd' = "PAUSE" /\ tpc' = "backFlag" /\ UNCHANGED faults
             \/ Fault /\ decode' \in {decode, "I"} /\ cmd' = "NONE" /\ tpc' = "poll"
     ELSE tpc' = "others" /\ UNCHANGED <<pauseInto, cmd, decode, faults, replaced>>
  /\ UNCHANGED <<queueVars, ack, backInto, playspeed, modeVars, reqs, attempt, server, sound,
                 envVars>> /\ hold
PauseOthers ==
  /\ tpc = "others" /\ tpc' = "backFlag" /\ pauseInto' = "OTHERS"
  /\ UNCHANGED <<queueVars, ack, backInto, playspeed, modeVars, cmd, reqs, attempt, envVars, faults,
                 replaced>> /\ outFrame /\ hold

\* A rewind that is marked replaces the command received.
BackFlag ==
  /\ tpc = "backFlag" /\ tpc' = "dispatch" /\ backInto' = FALSE
  /\ cmd' = IF backInto THEN "FASTBACKWARD" ELSE cmd
  /\ replaced' = (replaced \/ (backInto /\ cmd \notin {"FASTBACKWARD", "NONE"}))
  /\ UNCHANGED <<queueVars, ack, pauseInto, playspeed, modeVars, reqs, attempt, envVars,
                 faults>>
  /\ outFrame /\ hold

\* Mutant: PLAY after a fast rewind is not thought of.
PlayRequests_NoRewind ==
  CASE playerstate = "PAUSED" -> <<"PLAY">>
    [] playerstate = "FASTFORWARD" -> <<"PAUSE", "PLAY">>
    [] OTHER -> <<>>

\* The requests a command sends the server, after the state the player is in.
PlayRequests ==
  CASE playerstate = "PAUSED" -> <<"PLAY">>
    [] playerstate \in Trick -> <<"PAUSE", "PLAY">>
    [] OTHER -> <<>>

Requests(c) ==
  CASE c = "PAUSE" -> <<"PAUSE">>
    [] c = "PLAY" -> PlayRequests
    [] c = "FASTFORWARD" -> <<"PAUSE", "FORWARD">>
    [] c = "FASTBACKWARD" -> <<"PAUSE", "BACKWARD">>

Dispatch ==
  /\ tpc = "dispatch"
  /\ IF lost \/ cmd = "QUIT" THEN End /\ UNCHANGED attempt
     ELSE /\ IF cmd \in VcrCmds THEN tpc' = "request" /\ reqs' = Requests(cmd) /\ UNCHANGED cmd
             ELSE tpc' = "poll" /\ cmd' = "NONE" /\ UNCHANGED reqs
          /\ attempt' = 1 /\ UNCHANGED ack
  /\ UNCHANGED <<queueVars, flagVars, playspeed, modeVars, envVars, faults, replaced>>
  /\ outFrame /\ hold

\* What the server is to play once it has accepted a request; a pause sends no
\* scale, and counts as 1.
Served(r) ==
  CASE r = "PAUSE" -> Sent("paused", 1)
    [] r = "PLAY" -> Normal
    [] r = "FORWARD" -> Sent("forward", playspeed)
    [] r = "BACKWARD" -> Sent("backward", playspeed)

\* Only rtspPLAY looks at the answer's status: a refused PAUSE or scale change
\* counts as done.  What fails is sent once more, then given up.
Request ==
  /\ tpc = "request" /\ reqs # <<>>
  /\ LET r == Head(reqs)
         done == reqs' = Tail(reqs) /\ attempt' = 1
         failed == IF attempt = 1 THEN attempt' = 2 /\ UNCHANGED reqs ELSE done
     IN  \/ server' = Served(r) /\ done /\ UNCHANGED faults
         \/ Fault /\ UNCHANGED server /\ (IF r = "PLAY" THEN failed ELSE done)
         \/ Fault /\ server' \in {server, Served(r)} /\ failed
  /\ UNCHANGED <<queueVars, ack, flagVars, playspeed, modeVars, tpc, cmd, outVars, envVars,
                 replaced>>
  /\ hold

\* The requests are out, answered or not: the player takes the new state.
Finish ==
  /\ tpc = "request" /\ reqs = <<>> /\ cmd # "PLAY" /\ ack' = TRUE /\ known' = TRUE
  /\ playerstate' = (IF cmd = "PAUSE" THEN "PAUSED" ELSE cmd)
  /\ mspeed' = (IF cmd = "PAUSE" THEN 1 ELSE playspeed)
  /\ sound' = (IF cmd = "PAUSE" THEN sound ELSE 0)
  /\ tpc' = (IF cmd = "PAUSE" THEN "poll" ELSE "restart") /\ cmd' = "NONE"
  /\ UNCHANGED <<queueVars, flagVars, playspeed, reqs, attempt, server, decode, envVars, faults,
                 replaced>> /\ hold

\* Mutant: the sound comes back only straight out of a fast mode.
SoundBack_NotFromPause == IF volume <= MaxVolume /\ playerstate # "PAUSED" THEN volume ELSE sound

\* The sound output refuses a volume out of range, which PLAY does not check.
SoundBack == IF volume <= MaxVolume THEN volume ELSE sound

\* PLAY sets the flag before it sets state and speed.
PlaySound ==
  /\ tpc = "request" /\ reqs = <<>> /\ cmd = "PLAY" /\ tpc' = "playState" /\ ack' = TRUE
  /\ sound' = SoundBack
  /\ UNCHANGED <<queueVars, flagVars, playspeed, modeVars, cmd, reqs, attempt, server, decode,
                 envVars, faults, replaced>> /\ hold
PlayState ==
  /\ tpc = "playState" /\ tpc' = "restart" /\ cmd' = "NONE"
  /\ playerstate' = "PLAYING" /\ mspeed' = 1 /\ playspeed' = 1 /\ UNCHANGED known
  /\ UNCHANGED <<queueVars, ack, flagVars, reqs, attempt, envVars, faults, replaced>>
  /\ outFrame /\ hold

\* restart: DSP_DVBplay_resume, and the end of the player if the decoder refuses.
Restart ==
  /\ tpc = "restart"
  /\ \/ decode' = "NORMAL" /\ tpc' = "poll" /\ UNCHANGED <<cmd, reqs, ack, faults>>
     \/ Fault /\ decode' \in {decode, "NORMAL"} /\ End
  /\ UNCHANGED <<queueVars, flagVars, playspeed, modeVars, attempt, server, sound, envVars,
                 replaced>> /\ hold

Thread ==
  \/ Receive \/ Notice \/ PauseFlag \/ PauseOthers \/ BackFlag \/ Dispatch \/ Request
  \/ Finish \/ PlaySound \/ PlayState \/ Restart

-----------------------------------------------------------------------------
(* The streaming server and the heartbeats *)

\* A server that rewinds reaches the begin and plays on normally; one that plays
\* reaches the end.
ServerNotice ==
  /\ tpc # "ended" /\ Fault
  /\ \/ "play" \in Notices /\ server.play = "backward" /\ status' = "play" /\ server' = Normal
     \/ "quit" \in Notices /\ server.play # "paused" /\ status' = "quit" /\ UNCHANGED server
  /\ UNCHANGED <<pageVars, queueVars, ack, flagVars, playspeed, modeVars, threadVars, outVars, lost,
                 tvs, replaced>>
HeartbeatLost ==
  /\ tpc # "ended" /\ ~lost /\ Fault /\ lost' = TRUE
  /\ UNCHANGED <<pageVars, queueVars, ack, flagVars, playspeed, modeVars, threadVars, server,
                 outVars, status, tvs, replaced>>

Stopped == tpc = "ended" /\ cpc = "idle" /\ UNCHANGED vars

Next == Page \/ Thread \/ ServerNotice \/ HeartbeatLost \/ Stopped
Spec == Init /\ [][Next]_vars

-----------------------------------------------------------------------------
(* Properties *)

\* getPlaybackMode: the mode and the speed the page is told.  Only the powers of two
\* are told as they are, the rewinds among them as negative numbers.
Shown == {2, 4, 8, 16, 32}
Told ==
  CASE playerstate = "PAUSED" -> [mode |-> "Pause", speed |-> 1]
    [] playerstate = "FASTFORWARD" ->
         [mode |-> "TrickMode", speed |-> IF mspeed \in Shown THEN mspeed ELSE 32]
    [] playerstate = "FASTBACKWARD" ->
         [mode |-> "TrickMode", speed |-> IF -mspeed \in Shown THEN mspeed ELSE -32]
    [] OTHER -> [mode |-> "Normal Play", speed |-> 1]

PageTypes ==
  /\ cpc \in {"idle", "test", "trig", "others", "mark", "clear", "wait"}
  /\ last \in {"none", "pause", "forward", "rewind", "resume", "start"}
  /\ volume \in Volumes /\ calls \in 0 .. MaxCalls
QueueTypes == queue \in Seq(Cmds) /\ Len(queue) <= QueueCap
SpeedTypes == playspeed \in Speeds \union {1} /\ mspeed \in Speeds \union {1}
ThreadTypes ==
  /\ tpc \in {"poll", "notice", "pauseFlag", "others", "backFlag", "dispatch", "request",
              "playState", "restart", "ended"}
  /\ cmd \in Cmds \union {"NONE", "QUIT"} /\ (tpc = "request" => cmd \in VcrCmds)
  /\ reqs \in Seq({"PAUSE", "PLAY", "FORWARD", "BACKWARD"}) /\ (reqs # <<>> => tpc = "request")
  /\ attempt \in 1 .. 2
OutTypes ==
  /\ playerstate \in States /\ pauseInto \in {"INIT", "TRIG", "OTHERS"}
  /\ server \in [play : {"normal", "paused", "forward", "backward"},
                 scale : [minus : 0 .. 2, size : Nat]]
  /\ sound \in 0 .. MaxVolume /\ decode \in {"NORMAL", "I"} /\ status \in {"none", "play", "quit"}
  /\ faults \in 0 .. MaxFaults
FlagTypes ==
  /\ ack \in BOOLEAN /\ backInto \in BOOLEAN /\ lost \in BOOLEAN /\ tvs \in BOOLEAN
  /\ known \in BOOLEAN /\ replaced \in BOOLEAN /\ dropped \in BOOLEAN

\* Every variable holds what its field can hold, a message queue within its limit
\* and a sound output within its range, whatever the page asked for.
TypeOK == PageTypes /\ QueueTypes /\ SpeedTypes /\ ThreadTypes /\ OutTypes /\ FlagTypes

\* Nothing is under way between the page, the thread and the server.
Quiet == cpc = "idle" /\ Idle /\ known

\* When nothing is under way and the server did what it was asked, the mode the page
\* is told (getPlaybackMode) is the one the server was asked for last, however the
\* page's calls met the thread's writes.  The speed told is the scale it was sent in
\* normal play, in a pause and in a fast forward at a speed that can be told; in a
\* rewind the size of the scale is that of the speed kept, the sign is not claimed.
ModeAgrees ==
  Quiet /\ faults = 0 /\ ~dropped =>
    /\ Told.mode = CASE server.play = "normal" -> "Normal Play"
                     [] server.play = "paused" -> "Pause"
                     [] OTHER -> "TrickMode"
    /\ playerstate = "FASTFORWARD" =>
         /\ server.play = "forward"
         /\ mspeed \in Shown => server.scale = Scale("forward", Told.speed)
    /\ playerstate = "FASTBACKWARD" =>
         server.play = "backward" /\ server.scale.size = Scale("backward", mspeed).size
    /\ playerstate \in {"PLAYING", "PAUSED"} => server.scale = Scale("normal", Told.speed)

\* The speed the page is told of a rewind that runs at a speed it asked for is the
\* scale the server was sent: -2x for a scale of -2.  (It is not: the speed of a rewind
\* is negative already, and the server is sent --2.)
RewindTold ==
  Quiet /\ faults = 0 /\ ~dropped /\ playerstate = "FASTBACKWARD" /\ mspeed \in RewindSpeeds =>
    server.scale = Scale("forward", Told.speed)

\* Normal play is normal again after every trick mode: the sound is back at the
\* volume set last, a refused request, a notice or a change of the volume in between
\* included, and the decoder has left the I frames unless it refused a command.
\* (Two failures can break it: a notice whose PLAY a mark replaces by a pause that
\* the decoder then refuses leaves PLAYING without sound.)
PlaysNormally ==
  Quiet /\ playerstate = "PLAYING" /\ volume <= MaxVolume /\ faults <= 1 /\ ~dropped =>
    sound = volume /\ (faults = 0 => decode = "NORMAL")

\* The operation called last decides what the server plays, unless the mark of a
\* rewind or of a first pause replaced its message.
LastCommandWins ==
  Quiet /\ faults = 0 /\ ~replaced /\ ~dropped =>
    /\ last = "pause" => server.play = "paused"
    /\ last = "forward" => server.play = "forward"
    /\ last = "rewind" => server.play = "backward"
    /\ last = "resume" => server.play = "normal"

=============================================================================
