------------------------------ MODULE VcrProofs ------------------------------
(***************************************************************************)
(* What holds of the trick modes for any speeds, volumes, number of calls and *)
(* length of the queue: the types, the mode the page is told, the command     *)
(* that wins, and normal play after a trick mode.                             *)
(***************************************************************************)
EXTENDS Vcr, SequenceTheorems, TLAPS

LEMMA InitTypeOK == Init => TypeOK
<1> SUFFICES ASSUME Init PROVE TypeOK
  OBVIOUS
<1>1. PageTypes
  BY VcrAssumption DEF Init, PageTypes, VcrAssumption
<1>2. QueueTypes
  BY VcrAssumption DEF Init, QueueTypes, VcrAssumption
<1>3. SpeedTypes
  BY DEF Init, SpeedTypes
<1>4. ThreadTypes
  BY DEF Init, ThreadTypes, VcrCmds
<1>5. sound \in 0 .. MaxVolume
  BY VcrAssumption DEF Init, VcrAssumption
<1>6. server \in [play : {"normal", "paused", "forward", "backward"}, scale : [minus : 0 .. 2, size : Nat]]
  BY DEF Init, Normal, Sent, Scale
<1>7. OutTypes
  BY <1>5, <1>6, VcrAssumption DEF Init, OutTypes, States, VcrAssumption
<1>8. FlagTypes
  BY DEF Init, FlagTypes
<1> QED BY <1>1, <1>2, <1>3, <1>4, <1>7, <1>8 DEF TypeOK

\* A message fits in, or is dropped.
LEMMA PostType == ASSUME QueueTypes, NEW c \in Cmds, Post(c) PROVE QueueTypes'
<1>1. CASE Len(queue) < QueueCap
  <2>1. queue' = Append(queue, c) /\ Len(queue') = Len(queue) + 1 /\ queue' \in Seq(Cmds)
    BY <1>1, AppendProperties DEF Post, QueueTypes
  <2>2. Len(queue) \in Nat
    BY DEF QueueTypes
  <2> QED BY <1>1, <2>1, <2>2, VcrAssumption DEF QueueTypes, VcrAssumption
<1>2. CASE ~(Len(queue) < QueueCap)
  BY <1>2 DEF Post, QueueTypes
<1> QED BY <1>1, <1>2

\* The page's thread leaves the player thread's variables alone.
LEMMA PageFrame ==
  ASSUME TypeOK, threadFrame, UNCHANGED <<flagVars, queueVars, ack, playerstate, known>>
  PROVE  ThreadTypes' /\ OutTypes' /\ FlagTypes'
BY DEF TypeOK, ThreadTypes, OutTypes, FlagTypes, threadFrame, threadVars, outVars, envVars, flagVars, queueVars

LEMMA PageType == ASSUME TypeOK, Page PROVE TypeOK'
<1> USE DEF TypeOK, threadFrame, threadVars, outVars, envVars, flagVars, queueVars, Call
<1>1. ThreadTypes'
  BY DEF Page, Pause, PauseTest, PauseMark, RewindMark, Resume, ClearAck, WaitEnds, PlayFromStart,
         FastForward, FastRewind, SetVolume, ThreadTypes
<1>2. OutTypes'
  <2>1. UNCHANGED <<server, sound, decode, status, faults>>
    BY DEF Page, Pause, PauseTest, PauseMark, RewindMark, Resume, ClearAck, WaitEnds, PlayFromStart,
           FastForward, FastRewind, SetVolume
  <2>2. playerstate' \in States /\ pauseInto' \in {"INIT", "TRIG", "OTHERS"}
    BY DEF Page, Pause, PauseTest, PauseMark, RewindMark, Resume, ClearAck, WaitEnds, PlayFromStart,
           FastForward, FastRewind, SetVolume, OutTypes, States
  <2> QED BY <2>1, <2>2 DEF OutTypes
<1>3. FlagTypes'
  <2>1. dropped' \in BOOLEAN
    BY DEF Page, Pause, PauseTest, PauseMark, RewindMark, Resume, ClearAck, WaitEnds, PlayFromStart,
           FastForward, FastRewind, SetVolume, Post, FlagTypes
  <2> QED BY <2>1 DEF Page, Pause, PauseTest, PauseMark, RewindMark, Resume, ClearAck, WaitEnds,
                      PlayFromStart, FastForward, FastRewind, SetVolume, FlagTypes
<1>4. SpeedTypes'
  BY DEF Page, Pause, PauseTest, PauseMark, RewindMark, Resume, ClearAck, WaitEnds, PlayFromStart,
         FastForward, FastRewind, SetVolume, SpeedTypes, Speeds
<1>5. QueueTypes'
  <2>1. UNCHANGED queue \/ \E c \in Cmds : Post(c)
    BY DEF Page, Pause, PauseTest, PauseMark, RewindMark, Resume, ClearAck, WaitEnds, PlayFromStart,
           FastForward, FastRewind, SetVolume, Cmds, VcrCmds
  <2> QED BY <2>1, PostType DEF QueueTypes
<1>6. PageTypes'
  <2>1. calls' \in 0 .. MaxCalls /\ volume' \in Volumes
    BY VcrAssumption DEF Page, Pause, PauseTest, PauseMark, RewindMark, Resume, ClearAck, WaitEnds, PlayFromStart,
           FastForward, FastRewind, SetVolume, PageTypes, VcrAssumption
  <2>2. /\ cpc' \in {"idle", "test", "trig", "others", "mark", "clear", "wait"}
        /\ last' \in {"none", "pause", "forward", "rewind", "resume", "start"}
    BY DEF Page, Pause, PauseTest, PauseMark, RewindMark, Resume, ClearAck, WaitEnds, PlayFromStart,
           FastForward, FastRewind, SetVolume, PageTypes
  <2> QED BY <2>1, <2>2 DEF PageTypes
<1> QED BY <1>1, <1>2, <1>3, <1>4, <1>5, <1>6

\* What is left of the queue, and what was taken.
LEMMA ReceiveTypes ==
  ASSUME QueueTypes
  PROVE  Rest \in Seq(Cmds) /\ Len(Rest) <= QueueCap /\ Received \in Cmds \union {"NONE"}
<1>1. CASE queue = <<>>
  BY <1>1, VcrAssumption DEF Rest, Received, QueueTypes, VcrAssumption
<1>2. CASE queue # <<>>
  <2>1. Rest = Tail(queue) /\ Received = Head(queue)
    BY <1>2 DEF Rest, Received
  <2>2. Head(queue) \in Cmds /\ Tail(queue) \in Seq(Cmds) /\ Len(Tail(queue)) = Len(queue) - 1
    BY <1>2, HeadTailProperties DEF QueueTypes
  <2>3. Len(queue) \in Nat
    BY DEF QueueTypes
  <2> QED BY <2>1, <2>2, <2>3, VcrAssumption DEF QueueTypes, VcrAssumption
<1> QED BY <1>1, <1>2

LEMMA ThreadType == ASSUME TypeOK, Thread PROVE TypeOK'
<1> USE DEF TypeOK, hold, outFrame, pageVars, threadVars, outVars, envVars, flagVars, queueVars, modeVars, Fault, End
<1>0. UNCHANGED <<pageVars, tvs>>
  BY DEF Thread, Receive, Notice, PauseFlag, PauseOthers, BackFlag, Dispatch, Request, Finish, PlaySound,
         PlayState, Restart
<1>1. PageTypes'
  BY <1>0 DEF PageTypes
<1>2. QueueTypes'
  <2>1. queue' = queue \/ queue' = Rest
    BY DEF Thread, Receive, Notice, PauseFlag, PauseOthers, BackFlag, Dispatch, Request, Finish, PlaySound,
           PlayState, Restart
  <2> QED BY <2>1, ReceiveTypes DEF QueueTypes
<1>3. SpeedTypes'
  BY DEF Thread, Receive, Notice, PauseFlag, PauseOthers, BackFlag, Dispatch, Request, Finish, PlaySound,
         PlayState, Restart, SpeedTypes
<1>4. FlagTypes'
  BY <1>0 DEF Thread, Receive, Notice, PauseFlag, PauseOthers, BackFlag, Dispatch, Request, Finish, PlaySound,
         PlayState, Restart, FlagTypes
<1>5. faults' \in 0 .. MaxFaults
  BY VcrAssumption DEF Thread, Receive, Notice, PauseFlag, PauseOthers, BackFlag, Dispatch, Request, Finish,
         PlaySound, PlayState, Restart, OutTypes, VcrAssumption
<1>6. sound' \in 0 .. MaxVolume
  <2>1. CASE Receive
    BY <2>1, VcrAssumption DEF Receive, InRange, PageTypes, OutTypes, VcrAssumption
  <2>2. CASE PlaySound
    BY <2>2, VcrAssumption DEF PlaySound, SoundBack, PageTypes, OutTypes, VcrAssumption
  <2>3. CASE Finish
    BY <2>3, VcrAssumption DEF Finish, OutTypes, VcrAssumption
  <2> QED BY <2>1, <2>2, <2>3 DEF Thread, Notice, PauseFlag, PauseOthers, BackFlag, Dispatch, Request, PlayState,
               Restart, OutTypes
<1>7. server' \in [play : {"normal", "paused", "forward", "backward"}, scale : [minus : 0 .. 2, size : Nat]]
  <2>1. CASE Request
    <3>1. Head(reqs) \in {"PAUSE", "PLAY", "FORWARD", "BACKWARD"} /\ playspeed \in Int
      BY <2>1, VcrAssumption DEF Request, ThreadTypes, SpeedTypes, Speeds, VcrAssumption
    <3>2. Served(Head(reqs)) \in [play : {"normal", "paused", "forward", "backward"}, scale : [minus : 0 .. 2, size : Nat]]
      BY <3>1 DEF Served, Normal, Sent, Scale
    <3>3. server' = server \/ server' = Served(Head(reqs))
      BY <2>1 DEF Request
    <3> QED BY <3>2, <3>3 DEF OutTypes
  <2> QED BY <2>1 DEF Thread, Receive, Notice, PauseFlag, PauseOthers, BackFlag, Dispatch, Finish, PlaySound,
               PlayState, Restart, OutTypes
<1>8. /\ playerstate' \in States /\ pauseInto' \in {"INIT", "TRIG", "OTHERS"}
      /\ decode' \in {"NORMAL", "I"} /\ status' \in {"none", "play", "quit"}
  <2>1. CASE Finish
    BY <2>1 DEF Finish, ThreadTypes, OutTypes, VcrCmds, States
  <2> QED BY <2>1 DEF Thread, Receive, Notice, PauseFlag, PauseOthers, BackFlag, Dispatch, Request, PlaySound,
               PlayState, Restart, OutTypes, States
<1>9. OutTypes'
  BY <1>5, <1>6, <1>7, <1>8 DEF OutTypes
<1>10. ThreadTypes'
  <2>1. CASE Receive
    BY <2>1, ReceiveTypes DEF Receive, ThreadTypes
  <2>2. CASE Notice \/ PauseFlag \/ PauseOthers \/ BackFlag
    BY <2>2 DEF Notice, PauseFlag, PauseOthers, BackFlag, ThreadTypes, Cmds, VcrCmds
  <2>3. CASE Dispatch
    <3>1. ASSUME cmd \in VcrCmds PROVE Requests(cmd) \in Seq({"PAUSE", "PLAY", "FORWARD", "BACKWARD"})
      <4>1. PlayRequests \in {<<>>, <<"PLAY">>, <<"PAUSE", "PLAY">>}
        BY DEF PlayRequests
      <4>2. Requests(cmd) \in {<<"PAUSE">>, <<"PAUSE", "FORWARD">>, <<"PAUSE", "BACKWARD">>, PlayRequests}
        BY <3>1 DEF Requests, VcrCmds
      <4> DEFINE S == {"PAUSE", "PLAY", "FORWARD", "BACKWARD"}
      <4>3. <<>> \in Seq(S) /\ <<"PLAY">> \in Seq(S) /\ <<"PAUSE">> \in Seq(S)
        OBVIOUS
      <4>4. <<"PAUSE", "PLAY">> \in Seq(S) /\ <<"PAUSE", "FORWARD">> \in Seq(S) /\ <<"PAUSE", "BACKWARD">> \in Seq(S)
        OBVIOUS
      <4> HIDE DEF S
      <4>5. Requests(cmd) \in Seq(S)
        BY <4>1, <4>2, <4>3, <4>4
      <4> QED BY <4>5 DEF S
    <3> QED BY <2>3, <3>1 DEF Dispatch, ThreadTypes
  <2>4. CASE Request
    <3>1. Tail(reqs) \in Seq({"PAUSE", "PLAY", "FORWARD", "BACKWARD"})
      BY <2>4 DEF Request, ThreadTypes
    <3>2. reqs' = reqs \/ reqs' = Tail(reqs)
      BY <2>4 DEF Request
    <3>3. attempt' \in 1 .. 2
      BY <2>4 DEF Request, ThreadTypes
    <3> QED BY <2>4, <3>1, <3>2, <3>3 DEF Request, ThreadTypes
  <2>5. CASE Finish \/ PlaySound \/ PlayState \/ Restart
    BY <2>5 DEF Finish, PlaySound, PlayState, Restart, ThreadTypes
  <2> QED BY <2>1, <2>2, <2>3, <2>4, <2>5 DEF Thread
<1> QED BY <1>1, <1>2, <1>3, <1>4, <1>9, <1>10

LEMMA EnvironmentType == ASSUME TypeOK, ServerNotice \/ HeartbeatLost PROVE TypeOK'
<1> USE DEF TypeOK, pageVars, threadVars, outVars, envVars, flagVars, queueVars, modeVars, Fault
<1>1. PageTypes' /\ QueueTypes' /\ SpeedTypes' /\ ThreadTypes' /\ FlagTypes'
  <2>1. UNCHANGED <<pageVars, queueVars, ack, flagVars, playspeed, modeVars, threadVars, tvs, replaced>>
    BY DEF ServerNotice, HeartbeatLost
  <2>2. lost' \in BOOLEAN
    BY DEF ServerNotice, HeartbeatLost, FlagTypes
  <2>3. PageTypes' /\ QueueTypes' /\ SpeedTypes'
    BY <2>1 DEF PageTypes, QueueTypes, SpeedTypes
  <2>4. ThreadTypes' /\ FlagTypes'
    BY <2>1, <2>2 DEF ThreadTypes, FlagTypes
  <2> QED BY <2>3, <2>4
<1>2. server' \in [play : {"normal", "paused", "forward", "backward"}, scale : [minus : 0 .. 2, size : Nat]]
  BY DEF ServerNotice, HeartbeatLost, Normal, Sent, Scale, OutTypes
<1>3. faults' \in 0 .. MaxFaults /\ status' \in {"none", "play", "quit"}
  BY VcrAssumption DEF ServerNotice, HeartbeatLost, OutTypes, VcrAssumption
<1>4. OutTypes'
  BY <1>2, <1>3 DEF ServerNotice, HeartbeatLost, OutTypes
<1> QED BY <1>1, <1>4

\* The types hold in every state: the sound output never gets a volume out of its
\* range, nor the server a request while no command is in hand, whatever the page
\* asks for and however full the queue is.
THEOREM TypeCorrect == Spec => []TypeOK
<1>1. TypeOK /\ [Next]_vars => TypeOK'
  <2> SUFFICES ASSUME TypeOK, [Next]_vars PROVE TypeOK'
    OBVIOUS
  <2>1. CASE UNCHANGED vars
    BY <2>1 DEF TypeOK, PageTypes, QueueTypes, SpeedTypes, ThreadTypes, OutTypes, FlagTypes, vars, pageVars,
            threadVars, outVars, envVars, flagVars, queueVars, modeVars
  <2> QED BY <2>1, PageType, ThreadType, EnvironmentType DEF Next, Stopped
<1> QED BY <1>1, InitTypeOK, PTL DEF Spec

-----------------------------------------------------------------------------
(* The mode the page is told *)

\* Without a fault there is no notice and no lost heartbeat, and the thread runs on.
NoFault == ~lost /\ status = "none" /\ cmd # "QUIT" /\ tpc # "ended"

\* A message that changed playspeed when it was sent waits, or a command is in hand:
\* either will set the speed again.
SpeedWaits == \E i \in 1 .. Len(queue) : queue[i] \in Trick
InHand == tpc \in {"notice", "pauseFlag", "others", "backFlag", "dispatch"} /\ cmd \in VcrCmds

Paused == Sent("paused", 1)

\* Outside a command's requests, state and speed are what the server plays, but for
\* a speed that the page changed while the thread was between request and mspeed.
Settled ==
  known /\ tpc \notin {"request", "playState"} =>
    /\ playerstate # "PREINIT"
    /\ playerstate = "PLAYING" => server = Normal /\ mspeed = 1
    /\ playerstate = "PAUSED" => server = Paused /\ mspeed = 1
    /\ playerstate = "FASTFORWARD" => server.play = "forward"
    /\ playerstate = "FASTBACKWARD" => server.play = "backward"
    /\ playerstate \in Trick =>
         server.scale = Scale(server.play, mspeed) \/ SpeedWaits \/ InHand

\* While a command's requests go out, those still to come lead to what it asks for.
Scaled(play) == server.play = play /\ (server.scale = Scale(play, playspeed) \/ SpeedWaits)
Sending ==
  tpc = "request" =>
    /\ cmd = "PAUSE" => reqs = <<"PAUSE">> \/ (reqs = <<>> /\ server = Paused)
    /\ cmd = "FASTFORWARD" =>
         reqs \in {<<"PAUSE", "FORWARD">>, <<"FORWARD">>} \/ (reqs = <<>> /\ Scaled("forward"))
    /\ cmd = "FASTBACKWARD" =>
         reqs \in {<<"PAUSE", "BACKWARD">>, <<"BACKWARD">>} \/ (reqs = <<>> /\ Scaled("backward"))
    /\ cmd = "PLAY" /\ known =>
         reqs \in {<<"PAUSE", "PLAY">>, <<"PLAY">>} \/ (reqs = <<>> /\ server = Normal)
Playing == tpc = "playState" /\ known => server = Normal

Faultless == NoFault /\ Settled /\ Sending /\ Playing
ModeInv == faults = 0 /\ ~dropped => Faultless

LEMMA InitModeInv == Init => ModeInv
BY DEF Init, ModeInv, Faultless, NoFault, Settled, Sending, Playing

\* A message that is not dropped stands behind those that wait.
LEMMA PostAppends ==
  ASSUME TypeOK, NEW c \in Cmds, Post(c), ~dropped'
  PROVE  /\ Len(queue) \in Nat /\ Len(queue') = Len(queue) + 1
         /\ \A i \in 1 .. Len(queue) : queue'[i] = queue[i]
         /\ queue'[Len(queue) + 1] = c
<1>1. Len(queue) \in Nat /\ queue \in Seq(Cmds)
  BY DEF TypeOK, QueueTypes
<1>2. ~(Len(queue) >= QueueCap)
  BY DEF Post
<1>3. queue' = Append(queue, c)
  BY <1>1, <1>2, VcrAssumption DEF Post, VcrAssumption
<1> QED BY <1>1, <1>3, AppendProperties

\* What a call does to the queue.
LEMMA PostKeeps ==
  ASSUME TypeOK, NEW c \in Cmds, Post(c), ~dropped'
  PROVE  (SpeedWaits => SpeedWaits') /\ (c \in Trick => SpeedWaits')
BY PostAppends DEF SpeedWaits

\* A message once dropped stays so, and only the page can lose one.
LEMMA DropStays ==
  ASSUME TypeOK, [Next]_vars
  PROVE  (dropped => dropped') /\ (Page \/ dropped' = dropped)
<1> USE DEF queueVars
<1>1. CASE Page
  <2>1. dropped' = dropped \/ \E c \in Cmds : Post(c)
    BY <1>1 DEF Page, Pause, PauseTest, PauseMark, RewindMark, Resume, ClearAck, WaitEnds, PlayFromStart,
                FastForward, FastRewind, SetVolume, Cmds, VcrCmds
  <2>2. ASSUME NEW c \in Cmds, Post(c), dropped PROVE dropped'
    <3>1. dropped' = (dropped \/ Len(queue) >= QueueCap)
      BY <2>2 DEF Post
    <3> QED BY <2>2, <3>1, Zenon
  <2> QED BY <1>1, <2>1, <2>2
<1>2. CASE Thread
  BY <1>2 DEF Thread, Receive, Notice, PauseFlag, PauseOthers, BackFlag, Dispatch, Request, Finish,
              PlaySound, PlayState, Restart
<1> QED BY <1>1, <1>2 DEF Next, Stopped, vars, ServerNotice, HeartbeatLost

\* What taking a message does to it.
LEMMA TakeKeeps ==
  ASSUME TypeOK, SpeedWaits
  PROVE  Received \in Trick \/ \E i \in 1 .. Len(Rest) : Rest[i] \in Trick
<1>1. CASE queue = <<>>
  BY <1>1 DEF SpeedWaits
<1>2. CASE queue # <<>>
  <2>1. /\ Rest = Tail(queue) /\ Len(Rest) = Len(queue) - 1 /\ Len(queue) \in Nat
        /\ \A i \in 1 .. Len(Rest) : Rest[i] = queue[i + 1]
        /\ Received = queue[1]
    BY <1>2 DEF Rest, Received, TypeOK, QueueTypes
  <2>2. ASSUME NEW i \in 1 .. Len(queue), queue[i] \in Trick, i # 1
        PROVE  i - 1 \in 1 .. Len(Rest) /\ Rest[i - 1] = queue[i]
    BY <2>1, <2>2
  <2>3. PICK i \in 1 .. Len(queue) : queue[i] \in Trick
    BY DEF SpeedWaits
  <2>4. CASE i = 1
    BY <2>1, <2>3, <2>4
  <2>5. CASE i # 1
    BY <2>2, <2>3, <2>5
  <2> QED BY <2>4, <2>5
<1> QED BY <1>1, <1>2

LEMMA PageMode ==
  ASSUME TypeOK, ModeInv, Page, ~dropped', faults = 0, ~dropped
  PROVE  Faultless'
<1> USE DEF threadFrame, threadVars, outVars, envVars, flagVars, queueVars, Call
<1>1. UNCHANGED <<tpc, cmd, reqs, server, status, lost, mspeed, faults>>
  BY DEF Page, Pause, PauseTest, PauseMark, RewindMark, Resume, ClearAck, WaitEnds, PlayFromStart,
         FastForward, FastRewind, SetVolume
<1>2. /\ SpeedWaits => SpeedWaits'
      /\ (playspeed' = playspeed \/ SpeedWaits')
      /\ (UNCHANGED <<playerstate, known>> \/ ~known')
  <2>1. CASE PauseTest \/ PauseMark \/ RewindMark \/ ClearAck \/ WaitEnds
    <3>1. UNCHANGED <<queue, calls, playspeed, playerstate, known>>
      BY <2>1 DEF PauseTest, PauseMark, RewindMark, ClearAck, WaitEnds
    <3> QED BY <3>1 DEF SpeedWaits
  <2>2. CASE Pause \/ Resume \/ PlayFromStart \/ \E v \in Volumes : SetVolume(v)
    <3>1. /\ \E c \in Cmds : Post(c)
          /\ playspeed' = playspeed /\ (UNCHANGED <<playerstate, known>> \/ ~known')
      BY <2>2 DEF Pause, Resume, PlayFromStart, SetVolume, Cmds, VcrCmds
    <3> QED BY <3>1, PostKeeps
  <2>3. CASE \E s \in Speeds : FastForward(s) \/ FastRewind(s)
    <3>1. /\ \E c \in Trick : Post(c)
          /\ UNCHANGED <<playerstate, known>>
      BY <2>3 DEF FastForward, FastRewind, Trick
    <3>2. Trick \subseteq Cmds
      BY DEF Trick, Cmds, VcrCmds
    <3> QED BY <3>1, <3>2, PostKeeps
  <2> QED BY <2>1, <2>2, <2>3 DEF Page, Speeds
<1>3. NoFault' /\ (InHand' <=> InHand)
  BY <1>1 DEF ModeInv, Faultless, NoFault, InHand
<1>4. Settled'
  BY <1>1, <1>2, <1>3 DEF ModeInv, Faultless, Settled
<1>5. Sending'
  BY <1>1, <1>2 DEF ModeInv, Faultless, Sending, Scaled
<1>6. Playing'
  BY <1>1, <1>2 DEF ModeInv, Faultless, Playing
<1> QED BY <1>3, <1>4, <1>5, <1>6 DEF Faultless

LEMMA ThreadMode ==
  ASSUME TypeOK, ModeInv, Thread
  PROVE  ModeInv'
<1> USE DEF hold, outFrame, pageVars, threadVars, outVars, envVars, flagVars, queueVars, modeVars, Fault, End
<1>2. ASSUME faults' = 0, ~dropped' PROVE Faultless /\ faults = 0
  <2>1. dropped' = dropped
    BY DEF Thread, Receive, Notice, PauseFlag, PauseOthers, BackFlag, Dispatch, Request, Finish,
           PlaySound, PlayState, Restart
  <2>2. faults = 0
    BY <1>2 DEF Thread, Receive, Notice, PauseFlag, PauseOthers, BackFlag, Dispatch, Request,
                Finish, PlaySound, PlayState, Restart, TypeOK, OutTypes
  <2> QED BY <1>2, <2>1, <2>2 DEF ModeInv
<1> SUFFICES ASSUME faults' = 0, ~dropped' PROVE Faultless'
  BY DEF ModeInv
<1>3. Faultless /\ faults = 0
  BY <1>2
<1>4. CASE Receive
  <2>1. /\ SpeedWaits => SpeedWaits' \/ Received \in Trick
        /\ Received # "QUIT"
    BY <1>4, TakeKeeps, ReceiveTypes DEF Receive, SpeedWaits, ModeInv, TypeOK, Cmds, VcrCmds
  <2>2. CASE Received = "VOLUMECHANGE" /\ InRange
    <3>1. UNCHANGED <<tpc, cmd, playerstate, known, mspeed, server, status, lost, reqs>> /\ tpc = "poll"
          /\ (SpeedWaits => SpeedWaits')
      BY <1>4, <2>1, <2>2 DEF Receive, Trick
    <3> QED BY <1>3, <3>1 DEF Faultless, NoFault, Settled, Sending, Playing, InHand
  <2>3. CASE ~(Received = "VOLUMECHANGE" /\ InRange)
    <3>1. /\ UNCHANGED <<playerstate, known, mspeed, server, status, lost, reqs>> /\ tpc = "poll"
          /\ tpc' = "notice" /\ cmd' = Received
      BY <1>4, <2>3 DEF Receive
    <3>2. Received \in Trick => InHand'
      BY <3>1 DEF InHand, Trick, VcrCmds
    <3>3. ~InHand
      BY <3>1 DEF InHand
    <3> QED BY <1>3, <2>1, <3>1, <3>2, <3>3 DEF Faultless, NoFault, Settled, Sending, Playing
  <2> QED BY <2>2, <2>3
<1>5. CASE Notice \/ PauseFlag \/ PauseOthers \/ BackFlag
  <2>1. /\ UNCHANGED <<playerstate, known, mspeed, server, status, lost, reqs, queue>>
        /\ tpc \in {"notice", "pauseFlag", "others", "backFlag"}
        /\ tpc' \in {"pauseFlag", "others", "backFlag", "dispatch"}
        /\ cmd' \in VcrCmds \union {cmd}
    BY <1>3, <1>5 DEF Notice, PauseFlag, PauseOthers, BackFlag, VcrCmds, Faultless, NoFault
  <2>2. (SpeedWaits' <=> SpeedWaits) /\ (InHand => InHand') /\ cmd' # "QUIT"
    BY <1>3, <2>1 DEF SpeedWaits, InHand, VcrCmds, Faultless, NoFault
  <2> QED BY <1>3, <2>1, <2>2 DEF Faultless, NoFault, Settled, Sending, Playing
<1>6. CASE Dispatch
  <2>1. /\ UNCHANGED <<playerstate, known, mspeed, server, status, lost, queue>> /\ tpc = "dispatch"
        /\ \/ cmd \in VcrCmds /\ tpc' = "request" /\ reqs' = Requests(cmd) /\ cmd' = cmd
           \/ cmd \notin VcrCmds /\ tpc' = "poll" /\ cmd' = "NONE" /\ reqs' = reqs
    BY <1>3, <1>6 DEF Dispatch, Faultless, NoFault
  <2>2. CASE cmd \notin VcrCmds
    <3>1. (SpeedWaits' <=> SpeedWaits) /\ ~InHand
      BY <2>1, <2>2 DEF SpeedWaits, InHand
    <3> QED BY <1>3, <2>1, <2>2, <3>1 DEF Faultless, NoFault, Settled, Sending, Playing
  <2>3. CASE cmd \in VcrCmds
    <3>1. playerstate \in States
      BY DEF TypeOK, OutTypes
    <3>2. ASSUME cmd = "PLAY", known
          PROVE  reqs' \in {<<"PAUSE", "PLAY">>, <<"PLAY">>} \/ (reqs' = <<>> /\ server = Normal)
      BY <1>3, <2>1, <2>3, <3>1, <3>2
         DEF Requests, PlayRequests, Faultless, Settled, States, Trick
    <3>3. /\ cmd = "PAUSE" => reqs' = <<"PAUSE">>
          /\ cmd = "FASTFORWARD" => reqs' = <<"PAUSE", "FORWARD">>
          /\ cmd = "FASTBACKWARD" => reqs' = <<"PAUSE", "BACKWARD">>
      BY <2>1, <2>3 DEF Requests
    <3>4. Sending'
      BY <2>1, <2>3, <3>2, <3>3 DEF Sending
    <3> QED BY <1>3, <2>1, <2>3, <3>4 DEF Faultless, NoFault, Settled, Playing, VcrCmds
  <2> QED BY <2>2, <2>3
<1>7. CASE Request
  <2>1. /\ UNCHANGED <<playerstate, known, mspeed, status, lost, queue, cmd, tpc, playspeed>>
        /\ tpc = "request" /\ reqs # <<>>
        /\ server' = Served(Head(reqs)) /\ reqs' = Tail(reqs)
    BY <1>3, <1>7 DEF Request
  <2>2. Sending'
    <3>1. SpeedWaits' <=> SpeedWaits
      BY <2>1 DEF SpeedWaits
    <3>2. CASE cmd = "PAUSE"
      <4>1. reqs = <<"PAUSE">>
        BY <1>3, <2>1, <3>2 DEF Faultless, Sending
      <4>2. Head(reqs) = "PAUSE" /\ Tail(reqs) = <<>>
        BY <4>1
      <4>3. server' = Paused /\ reqs' = <<>>
        BY <2>1, <4>2 DEF Served, Paused
      <4> QED BY <2>1, <3>2, <4>3 DEF Sending
    <3>3. CASE cmd = "FASTFORWARD"
      <4>1. reqs \in {<<"PAUSE", "FORWARD">>, <<"FORWARD">>}
        BY <1>3, <2>1, <3>3 DEF Faultless, Sending
      <4>2. CASE reqs = <<"PAUSE", "FORWARD">>
        BY <2>1, <3>3, <4>2 DEF Sending
      <4>3. CASE reqs = <<"FORWARD">>
        BY <2>1, <3>3, <4>3 DEF Sending, Scaled, Served, Sent
      <4> QED BY <4>1, <4>2, <4>3
    <3>4. CASE cmd = "FASTBACKWARD"
      <4>1. reqs \in {<<"PAUSE", "BACKWARD">>, <<"BACKWARD">>}
        BY <1>3, <2>1, <3>4 DEF Faultless, Sending
      <4>2. CASE reqs = <<"PAUSE", "BACKWARD">>
        BY <2>1, <3>4, <4>2 DEF Sending
      <4>3. CASE reqs = <<"BACKWARD">>
        BY <2>1, <3>4, <4>3 DEF Sending, Scaled, Served, Sent
      <4> QED BY <4>1, <4>2, <4>3
    <3>5. CASE cmd = "PLAY"
      <4>1. CASE ~known
        BY <2>1, <3>5, <4>1 DEF Sending
      <4>2. CASE known
        <5>1. reqs \in {<<"PAUSE", "PLAY">>, <<"PLAY">>}
          BY <1>3, <2>1, <3>5, <4>2 DEF Faultless, Sending
        <5>2. CASE reqs = <<"PAUSE", "PLAY">>
          BY <2>1, <3>5, <5>2 DEF Sending
        <5>3. CASE reqs = <<"PLAY">>
          BY <2>1, <3>5, <5>3 DEF Sending, Served
        <5> QED BY <5>1, <5>2, <5>3
      <4> QED BY <4>1, <4>2
    <3> QED BY <2>1, <3>2, <3>3, <3>4, <3>5 DEF TypeOK, ThreadTypes, VcrCmds
  <2> QED BY <1>3, <2>1, <2>2 DEF Faultless, NoFault, Settled, Playing
<1>8. CASE Finish
  <2>1. /\ tpc = "request" /\ reqs = <<>> /\ cmd \in {"PAUSE", "FASTFORWARD", "FASTBACKWARD"}
        /\ UNCHANGED <<server, status, lost, queue, playspeed>>
        /\ tpc' \in {"poll", "restart"} /\ cmd' = "NONE"
        /\ playerstate' = (IF cmd = "PAUSE" THEN "PAUSED" ELSE cmd)
        /\ mspeed' = (IF cmd = "PAUSE" THEN 1 ELSE playspeed)
    BY <1>8 DEF Finish, TypeOK, ThreadTypes, VcrCmds
  <2>2. SpeedWaits' <=> SpeedWaits
    BY <2>1 DEF SpeedWaits
  <2>3. Settled'
    BY <1>3, <2>1, <2>2 DEF Faultless, Sending, Settled, Scaled, Trick
  <2> QED BY <1>3, <2>1, <2>3 DEF Faultless, NoFault, Sending, Playing
<1>9. CASE PlaySound
  <2>1. /\ tpc = "request" /\ reqs = <<>> /\ cmd = "PLAY" /\ tpc' = "playState"
        /\ UNCHANGED <<server, status, lost, cmd, known>>
    BY <1>9 DEF PlaySound
  <2> QED BY <1>3, <2>1 DEF Faultless, NoFault, Settled, Sending, Playing
<1>10. CASE PlayState
  <2>1. /\ tpc = "playState" /\ tpc' = "restart" /\ cmd' = "NONE" /\ UNCHANGED <<server, status, lost, known>>
        /\ playerstate' = "PLAYING" /\ mspeed' = 1
    BY <1>10 DEF PlayState
  <2> QED BY <1>3, <2>1 DEF Faultless, NoFault, Settled, Sending, Playing, Trick
<1>11. CASE Restart
  <2>1. /\ tpc = "restart" /\ tpc' = "poll"
        /\ UNCHANGED <<server, status, lost, known, cmd, playerstate, mspeed, queue>>
    BY <1>3, <1>11 DEF Restart
  <2>2. (SpeedWaits' <=> SpeedWaits) /\ ~InHand
    BY <2>1 DEF SpeedWaits, InHand
  <2> QED BY <1>3, <2>1, <2>2 DEF Faultless, NoFault, Settled, Sending, Playing
<1> QED BY <1>4, <1>5, <1>6, <1>7, <1>8, <1>9, <1>10, <1>11 DEF Thread

LEMMA NextModeInv ==
  ASSUME TypeOK, ModeInv, [Next]_vars
  PROVE  ModeInv'
<1>1. CASE Page
  <2>1. UNCHANGED faults
    BY <1>1 DEF Page, Pause, PauseTest, PauseMark, RewindMark, Resume, ClearAck, WaitEnds, PlayFromStart,
                FastForward, FastRewind, SetVolume, threadFrame
  <2> QED BY <1>1, <2>1, PageMode, DropStays DEF ModeInv
<1>2. CASE Thread BY <1>2, ThreadMode
<1>3. CASE ServerNotice \/ HeartbeatLost
  <2>1. faults' = faults + 1 /\ faults \in Nat
    BY <1>3, VcrAssumption DEF ServerNotice, HeartbeatLost, Fault, TypeOK, OutTypes, VcrAssumption
  <2> QED BY <2>1 DEF ModeInv
<1>4. CASE UNCHANGED vars
  BY <1>4 DEF vars, queueVars, modeVars, threadVars, outVars, envVars, ModeInv, Faultless,
              NoFault, Settled, Sending, Playing, SpeedWaits, InHand, Scaled
<1> QED BY <1>1, <1>2, <1>3, <1>4 DEF Next, Stopped

\* When nothing is under way and nothing failed, the mode the page is told is what the
\* server was asked for last, for any speeds and any number of calls, as long as the
\* queue took every message; the speed told is the scale sent but for a rewind, whose
\* scale is claimed up to its sign, and for a fast forward at a speed that cannot be told.
THEOREM ModeIsTrue == Spec => []ModeAgrees
<1>1. TypeOK /\ ModeInv /\ [Next]_vars => ModeInv'
  BY NextModeInv
<1>2. TypeOK /\ ModeInv => ModeAgrees
  <2> SUFFICES ASSUME TypeOK, ModeInv, Quiet, faults = 0, ~dropped PROVE ModeAgrees
    BY DEF ModeAgrees
  <2>1. known /\ tpc = "poll" /\ ~SpeedWaits /\ ~InHand /\ playerstate \in States
    BY DEF Quiet, Idle, SpeedWaits, InHand, TypeOK, OutTypes
  <2>2. Settled
    BY DEF ModeInv, Faultless
  <2> USE DEF ModeAgrees, Told, Trick
  <2>3. CASE playerstate = "PLAYING"
    <3>1. server = Normal /\ mspeed = 1
      BY <2>1, <2>2, <2>3 DEF Settled
    <3>2. server.play = "normal" /\ server.scale = Scale("normal", 1)
      BY <3>1 DEF Normal, Sent
    <3>3. Told = [mode |-> "Normal Play", speed |-> 1]
      BY <2>3
    <3> QED BY <2>3, <3>2, <3>3
  <2>4. CASE playerstate = "PAUSED"
    BY <2>1, <2>2, <2>4 DEF Settled, Paused, Sent, Scale
  <2>5. CASE playerstate = "FASTFORWARD"
    BY <2>1, <2>2, <2>5 DEF Settled
  <2>6. CASE playerstate = "FASTBACKWARD"
    BY <2>1, <2>2, <2>6 DEF Settled
  <2> QED BY <2>1, <2>2, <2>3, <2>4, <2>5, <2>6 DEF Settled, States
<1> QED BY <1>1, <1>2, InitModeInv, TypeCorrect, PTL DEF Spec

-----------------------------------------------------------------------------
(* The operation called last *)

Tricks == {"pause", "forward", "rewind", "resume"}
CommandOf(o) ==
  CASE o = "pause" -> "PAUSE" [] o = "forward" -> "FASTFORWARD"
    [] o = "rewind" -> "FASTBACKWARD" [] o = "resume" -> "PLAY"
Wanted == CommandOf(last)
PlayOf(c) ==
  CASE c = "PAUSE" -> "paused" [] c = "FASTFORWARD" -> "forward"
    [] c = "FASTBACKWARD" -> "backward" [] c = "PLAY" -> "normal"

\* The last command in a queue, if any, is the one wanted, or there is none.
WaitsIn(q) == \E i \in 1 .. Len(q) : q[i] = Wanted /\ \A j \in (i + 1) .. Len(q) : q[j] \notin VcrCmds
NoneIn(q) == \A i \in 1 .. Len(q) : q[i] \notin VcrCmds

\* The page's steps after a message belong to the operation called last.
Marks ==
  /\ cpc \in {"test", "trig", "others"} => last = "pause"
  /\ cpc = "mark" => last = "rewind"

\* The command of the last operation waits, is in hand, or has been carried out
\* with no other behind it.
OnItsWay ==
  \/ WaitsIn(queue)
  \/ NoneIn(queue) /\ cmd = Wanted
  \/ NoneIn(queue) /\ cmd \notin VcrCmds /\ (known => server.play = PlayOf(Wanted))

\* A mark that an earlier operation left meets the command of the last one.
MarksMeet ==
  /\ backInto /\ last # "rewind" =>
       \/ WaitsIn(queue)
       \/ NoneIn(queue) /\ cmd = Wanted /\ tpc \in {"notice", "pauseFlag", "others", "backFlag"}
  /\ pauseInto = "TRIG" /\ tvs /\ last # "pause" =>
       \/ WaitsIn(queue)
       \/ NoneIn(queue) /\ cmd = Wanted /\ tpc \in {"notice", "pauseFlag"}

\* Between two commands the thread has none in hand.
Hand ==
  /\ tpc \in {"poll", "restart", "ended"} => cmd = "NONE"
  /\ tpc = "playState" => cmd = "PLAY"

LastInv ==
  /\ Marks /\ Hand
  /\ faults = 0 /\ ~replaced /\ ~dropped /\ last \in Tricks => OnItsWay /\ MarksMeet

LEMMA InitLastInv == Init => LastInv
BY DEF Init, LastInv, Marks, Hand, Tricks

LEMMA WantedIsCommand == ASSUME last \in Tricks PROVE Wanted \in VcrCmds
BY DEF Tricks, Wanted, CommandOf, VcrCmds

\* What a call does to the last command in the queue.
LEMMA PostLast ==
  ASSUME TypeOK, NEW c \in Cmds, Post(c), ~dropped'
  PROVE  /\ c = Wanted' => WaitsIn(queue)'
         /\ c \notin VcrCmds /\ UNCHANGED last =>
              (WaitsIn(queue) => WaitsIn(queue)') /\ (NoneIn(queue) => NoneIn(queue)')
<1>1. Len(queue) \in Nat
  BY PostAppends
<1>3. /\ Len(queue') = Len(queue) + 1
      /\ \A i \in 1 .. Len(queue) : queue'[i] = queue[i]
      /\ queue'[Len(queue) + 1] = c
  BY PostAppends
<1>4. ASSUME c = Wanted' PROVE WaitsIn(queue)'
  <2>1. /\ Len(queue') \in 1 .. Len(queue') /\ queue'[Len(queue')] = Wanted'
        /\ (Len(queue') + 1) .. Len(queue') = {}
    BY <1>1, <1>3, <1>4
  <2> QED BY <2>1 DEF WaitsIn
<1>5. ASSUME c \notin VcrCmds, UNCHANGED last, WaitsIn(queue) PROVE WaitsIn(queue)'
  <2>1. Wanted' = Wanted
    BY <1>5 DEF Wanted
  <2>2. PICK i \in 1 .. Len(queue) :
          queue[i] = Wanted /\ \A j \in (i + 1) .. Len(queue) : queue[j] \notin VcrCmds
    BY <1>5 DEF WaitsIn
  <2>3. ASSUME NEW j \in (i + 1) .. Len(queue') PROVE queue'[j] \notin VcrCmds
    BY <1>1, <1>3, <1>5, <2>2
  <2>4. i \in 1 .. Len(queue') /\ queue'[i] = Wanted'
    BY <1>1, <1>3, <2>1, <2>2
  <2> QED BY <2>3, <2>4 DEF WaitsIn
<1>6. ASSUME c \notin VcrCmds, NoneIn(queue) PROVE NoneIn(queue)'
  BY <1>1, <1>3, <1>6 DEF NoneIn
<1> QED BY <1>4, <1>5, <1>6

\* What taking a message does to it.
LEMMA TakeLast ==
  ASSUME TypeOK, queue' = Rest, UNCHANGED last
  PROVE  /\ WaitsIn(queue) => WaitsIn(queue)' \/ (NoneIn(queue)' /\ Received = Wanted)
         /\ NoneIn(queue) => NoneIn(queue)' /\ Received \notin VcrCmds
<1>1. CASE queue = <<>>
  BY <1>1 DEF Rest, Received, WaitsIn, NoneIn, VcrCmds
<1>2. CASE queue # <<>>
  <2>1. /\ Len(queue') = Len(queue) - 1 /\ Len(queue) \in Nat \ {0}
        /\ \A i \in 1 .. Len(queue') : queue'[i] = queue[i + 1]
        /\ Received = queue[1]
    BY <1>2 DEF Rest, Received, TypeOK, QueueTypes
  <2>2. NoneIn(queue) => NoneIn(queue)' /\ Received \notin VcrCmds
    BY <2>1 DEF NoneIn
  <2>3. ASSUME WaitsIn(queue) PROVE WaitsIn(queue)' \/ (NoneIn(queue)' /\ Received = Wanted)
    <3>0. Wanted' = Wanted
      BY DEF Wanted
    <3>1. PICK i \in 1 .. Len(queue) :
            queue[i] = Wanted /\ \A j \in (i + 1) .. Len(queue) : queue[j] \notin VcrCmds
      BY <2>3 DEF WaitsIn
    <3>2. CASE i = 1
      <4>1. \A j \in 1 .. Len(queue') : queue'[j] \notin VcrCmds
        BY <2>1, <3>1, <3>2
      <4> QED BY <2>1, <3>1, <3>2, <4>1 DEF NoneIn
    <3>3. CASE i # 1
      <4>1. i - 1 \in 1 .. Len(queue') /\ queue'[i - 1] = Wanted'
        BY <2>1, <3>0, <3>1, <3>3
      <4>2. ASSUME NEW j \in ((i - 1) + 1) .. Len(queue') PROVE queue'[j] \notin VcrCmds
        BY <2>1, <3>1
      <4> QED BY <4>1, <4>2 DEF WaitsIn
    <3> QED BY <3>2, <3>3
  <2> QED BY <2>2, <2>3
<1> QED BY <1>1, <1>2

LEMMA PageLast ==
  ASSUME TypeOK, LastInv, Page
  PROVE  LastInv'
<1> USE DEF threadFrame, threadVars, outVars, envVars, flagVars, queueVars, Call
<1>1. UNCHANGED <<tpc, cmd, server, faults, replaced, tvs>>
  BY DEF Page, Pause, PauseTest, PauseMark, RewindMark, Resume, ClearAck, WaitEnds, PlayFromStart,
         FastForward, FastRewind, SetVolume
<1>2. Marks' /\ Hand'
  <2>1. Marks'
    BY DEF Page, Pause, PauseTest, PauseMark, RewindMark, Resume, ClearAck, WaitEnds, PlayFromStart,
           FastForward, FastRewind, SetVolume, LastInv, Marks
  <2> QED BY <1>1, <2>1 DEF LastInv, Hand
<1> SUFFICES ASSUME faults = 0, ~replaced, ~dropped', ~dropped, last' \in Tricks
             PROVE  OnItsWay' /\ MarksMeet'
  BY <1>1, <1>2, DropStays DEF LastInv, Next
<1>3. CASE PauseTest \/ PauseMark \/ RewindMark \/ ClearAck \/ WaitEnds
  <2>1. UNCHANGED <<last, queue, known>> /\ OnItsWay /\ MarksMeet
    BY <1>3 DEF PauseTest, PauseMark, RewindMark, ClearAck, WaitEnds, LastInv
  <2>2. (WaitsIn(queue)' <=> WaitsIn(queue)) /\ (NoneIn(queue)' <=> NoneIn(queue)) /\ Wanted' = Wanted
    BY <2>1 DEF WaitsIn, NoneIn, Wanted
  <2>3. backInto' /\ last # "rewind" => backInto
    BY <1>3 DEF PauseTest, PauseMark, RewindMark, ClearAck, WaitEnds, LastInv, Marks
  <2>4. pauseInto' = "TRIG" /\ last # "pause" => pauseInto = "TRIG"
    BY <1>3 DEF PauseTest, PauseMark, RewindMark, ClearAck, WaitEnds, LastInv, Marks
  <2>5. OnItsWay'
    BY <1>1, <2>1, <2>2 DEF OnItsWay
  <2>6. MarksMeet'
    BY <1>1, <2>1, <2>2, <2>3, <2>4 DEF MarksMeet
  <2> QED BY <2>5, <2>6
<1>4. CASE Pause \/ Resume \/ \E s \in Speeds : FastForward(s) \/ FastRewind(s)
  <2>1. Wanted' \in Cmds /\ Post(Wanted')
    BY <1>4 DEF Pause, Resume, FastForward, FastRewind, Wanted, CommandOf, Cmds, VcrCmds
  <2>2. WaitsIn(queue)'
    BY <2>1, PostLast
  <2> QED BY <2>2 DEF OnItsWay, MarksMeet
<1>5. CASE \E v \in Volumes : SetVolume(v)
  <2>1. /\ Post("VOLUMECHANGE") /\ UNCHANGED <<last, known, backInto, pauseInto>>
        /\ OnItsWay /\ MarksMeet
    BY <1>5 DEF SetVolume, LastInv
  <2>2. "VOLUMECHANGE" \in Cmds \ VcrCmds
    BY DEF Cmds, VcrCmds
  <2>3. (WaitsIn(queue) => WaitsIn(queue)') /\ (NoneIn(queue) => NoneIn(queue)') /\ Wanted' = Wanted
    BY <2>1, <2>2, PostLast DEF Wanted
  <2> QED BY <1>1, <2>1, <2>3 DEF OnItsWay, MarksMeet
<1>6. CASE PlayFromStart
  BY <1>6 DEF PlayFromStart, Tricks
<1> QED BY <1>3, <1>4, <1>5, <1>6 DEF Page, Speeds

LEMMA ThreadLast ==
  ASSUME TypeOK, ModeInv, LastInv, Thread
  PROVE  LastInv'
<1> USE DEF hold, outFrame, pageVars, threadVars, outVars, envVars, flagVars, queueVars, modeVars, Fault, End
<1>1. UNCHANGED <<last, cpc, tvs>>
  BY DEF Thread, Receive, Notice, PauseFlag, PauseOthers, BackFlag, Dispatch, Request, Finish,
         PlaySound, PlayState, Restart
<1>2. Marks'
  BY <1>1 DEF LastInv, Marks
<1>3. Hand'
  BY DEF Thread, Receive, Notice, PauseFlag, PauseOthers, BackFlag, Dispatch, Request, Finish,
         PlaySound, PlayState, Restart, LastInv, Hand
<1> SUFFICES ASSUME faults' = 0, ~replaced', ~dropped', last \in Tricks PROVE OnItsWay' /\ MarksMeet'
  BY <1>1, <1>2, <1>3 DEF LastInv
<1>4. faults = 0 /\ ~replaced /\ ~dropped
  <2>1. faults = 0
    BY DEF Thread, Receive, Notice, PauseFlag, PauseOthers, BackFlag, Dispatch, Request,
           Finish, PlaySound, PlayState, Restart, TypeOK, OutTypes
  <2>0. dropped' = dropped
    BY DEF Thread, Receive, Notice, PauseFlag, PauseOthers, BackFlag, Dispatch, Request,
           Finish, PlaySound, PlayState, Restart
  <2>2. CASE PauseFlag \/ BackFlag
    <3>1. replaced => replaced'
      BY <2>2, Zenon DEF PauseFlag, BackFlag
    <3> QED BY <2>0, <2>1, <3>1
  <2>3. CASE ~PauseFlag /\ ~BackFlag
    <3>1. UNCHANGED replaced
      BY <2>3 DEF Thread, Receive, Notice, PauseOthers, Dispatch, Request, Finish, PlaySound,
                  PlayState, Restart
    <3> QED BY <2>0, <2>1, <3>1
  <2> QED BY <2>2, <2>3
<1>5. OnItsWay /\ MarksMeet /\ Hand /\ Faultless /\ Wanted' = Wanted /\ Wanted \in VcrCmds
  BY <1>1, <1>4, WantedIsCommand DEF LastInv, ModeInv, Wanted
<1>6. ASSUME UNCHANGED queue
      PROVE  (WaitsIn(queue)' <=> WaitsIn(queue)) /\ (NoneIn(queue)' <=> NoneIn(queue))
  BY <1>1, <1>6 DEF WaitsIn, NoneIn, Wanted
<1>7. CASE Receive
  <2>1. /\ tpc = "poll" /\ cmd = "NONE" /\ queue' = Rest /\ cmd \notin VcrCmds
        /\ UNCHANGED <<server, known, backInto, pauseInto>>
    BY <1>5, <1>7 DEF Receive, Hand, VcrCmds
  <2>2. /\ WaitsIn(queue) => WaitsIn(queue)' \/ (NoneIn(queue)' /\ Received = Wanted)
        /\ NoneIn(queue) => NoneIn(queue)' /\ Received \notin VcrCmds
    BY <1>1, <2>1, TakeLast
  <2>3. CASE Received = "VOLUMECHANGE" /\ InRange
    <3>1. UNCHANGED <<tpc, cmd>> /\ Received # Wanted
      BY <1>5, <1>7, <2>3 DEF Receive, VcrCmds
    <3> QED BY <1>1, <1>5, <2>1, <2>2, <3>1 DEF OnItsWay, MarksMeet
  <2>4. CASE ~(Received = "VOLUMECHANGE" /\ InRange)
    <3>1. tpc' = "notice" /\ cmd' = Received
      BY <1>7, <2>4 DEF Receive
    <3> QED BY <1>1, <1>5, <2>1, <2>2, <3>1 DEF OnItsWay, MarksMeet
  <2> QED BY <2>3, <2>4
<1>8. CASE Notice \/ PauseOthers
  <2>1. /\ UNCHANGED <<queue, server, known, cmd, backInto>> /\ tpc \in {"notice", "others"}
        /\ tpc' = (IF tpc = "notice" THEN "pauseFlag" ELSE "backFlag")
        /\ pauseInto' = pauseInto \/ pauseInto' = "OTHERS"
    BY <1>5, <1>8 DEF Notice, PauseOthers, Faultless, NoFault
  <2> QED BY <1>1, <1>5, <1>6, <2>1 DEF OnItsWay, MarksMeet
<1>9. CASE PauseFlag
  <2>1. /\ UNCHANGED <<queue, server, known, backInto>> /\ tpc = "pauseFlag"
        /\ tpc' \in {"backFlag", "others"}
        /\ \/ pauseInto = "TRIG" /\ tvs /\ pauseInto' = "OTHERS" /\ cmd' = "PAUSE" /\ cmd \in {"PAUSE", "NONE"}
           \/ ~(pauseInto = "TRIG" /\ tvs) /\ pauseInto' = pauseInto /\ cmd' = cmd
    <3>1. CASE pauseInto = "TRIG" /\ tvs
      <4>1. replaced' = (replaced \/ cmd \notin {"PAUSE", "NONE"})
        BY <1>9, <3>1 DEF PauseFlag
      <4>2. cmd \in {"PAUSE", "NONE"}
        BY <4>1
      <4> QED BY <1>4, <1>9, <3>1, <4>2 DEF PauseFlag
    <3>2. CASE ~(pauseInto = "TRIG" /\ tvs)
      BY <1>9, <3>2 DEF PauseFlag
    <3> QED BY <3>1, <3>2
  <2>2. CASE pauseInto = "TRIG" /\ tvs
    <3>1. WaitsIn(queue) \/ (NoneIn(queue) /\ cmd' = Wanted)
      <4>1. CASE last = "pause"
        BY <1>5, <2>1, <2>2, <4>1 DEF OnItsWay, Wanted, CommandOf
      <4>2. CASE last # "pause"
        <5>1. Wanted # "PAUSE" /\ Wanted # "NONE"
          BY <4>2 DEF Wanted, CommandOf, Tricks
        <5> QED BY <1>5, <2>1, <2>2, <4>2, <5>1 DEF MarksMeet
      <4> QED BY <4>1, <4>2
    <3> QED BY <1>1, <1>5, <1>6, <2>1, <2>2, <3>1 DEF OnItsWay, MarksMeet
  <2>3. CASE ~(pauseInto = "TRIG" /\ tvs)
    BY <1>1, <1>5, <1>6, <2>1, <2>3 DEF OnItsWay, MarksMeet
  <2> QED BY <2>2, <2>3
<1>10. CASE BackFlag
  <2>1. /\ UNCHANGED <<queue, server, known, pauseInto>> /\ tpc = "backFlag" /\ tpc' = "dispatch"
        /\ ~backInto'
        /\ \/ backInto /\ cmd' = "FASTBACKWARD" /\ cmd \in {"FASTBACKWARD", "NONE"}
           \/ ~backInto /\ cmd' = cmd
    BY <1>4, <1>10 DEF BackFlag
  <2>2. CASE backInto
    <3>1. WaitsIn(queue) \/ (NoneIn(queue) /\ cmd' = Wanted)
      <4>1. CASE last = "rewind"
        BY <1>5, <2>1, <2>2, <4>1 DEF OnItsWay, Wanted, CommandOf
      <4>2. CASE last # "rewind"
        <5>1. Wanted # "FASTBACKWARD" /\ Wanted # "NONE"
          BY <4>2 DEF Wanted, CommandOf, Tricks
        <5> QED BY <1>5, <2>1, <2>2, <4>2, <5>1 DEF MarksMeet
      <4> QED BY <4>1, <4>2
    <3> QED BY <1>1, <1>5, <1>6, <2>1, <2>2, <3>1 DEF OnItsWay, MarksMeet
  <2>3. CASE ~backInto
    BY <1>1, <1>5, <1>6, <2>1, <2>3 DEF OnItsWay, MarksMeet
  <2> QED BY <2>2, <2>3
<1>11. CASE Dispatch
  <2>1. /\ UNCHANGED <<queue, server, known, pauseInto, backInto>> /\ tpc = "dispatch"
        /\ cmd \in VcrCmds => cmd' = cmd
        /\ cmd \notin VcrCmds => cmd' = "NONE"
    BY <1>5, <1>11 DEF Dispatch, Faultless, NoFault
  <2> QED BY <1>1, <1>5, <1>6, <2>1 DEF OnItsWay, MarksMeet, VcrCmds
<1>12. CASE Request \/ PlaySound
  <2>1. /\ UNCHANGED <<queue, known, cmd, pauseInto, backInto>> /\ tpc = "request" /\ cmd \in VcrCmds
    BY <1>12 DEF Request, PlaySound, TypeOK, ThreadTypes
  <2> QED BY <1>1, <1>5, <1>6, <2>1 DEF OnItsWay, MarksMeet
<1>13. CASE Finish \/ PlayState
  <2>1. /\ UNCHANGED <<queue, server, pauseInto, backInto>> /\ tpc \in {"request", "playState"}
        /\ cmd' = "NONE" /\ cmd \in VcrCmds /\ (PlayState => UNCHANGED known)
    BY <1>5, <1>13 DEF Finish, PlayState, TypeOK, ThreadTypes, Hand, VcrCmds
  <2>2. known' => server.play = PlayOf(cmd)
    <3>1. CASE PlayState
      BY <1>5, <2>1, <3>1 DEF PlayState, Hand, Faultless, Playing, PlayOf, Normal, Sent
    <3>2. CASE Finish
      BY <1>5, <2>1, <3>2 DEF Finish, Faultless, Sending, Scaled, PlayOf, Paused, Sent, VcrCmds
    <3> QED BY <1>13, <3>1, <3>2
  <2> QED BY <1>1, <1>5, <1>6, <2>1, <2>2 DEF OnItsWay, MarksMeet, VcrCmds
<1>14. CASE Restart
  <2>1. UNCHANGED <<queue, server, known, cmd, pauseInto, backInto>> /\ tpc = "restart"
    BY <1>5, <1>14 DEF Restart, Hand
  <2> QED BY <1>1, <1>5, <1>6, <2>1 DEF OnItsWay, MarksMeet
<1> QED
  BY <1>7, <1>8, <1>9, <1>10, <1>11, <1>12, <1>13, <1>14 DEF Thread

LEMMA NextLastInv ==
  ASSUME TypeOK, ModeInv, LastInv, [Next]_vars
  PROVE  LastInv'
<1>1. CASE Page BY <1>1, PageLast
<1>2. CASE Thread BY <1>2, ThreadLast
<1>3. CASE ServerNotice \/ HeartbeatLost
  <2>1. UNCHANGED <<cpc, last, tpc, cmd>> /\ faults' = faults + 1 /\ faults \in Nat
    BY <1>3, VcrAssumption DEF ServerNotice, HeartbeatLost, Fault, pageVars, threadVars, TypeOK, OutTypes,
       VcrAssumption
  <2> QED BY <2>1 DEF LastInv, Marks, Hand
<1>4. CASE UNCHANGED vars
  <2>1. UNCHANGED <<cpc, last, queue, tpc, cmd, server, known, backInto, pauseInto, tvs, faults, replaced,
                  dropped>>
    BY <1>4 DEF vars, pageVars, queueVars, flagVars, modeVars, threadVars
  <2> QED BY <2>1 DEF LastInv, Marks, Hand, OnItsWay, MarksMeet, WaitsIn, NoneIn, Wanted
<1> QED BY <1>1, <1>2, <1>3, <1>4 DEF Next, Stopped

\* The operation called last decides what the server plays once nothing is under
\* way, unless a mark replaced a command, the queue was full or something failed.
THEOREM LastOneWins == Spec => []LastCommandWins
<1>1. TypeOK /\ ModeInv /\ LastInv /\ [Next]_vars => ModeInv' /\ LastInv'
  BY NextModeInv, NextLastInv
<1>2. LastInv => LastCommandWins
  <2> SUFFICES ASSUME LastInv, Quiet, faults = 0, ~replaced, ~dropped, last \in Tricks
               PROVE  LastCommandWins
    BY DEF LastCommandWins, Tricks
  <2>1. known /\ cmd = "NONE" /\ queue = <<>>
    BY DEF Quiet, Idle, LastInv, Hand
  <2>2. ~WaitsIn(queue) /\ cmd # Wanted
    BY <2>1 DEF WaitsIn, Wanted, CommandOf, Tricks
  <2>3. server.play = PlayOf(Wanted)
    BY <2>1, <2>2 DEF LastInv, OnItsWay
  <2> QED BY <2>3 DEF LastCommandWins, Wanted, CommandOf, PlayOf
<1> QED BY <1>1, <1>2, InitModeInv, InitLastInv, TypeCorrect, PTL DEF Spec

-----------------------------------------------------------------------------
(* Normal play *)

\* The page's last change of the volume waits in the queue.
VolumeWaits == \E i \in 1 .. Len(queue) : queue[i] = "VOLUMECHANGE"
Sounds == volume <= MaxVolume => sound = volume \/ VolumeWaits

\* A command is in hand that leaves PLAYING, or gives the sound back.  Before the
\* mark of a pause is looked at, only a notice, a first failure, can owe it.
Due ==
  /\ tpc \in {"pauseFlag", "others", "backFlag", "dispatch", "request"} /\ cmd \in VcrCmds
  /\ tpc = "pauseFlag" => faults >= 1

Plays    == known /\ playerstate = "PLAYING"
SoundInv ==
  /\ status # "none" => faults >= 1
  /\ faults <= 1 /\ ~dropped =>
       (tpc = "playState" => Sounds) /\ (Plays => Sounds \/ Due \/ tpc = "ended")

\* I frames are left again, or the command that will see to it is in hand.
PictureInv ==
  faults = 0 /\ decode = "I" =>
    \/ ~Plays
    \/ tpc \in {"backFlag", "dispatch", "request"} /\ cmd \in VcrCmds
    \/ tpc \in {"playState", "restart", "ended"}

PlayInv == SoundInv /\ PictureInv

LEMMA InitPlayInv == Init => PlayInv
BY DEF Init, PlayInv, SoundInv, PictureInv, Plays

\* What a call does to a change of the volume that waits.
LEMMA PostVolume ==
  ASSUME TypeOK, NEW c \in Cmds, Post(c), ~dropped'
  PROVE  (VolumeWaits => VolumeWaits') /\ (c = "VOLUMECHANGE" => VolumeWaits')
BY PostAppends DEF VolumeWaits

\* What taking a message does to it.
LEMMA TakeVolume ==
  ASSUME TypeOK, queue' = Rest
  PROVE  VolumeWaits => VolumeWaits' \/ Received = "VOLUMECHANGE"
<1>1. CASE queue = <<>>
  BY <1>1 DEF VolumeWaits
<1>2. CASE queue # <<>>
  <2>1. /\ Len(queue') = Len(queue) - 1 /\ Len(queue) \in Nat
        /\ \A i \in 1 .. Len(queue') : queue'[i] = queue[i + 1]
        /\ Received = queue[1]
    BY <1>2 DEF Rest, Received, TypeOK, QueueTypes
  <2>2. ASSUME NEW i \in 1 .. Len(queue), queue[i] = "VOLUMECHANGE", i # 1
        PROVE  i - 1 \in 1 .. Len(queue') /\ queue'[i - 1] = "VOLUMECHANGE"
    BY <2>1, <2>2
  <2> QED BY <2>1, <2>2 DEF VolumeWaits
<1> QED BY <1>1, <1>2

LEMMA PagePlay ==
  ASSUME TypeOK, PlayInv, Page
  PROVE  PlayInv'
<1> USE DEF threadFrame, threadVars, outVars, envVars, flagVars, queueVars, Call
<1>1. UNCHANGED <<tpc, cmd, sound, decode, status, faults>>
  BY DEF Page, Pause, PauseTest, PauseMark, RewindMark, Resume, ClearAck, WaitEnds, PlayFromStart,
         FastForward, FastRewind, SetVolume
<1>2. ASSUME ~dropped' PROVE (UNCHANGED volume /\ (VolumeWaits => VolumeWaits')) \/ VolumeWaits'
  <2>1. CASE PauseTest \/ PauseMark \/ RewindMark \/ ClearAck \/ WaitEnds
    <3>1. UNCHANGED <<queue, volume>>
      BY <2>1 DEF PauseTest, PauseMark, RewindMark, ClearAck, WaitEnds
    <3> QED BY <3>1 DEF VolumeWaits
  <2>2. CASE Pause \/ Resume \/ PlayFromStart \/ \E s \in Speeds : FastForward(s) \/ FastRewind(s)
    <3>1. UNCHANGED volume /\ \E c \in Cmds : Post(c)
      BY <2>2 DEF Pause, Resume, PlayFromStart, FastForward, FastRewind, Cmds, VcrCmds
    <3> QED BY <1>2, <3>1, PostVolume
  <2>3. CASE \E v \in Volumes : SetVolume(v)
    <3>1. Post("VOLUMECHANGE") /\ "VOLUMECHANGE" \in Cmds
      BY <2>3 DEF SetVolume, Cmds
    <3> QED BY <1>2, <3>1, PostVolume
  <2> QED BY <2>1, <2>2, <2>3 DEF Page, Speeds
<1>3. Plays' => Plays
  BY DEF Plays, Page, Pause, PauseTest, PauseMark, RewindMark, Resume, ClearAck, WaitEnds,
         PlayFromStart, FastForward, FastRewind, SetVolume
<1>4. (~dropped' /\ Sounds => Sounds') /\ (Due' <=> Due) /\ (~dropped' => ~dropped)
  BY <1>1, <1>2, DropStays DEF Sounds, Due, Next
<1> QED BY <1>1, <1>3, <1>4 DEF PlayInv, SoundInv, PictureInv

\* Receive is the one step of the thread that takes a message.
LEMMA ReceivePlay ==
  ASSUME TypeOK, PlayInv, Receive
  PROVE  PlayInv'
<1> USE DEF hold, pageVars, modeVars, flagVars, envVars
<1>1. /\ UNCHANGED <<volume, playerstate, known, status, decode, faults, dropped>> /\ queue' = Rest
      /\ tpc = "poll" /\ tpc' \in {"poll", "notice"}
  BY DEF Receive
<1>2. (VolumeWaits => VolumeWaits' \/ Received = "VOLUMECHANGE")
  BY <1>1, TakeVolume
<1>3. Sounds => Sounds'
  <2>1. CASE Received = "VOLUMECHANGE" /\ InRange
    BY <1>1, <2>1 DEF Receive, Sounds
  <2>2. CASE Received = "VOLUMECHANGE" /\ ~InRange
    BY <1>1, <2>2 DEF InRange, Sounds
  <2>3. CASE Received # "VOLUMECHANGE"
    BY <1>1, <1>2, <2>3 DEF Receive, Sounds
  <2> QED BY <2>1, <2>2, <2>3
<1> QED BY <1>1, <1>3 DEF PlayInv, SoundInv, PictureInv, Plays, Due

LEMMA ThreadPlay ==
  ASSUME TypeOK, PlayInv, Thread
  PROVE  PlayInv'
<1> USE DEF hold, outFrame, pageVars, threadVars, outVars, envVars, flagVars, queueVars, modeVars, End
<1>1. CASE Receive
  BY <1>1, ReceivePlay
<1> SUFFICES ASSUME ~Receive PROVE PlayInv'
  BY <1>1
<1>2. UNCHANGED <<queueVars, volume>> /\ faults \in Nat /\ faults' \in {faults, faults + 1}
  BY VcrAssumption
     DEF Thread, Notice, PauseFlag, PauseOthers, BackFlag, Dispatch, Request, Finish, PlaySound,
         PlayState, Restart, Fault, TypeOK, OutTypes, VcrAssumption
<1>3. (VolumeWaits' <=> VolumeWaits) /\ (sound' = sound => (Sounds' <=> Sounds)) /\ dropped' = dropped
  BY <1>2 DEF VolumeWaits, Sounds
<1>4. CASE Notice
  <2>1. /\ UNCHANGED <<sound, decode, known, faults>> /\ tpc = "notice" /\ tpc' = "pauseFlag"
        /\ status' = "none"
        /\ \/ status = "play" /\ cmd' = "PLAY"
           \/ playerstate' = playerstate
    BY <1>4 DEF Notice
  <2>2. CASE status = "play" /\ cmd' = "PLAY"
    <3>1. Due' /\ status # "none"
      BY <2>1, <2>2 DEF Due, VcrCmds, PlayInv, SoundInv
    <3> QED BY <1>2, <2>1, <3>1 DEF PlayInv, SoundInv, PictureInv
  <2>3. CASE playerstate' = playerstate
    <3>1. (Plays' <=> Plays) /\ ~Due
      BY <2>1, <2>3 DEF Plays, Due
    <3> QED BY <1>2, <1>3, <2>1, <3>1 DEF PlayInv, SoundInv, PictureInv
  <2> QED BY <2>1, <2>2, <2>3
<1>5. CASE PauseFlag
  <2>1. /\ UNCHANGED <<sound, known, playerstate, status>> /\ tpc = "pauseFlag"
        /\ \/ cmd' = "PAUSE" /\ tpc' = "backFlag" /\ faults' = faults
           \/ faults' = faults + 1 /\ tpc' = "poll"
           \/ tpc' = "others" /\ UNCHANGED <<cmd, decode, faults>>
    BY <1>5 DEF PauseFlag, Fault
  <2>2. CASE cmd' = "PAUSE" /\ tpc' = "backFlag" /\ faults' = faults
    BY <1>3, <2>1, <2>2 DEF PlayInv, SoundInv, PictureInv, Plays, Due, VcrCmds
  <2>3. CASE faults' = faults + 1 /\ tpc' = "poll"
    BY <1>2, <1>3, <2>1, <2>3 DEF PlayInv, SoundInv, PictureInv, Plays, Due
  <2>4. CASE tpc' = "others" /\ UNCHANGED <<cmd, decode, faults>>
    BY <1>3, <2>1, <2>4 DEF PlayInv, SoundInv, PictureInv, Plays, Due
  <2> QED BY <2>1, <2>2, <2>3, <2>4
<1>6. CASE PauseOthers \/ BackFlag
  <2>1. /\ UNCHANGED <<sound, decode, known, playerstate, status, faults>>
        /\ \/ tpc = "others" /\ tpc' = "backFlag"
           \/ tpc = "backFlag" /\ tpc' = "dispatch"
        /\ cmd' = cmd \/ cmd' = "FASTBACKWARD"
    BY <1>6 DEF PauseOthers, BackFlag
  <2> QED BY <1>3, <2>1 DEF PlayInv, SoundInv, PictureInv, Plays, Due, VcrCmds
<1>7. CASE Dispatch
  <2>1. /\ UNCHANGED <<sound, decode, known, playerstate, status, faults>> /\ tpc = "dispatch"
        /\ \/ tpc' = "ended"
           \/ tpc' = "request" /\ cmd' = cmd
           \/ tpc' = "poll" /\ cmd \notin VcrCmds
    BY <1>7 DEF Dispatch
  <2> QED BY <1>3, <2>1 DEF PlayInv, SoundInv, PictureInv, Plays, Due
<1>8. CASE Request
  <2>1. UNCHANGED <<sound, decode, known, playerstate, status, tpc, cmd>> /\ tpc = "request"
    BY <1>8 DEF Request
  <2> QED BY <1>2, <1>3, <2>1 DEF PlayInv, SoundInv, PictureInv, Plays, Due
<1>9. CASE Finish
  <2>1. /\ tpc \notin {"playState"} /\ tpc' \in {"poll", "restart"} /\ UNCHANGED <<status, faults>>
        /\ playerstate' \in {"PAUSED", "FASTFORWARD", "FASTBACKWARD"}
    BY <1>9 DEF Finish, TypeOK, ThreadTypes, VcrCmds
  <2> QED BY <2>1 DEF PlayInv, SoundInv, PictureInv, Plays
<1>10. CASE PlaySound
  <2>1. tpc' = "playState" /\ sound' = SoundBack /\ UNCHANGED <<status, faults>>
    BY <1>10 DEF PlaySound
  <2>2. Sounds'
    BY <1>2, <2>1 DEF Sounds, SoundBack
  <2> QED BY <2>1, <2>2 DEF PlayInv, SoundInv, PictureInv
<1>11. CASE PlayState
  <2>1. tpc = "playState" /\ tpc' = "restart" /\ UNCHANGED <<status, faults, sound>>
    BY <1>11 DEF PlayState
  <2> QED BY <1>3, <2>1 DEF PlayInv, SoundInv, PictureInv
<1>12. CASE Restart
  <2>1. /\ tpc = "restart" /\ UNCHANGED <<status, sound, known, playerstate>>
        /\ decode' = "NORMAL" \/ (tpc' = "ended" /\ faults' = faults + 1)
        /\ tpc' \in {"poll", "ended"}
    BY <1>12 DEF Restart, Fault
  <2> QED BY <1>2, <1>3, <2>1 DEF PlayInv, SoundInv, PictureInv, Plays, Due
<1> QED BY <1>4, <1>5, <1>6, <1>7, <1>8, <1>9, <1>10, <1>11, <1>12 DEF Thread

LEMMA NextPlayInv ==
  ASSUME TypeOK, PlayInv, [Next]_vars
  PROVE  PlayInv'
<1>1. CASE Page BY <1>1, PagePlay
<1>2. CASE Thread BY <1>2, ThreadPlay
<1>3. CASE ServerNotice \/ HeartbeatLost
  <2>1. /\ UNCHANGED <<queue, dropped, volume, sound, decode, known, playerstate, tpc, cmd>>
        /\ faults \in Nat /\ faults' = faults + 1
    BY <1>3, VcrAssumption
       DEF ServerNotice, HeartbeatLost, Fault, queueVars, pageVars, threadVars, outVars, modeVars, TypeOK,
           OutTypes, VcrAssumption
  <2> QED BY <2>1 DEF PlayInv, SoundInv, PictureInv, Plays, Due, Sounds, VolumeWaits
<1>4. CASE UNCHANGED vars
  BY <1>4 DEF vars, queueVars, pageVars, modeVars, threadVars, outVars, envVars, PlayInv, SoundInv, PictureInv,
              Plays, Due, Sounds, VolumeWaits
<1> QED BY <1>1, <1>2, <1>3, <1>4 DEF Next, Stopped

\* When nothing is under way and the player plays normally, the sound has the volume
\* set last, through every trick mode and after any one failure, and the decoder has
\* left the I frames if nothing failed, as long as the queue took every message.
THEOREM NormalAgain == Spec => []PlaysNormally
<1>1. TypeOK /\ PlayInv /\ [Next]_vars => PlayInv'
  BY NextPlayInv
<1>2. TypeOK /\ PlayInv => PlaysNormally
  <2> SUFFICES ASSUME TypeOK, PlayInv, Quiet, playerstate = "PLAYING", volume <= MaxVolume,
                      faults <= 1, ~dropped
               PROVE  sound = volume /\ (faults = 0 => decode # "I")
    BY DEF PlaysNormally, TypeOK, OutTypes
  <2>1. Plays /\ tpc = "poll" /\ ~VolumeWaits /\ ~Due
    BY DEF Quiet, Idle, Plays, VolumeWaits, Due
  <2> QED BY <2>1 DEF PlayInv, SoundInv, PictureInv, Sounds
<1> QED BY <1>1, <1>2, InitPlayInv, TypeCorrect, PTL DEF Spec

=============================================================================
