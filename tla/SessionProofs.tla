----------------------------- MODULE SessionProofs -----------------------------
(***************************************************************************)
(* The session of a player whose page plays one medium after the other:    *)
(* every way out of a player thread gives it back, and the player keeps    *)
(* its contract with the session manager.                                  *)
(***************************************************************************)
EXTENDS StreamPlayerProofs

(* The page and the calls that may fail *)

\* The page stops a medium before it starts the next and plays none from its
\* start or at a time; descriptions are well formed, a SETUP reply that accepts
\* is complete, and ms_keep_alive_begin finds memory for its thread.
OneMediumAtATime ==
  /\ Disciplined
  /\ Ops \cap {"playFromStart", "playByTime"} = {}
  /\ Env \cap {"json", "setupReply", "msBegin"} = {}

\* No thread works while the page may start a medium, and what it asked for
\* stands in the player's fields when the thread is created.
PageInv ==
  /\ mayStart => tid = 0
  /\ cpc = "start" =>
       /\ tid = 0 /\ op \in {"joinChannel", "setSingleMedia"}
       /\ op = "joinChannel" => setup = "SDV" /\ stype = "TV"

NoUrlChange(q) == \A i \in 1 .. Len(q) : q[i].cmd # "URLCHANGE"

\* A thread's kind and setup_type agree.
Source(g) ==
  /\ pc[g] = "begin" => (setup = "UNI" <=> stype = "VOD")
  /\ pc[g] # "begin" => (setup = "UNI" <=> kind[g] = "VOD")

(* The session *)

Idle  == ~held /\ ss = "none" /\ ms = "none"
Alive == held /\ ss # "none" /\ if_sm_setup

\* What the session is at each place in the code of a thread at work.
Stage(g) ==
  /\ pc[g] \in {"begin", "clear", "connect", "setup", "setupPoll", "release", "decStop",
                "cbBefore", "clearId", "lastClear"} => Idle
  /\ pc[g] = "ssBegin" => held /\ ss = "none" /\ ms = "none"
  /\ pc[g] \in {"msConnect", "msBegin", "msFail"} => Alive /\ ms = "none" /\ kind[g] = "VOD"
  /\ pc[g] \in {"msFailTeardown", "failTeardown", "teardown"} =>
       held /\ ss = "none" /\ ms = "none" /\ if_sm_setup
  /\ pc[g] \in {"rtspPlay", "tune", "search", "searchPoll", "dvbplay", "loop", "resume",
                "failBeats", "endBeats"} => Alive /\ (ms # "none" <=> kind[g] = "VOD")
  /\ pc[g] = "rtspPlay" => kind[g] = "VOD"
  /\ pc[g] \in NetPcs => ctx = "start"

SessInv ==
  /\ PageInv /\ NoUrlChange(queue)
  /\ ~leaked /\ orphan = {}
  /\ \A g \in Thread : Active(g) => Source(g) /\ Stage(g)
  /\ (\A g \in Thread : ~Active(g)) => Idle

\* A step as the session manager sees it.
ContractStep == [Contract!Next]_<<held \/ leaked, Beating(ss)>>

LEMMA UntouchedSession ==
  ASSUME UNCHANGED <<held, leaked, ss>>
  PROVE  ContractStep
BY DEF ContractStep, Beating

(* Steps of the player thread *)

LEMMA PlayerStage ==
  ASSUME OneMediumAtATime, TypeOK, NEW g \in Thread, Player(g), Active(g),
         Source(g), Stage(g), ~leaked, orphan = {}, NoUrlChange(queue)
  PROVE  /\ ~leaked' /\ orphan' = {}
         /\ Active(g)' => Source(g)' /\ Stage(g)'
         /\ ~Active(g)' => Idle'
         /\ ContractStep
<1>msg. Received # "URLCHANGE"
  <2>1. CASE queue = <<>>
    BY <2>1 DEF Received
  <2>2. CASE queue # <<>>
    <3>1. Head(queue) = queue[1] /\ 1 \in 1 .. Len(queue)
      BY <2>2 DEF TypeOK
    <3> QED BY <2>2, <3>1 DEF Received, NoUrlChange
  <2> QED BY <2>1, <2>2
<1>env. ~May("json") /\ ~May("setupReply") /\ ~May("msBegin")
  BY DEF OneMediumAtATime, May
<1>cmd. MulticastCmd # "URLCHANGE" /\ UnicastCmd # "URLCHANGE"
  BY <1>msg DEF MulticastCmd, UnicastCmd
<1> USE <1>msg, <1>env, <1>cmd
    DEF TypeOK, Source, Stage, Idle, Alive, NetPcs, Active, ActivePcs, playerTail, netFrame,
        playFrame, pollFrame, exitFrame, fieldVars, sessVars, beatVars, At, Goto, ContractStep,
        Contract!Next, Contract!SetUp, Contract!BeatStart, Contract!BeatStop,
        Contract!TearDown, Beating
<1>1. CASE BeginThread(g) BY <1>1 DEF BeginThread
<1>2. CASE ClearDummyKey(g) BY <1>2 DEF ClearDummyKey, EnterNetwork
<1>3. CASE Connect(g) BY <1>3 DEF Connect, AfterNetwork, Restart, Retry
<1>4. CASE Setup(g) BY <1>4 DEF Setup, AfterNetwork, Restart, EnterNetwork
<1>5. CASE SetupPoll(g) BY <1>5 DEF SetupPoll, AfterNetwork, Restart, Retry
<1>6. CASE SsBegin(g) BY <1>6 DEF SsBegin, AfterNetwork, Restart
<1>7. CASE MsConnect(g) BY <1>7 DEF MsConnect, AfterNetwork, Restart, Retry
<1>8. CASE MsFailBeats(g) BY <1>8 DEF MsFailBeats, EndSs, AfterNetwork, Restart
<1>9. CASE MsFailTeardown(g) BY <1>9 DEF MsFailTeardown, AfterNetwork, Restart
<1>10. CASE MsBegin(g) BY <1>10 DEF MsBegin, AfterNetwork, Restart
<1>11. CASE RtspPlay(g) BY <1>11 DEF RtspPlay
<1>12. CASE Tune(g) BY <1>12 DEF Tune
<1>13. CASE Search(g) BY <1>13 DEF Search
<1>14. CASE SearchPoll(g) BY <1>14 DEF SearchPoll, Retry
<1>15. CASE StartDecoder(g) BY <1>15 DEF StartDecoder
<1>16. CASE ResumeDecoder(g) BY <1>16 DEF ResumeDecoder
<1>17. CASE PollVolume(g) BY <1>17 DEF PollVolume
<1>18. CASE PollMulticast(g)
  <2>1. /\ UNCHANGED <<held, leaked, ss, ms, orphan, if_sm_setup, setup, stype, kind, ctx>>
        /\ pc'[g] \in {"loop", "endBeats", "dvbplay", "resume"} /\ pc[g] = "loop"
    BY <1>18 DEF PollMulticast
  <2> QED BY <2>1
<1>19. CASE PollUnicast(g)
  <2>1. /\ UNCHANGED <<held, leaked, ss, ms, orphan, if_sm_setup, setup, stype, kind, ctx>>
        /\ pc'[g] \in {"loop", "endBeats", "dvbplay", "resume"} /\ pc[g] = "loop"
    BY <1>19 DEF PollUnicast, Restart
  <2> QED BY <2>1
<1>20. CASE FailBeats(g) BY <1>20 DEF FailBeats, EndHeartbeats, EndSs
<1>21. CASE FailTeardown(g) BY <1>21 DEF FailTeardown
<1>22. CASE CleanupBeats(g) BY <1>22 DEF CleanupBeats, EndHeartbeats, EndSs
<1>23. CASE CleanupTeardown(g) BY <1>23 DEF CleanupTeardown
<1>24. CASE ReleaseClients(g) BY <1>24 DEF ReleaseClients
<1>25. CASE StopDecoder(g) BY <1>25 DEF StopDecoder
<1>26. CASE Callback(g) BY <1>26 DEF Callback
<1>27. CASE ClearId(g) BY <1>27 DEF ClearId
<1> QED
  BY <1>1, <1>2, <1>3, <1>4, <1>5, <1>6, <1>7, <1>8, <1>9, <1>10, <1>11, <1>12, <1>13, <1>14, <1>15, <1>16, <1>17, <1>18, <1>19, <1>20, <1>21, <1>22, <1>23, <1>24, <1>25, <1>26, <1>27
     DEF Player, Network, Poll, Leave

\* A thread that has cleared the id leaves the session alone.
LEMMA AfterworkSession ==
  ASSUME NEW g \in Thread, Player(g), ~Active(g)
  PROVE  UNCHANGED <<held, leaked, ss, ms, orphan, if_sm_setup, setup, stype, kind, ctx>>
BY AfterworkIsCallback DEF Callback, exitFrame, playerTail, beatVars, sessVars

\* No step of a thread writes what the page's call left in the fields.
LEMMA PlayerFields ==
  ASSUME TypeOK, NEW g \in Thread, Player(g)
  PROVE  UNCHANGED <<setup, stype>>
<1> USE DEF playerTail, netFrame, playFrame, pollFrame, exitFrame, fieldVars
<1>1. CASE BeginThread(g) BY <1>1 DEF BeginThread
<1>2. CASE ClearDummyKey(g) BY <1>2 DEF ClearDummyKey
<1>3. CASE Connect(g) BY <1>3 DEF Connect
<1>4. CASE Setup(g) BY <1>4 DEF Setup
<1>5. CASE SetupPoll(g) BY <1>5 DEF SetupPoll
<1>6. CASE SsBegin(g) BY <1>6 DEF SsBegin
<1>7. CASE MsConnect(g) BY <1>7 DEF MsConnect
<1>8. CASE MsFailBeats(g) BY <1>8 DEF MsFailBeats
<1>9. CASE MsFailTeardown(g) BY <1>9 DEF MsFailTeardown
<1>10. CASE MsBegin(g) BY <1>10 DEF MsBegin
<1>11. CASE RtspPlay(g) BY <1>11 DEF RtspPlay
<1>12. CASE Tune(g) BY <1>12 DEF Tune
<1>13. CASE Search(g) BY <1>13 DEF Search
<1>14. CASE SearchPoll(g) BY <1>14 DEF SearchPoll
<1>15. CASE StartDecoder(g) BY <1>15 DEF StartDecoder
<1>16. CASE ResumeDecoder(g) BY <1>16 DEF ResumeDecoder
<1>17. CASE PollVolume(g) BY <1>17 DEF PollVolume
<1>18. CASE PollMulticast(g) BY <1>18 DEF PollMulticast
<1>19. CASE PollUnicast(g) BY <1>19 DEF PollUnicast
<1>20. CASE FailBeats(g) BY <1>20 DEF FailBeats, EndHeartbeats, EndSs
<1>21. CASE FailTeardown(g) BY <1>21 DEF FailTeardown
<1>22. CASE CleanupBeats(g) BY <1>22 DEF CleanupBeats, EndHeartbeats, EndSs
<1>23. CASE CleanupTeardown(g) BY <1>23 DEF CleanupTeardown
<1>24. CASE ReleaseClients(g) BY <1>24 DEF ReleaseClients
<1>25. CASE StopDecoder(g) BY <1>25 DEF StopDecoder
<1>26. CASE Callback(g) BY <1>26 DEF Callback
<1>27. CASE ClearId(g) BY <1>27 DEF ClearId
<1> QED
  BY <1>1, <1>2, <1>3, <1>4, <1>5, <1>6, <1>7, <1>8, <1>9, <1>10, <1>11, <1>12, <1>13, <1>14, <1>15, <1>16, <1>17, <1>18, <1>19, <1>20, <1>21, <1>22, <1>23, <1>24, <1>25, <1>26, <1>27
     DEF Player, Network, Poll, Leave

LEMMA UrlTaken ==
  ASSUME TypeOK, NoUrlChange(queue)
  PROVE  NoUrlChange(Taken)
<1>1. CASE queue = <<>>
  BY <1>1 DEF Taken, NoUrlChange
<1>2. CASE queue # <<>>
  <2>1. /\ Taken = Tail(queue) /\ Len(Taken) = Len(queue) - 1 /\ Len(queue) \in Nat
        /\ \A i \in 1 .. Len(Taken) : Taken[i] = queue[i + 1]
    BY <1>2 DEF Taken, TypeOK
  <2> QED BY <2>1 DEF NoUrlChange
<1> QED BY <1>1, <1>2

LEMMA UrlSend ==
  ASSUME TypeOK, NoUrlChange(queue), NEW c \in Cmds \ {"URLCHANGE"}, Send(c)
  PROVE  NoUrlChange(queue')
<1>1. CASE Len(queue) < QueueCap
  <2> DEFINE m == [cmd |-> c, gen |-> created]
  <2>1. queue' = Append(queue, m)
    BY <1>1 DEF Send
  <2>2. /\ Len(queue') = Len(queue) + 1 /\ Len(queue) \in Nat
        /\ \A i \in 1 .. Len(queue) : queue'[i] = queue[i]
        /\ queue'[Len(queue) + 1] = m
    BY <2>1 DEF TypeOK
  <2>3. m.cmd # "URLCHANGE"
    OBVIOUS
  <2> QED BY <2>2, <2>3 DEF NoUrlChange
<1>2. CASE ~(Len(queue) < QueueCap)
  BY <1>2 DEF Send
<1> QED BY <1>1, <1>2

LEMMA PlayerSession ==
  ASSUME OneMediumAtATime, TypeOK, OneInv, SessInv, NEW g \in Thread, Player(g)
  PROVE  SessInv' /\ ContractStep
<1>1. /\ UNCHANGED <<cpc, op, mayStart, setup, stype>> /\ tid' \in {tid, 0}
      /\ \A h \in Thread \ {g} : pc'[h] = pc[h]
  BY PlayerKeeps, PlayerFields DEF callerVars
<1>2. PageInv'
  BY <1>1 DEF SessInv, PageInv
<1>3. NoUrlChange(queue')
  <2>1. NoUrlChange(Taken) /\ NoUrlChange(<<>>)
    BY UrlTaken DEF SessInv, NoUrlChange
  <2> QED BY <2>1, PlayerTakes DEF SessInv
<1>4. CASE Active(g)
  <2>1. /\ ~leaked' /\ orphan' = {}
        /\ Active(g)' => Source(g)' /\ Stage(g)'
        /\ ~Active(g)' => Idle'
        /\ ContractStep
    BY <1>4, PlayerStage DEF SessInv
  <2>2. \A h \in Thread \ {g} : ~Active(h)'
    BY <1>1, <1>4 DEF OneInv, OneActive, Active
  <2> QED BY <1>2, <1>3, <2>1, <2>2 DEF SessInv
<1>5. CASE ~Active(g)
  <2>1. UNCHANGED <<held, leaked, ss, ms, orphan, if_sm_setup, setup, stype, kind, ctx>>
    BY <1>5, AfterworkSession
  <2>2. ~Active(g)'
    BY <1>5, PlayerKeeps
  <2>3. \A h \in Thread : /\ Active(h)' <=> Active(h)
                          /\ Active(h)' => (Source(h)' <=> Source(h)) /\ (Stage(h)' <=> Stage(h))
    <3>1. \A h \in Thread \ {g} : pc'[h] = pc[h]
      BY <1>1
    <3> QED BY <1>5, <2>1, <2>2, <3>1 DEF Active, Source, Stage, Idle, Alive
  <2>4. Idle' <=> Idle
    BY <2>1 DEF Idle
  <2> QED BY <1>2, <1>3, <2>1, <2>3, <2>4, UntouchedSession DEF SessInv
<1> QED BY <1>4, <1>5

(* Steps of the caller *)

LEMMA CallerSession ==
  ASSUME OneMediumAtATime, TypeOK, OneInv, SessInv, Caller
  PROVE  SessInv' /\ ContractStep
<1> USE DEF playerFrame, Enter, Return, AfterJoin, idVars, fieldVars, sessVars, beatVars,
        callerVars
<1>1. UNCHANGED <<held, leaked, ss, ms, orphan, ctx, kind>>
  BY DEF Caller, JoinChannel, SetSingleMedia, PlayFromStart, PlayByTime, CreateThread,
         SendToThread, SetVolume, VcrSend, VcrArm, CallStop, SendQuit, ReadJoinTarget,
         JoinReturns, ReleasePlayer
<1>2. Idle' <=> Idle
  BY <1>1 DEF Idle
<1>3. ContractStep
  BY <1>1, UntouchedSession
<1>4. CASE CreateThread
  <2>0. created \in Nat /\ tid = 0
    BY <1>4, BoundsAssumption DEF CreateThread, TypeOK, BoundsAssumption
  <2>1. created + 1 \in Nat /\ (\A h \in Thread : ~Active(h)) /\ Idle
    BY <2>0 DEF Thread, OneInv, OneActive, SessInv
  <2>2. \A h \in Thread : Active(h)' => h = created + 1 /\ pc'[h] = "begin"
    BY <1>4, <2>1 DEF CreateThread, Active, TypeOK
  <2>3. op \in {"joinChannel", "setSingleMedia"} /\ (setup' = "UNI" <=> stype' = "VOD")
    BY <1>4 DEF CreateThread, OneMediumAtATime, May, SessInv, PageInv, TypeOK
  <2>4. \A h \in Thread : Active(h)' => Source(h)' /\ Stage(h)'
    BY <1>2, <2>1, <2>2, <2>3 DEF Source, Stage, NetPcs
  <2>5. PageInv' /\ queue' = queue
    BY <1>4 DEF CreateThread, PageInv, OneMediumAtATime
  <2> QED BY <1>1, <1>2, <1>3, <2>1, <2>4, <2>5 DEF SessInv
<1>5. ASSUME ~CreateThread
      PROVE  pc' = pc /\ UNCHANGED if_sm_setup /\ ~PlayFromStart /\ ~PlayByTime /\ ~SendToThread
  <2>1. ~PlayFromStart /\ ~PlayByTime /\ ~SendToThread
    BY DEF PlayFromStart, PlayByTime, SendToThread, MayBegin, MayCall, OneMediumAtATime,
           SessInv, PageInv
  <2> QED BY <1>5, <2>1
          DEF Caller, JoinChannel, SetSingleMedia, SetVolume, VcrSend, VcrArm, CallStop,
              SendQuit, ReadJoinTarget, JoinReturns, ReleasePlayer
<1>6. CASE ~CreateThread
  <2>1. NoUrlChange(queue')
    <3>1. queue' = queue \/ \E c \in Cmds \ {"URLCHANGE"} : Send(c)
      BY <1>5, <1>6
         DEF Caller, JoinChannel, SetSingleMedia, SetVolume, VcrSend, VcrArm, CallStop,
             SendQuit, ReadJoinTarget, JoinReturns, ReleasePlayer, Cmds
    <3> QED BY <3>1, UrlSend DEF SessInv
  <2>2. CASE JoinChannel \/ SetSingleMedia
    <3>1. mayStart /\ tid = 0 /\ tid' = 0
      BY <2>2 DEF JoinChannel, SetSingleMedia, MayBegin, SessInv, PageInv
    <3>2. \A h \in Thread : ~Active(h) /\ ~Active(h)'
      BY <1>5, <1>6, <3>1 DEF OneInv, OneActive, Active, Thread
    <3>3. PageInv'
      BY <2>2, <3>1 DEF JoinChannel, SetSingleMedia, OneMediumAtATime, May, PageInv
    <3> QED BY <1>1, <1>2, <1>3, <2>1, <3>2, <3>3 DEF SessInv
  <2>3. CASE ~JoinChannel /\ ~SetSingleMedia
    <3>1. UNCHANGED <<stype, setup>> /\ tid' \in {tid, 0}
      BY <1>5, <1>6, <2>3
         DEF Caller, SetVolume, VcrSend, VcrArm, CallStop, SendQuit, ReadJoinTarget,
             JoinReturns, ReleasePlayer
    <3>2. PageInv'
      <4>1. cpc' # "start"
        BY <1>5, <1>6, <2>3
           DEF Caller, SetVolume, VcrSend, VcrArm, CallStop, SendQuit, ReadJoinTarget,
               JoinReturns, ReleasePlayer
      <4>2. tid' = 0 \/ (tid' = tid /\ (mayStart' => mayStart \/ tid = 0))
        BY <1>5, <1>6, <2>3
           DEF Caller, SetVolume, VcrSend, VcrArm, CallStop, SendQuit, ReadJoinTarget,
               JoinReturns, ReleasePlayer
      <4> QED BY <4>1, <4>2 DEF SessInv, PageInv
    <3>3. \A h \in Thread : /\ Active(h)' <=> Active(h)
                            /\ Source(h)' <=> Source(h)
                            /\ Stage(h)' <=> Stage(h)
      BY <1>1, <1>5, <1>6, <3>1 DEF Active, Source, Stage, Idle, Alive
    <3> QED BY <1>1, <1>2, <1>3, <2>1, <3>2, <3>3 DEF SessInv
  <2> QED BY <2>2, <2>3
<1> QED BY <1>4, <1>6

(* Steps of the heartbeats *)

LEMMA HeartbeatsSession ==
  ASSUME OneMediumAtATime, TypeOK, SessInv, Heartbeats
  PROVE  SessInv' /\ ContractStep
<1>1. UNCHANGED <<cpc, op, mayStart, queue, tid, pc, kind, ctx, if_sm_setup, stype, setup, held,
                  leaked, orphan>>
  BY DEF Heartbeats, SsStart, SsFail, MsStart, MsFail, MsAnnounce, OrphanWrites, beatFrame,
         beatVars, callerVars, idVars, fieldVars, sessVars
<1>2. (ss' = "none" <=> ss = "none") /\ (ms' = "none" <=> ms = "none")
  BY DEF Heartbeats, SsStart, SsFail, MsStart, MsFail, MsAnnounce, OrphanWrites, beatVars
<1>3. PageInv' /\ (Idle' <=> Idle)
  BY <1>1, <1>2 DEF SessInv, PageInv, Idle
<1>4. \A h \in Thread : /\ Active(h)' <=> Active(h)
                        /\ Source(h)' <=> Source(h)
                        /\ Stage(h)' <=> Stage(h)
  BY <1>1, <1>2 DEF Active, Source, Stage, Idle, Alive
<1>5. ContractStep
  BY <1>1 DEF Heartbeats, SsStart, SsFail, MsStart, MsFail, MsAnnounce, OrphanWrites, beatVars,
              ContractStep, Beating, Contract!Next, Contract!BeatStop
<1> QED BY <1>1, <1>3, <1>4, <1>5 DEF SessInv

LEMMA SessNext ==
  ASSUME OneMediumAtATime, TypeOK, OneInv, SessInv, [Next]_vars
  PROVE  SessInv' /\ ContractStep
<1>1. CASE Caller BY <1>1, CallerSession
<1>2. CASE \E g \in Thread : Player(g) BY <1>2, PlayerSession
<1>3. CASE Heartbeats BY <1>3, HeartbeatsSession
<1>4. CASE Die \/ UNCHANGED vars
  <2>1. UNCHANGED <<callerVars, queue, idVars, pc, kind, ctx, fieldVars, sessVars, ss, ms, orphan>>
    BY <1>4 DEF Die, vars, beatVars
  <2>2. PageInv' /\ (Idle' <=> Idle)
    BY <2>1 DEF SessInv, PageInv, Idle, callerVars, idVars, fieldVars, sessVars
  <2>3. \A h \in Thread : /\ Active(h)' <=> Active(h)
                          /\ Source(h)' <=> Source(h)
                          /\ Stage(h)' <=> Stage(h)
    BY <2>1 DEF Active, Source, Stage, Idle, Alive, fieldVars, sessVars
  <2>4. ContractStep
    BY <2>1, UntouchedSession DEF sessVars
  <2> QED BY <2>1, <2>2, <2>3, <2>4 DEF SessInv, sessVars
<1> QED BY <1>1, <1>2, <1>3, <1>4 DEF Next

(* Theorems *)

LEMMA InitSession == Init => SessInv /\ Contract!Init
<1> SUFFICES ASSUME Init PROVE SessInv /\ Contract!Init
  OBVIOUS
<1>1. PageInv /\ NoUrlChange(queue) /\ Idle /\ ~leaked /\ orphan = {}
  BY DEF Init, PageInv, NoUrlChange, Idle
<1>2. \A g \in Thread : ~Active(g)
  BY DEF Init, Active, ActivePcs, Thread
<1> QED BY <1>1, <1>2 DEF SessInv, Idle, Contract!Init, Beating

LEMMA InitAll == Init => TypeOK /\ StartRoom /\ OneInv /\ SessInv
BY InitTypeOK, InitSession DEF Init, StartRoom, OneInv, OneActive, JoinsLast, Active, ActivePcs, Thread

\* A player thread that clears mediaplayer_thread has torn the session down and
\* ended both heartbeats, whichever way out it took and whichever step failed but
\* those OneMediumAtATime excludes, for any number of threads, calls and retries.
THEOREM EveryExitReleases == ASSUME OneMediumAtATime PROVE Spec => []ExitReleasesAll
<1>1. TypeOK /\ StartRoom /\ OneInv /\ SessInv /\ [Next]_vars
        => TypeOK' /\ StartRoom' /\ OneInv' /\ SessInv'
  BY TypeNext, OneNext, SessNext
<1>2. TypeOK /\ OneInv /\ SessInv => ExitReleasesAll
  BY DEF OneInv, OneActive, SessInv, Idle, ExitReleasesAll, Thread
<1> QED BY <1>1, <1>2, InitAll, PTL DEF Spec

\* The player implements SessionContract: a heartbeat only inside a session,
\* TEARDOWN only after the heartbeat, and no second SETUP.
THEOREM ContractKept == ASSUME OneMediumAtATime PROVE Spec => KeepsContract
<1>1. TypeOK /\ StartRoom /\ OneInv /\ SessInv /\ [Next]_vars
        => TypeOK' /\ StartRoom' /\ OneInv' /\ SessInv'
  BY TypeNext, OneNext, SessNext
<1>2. TypeOK /\ OneInv /\ SessInv /\ [Next]_vars => [Contract!Next]_<<held \/ leaked, Beating(ss)>>
  BY SessNext DEF ContractStep
<1>3. Init => Contract!Init
  BY InitSession
<1> QED BY <1>1, <1>2, <1>3, InitAll, PTL DEF Spec, KeepsContract, Contract!Spec

-----------------------------------------------------------------------------
(* The contract of the two heartbeats *)

\* A step as the thread that reads the two flags sees it.
BeatsStep ==
  /\ [SsBeat!Next]_<<ss, ssErr, crashed>>
  /\ [MsBeat!Next]_<<ms, msErr, crashed>>

\* How a heartbeat may come and go while its flag is left alone.
ComesAndGoes(k, l) == l = k \/ (k = "none" /\ l = "starting") \/ (k # "none" /\ l = "none")

LEMMA BeatsUnflagged ==
  ASSUME ~crashed, UNCHANGED <<ssErr, msErr, crashed>>, ComesAndGoes(ss, ss'), ComesAndGoes(ms, ms')
  PROVE  BeatsStep
BY DEF ComesAndGoes, BeatsStep, SsBeat!Next, SsBeat!Alive, SsBeat!Begin, SsBeat!End,
       MsBeat!Next, MsBeat!Alive, MsBeat!Begin, MsBeat!End

\* The player thread begins a heartbeat only where none is left of that kind.
LEMMA PlayerBeats ==
  ASSUME OneMediumAtATime, TypeOK, NEW g \in Thread, Player(g), Active(g), Stage(g)
  PROVE  /\ UNCHANGED <<ssErr, msErr, crashed>>
         /\ ComesAndGoes(ss, ss') /\ ComesAndGoes(ms, ms')
<1> USE DEF ComesAndGoes, playerTail, netFrame, playFrame, pollFrame, exitFrame, beatVars, At
<1>1. CASE BeginThread(g) \/ ClearDummyKey(g)
  BY <1>1 DEF BeginThread, ClearDummyKey
<1>2. CASE Connect(g) \/ Setup(g) \/ SetupPoll(g) \/ MsFailTeardown(g)
  BY <1>2 DEF Connect, Setup, SetupPoll, MsFailTeardown
<1>3. CASE SsBegin(g)
  BY <1>3 DEF SsBegin, Stage
<1>4. CASE MsConnect(g)
  BY <1>4 DEF MsConnect
<1>5. CASE MsFailBeats(g)
  BY <1>5 DEF MsFailBeats, EndSs
<1>6. CASE MsBegin(g)
  BY <1>6 DEF MsBegin, Stage
<1>7. CASE RtspPlay(g) \/ Tune(g) \/ Search(g) \/ SearchPoll(g) \/ StartDecoder(g) \/ ResumeDecoder(g)
  BY <1>7 DEF RtspPlay, Tune, Search, SearchPoll, StartDecoder, ResumeDecoder
<1>8. CASE Poll(g)
  BY <1>8 DEF Poll, PollVolume, PollMulticast, PollUnicast
<1>9. CASE FailBeats(g) \/ CleanupBeats(g)
  BY <1>9 DEF FailBeats, CleanupBeats, EndHeartbeats, EndSs
<1>10. CASE FailTeardown(g) \/ CleanupTeardown(g) \/ ReleaseClients(g) \/ StopDecoder(g)
            \/ Callback(g) \/ ClearId(g)
  BY <1>10 DEF FailTeardown, CleanupTeardown, ReleaseClients, StopDecoder, Callback, ClearId
<1> QED
  BY <1>1, <1>2, <1>3, <1>4, <1>5, <1>6, <1>7, <1>8, <1>9, <1>10 DEF Player, Network, Leave

LEMMA BeatsNext ==
  ASSUME OneMediumAtATime, TypeOK, SessInv, [Next]_vars
  PROVE  BeatsStep
<1>1. CASE UNCHANGED vars
  BY <1>1 DEF vars, beatVars, BeatsStep
<1> SUFFICES ASSUME ~crashed, Next PROVE BeatsStep
  BY <1>1 DEF Next
<1>2. CASE Caller
  <2>1. UNCHANGED <<ss, ssErr, ms, msErr>> /\ (UNCHANGED crashed \/ crashed')
    BY <1>2
       DEF Caller, JoinChannel, SetSingleMedia, PlayFromStart, PlayByTime, CreateThread,
           SendToThread, SetVolume, VcrSend, VcrArm, CallStop, SendQuit, ReadJoinTarget,
           JoinReturns, ReleasePlayer, playerFrame, beatVars
  <2> QED BY <2>1 DEF BeatsStep, SsBeat!Next, SsBeat!Death, MsBeat!Next, MsBeat!Death
<1>3. CASE \E g \in Thread : Player(g)
  <2>1. PICK g \in Thread : Player(g)
    BY <1>3
  <2>2. CASE Active(g)
    <3>1. Stage(g)
      BY <2>2 DEF SessInv
    <3> QED BY <2>1, <2>2, <3>1, PlayerBeats, BeatsUnflagged
  <2>3. CASE ~Active(g)
    <3>1. Callback(g)
      BY <2>1, <2>3, AfterworkIsCallback
    <3> QED BY <3>1, BeatsUnflagged DEF Callback, exitFrame, playerTail, beatVars, ComesAndGoes
  <2> QED BY <2>2, <2>3
<1>4. CASE Heartbeats
  <2>1. orphan = {} /\ UNCHANGED crashed
    BY <1>4 DEF SessInv, Heartbeats, SsStart, SsFail, MsStart, MsFail, MsAnnounce, OrphanWrites,
                beatFrame
  <2> QED BY <1>4, <2>1
          DEF Heartbeats, SsStart, SsFail, MsStart, MsFail, MsAnnounce, OrphanWrites, beatVars,
              BeatsStep, SsBeat!Next, SsBeat!Alive, SsBeat!Start, SsBeat!Fail,
              MsBeat!Next, MsBeat!Alive, MsBeat!Start, MsBeat!Fail
<1>5. CASE Die
  BY <1>5 DEF Die, beatVars, BeatsStep, SsBeat!Next, SsBeat!Death, MsBeat!Next, MsBeat!Death
<1> QED BY <1>2, <1>3, <1>4, <1>5 DEF Next

\* The player uses both heartbeats by HeartbeatContract, which KeepAlive shows the two
\* threads to implement: no thread is begun while the one before still owns its flag.
THEOREM HeartbeatsByContract == ASSUME OneMediumAtATime PROVE Spec => BeatsKeepContract
<1>1. TypeOK /\ StartRoom /\ OneInv /\ SessInv /\ [Next]_vars
        => TypeOK' /\ StartRoom' /\ OneInv' /\ SessInv'
  BY TypeNext, OneNext, SessNext
<1>2. TypeOK /\ SessInv /\ [Next]_vars =>
        [SsBeat!Next]_<<ss, ssErr, crashed>> /\ [MsBeat!Next]_<<ms, msErr, crashed>>
  BY BeatsNext DEF BeatsStep
<1>3. Init => SsBeat!Init /\ MsBeat!Init
  <2>1. Init => TypeOK
    BY InitTypeOK
  <2> QED BY <2>1 DEF Init, TypeOK, SsBeat!Init, MsBeat!Init
<1> QED BY <1>1, <1>2, <1>3, InitAll, PTL
        DEF Spec, BeatsKeepContract, SsBeat!Spec, MsBeat!Spec

=============================================================================
