-------------------------- MODULE StreamPlayerProofs --------------------------
(***************************************************************************)
(* Theorems about StreamPlayer, for every value of its constants.          *)
(***************************************************************************)
EXTENDS StreamPlayer, SequenceTheorems, TLAPS

(* Types *)

LEMMA InitTypeOK == Init => TypeOK
<1> SUFFICES ASSUME Init PROVE TypeOK
  OBVIOUS
<1> USE BoundsAssumption DEF BoundsAssumption
<1>1. queue \in Seq(Message) /\ Len(queue) <= QueueCap
  BY DEF Init
<1>2. pc \in [Thread -> Pcs] /\ kind \in [Thread -> {"TV", "VOD"}]
  BY DEF Init, Pcs, ActivePcs
<1>3. if_sm_setup \in BOOLEAN /\ ssErr \in BOOLEAN /\ msErr \in BOOLEAN
  BY DEF Init, Heap
<1>4. stype \in {"TV", "VOD"} /\ setup \in {"SDV", "UNI"} /\ status \in {"none", "play", "quit"}
  BY DEF Init, Heap
<1>5. tries \in Nat /\ (tries < NetTries \/ tries < SearchTries)
  BY DEF Init
<1>6. /\ cpc \in Cpcs /\ op \in StartOps \union StopOps \union {"vcr", "none"}
      /\ ctx \in {"start", "multicast", "unicast", "tuneFail"} /\ clients \in {"live", "freed"}
      /\ ss \in Beats /\ ms \in Beats /\ decoder \in {"stopped", "playing"}
  BY DEF Init, Cpcs, Beats
<1>7. /\ mayStart \in BOOLEAN /\ trick \in BOOLEAN /\ held \in BOOLEAN
      /\ leaked \in BOOLEAN /\ crashed \in BOOLEAN /\ orphan \subseteq {"ss", "ms"}
      /\ staleId \in BOOLEAN
  BY DEF Init, Heap
<1>8. /\ jt \in 0 .. MaxThreads /\ calls \in 0 .. MaxCalls
      /\ tid \in 0 .. MaxThreads /\ created \in 0 .. MaxThreads
  BY DEF Init
<1> QED
  BY <1>1, <1>2, <1>3, <1>4, <1>5, <1>6, <1>7, <1>8 DEF TypeOK

LEMMA TakenType ==
  ASSUME TypeOK
  PROVE  Taken \in Seq(Message) /\ Len(Taken) <= QueueCap
<1>1. CASE queue = <<>>
  BY <1>1 DEF Taken, TypeOK
<1>2. CASE queue # <<>>
  BY <1>2, BoundsAssumption DEF Taken, TypeOK
<1> QED BY <1>1, <1>2

LEMMA SendType ==
  ASSUME TypeOK, NEW c \in Cmds, Send(c)
  PROVE  queue' \in Seq(Message) /\ Len(queue') <= QueueCap
<1> DEFINE m == [cmd |-> c, gen |-> created]
<1>1. m \in Message
  BY DEF Message, TypeOK
<1>2. CASE Len(queue) < QueueCap
  <2>1. queue' = Append(queue, m)
    BY <1>2 DEF Send
  <2> QED BY <1>1, <1>2, <2>1, BoundsAssumption DEF TypeOK
<1>3. CASE ~(Len(queue) < QueueCap)
  BY <1>3 DEF Send, TypeOK
<1> QED BY <1>2, <1>3

\* The test of the id that ends a start operation finds room for a thread.
StartRoom == cpc = "start" => created < MaxThreads

LEMMA CallerType ==
  ASSUME TypeOK, StartRoom, Caller
  PROVE  TypeOK' /\ StartRoom'
<1> USE BoundsAssumption DEF BoundsAssumption, Cpcs, StartOps, StopOps, Thread, StartRoom,
      playerFrame, Enter, Return, AfterJoin, MayBegin, MayCall, callerVars, idVars,
      fieldVars, beatVars, sessVars
<1>1. CASE JoinChannel    BY <1>1 DEF TypeOK, JoinChannel
<1>2. CASE SetSingleMedia BY <1>2 DEF TypeOK, SetSingleMedia
<1>3. CASE PlayFromStart
  <2>1. if_sm_setup' \in BOOLEAN /\ trick' \in BOOLEAN
    BY <1>3 DEF PlayFromStart
  <2>2. UNCHANGED <<jt, idVars, stype, setup, queue, mayStart, pc, kind, ctx, tries,
                    status, clients, sessVars, beatVars, decoder, crashed>>
    BY <1>3 DEF PlayFromStart
  <2>3. /\ cpc' = "start" /\ op' = "playFromStart" /\ calls' = calls + 1
        /\ calls < MaxCalls /\ created < MaxThreads
    BY <1>3 DEF PlayFromStart
  <2> QED BY <2>1, <2>2, <2>3 DEF TypeOK
<1>4. CASE PlayByTime     BY <1>4 DEF TypeOK, PlayByTime
<1>5. CASE CreateThread
  <2>1. created + 1 \in Thread /\ tid' = created + 1 /\ created' = created + 1
    BY <1>5 DEF CreateThread, TypeOK
  <2>2. pc' \in [Thread -> Pcs]
    BY <1>5, <2>1 DEF CreateThread, TypeOK, Pcs, ActivePcs
  <2>3. stype' \in {"TV", "VOD"} /\ setup' \in {"SDV", "UNI"} /\ mayStart' \in BOOLEAN
    BY <1>5 DEF CreateThread, TypeOK
  <2>4. UNCHANGED <<jt, calls, queue, kind, ctx, tries, if_sm_setup, trick, status,
                    clients, sessVars, beatVars, decoder, crashed>>
    BY <1>5 DEF CreateThread
  <2>5. cpc' = "idle" /\ op' = "none"
    BY <1>5 DEF CreateThread
  <2> QED BY <2>1, <2>2, <2>3, <2>4, <2>5 DEF TypeOK
<1>6. CASE SendToThread
  <2>1. queue' \in Seq(Message) /\ Len(queue') <= QueueCap
    BY <1>6, SendType DEF SendToThread, Cmds
  <2> QED BY <1>6, <2>1 DEF TypeOK, SendToThread
<1>7. CASE SetVolume
  <2>1. queue' \in Seq(Message) /\ Len(queue') <= QueueCap
    BY <1>7, SendType DEF SetVolume, Cmds
  <2> QED BY <1>7, <2>1 DEF TypeOK, SetVolume
<1>8. CASE VcrSend
  <2>1. queue' \in Seq(Message) /\ Len(queue') <= QueueCap
    BY <1>8, SendType DEF VcrSend, Cmds
  <2> QED BY <1>8, <2>1 DEF TypeOK, VcrSend
<1>9. CASE VcrArm BY <1>9 DEF TypeOK, VcrArm
<1>10. CASE CallStop BY <1>10 DEF TypeOK, CallStop
<1>11. CASE SendQuit
  <2>1. queue' \in Seq(Message) /\ Len(queue') <= QueueCap
    BY <1>11, SendType DEF SendQuit, Cmds
  <2> QED BY <1>11, <2>1 DEF TypeOK, SendQuit
<1>12. CASE ReadJoinTarget
  <2>1. crashed' \in BOOLEAN /\ mayStart' \in BOOLEAN
    BY <1>12 DEF ReadJoinTarget, TypeOK
  <2>2. jt' \in 0 .. MaxThreads /\ tid' \in 0 .. MaxThreads
    BY <1>12 DEF ReadJoinTarget, TypeOK
  <2>3. cpc' \in Cpcs \ {"start"} /\ op' \in StartOps \union StopOps \union {"vcr", "none"}
    BY <1>12 DEF ReadJoinTarget, TypeOK
  <2>4. UNCHANGED <<calls, queue, created, pc, kind, ctx, tries, fieldVars, status,
                    clients, sessVars, beatVars, decoder>>
    BY <1>12 DEF ReadJoinTarget
  <2> QED BY <2>1, <2>2, <2>3, <2>4 DEF TypeOK
<1>13. CASE JoinReturns BY <1>13 DEF TypeOK, JoinReturns
<1>14. CASE ReleasePlayer BY <1>14 DEF TypeOK, ReleasePlayer
<1> QED
  BY <1>1, <1>2, <1>3, <1>4, <1>5, <1>6, <1>7, <1>8, <1>9, <1>10, <1>11, <1>12,
     <1>13, <1>14 DEF Caller

TriesOK == tries \in Nat /\ (tries < NetTries \/ tries < SearchTries)

LEMMA GotoType ==
  ASSUME TypeOK, NEW g \in Thread, NEW p \in Pcs, Goto(g, p)
  PROVE  pc' \in [Thread -> Pcs]
  BY DEF TypeOK, Goto

LEMMA AfterNetworkType ==
  ASSUME NEW g, NEW ok \in BOOLEAN
  PROVE  AfterNetwork(g, ok) \in Pcs
  BY DEF AfterNetwork, Restart, Pcs, ActivePcs

LEMMA RetryType ==
  ASSUME TypeOK, NEW g \in Thread, NEW again \in Pcs, NEW last \in Pcs,
         NEW limit \in {NetTries, SearchTries}, Retry(g, again, limit, last)
  PROVE  pc' \in [Thread -> Pcs] /\ TriesOK'
<1> USE BoundsAssumption DEF BoundsAssumption
<1>1. pc' \in [Thread -> Pcs]
  BY GotoType DEF Retry
<1>2. TriesOK'
  BY DEF Retry, TypeOK, TriesOK
<1> QED BY <1>1, <1>2

LEMMA PlayerType ==
  ASSUME TypeOK, StartRoom, NEW g \in Thread, Player(g)
  PROVE  TypeOK' /\ StartRoom'
<1> USE BoundsAssumption DEF BoundsAssumption, StartRoom, playerTail, netFrame, playFrame, pollFrame, exitFrame,
      callerVars, idVars, fieldVars, beatVars, sessVars
<1>1. CASE BeginThread(g)
  BY <1>1 DEF TypeOK, BeginThread, Goto, Pcs, ActivePcs
<1>2. CASE ClearDummyKey(g)
  <2>1. pc' \in [Thread -> Pcs]
    BY <1>2, GotoType DEF ClearDummyKey, Pcs, ActivePcs
  <2>2. queue' \in Seq(Message) /\ Len(queue') <= QueueCap
    BY <1>2 DEF ClearDummyKey
  <2>3. held' \in BOOLEAN /\ leaked' \in BOOLEAN /\ tries' = 0
    BY <1>2 DEF ClearDummyKey, EnterNetwork, TypeOK
  <2> QED BY <1>2, <2>1, <2>2, <2>3 DEF TypeOK, ClearDummyKey
<1>3. CASE Connect(g)
  <2>1. AfterNetwork(g, FALSE) \in Pcs /\ "connect" \in Pcs /\ "setup" \in Pcs
    BY AfterNetworkType DEF Pcs, ActivePcs
  <2>2. CASE tries' = 0 /\ Goto(g, "setup")
    <3>1. pc' \in [Thread -> Pcs]
      BY <2>1, <2>2, GotoType
    <3> QED BY <1>3, <2>2, <3>1 DEF TypeOK, Connect
  <2>3. CASE Retry(g, "connect", NetTries, AfterNetwork(g, FALSE))
    <3>1. pc' \in [Thread -> Pcs] /\ TriesOK'
      BY <2>1, <2>3, RetryType
    <3> QED BY <1>3, <3>1 DEF TypeOK, Connect, TriesOK
  <2> QED BY <1>3, <2>2, <2>3 DEF Connect
<1>4. CASE Setup(g)
  <2>1. pc' \in [Thread -> Pcs]
    BY <1>4, GotoType DEF Setup, Pcs, ActivePcs
  <2>2. TriesOK'
    BY <1>4 DEF Setup, EnterNetwork, TypeOK, TriesOK
  <2>3. held' \in BOOLEAN /\ leaked' \in BOOLEAN
    BY <1>4 DEF Setup, EnterNetwork, TypeOK
  <2> QED BY <1>4, <2>1, <2>2, <2>3 DEF TypeOK, Setup, TriesOK
<1>5. CASE SetupPoll(g)
  <2>1. AfterNetwork(g, FALSE) \in Pcs /\ "setup" \in Pcs
    BY AfterNetworkType DEF Pcs, ActivePcs
  <2>2. pc' \in [Thread -> Pcs] /\ TriesOK'
    <3>1. CASE tries' = 0 /\ Goto(g, AfterNetwork(g, FALSE))
      <4>1. pc' \in [Thread -> Pcs]
        BY <2>1, <3>1, GotoType
      <4>2. TriesOK'
        BY <3>1 DEF TriesOK
      <4> QED BY <4>1, <4>2
    <3>2. CASE Retry(g, "setup", NetTries, AfterNetwork(g, FALSE))
      BY <2>1, <3>2, RetryType
    <3> QED BY <1>5, <3>1, <3>2 DEF SetupPoll
  <2>3. queue' \in Seq(Message) /\ Len(queue') <= QueueCap
    BY <1>5, TakenType DEF SetupPoll
  <2>4. held' \in BOOLEAN /\ leaked' \in BOOLEAN
    BY <1>5 DEF SetupPoll, TypeOK
  <2> QED BY <1>5, <2>2, <2>3, <2>4 DEF TypeOK, SetupPoll, TriesOK
<1>6. CASE SsBegin(g)
  <2>1. AfterNetwork(g, TRUE) \in Pcs /\ AfterNetwork(g, FALSE) \in Pcs /\ "msConnect" \in Pcs
    BY AfterNetworkType DEF Pcs, ActivePcs
  <2>2. pc' \in [Thread -> Pcs]
    BY <1>6, <2>1, GotoType DEF SsBegin
  <2>3. ss' \in Beats
    BY <1>6 DEF SsBegin, TypeOK, Beats
  <2>4. orphan' \subseteq {"ss", "ms"}
    BY <1>6 DEF SsBegin, TypeOK
  <2>5. if_sm_setup' \in BOOLEAN /\ held' \in BOOLEAN /\ staleId' \in BOOLEAN
    BY <1>6 DEF SsBegin, TypeOK
  <2> QED BY <1>6, <2>2, <2>3, <2>4, <2>5 DEF TypeOK, SsBegin
<1>7. CASE MsConnect(g)
  <2>1. "msBegin" \in Pcs /\ "msConnect" \in Pcs /\ "msFail" \in Pcs
    BY DEF Pcs, ActivePcs
  <2>2. pc' \in [Thread -> Pcs] /\ TriesOK'
    BY <1>7, <2>1, GotoType, RetryType DEF MsConnect, TriesOK
  <2> QED BY <1>7, <2>2 DEF TypeOK, MsConnect, TriesOK
<1>8. CASE MsFailBeats(g)
  BY <1>8 DEF TypeOK, MsFailBeats, EndSs, Goto, AfterNetwork, Restart, Beats, Pcs, ActivePcs
<1>9. CASE MsFailTeardown(g)
  <2>1. AfterNetwork(g, FALSE) \in Pcs
    BY AfterNetworkType
  <2>2. pc' \in [Thread -> Pcs]
    BY <1>9, <2>1, GotoType DEF MsFailTeardown
  <2>3. held' \in BOOLEAN /\ if_sm_setup' \in BOOLEAN
    BY <1>9 DEF MsFailTeardown
  <2> QED BY <1>9, <2>2, <2>3 DEF TypeOK, MsFailTeardown
<1>10. CASE MsBegin(g)
  <2>1. AfterNetwork(g, TRUE) \in Pcs /\ AfterNetwork(g, FALSE) \in Pcs
    BY AfterNetworkType
  <2>2. pc' \in [Thread -> Pcs]
    BY <1>10, <2>1, GotoType DEF MsBegin
  <2>3. ms' \in Beats
    BY <1>10 DEF MsBegin, TypeOK, Beats
  <2>4. orphan' \subseteq {"ss", "ms"}
    BY <1>10 DEF MsBegin, TypeOK
  <2> QED BY <1>10, <2>2, <2>3, <2>4 DEF TypeOK, MsBegin
<1>11. CASE RtspPlay(g)
  BY <1>11 DEF TypeOK, RtspPlay, Goto, Pcs, ActivePcs
<1>12. CASE Tune(g)
  BY <1>12 DEF TypeOK, Tune, Goto, Pcs, ActivePcs
<1>13. CASE Search(g)
  BY <1>13 DEF TypeOK, Search, Goto, Pcs, ActivePcs
<1>14. CASE SearchPoll(g)
  <2>1. "failBeats" \in Pcs /\ "search" \in Pcs
    BY DEF Pcs, ActivePcs
  <2>2. pc' \in [Thread -> Pcs] /\ TriesOK'
    BY <1>14, <2>1, GotoType, RetryType DEF SearchPoll, TriesOK, TypeOK
  <2>3. queue' \in Seq(Message) /\ Len(queue') <= QueueCap
    BY <1>14, TakenType DEF SearchPoll
  <2> QED BY <1>14, <2>2, <2>3 DEF TypeOK, SearchPoll, TriesOK
<1>15. CASE StartDecoder(g)
  BY <1>15 DEF TypeOK, StartDecoder, Goto, Pcs, ActivePcs
<1>16. CASE ResumeDecoder(g)
  BY <1>16 DEF TypeOK, ResumeDecoder, Goto, Pcs, ActivePcs
<1>17. CASE PollVolume(g)
  BY <1>17, TakenType DEF TypeOK, PollVolume
<1>18. CASE PollMulticast(g)
  <2>1. queue' \in Seq(Message) /\ Len(queue') <= QueueCap
    BY <1>18, TakenType DEF PollMulticast
  <2>2. pc' \in [Thread -> Pcs]
    BY <1>18, GotoType DEF PollMulticast, ChangeUrl, Restart, TypeOK, Pcs, ActivePcs
  <2>3. /\ ctx' \in {"start", "multicast", "unicast", "tuneFail"}
        /\ clients' \in {"live", "freed"} /\ TriesOK'
    BY <1>18 DEF PollMulticast, ChangeUrl, EnterNetwork, TypeOK, TriesOK
  <2>4. held' \in BOOLEAN /\ leaked' \in BOOLEAN
    BY <1>18 DEF PollMulticast, ChangeUrl, EnterNetwork, TypeOK
  <2>5. trick' \in BOOLEAN /\ status' \in {"none", "play", "quit"}
    BY <1>18 DEF PollMulticast, TypeOK
  <2> QED BY <1>18, <2>1, <2>2, <2>3, <2>4, <2>5 DEF TypeOK, PollMulticast, TriesOK
<1>19. CASE PollUnicast(g)
  <2>1. queue' \in Seq(Message) /\ Len(queue') <= QueueCap
    BY <1>19, TakenType DEF PollUnicast
  <2>2. pc' \in [Thread -> Pcs]
    BY <1>19, GotoType DEF PollUnicast, ChangeUrl, Restart, TypeOK, Pcs, ActivePcs
  <2>3. /\ ctx' \in {"start", "multicast", "unicast", "tuneFail"}
        /\ clients' \in {"live", "freed"} /\ TriesOK'
    BY <1>19 DEF PollUnicast, ChangeUrl, EnterNetwork, TypeOK, TriesOK
  <2>4. held' \in BOOLEAN /\ leaked' \in BOOLEAN
    BY <1>19 DEF PollUnicast, ChangeUrl, EnterNetwork, TypeOK
  <2>5. trick' \in BOOLEAN /\ status' \in {"none", "play", "quit"}
    BY <1>19 DEF PollUnicast, TypeOK
  <2> QED BY <1>19, <2>1, <2>2, <2>3, <2>4, <2>5 DEF TypeOK, PollUnicast, TriesOK
<1>20. CASE FailBeats(g)
  BY <1>20 DEF TypeOK, FailBeats, Goto, EndHeartbeats, EndSs, Beats, Pcs, ActivePcs
<1>21. CASE FailTeardown(g)
  BY <1>21 DEF TypeOK, FailTeardown, Goto, Pcs, ActivePcs
<1>22. CASE CleanupBeats(g)
  BY <1>22 DEF TypeOK, CleanupBeats, Goto, EndHeartbeats, EndSs, Beats, Pcs, ActivePcs
<1>23. CASE CleanupTeardown(g)
  BY <1>23 DEF TypeOK, CleanupTeardown, Goto, Pcs, ActivePcs
<1>24. CASE ReleaseClients(g)
  <2>1. pc' \in [Thread -> Pcs]
    BY <1>24, GotoType DEF ReleaseClients, Pcs, ActivePcs
  <2>2. if_sm_setup' \in BOOLEAN /\ clients' \in {"live", "freed"}
    BY <1>24 DEF ReleaseClients
  <2> QED BY <1>24, <2>1, <2>2 DEF TypeOK, ReleaseClients
<1>25. CASE StopDecoder(g)
  BY <1>25 DEF TypeOK, StopDecoder, Goto, Pcs, ActivePcs
<1>26. CASE Callback(g)
  BY <1>26 DEF TypeOK, Callback, Goto, Pcs, ActivePcs
<1>27. CASE ClearId(g)
  BY <1>27 DEF TypeOK, ClearId, Goto, Pcs, ActivePcs
<1> QED
  BY <1>1, <1>2, <1>3, <1>4, <1>5, <1>6, <1>7, <1>8, <1>9, <1>10, <1>11, <1>12, <1>13, <1>14, <1>15, <1>16, <1>17, <1>18, <1>19, <1>20, <1>21, <1>22, <1>23, <1>24, <1>25, <1>26, <1>27
     DEF Player, Network, Poll, Leave

LEMMA HeartbeatsType ==
  ASSUME TypeOK, StartRoom, Heartbeats
  PROVE  TypeOK' /\ StartRoom'
<1> USE BoundsAssumption DEF BoundsAssumption, StartRoom, beatFrame,
      callerVars, idVars, fieldVars, beatVars, sessVars
<1>1. CASE SsStart
  <2>1. ssErr' \in BOOLEAN
    BY <1>1 DEF SsStart
  <2> QED BY <1>1, <2>1 DEF TypeOK, SsStart, Beats
<1>2. CASE SsFail BY <1>2 DEF TypeOK, SsFail, Beats
<1>3. CASE MsStart
  <2>1. msErr' \in BOOLEAN
    BY <1>3 DEF MsStart
  <2> QED BY <1>3, <2>1 DEF TypeOK, MsStart, Beats
<1>4. CASE MsFail BY <1>4 DEF TypeOK, MsFail, Beats
<1>5. CASE MsAnnounce BY <1>5 DEF TypeOK, MsAnnounce
<1>6. CASE OrphanWrites
  <2>1. ssErr' \in BOOLEAN /\ msErr' \in BOOLEAN
    BY <1>6 DEF OrphanWrites, TypeOK
  <2> QED BY <1>6, <2>1 DEF TypeOK, OrphanWrites
<1> QED BY <1>1, <1>2, <1>3, <1>4, <1>5, <1>6 DEF Heartbeats

LEMMA TypeNext == TypeOK /\ StartRoom /\ [Next]_vars => TypeOK' /\ StartRoom'
<1> SUFFICES ASSUME TypeOK, StartRoom, [Next]_vars PROVE TypeOK' /\ StartRoom'
  OBVIOUS
<1>1. CASE Caller BY <1>1, CallerType
<1>2. CASE \E g \in Thread : Player(g) BY <1>2, PlayerType
<1>3. CASE Heartbeats BY <1>3, HeartbeatsType
<1>4. CASE Die
  <2>1. crashed' \in BOOLEAN
    BY <1>4 DEF Die
  <2> QED BY <1>4, <2>1
        DEF Die, TypeOK, StartRoom, callerVars, idVars, fieldVars, beatVars, sessVars
<1>5. CASE UNCHANGED vars
  BY <1>5 DEF vars, TypeOK, StartRoom, callerVars, idVars, fieldVars, beatVars, sessVars
<1> QED BY <1>1, <1>2, <1>3, <1>4, <1>5 DEF Next

\* In every reachable state each field of the player holds a value the code
\* gives it; the retry loops stay under their limits and msgsnd under the
\* queue's capacity.
THEOREM TypeCorrect == Spec => []TypeOK
<1>1. Init => TypeOK /\ StartRoom
  BY InitTypeOK DEF Init, StartRoom
<1> QED BY <1>1, TypeNext, PTL DEF Spec

-----------------------------------------------------------------------------
(* One player thread *)

\* What every step of a player thread leaves alone, and the three ways it can
\* treat the id: keep it while the thread works, keep it after the thread's
\* work, or clear it as the last thing the thread does to the player.
LEMMA PlayerKeeps ==
  ASSUME TypeOK, NEW g \in Thread, Player(g)
  PROVE  /\ UNCHANGED <<callerVars, created>>
         /\ \A h \in Thread \ {g} : pc'[h] = pc[h]
         /\ \/ Active(g) /\ tid' = tid
            \/ ~Active(g) /\ ~Active(g)' /\ tid' = tid
            \/ Active(g) /\ ~Active(g)' /\ tid' = 0
<1> USE DEF TypeOK, playerTail, netFrame, playFrame, pollFrame, exitFrame, At, Goto,
      Active, ActivePcs
<1>1. CASE BeginThread(g) BY <1>1 DEF BeginThread, idVars
<1>2. CASE ClearDummyKey(g) BY <1>2 DEF ClearDummyKey
<1>3. CASE Connect(g) BY <1>3 DEF Connect, Retry
<1>4. CASE Setup(g) BY <1>4 DEF Setup
<1>5. CASE SetupPoll(g) BY <1>5 DEF SetupPoll, Retry
<1>6. CASE SsBegin(g) BY <1>6 DEF SsBegin
<1>7. CASE MsConnect(g) BY <1>7 DEF MsConnect, Retry
<1>8. CASE MsFailBeats(g) BY <1>8 DEF MsFailBeats
<1>9. CASE MsFailTeardown(g) BY <1>9 DEF MsFailTeardown
<1>10. CASE MsBegin(g) BY <1>10 DEF MsBegin
<1>11. CASE RtspPlay(g) BY <1>11 DEF RtspPlay
<1>12. CASE Tune(g) BY <1>12 DEF Tune
<1>13. CASE Search(g) BY <1>13 DEF Search
<1>14. CASE SearchPoll(g) BY <1>14 DEF SearchPoll, Retry
<1>15. CASE StartDecoder(g) BY <1>15 DEF StartDecoder
<1>16. CASE ResumeDecoder(g) BY <1>16 DEF ResumeDecoder
<1>17. CASE PollVolume(g) BY <1>17 DEF PollVolume
<1>18. CASE PollMulticast(g) BY <1>18 DEF PollMulticast, ChangeUrl
<1>19. CASE PollUnicast(g) BY <1>19 DEF PollUnicast, ChangeUrl
<1>20. CASE FailBeats(g) BY <1>20 DEF FailBeats, EndHeartbeats
<1>21. CASE FailTeardown(g) BY <1>21 DEF FailTeardown
<1>22. CASE CleanupBeats(g) BY <1>22 DEF CleanupBeats, EndHeartbeats
<1>23. CASE CleanupTeardown(g) BY <1>23 DEF CleanupTeardown
<1>24. CASE ReleaseClients(g) BY <1>24 DEF ReleaseClients
<1>25. CASE StopDecoder(g) BY <1>25 DEF StopDecoder
<1>26. CASE Callback(g) BY <1>26 DEF Callback
<1>27. CASE ClearId(g) BY <1>27 DEF ClearId
<1> QED
  BY <1>1, <1>2, <1>3, <1>4, <1>5, <1>6, <1>7, <1>8, <1>9, <1>10, <1>11, <1>12, <1>13, <1>14, <1>15, <1>16, <1>17, <1>18, <1>19, <1>20, <1>21, <1>22, <1>23, <1>24, <1>25, <1>26, <1>27
     DEF Player, Network, Poll, Leave

\* The joined thread is the one created last, and so is the one the id names.
JoinsLast == (tid # 0 => tid = created) /\ (cpc = "wait" => jt = created)

OneInv == OneActive /\ JoinsLast

LEMMA OneNext ==
  ASSUME TypeOK, OneInv, [Next]_vars
  PROVE  OneInv'
<1> USE DEF OneInv, OneActive, JoinsLast, TypeOK
<1>1. CASE Caller
  <2> USE DEF playerFrame, Enter, Return, AfterJoin, callerVars, idVars
  <2>1. CASE CreateThread
    <3>1. created + 1 \in Nat /\ \A h \in Thread : ~Active(h)
      BY <2>1 DEF CreateThread, Thread
    <3>2. \A h \in Thread : Active(h)' => h = created + 1
      BY <2>1, <3>1 DEF CreateThread, Active
    <3> QED BY <2>1, <3>1, <3>2 DEF CreateThread
  <2>2. CASE JoinReturns
    <3>1. \A h \in Thread : ~Active(h)
      BY <2>2 DEF JoinReturns, Active, ActivePcs
    <3>2. UNCHANGED <<pc, created>> /\ tid' = 0 /\ cpc' # "wait"
      BY <2>2 DEF JoinReturns
    <3> QED BY <3>1, <3>2 DEF Active
  <2>3. CASE ReadJoinTarget
    <3>1. UNCHANGED <<pc, created>>
      BY <2>3 DEF ReadJoinTarget
    <3>2. /\ tid' = tid
          /\ cpc' = "wait" => jt' = tid /\ tid # 0
      BY <2>3 DEF ReadJoinTarget
    <3> QED BY <3>1, <3>2 DEF Active
  <2>4. ASSUME ~CreateThread, ~JoinReturns, ~ReadJoinTarget
        PROVE  UNCHANGED <<tid, created, pc>> /\ cpc' # "wait"
    BY <1>1, <2>4
       DEF Caller, JoinChannel, SetSingleMedia, PlayFromStart, PlayByTime, SendToThread,
           SetVolume, VcrSend, VcrArm, CallStop, SendQuit, ReleasePlayer
  <2> QED BY <2>1, <2>2, <2>3, <2>4 DEF Active
<1>2. CASE \E g \in Thread : Player(g)
  <2>1. PICK g \in Thread : Player(g)
    BY <1>2
  <2>2. /\ UNCHANGED <<cpc, jt, created>>
        /\ \A h \in Thread \ {g} : Active(h)' => Active(h)
        /\ \/ Active(g) /\ tid' = tid
           \/ ~Active(g) /\ ~Active(g)' /\ tid' = tid
           \/ Active(g) /\ ~Active(g)' /\ tid' = 0
    BY <2>1, PlayerKeeps DEF callerVars, Active
  <2>3. OneActive'
    BY <2>2
  <2>4. JoinsLast'
    BY <2>2
  <2> QED BY <2>3, <2>4
<1>3. CASE Heartbeats
  BY <1>3 DEF Heartbeats, SsStart, SsFail, MsStart, MsFail, MsAnnounce, OrphanWrites,
              beatFrame, callerVars, idVars, Active
<1>4. CASE Die \/ UNCHANGED vars
  BY <1>4 DEF Die, vars, callerVars, idVars, Active
<1> QED BY <1>1, <1>2, <1>3, <1>4 DEF Next

\* The reading of mediaplayer_thread that decides between pthread_create and a
\* message is right: at most one thread works, and the field names it.
THEOREM OneActiveThread == Spec => []OneActive
<1>1. Init => OneInv
  BY DEF Init, OneInv, OneActive, JoinsLast, Active, ActivePcs, Thread
<1>2. Init => TypeOK /\ StartRoom
  BY InitTypeOK DEF Init, StartRoom
<1>3. OneInv => OneActive
  BY DEF OneInv
<1>4. TypeOK /\ StartRoom /\ OneInv /\ [Next]_vars => TypeOK' /\ StartRoom' /\ OneInv'
  BY TypeNext, OneNext
<1> QED BY <1>1, <1>2, <1>3, <1>4, PTL DEF Spec

-----------------------------------------------------------------------------
(* No stale message *)

Early(g) == pc[g] \in {"begin", "clear"}

\* A player thread only takes messages; the step that makes it look at the
\* queue at all is the one that empties it.
LEMMA PlayerTakes ==
  ASSUME TypeOK, NEW g \in Thread, Player(g)
  PROVE  /\ queue' \in {queue, Taken, <<>>}
         /\ Active(g)' => Active(g)
         /\ Early(g) => Early(g)' \/ queue' = <<>>
<1> USE DEF TypeOK, playerTail, netFrame, playFrame, pollFrame, exitFrame, At, Goto,
      Active, ActivePcs, Early
<1>1. CASE BeginThread(g) BY <1>1 DEF BeginThread
<1>2. CASE ClearDummyKey(g) BY <1>2 DEF ClearDummyKey
<1>3. CASE Connect(g) BY <1>3 DEF Connect, Retry
<1>4. CASE Setup(g) BY <1>4 DEF Setup
<1>5. CASE SetupPoll(g) BY <1>5 DEF SetupPoll, Retry
<1>6. CASE SsBegin(g) BY <1>6 DEF SsBegin
<1>7. CASE MsConnect(g) BY <1>7 DEF MsConnect, Retry
<1>8. CASE MsFailBeats(g) BY <1>8 DEF MsFailBeats
<1>9. CASE MsFailTeardown(g) BY <1>9 DEF MsFailTeardown
<1>10. CASE MsBegin(g) BY <1>10 DEF MsBegin
<1>11. CASE RtspPlay(g) BY <1>11 DEF RtspPlay
<1>12. CASE Tune(g) BY <1>12 DEF Tune
<1>13. CASE Search(g) BY <1>13 DEF Search
<1>14. CASE SearchPoll(g) BY <1>14 DEF SearchPoll, Retry
<1>15. CASE StartDecoder(g) BY <1>15 DEF StartDecoder
<1>16. CASE ResumeDecoder(g) BY <1>16 DEF ResumeDecoder
<1>17. CASE PollVolume(g) BY <1>17 DEF PollVolume
<1>18. CASE PollMulticast(g) BY <1>18 DEF PollMulticast, ChangeUrl
<1>19. CASE PollUnicast(g) BY <1>19 DEF PollUnicast, ChangeUrl
<1>20. CASE FailBeats(g) BY <1>20 DEF FailBeats, EndHeartbeats
<1>21. CASE FailTeardown(g) BY <1>21 DEF FailTeardown
<1>22. CASE CleanupBeats(g) BY <1>22 DEF CleanupBeats, EndHeartbeats
<1>23. CASE CleanupTeardown(g) BY <1>23 DEF CleanupTeardown
<1>24. CASE ReleaseClients(g) BY <1>24 DEF ReleaseClients
<1>25. CASE StopDecoder(g) BY <1>25 DEF StopDecoder
<1>26. CASE Callback(g) BY <1>26 DEF Callback
<1>27. CASE ClearId(g) BY <1>27 DEF ClearId
<1> QED
  BY <1>1, <1>2, <1>3, <1>4, <1>5, <1>6, <1>7, <1>8, <1>9, <1>10, <1>11, <1>12, <1>13, <1>14, <1>15, <1>16, <1>17, <1>18, <1>19, <1>20, <1>21, <1>22, <1>23, <1>24, <1>25, <1>26, <1>27
     DEF Player, Network, Poll, Leave

Fresh(q, g) == \A i \in 1 .. Len(q) : q[i].gen = g

LEMMA FreshTaken ==
  ASSUME TypeOK, NEW g, Fresh(queue, g)
  PROVE  Fresh(Taken, g)
<1>1. CASE queue = <<>>
  BY <1>1 DEF Taken, Fresh
<1>2. CASE queue # <<>>
  <2>1. /\ Taken = Tail(queue) /\ Len(Taken) = Len(queue) - 1
        /\ \A i \in 1 .. Len(Taken) : Taken[i] = queue[i + 1]
    BY <1>2 DEF Taken, TypeOK
  <2>2. Len(queue) \in Nat
    BY DEF TypeOK
  <2> QED BY <2>1, <2>2 DEF Fresh
<1> QED BY <1>1, <1>2

LEMMA FreshSend ==
  ASSUME TypeOK, NEW c \in Cmds, Send(c), Fresh(queue, created)
  PROVE  Fresh(queue', created)
<1>1. CASE Len(queue) < QueueCap
  <2> DEFINE m == [cmd |-> c, gen |-> created]
  <2>1. queue' = Append(queue, m) /\ created \in Nat
    BY <1>1 DEF Send, TypeOK
  <2>2. /\ Len(queue') = Len(queue) + 1 /\ Len(queue) \in Nat
        /\ \A i \in 1 .. Len(queue) : queue'[i] = queue[i]
        /\ queue'[Len(queue) + 1] = m
    BY <2>1 DEF TypeOK
  <2>3. m.gen = created
    OBVIOUS
  <2>4. \A i \in 1 .. Len(queue') : queue'[i].gen = created
    BY <2>2, <2>3 DEF Fresh
  <2> QED BY <2>4 DEF Fresh
<1>2. CASE ~(Len(queue) < QueueCap)
  BY <1>2 DEF Send, Fresh
<1> QED BY <1>1, <1>2

LEMMA FreshNext ==
  ASSUME TypeOK, OneInv, NoStaleMessage, [Next]_vars
  PROVE  NoStaleMessage'
<1>0. \A g \in Thread : Active(g) /\ ~Early(g) => g = created /\ Fresh(queue, g)
  BY DEF NoStaleMessage, OneInv, OneActive, Fresh, Early
<1> SUFFICES ASSUME NEW g \in Thread, Active(g)', ~Early(g)'
             PROVE  Fresh(queue', g)
  BY DEF NoStaleMessage, Fresh, Early
<1>1. CASE Caller
  <2> USE DEF playerFrame, Enter, Return, AfterJoin, callerVars, idVars
  <2>1. CASE CreateThread
    <3>1. \A h \in Thread : ~Active(h)
      BY <2>1 DEF CreateThread, OneInv, OneActive, Thread
    <3>2. pc'[g] = pc[g] \/ Early(g)'
      BY <2>1 DEF CreateThread, Early, TypeOK
    <3> QED BY <3>1, <3>2 DEF Active
  <2>2. ASSUME ~CreateThread
        PROVE  /\ pc' = pc
               /\ queue' = queue \/ \E c \in Cmds : Send(c)
    BY <1>1, <2>2
       DEF Caller, JoinChannel, SetSingleMedia, PlayFromStart, PlayByTime, SendToThread,
           SetVolume, VcrSend, VcrArm, CallStop, SendQuit, ReadJoinTarget, JoinReturns,
           ReleasePlayer, Cmds
  <2>3. CASE ~CreateThread
    <3>1. g = created /\ Fresh(queue, g)
      BY <1>0, <2>2, <2>3 DEF Active, Early
    <3> QED BY <2>2, <2>3, <3>1, FreshSend
  <2> QED BY <2>1, <2>3
<1>2. CASE \E h \in Thread : Player(h)
  <2>1. PICK h \in Thread : Player(h)
    BY <1>2
  <2>2. queue' \in {queue, Taken, <<>>}
    BY <2>1, PlayerTakes
  <2>3. CASE queue' = <<>>
    BY <2>3 DEF Fresh
  <2>4. CASE queue' # <<>>
    <3>1. Active(g) /\ ~Early(g)
      BY <2>1, <2>4, PlayerTakes, PlayerKeeps DEF Active, Early
    <3> QED BY <1>0, <2>2, <2>4, <3>1, FreshTaken
  <2> QED BY <2>3, <2>4
<1>3. CASE Heartbeats
  BY <1>0, <1>3 DEF Heartbeats, SsStart, SsFail, MsStart, MsFail, MsAnnounce, OrphanWrites,
              beatFrame, Active, Early
<1>4. CASE Die \/ UNCHANGED vars
  BY <1>0, <1>4 DEF Die, vars, Active, Early
<1> QED BY <1>1, <1>2, <1>3, <1>4 DEF Next

\* A message sent to one player thread is never received by the next.
THEOREM NoMessageCrosses == Spec => []NoStaleMessage
<1>1. Init => OneInv /\ NoStaleMessage
  BY DEF Init, OneInv, OneActive, JoinsLast, NoStaleMessage, Active, ActivePcs, Thread
<1>2. Init => TypeOK /\ StartRoom
  BY InitTypeOK DEF Init, StartRoom
<1>3. TypeOK /\ StartRoom /\ OneInv /\ NoStaleMessage /\ [Next]_vars
        => TypeOK' /\ StartRoom' /\ OneInv' /\ NoStaleMessage'
  BY TypeNext, OneNext, FreshNext
<1> QED BY <1>1, <1>2, <1>3, PTL DEF Spec

-----------------------------------------------------------------------------
(* No QUIT is taken in vain *)

\* Taking a message leaves every QUIT but one at the front.
LEMMA TakenQuit ==
  ASSUME TypeOK, NEW g \in Thread, queue' = Taken, TakesQuit(g)
  PROVE  Received = "QUIT"
<1>1. PICK i \in 1 .. Len(queue) : queue[i] = [cmd |-> "QUIT", gen |-> g]
  BY DEF TakesQuit, QuitWaits
<1>2. queue # <<>> /\ Len(queue) \in Nat
  BY <1>1 DEF TypeOK
<1>3. /\ Taken = Tail(queue) /\ Len(Taken) = Len(queue) - 1 /\ Received = queue[1].cmd
      /\ \A j \in 1 .. Len(Taken) : Taken[j] = queue[j + 1]
  BY <1>2 DEF Taken, Received, TypeOK
<1>4. CASE i = 1
  BY <1>1, <1>3, <1>4
<1>5. CASE i # 1
  <2>1. i - 1 \in 1 .. Len(queue') /\ queue'[i - 1] = queue[i]
    BY <1>2, <1>3, <1>5
  <2>2. QuitWaits(g)'
    BY <1>1, <2>1 DEF QuitWaits
  <2> QED BY <2>2 DEF TakesQuit
<1> QED BY <1>4, <1>5

\* The five places that look at the queue, and what each does with a QUIT.
LEMMA PlayerQuit ==
  ASSUME TypeOK, NEW g \in Thread, Player(g), ~Early(g), TakesQuit(g)
  PROVE  pc'[g] \in {"clearId", "failBeats", "endBeats"} \/ MayReplace(g)
<1> USE DEF TypeOK, playerTail, netFrame, playFrame, pollFrame, exitFrame, At, Goto
<1>1. queue' # queue /\ (queue' = Taken => Received = "QUIT")
  <2>1. Len(queue') < Len(queue) /\ Len(queue) \in Nat
    BY DEF TakesQuit
  <2> QED BY <2>1, TakenQuit
<1>2. CASE SetupPoll(g)
  BY <1>1, <1>2 DEF SetupPoll, AfterNetwork, MayReplace
<1>3. CASE SearchPoll(g)
  BY <1>1, <1>3 DEF SearchPoll
<1>4. CASE PollVolume(g)
  BY <1>1, <1>4 DEF PollVolume
<1>5. CASE PollMulticast(g)
  <2>1. MulticastCmd = "QUIT"
    BY <1>1, <1>5 DEF PollMulticast, MulticastCmd
  <2> QED BY <1>5, <2>1 DEF PollMulticast
<1>6. CASE PollUnicast(g)
  <2>1. Received = "QUIT" /\ pc[g] = "loop" /\ setup = "UNI"
    BY <1>1, <1>6 DEF PollUnicast
  <2>2. CASE trick \/ status = "play"
    BY <2>1, <2>2 DEF MayReplace
  <2>3. CASE ~trick /\ status # "play"
    <3>1. UnicastCmd = "QUIT"
      BY <2>1, <2>3 DEF UnicastCmd
    <3> QED BY <1>6, <2>3, <3>1 DEF PollUnicast
  <2> QED BY <2>2, <2>3
<1>7. CASE ClearDummyKey(g) \/ BeginThread(g)
  BY <1>7 DEF ClearDummyKey, BeginThread, Early
<1>8. CASE Network(g) /\ ~SetupPoll(g)
  BY <1>1, <1>8 DEF Network, Connect, Setup, SsBegin, MsConnect, MsFailBeats, MsFailTeardown, MsBegin
<1>9. CASE RtspPlay(g) \/ Tune(g) \/ Search(g) \/ StartDecoder(g) \/ ResumeDecoder(g)
  BY <1>1, <1>9 DEF RtspPlay, Tune, Search, StartDecoder, ResumeDecoder
<1>10. CASE Leave(g)
  BY <1>1, <1>10
     DEF Leave, FailBeats, FailTeardown, CleanupBeats, CleanupTeardown, ReleaseClients,
         StopDecoder, Callback, ClearId, EndHeartbeats
<1> QED
  BY <1>2, <1>3, <1>4, <1>5, <1>6, <1>7, <1>8, <1>9, <1>10 DEF Player, Poll

\* A thread that has cleared the id has only its callback left.
LEMMA AfterworkIsCallback ==
  ASSUME NEW g \in Thread, Player(g), ~Active(g)
  PROVE  Callback(g)
BY DEF Active, ActivePcs, At, Player, Network, Poll, Leave,
   BeginThread, ClearDummyKey, Connect, Setup, SetupPoll, SsBegin, MsConnect, MsFailBeats,
   MsFailTeardown, MsBegin, RtspPlay, Tune, Search, SearchPoll, StartDecoder, ResumeDecoder,
   PollVolume, PollMulticast, PollUnicast, FailBeats, FailTeardown, CleanupBeats,
   CleanupTeardown, ReleaseClients, StopDecoder, ClearId

LEMMA AfterworkKeeps ==
  ASSUME NEW h \in Thread, Player(h), ~Active(h)
  PROVE  UNCHANGED <<queue, decoder, ctx>>
BY AfterworkIsCallback DEF Callback, exitFrame

\* A message only makes the queue longer.
LEMMA SendGrows ==
  ASSUME TypeOK, NEW c \in Cmds, Send(c)
  PROVE  ~(Len(queue') < Len(queue))
<1>1. Len(queue) \in Nat
  BY DEF TypeOK
<1> DEFINE m == [cmd |-> c, gen |-> created]
<1>2. queue' = queue \/ queue' = Append(queue, m)
  BY DEF Send
<1>3. Len(Append(queue, m)) = Len(queue) + 1
  BY DEF TypeOK
<1> QED BY <1>1, <1>2, <1>3

LEMMA QuitStep ==
  ASSUME TypeOK, OneInv, [Next]_vars, NEW g \in Thread, Active(g), ~Early(g), TakesQuit(g)
  PROVE  pc'[g] \in {"clearId", "failBeats", "endBeats"} \/ MayReplace(g)
<1>0. Len(queue') < Len(queue) /\ Len(queue) \in Nat
  BY DEF TakesQuit, TypeOK
<1>1. ~Caller
  <2>1. ASSUME Caller PROVE queue' = queue \/ \E c \in Cmds : Send(c)
    BY <2>1
       DEF Caller, JoinChannel, SetSingleMedia, PlayFromStart, PlayByTime, CreateThread,
           SendToThread, SetVolume, VcrSend, VcrArm, CallStop, SendQuit, ReadJoinTarget,
           JoinReturns, ReleasePlayer, AfterJoin, Cmds
  <2> QED BY <1>0, <2>1, SendGrows
<1>2. queue' # queue
  BY <1>0
<1>3. ~Heartbeats /\ ~Die /\ ~UNCHANGED vars
  BY <1>2 DEF Heartbeats, SsStart, SsFail, MsStart, MsFail, MsAnnounce, OrphanWrites, beatFrame,
              Die, vars
<1>4. PICK h \in Thread : Player(h)
  BY <1>1, <1>3 DEF Next
<1>5. h = g
  <2>1. CASE Active(h)
    BY <2>1 DEF OneInv, OneActive
  <2>2. CASE ~Active(h)
    BY <1>2, <1>4, <2>2, AfterworkKeeps
  <2> QED BY <2>1, <2>2
<1> QED BY <1>4, <1>5, PlayerQuit

\* Whoever of the player thread's code takes a QUIT from the queue leaves, but for the
\* replacements it knows: a stop that waits in its join waits for a thread on its way
\* out, for any number of threads, calls, retries and length of the queue.
THEOREM NoQuitTakenInVain == Spec => QuitHeeded
<1>1. Init => TypeOK /\ StartRoom /\ OneInv
  BY InitTypeOK DEF Init, StartRoom, OneInv, OneActive, JoinsLast, Active, ActivePcs, Thread
<1>2. TypeOK /\ StartRoom /\ OneInv /\ [Next]_vars => TypeOK' /\ StartRoom' /\ OneInv'
  BY TypeNext, OneNext
<1> DEFINE Heeded ==
             \A g \in Thread :
               Active(g) /\ pc[g] \notin {"begin", "clear"} /\ TakesQuit(g) =>
                 pc'[g] \in {"clearId", "failBeats", "endBeats"} \/ MayReplace(g)
<1>3. TypeOK /\ OneInv /\ [Next]_vars => [Heeded]_vars
  BY QuitStep DEF Early
<1>4. Spec => [][Heeded]_vars
  <2> HIDE DEF Heeded
  <2> QED BY <1>1, <1>2, <1>3, PTL DEF Spec
<1> QED BY <1>4 DEF QuitHeeded

-----------------------------------------------------------------------------
(* The decoder *)

\* The thread g is where its next way out leads over DSP_DVBplay_stop.
PlayPcs == {"dvbplay", "loop", "resume", "endBeats", "teardown", "release", "decStop"}
Plays(g) == pc[g] \in PlayPcs \/ (pc[g] \in NetPcs /\ ctx \in {"multicast", "unicast"})

LEMMA PlaysOn ==
  ASSUME TypeOK, NEW g \in Thread, Player(g),
         decoder = "playing" => Plays(g)
  PROVE  decoder' = "playing" => Plays(g)'
<1> USE DEF TypeOK, Plays, PlayPcs, NetPcs, playerTail, netFrame, playFrame, pollFrame,
      exitFrame, At, Goto
<1>1. CASE BeginThread(g) BY <1>1 DEF BeginThread
<1>2. CASE ClearDummyKey(g) BY <1>2 DEF ClearDummyKey
<1>3. CASE Connect(g) BY <1>3 DEF Connect, AfterNetwork, Restart, Retry
<1>4. CASE Setup(g) BY <1>4 DEF Setup, AfterNetwork, Restart
<1>5. CASE SetupPoll(g) BY <1>5 DEF SetupPoll, AfterNetwork, Restart, Retry
<1>6. CASE SsBegin(g) BY <1>6 DEF SsBegin, AfterNetwork, Restart
<1>7. CASE MsConnect(g) BY <1>7 DEF MsConnect, AfterNetwork, Restart, Retry
<1>8. CASE MsFailBeats(g) BY <1>8 DEF MsFailBeats, AfterNetwork, Restart
<1>9. CASE MsFailTeardown(g) BY <1>9 DEF MsFailTeardown, AfterNetwork, Restart
<1>10. CASE MsBegin(g) BY <1>10 DEF MsBegin, AfterNetwork, Restart
<1>11. CASE RtspPlay(g) BY <1>11 DEF RtspPlay
<1>12. CASE Tune(g) BY <1>12 DEF Tune
<1>13. CASE Search(g) BY <1>13 DEF Search
<1>14. CASE SearchPoll(g) BY <1>14 DEF SearchPoll, Retry
<1>15. CASE StartDecoder(g) BY <1>15 DEF StartDecoder
<1>16. CASE ResumeDecoder(g) BY <1>16 DEF ResumeDecoder
<1>17. CASE PollVolume(g) BY <1>17 DEF PollVolume
<1>18. CASE PollMulticast(g) BY <1>18 DEF PollMulticast, ChangeUrl
<1>19. CASE PollUnicast(g) BY <1>19 DEF PollUnicast, ChangeUrl, Restart
<1>20. CASE FailBeats(g) BY <1>20 DEF FailBeats, EndHeartbeats
<1>21. CASE FailTeardown(g) BY <1>21 DEF FailTeardown
<1>22. CASE CleanupBeats(g) BY <1>22 DEF CleanupBeats, EndHeartbeats
<1>23. CASE CleanupTeardown(g) BY <1>23 DEF CleanupTeardown
<1>24. CASE ReleaseClients(g) BY <1>24 DEF ReleaseClients
<1>25. CASE StopDecoder(g) BY <1>25 DEF StopDecoder
<1>26. CASE Callback(g) BY <1>26 DEF Callback
<1>27. CASE ClearId(g) BY <1>27 DEF ClearId
<1> QED
  BY <1>1, <1>2, <1>3, <1>4, <1>5, <1>6, <1>7, <1>8, <1>9, <1>10, <1>11, <1>12, <1>13, <1>14, <1>15, <1>16, <1>17, <1>18, <1>19, <1>20, <1>21, <1>22, <1>23, <1>24, <1>25, <1>26, <1>27
     DEF Player, Network, Poll, Leave

DecInv == decoder = "playing" => \E g \in Thread : Plays(g)

LEMMA DecNext ==
  ASSUME TypeOK, OneInv, DecInv, [Next]_vars
  PROVE  DecInv'
<1>0. \A g \in Thread : Plays(g) => Active(g)
  BY DEF Plays, PlayPcs, NetPcs, Active, ActivePcs
<1> SUFFICES ASSUME decoder' = "playing"
             PROVE  \E g \in Thread : Plays(g)'
  BY DEF DecInv
<1>1. CASE Caller
  <2> USE DEF playerFrame, Enter, Return, AfterJoin
  <2>1. CASE CreateThread
    <3>1. decoder = "playing"
      BY <2>1 DEF CreateThread
    <3>2. PICK g \in Thread : Plays(g)
      BY <3>1 DEF DecInv
    <3> QED BY <1>0, <2>1, <3>2 DEF CreateThread, OneInv, OneActive, Thread
  <2>2. ASSUME ~CreateThread
        PROVE  UNCHANGED <<pc, ctx, decoder>>
    BY <1>1, <2>2
       DEF Caller, JoinChannel, SetSingleMedia, PlayFromStart, PlayByTime, SendToThread,
           SetVolume, VcrSend, VcrArm, CallStop, SendQuit, ReadJoinTarget, JoinReturns,
           ReleasePlayer
  <2> QED BY <2>1, <2>2 DEF DecInv, Plays
<1>2. CASE \E h \in Thread : Player(h)
  <2>1. PICK h \in Thread : Player(h)
    BY <1>2
  <2>2. CASE Active(h)
    <3>1. decoder = "playing" => Plays(h)
      BY <1>0, <2>2 DEF DecInv, OneInv, OneActive
    <3> QED BY <2>1, <3>1, PlaysOn
  <2>3. CASE ~Active(h)
    <3>1. UNCHANGED <<decoder, ctx>>
      BY <2>1, <2>3, AfterworkKeeps
    <3>2. PICK g \in Thread : Plays(g)
      BY <3>1 DEF DecInv
    <3>3. pc'[g] = pc[g]
      BY <1>0, <2>1, <2>3, <3>2, PlayerKeeps
    <3> QED BY <3>1, <3>2, <3>3 DEF Plays
  <2> QED BY <2>2, <2>3
<1>3. CASE Heartbeats
  BY <1>3 DEF Heartbeats, SsStart, SsFail, MsStart, MsFail, MsAnnounce, OrphanWrites,
              beatFrame, DecInv, Plays
<1>4. CASE Die \/ UNCHANGED vars
  BY <1>4 DEF Die, vars, DecInv, Plays
<1> QED BY <1>1, <1>2, <1>3, <1>4 DEF Next

\* No way out of a player thread leaves the demultiplexer and the decoder
\* running with nobody to stop them.
THEOREM DecoderHasOwner == Spec => []DecoderOwned
<1>1. Init => OneInv /\ DecInv
  BY DEF Init, OneInv, OneActive, JoinsLast, DecInv, Active, ActivePcs, Thread
<1>2. Init => TypeOK /\ StartRoom
  BY InitTypeOK DEF Init, StartRoom
<1>3. TypeOK /\ StartRoom /\ OneInv /\ DecInv /\ [Next]_vars
        => TypeOK' /\ StartRoom' /\ OneInv' /\ DecInv'
  BY TypeNext, OneNext, DecNext
<1>4. DecInv => DecoderOwned
  BY DEF DecInv, DecoderOwned, Plays, PlayPcs
<1> QED BY <1>1, <1>2, <1>3, <1>4, PTL DEF Spec

=============================================================================
