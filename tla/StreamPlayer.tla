---------------------------- MODULE StreamPlayer ----------------------------
(***************************************************************************)
(* The life of one StreamMediaPlayer: the page's thread (the caller of the *)
(* public operations), the player thread it creates and joins, the message *)
(* queue between them, the RTSP session the player thread holds at the     *)
(* session manager, and the two keep-alive threads that watch the session  *)
(* (ss) and the streaming (ms) connection.                                 *)
(*                                                                         *)
(* The caller and the player thread share plain fields with no lock, so    *)
(* every read and write of one is a step of its own.  What the trick-mode  *)
(* commands do to the picture is abstracted (module Vcr models it); here   *)
(* they are messages that may restart the decoder and that may replace the *)
(* command the player thread has just received.                            *)
(***************************************************************************)
EXTENDS Naturals, Sequences

CONSTANTS
  Ops,          \* the operations of the player the page uses
  Env,          \* the calls that may fail and the server messages that may come
  Dirty,        \* the uninitialised fields that may hold anything, not just zero
  Disciplined,  \* TRUE: the page starts a medium only after it stopped the last one
  MaxThreads,   \* bound: player threads created in a behaviour
  MaxCalls,     \* bound: operations called in a behaviour
  QueueCap,     \* messages the queue holds before msgsnd fails
  NetTries,     \* ESTABLISH_TIMES and SETUP_TIMES
  SearchTries   \* MAX_SEARCH_RETRY_TIMES

ASSUME BoundsAssumption ==
  /\ MaxThreads \in Nat \ {0}
  /\ MaxCalls \in Nat
  /\ QueueCap \in Nat \ {0}
  /\ NetTries \in Nat \ {0}
  /\ SearchTries \in Nat \ {0}
  /\ Disciplined \in BOOLEAN

StartOps == {"joinChannel", "setSingleMedia", "playFromStart", "playByTime"}
StopOps  == {"stop", "leaveChannel", "destroy"}
Thread   == 1 .. MaxThreads
Cmds     == {"URLCHANGE", "VOLUMECHANGE", "VCR", "SEEK", "REALTIMETV", "QUIT"}
Message  == [cmd : Cmds, gen : 0 .. MaxThreads]

\* Where a player thread is.  A thread is `active' from its creation to the
\* step that clears mediaplayer_thread; after it only a callback may remain.
ActivePcs ==
  {"begin", "clear", "connect", "setup", "setupPoll", "ssBegin", "msConnect",
   "msFail", "msFailTeardown", "msBegin", "rtspPlay", "tune", "search", "searchPoll", "dvbplay",
   "loop", "resume", "failBeats", "failTeardown", "endBeats", "teardown",
   "release", "decStop", "cbBefore", "clearId", "lastClear"}
Cpcs  == {"idle", "start", "arm", "quit", "join", "wait", "release", "destroyed"}
Beats == {"none", "starting", "run", "dead"}
Pcs   == ActivePcs \union {"unborn", "cbAfter", "done"}

VARIABLES
  cpc,        \* what the caller is doing: idle, or inside an operation
  op,         \* the operation it is in, or none
  jt,         \* the thread pthread_join waits for, or 0
  calls,      \* operations called so far (bound)
  mayStart,   \* the page is free to start a medium
  queue,      \* the System V message queue
  tid,        \* mediaplayer_thread: 0 or the thread created last
  created,    \* threads created so far
  pc, kind,   \* per thread: where it is; the main function it runs
  ctx,        \* what Network_Init returns to, or the early exit taken
  tries,      \* the running retry counter
  stype, setup, if_sm_setup,   \* shared fields of the player object
  trick,      \* pause_into_tvs = PAUSE_TRIG, or backward_into_tvs
  status,     \* player_status of the streaming client, set by an ANNOUNCE
  clients,    \* the two RTSPClient_prv objects: allocated or deleted
  held,       \* the server holds a session the client can still tear down
  leaked,     \* the server holds a session whose id the client has lost
  ss, ssErr,  \* session keep-alive thread, its if_keep_alive_error
  staleId,    \* ss_keep_alive_id still names a thread that was joined
  orphan,     \* the kinds of keep-alive thread that run with no id referring to them
  ms, msErr,  \* the same for the streaming connection
  decoder,    \* the demultiplexer and decoder are running
  crashed     \* the process died of undefined behaviour

callerVars == <<cpc, op, jt, calls, mayStart>>
idVars     == <<tid, created>>
fieldVars  == <<stype, setup, if_sm_setup, trick>>
beatVars   == <<ss, ssErr, staleId, orphan, ms, msErr>>
sessVars   == <<held, leaked>>
vars == <<callerVars, queue, idVars, pc, kind, ctx, tries, fieldVars, status,
          clients, sessVars, beatVars, decoder, crashed>>

Active(g) == pc[g] \in ActivePcs
Beating(k) == k \in {"starting", "run"}
May(f) == f \in Env

(***************************************************************************)
(* The constructor.  if_keep_alive_error, player_status, stype, setup_type, *)
(* if_sm_setup and the two marks (pause_into_tvs, backward_into_tvs) are    *)
(* not initialised: they hold what the heap held.                          *)
(***************************************************************************)
Heap(field, zero, values) == IF field \in Dirty THEN values ELSE {zero}

Init ==
  /\ cpc = "idle" /\ op = "none" /\ jt = 0 /\ calls = 0 /\ mayStart = TRUE
  /\ queue = <<>> /\ tid = 0 /\ created = 0
  /\ pc = [g \in Thread |-> "unborn"]
  /\ kind = [g \in Thread |-> "TV"]
  /\ ctx = "start" /\ tries = 0
  /\ stype \in Heap("stype", "TV", {"TV", "VOD"})
  /\ setup \in Heap("setup_type", "SDV", {"SDV", "UNI"})
  /\ if_sm_setup \in Heap("if_sm_setup", FALSE, BOOLEAN)
  /\ trick \in Heap("marks", FALSE, BOOLEAN)
  /\ status \in Heap("player_status", "none", {"none", "play", "quit"})
  /\ clients = "live" /\ held = FALSE /\ leaked = FALSE
  /\ ss = "none" /\ ssErr \in Heap("if_keep_alive_error", FALSE, BOOLEAN) /\ orphan = {}
  /\ staleId = FALSE
  /\ ms = "none" /\ msErr \in Heap("if_keep_alive_error", FALSE, BOOLEAN)
  /\ decoder = "stopped" /\ crashed = FALSE

-----------------------------------------------------------------------------
(* The message queue *)

\* sendto_mediaplayermsg: IPC_NOWAIT, so a full queue drops the message and
\* no caller looks at the result.
Send(c) ==
  queue' = IF Len(queue) < QueueCap
           THEN Append(queue, [cmd |-> c, gen |-> created]) ELSE queue

\* rcvfrom_mediaplayermsg: IPC_NOWAIT; NONE when there is nothing.
Received == IF queue = <<>> THEN "NONE" ELSE Head(queue).cmd
Taken    == IF queue = <<>> THEN <<>> ELSE Tail(queue)

-----------------------------------------------------------------------------
(* The caller: the page's thread, one operation at a time *)

MayCall(o) == cpc = "idle" /\ o \in Ops /\ calls < MaxCalls
MayBegin(o) == MayCall(o) /\ created < MaxThreads /\ mayStart

playerFrame == UNCHANGED <<pc, kind, ctx, tries, status, clients, sessVars,
                           beatVars, decoder, crashed>>

Enter(o, next) ==
  /\ op' = (IF next = "idle" THEN "none" ELSE o)
  /\ cpc' = next /\ calls' = calls + 1
  /\ UNCHANGED <<jt, idVars>>
Return == cpc' = "idle" /\ op' = "none"

\* joinChannel: getchannelurlfromjson sets setup_type before it looks at the
\* description, and a bad description ends the call.
JoinChannel ==
  /\ MayBegin("joinChannel")
  /\ setup' = "SDV"
  /\ \/ Enter("joinChannel", "start") /\ stype' = "TV"
     \/ May("json") /\ Enter("joinChannel", "idle") /\ UNCHANGED stype
  /\ UNCHANGED <<if_sm_setup, trick, queue, mayStart>> /\ playerFrame

\* setSingleMedia ignores what getmediaurlfromjson returns.
SetSingleMedia ==
  /\ MayBegin("setSingleMedia")
  /\ Enter("setSingleMedia", "start")
  /\ setup' = "UNI" \/ (May("json") /\ UNCHANGED setup)
  /\ UNCHANGED <<stype, if_sm_setup, trick, queue, mayStart>> /\ playerFrame

\* playFromStart resets if_sm_setup and the trick flags before it looks
\* whether a thread runs.
PlayFromStart ==
  /\ MayBegin("playFromStart")
  /\ Enter("playFromStart", "start")
  /\ if_sm_setup' = FALSE /\ trick' = FALSE
  /\ UNCHANGED <<stype, setup, queue, mayStart>> /\ playerFrame

PlayByTime ==
  /\ MayBegin("playByTime")
  /\ Enter("playByTime", "start")
  /\ UNCHANGED <<fieldVars, queue, mayStart>> /\ playerFrame

\* The test of mediaplayer_thread that ends each of the four: pthread_create
\* when it is 0, a message to the running thread otherwise.
CreateThread ==
  /\ cpc = "start" /\ tid = 0
  /\ created' = created + 1 /\ tid' = created + 1
  /\ pc' = [pc EXCEPT ![created + 1] = "begin"]
  /\ stype' = IF op = "setSingleMedia" THEN "VOD" ELSE stype
  /\ \/ setup' = IF op = "joinChannel" THEN setup ELSE "UNI"
     \/ May("json") /\ UNCHANGED setup
  /\ Return /\ mayStart' = ~Disciplined
  /\ UNCHANGED <<jt, calls, queue, kind, ctx, tries, if_sm_setup, trick, status,
                 clients, sessVars, beatVars, decoder, crashed>>

SendToThread ==
  /\ cpc = "start" /\ tid # 0
  /\ Send(CASE op \in {"joinChannel", "setSingleMedia"} -> "URLCHANGE"
            [] op = "playFromStart" /\ stype = "TV"     -> "REALTIMETV"
            [] OTHER                                    -> "SEEK")
  /\ Return /\ mayStart' = ~Disciplined
  /\ UNCHANGED <<jt, calls, idVars, fieldVars>> /\ playerFrame

SetVolume ==
  /\ MayCall("setVolume")
  /\ Enter("setVolume", "idle") /\ Send("VOLUMECHANGE")
  /\ UNCHANGED <<fieldVars, mayStart>> /\ playerFrame

\* pause, fastForward, fastRewind, resume: the message, then (pause, rewind)
\* the flag.  The wait for the acknowledgement is bounded and may end at once.
VcrSend ==
  /\ MayCall("vcr")
  /\ \E next \in {"idle", "arm"} : Enter("vcr", next)
  /\ Send("VCR")
  /\ UNCHANGED <<fieldVars, mayStart>> /\ playerFrame

VcrArm ==
  /\ cpc = "arm" /\ Return /\ trick' = TRUE
  /\ UNCHANGED <<jt, calls, mayStart, queue, idVars, stype, setup, if_sm_setup>>
  /\ playerFrame

\* stop, leaveChannel and the destructor test the id, send QUIT, and read the
\* id once more for pthread_join.
CallStop ==
  /\ \E o \in StopOps :
       /\ MayCall(o)
       /\ Enter(o, IF tid # 0 THEN "quit" ELSE IF o = "destroy" THEN "release" ELSE "idle")
  /\ mayStart' = (mayStart \/ tid = 0)
  /\ UNCHANGED <<fieldVars, queue>> /\ playerFrame

SendQuit ==
  /\ cpc = "quit" /\ cpc' = "join" /\ Send("QUIT")
  /\ UNCHANGED <<op, jt, calls, mayStart, idVars, fieldVars>> /\ playerFrame

AfterJoin ==
  /\ tid' = 0 /\ jt' = 0 /\ mayStart' = TRUE
  /\ IF op = "destroy" THEN cpc' = "release" /\ UNCHANGED op ELSE Return
  /\ UNCHANGED <<calls, created, fieldVars, queue>>

\* The id read here may already be 0: joining it is undefined, and the libc
\* either refuses it or reads through it.
ReadJoinTarget ==
  /\ cpc = "join"
  /\ \/ /\ tid # 0 /\ jt' = tid /\ cpc' = "wait"
        /\ UNCHANGED <<op, calls, mayStart, queue, idVars, fieldVars>> /\ playerFrame
     \/ /\ tid = 0 /\ AfterJoin /\ playerFrame
     \/ /\ tid = 0 /\ crashed' = TRUE
        /\ UNCHANGED <<callerVars, queue, idVars, pc, kind, ctx, tries, fieldVars,
                       status, clients, sessVars, beatVars, decoder>>

\* Mutant: the join does not wait for the thread.
JoinReturns_NoWait ==
  /\ cpc = "wait" /\ AfterJoin /\ playerFrame

JoinReturns ==
  /\ cpc = "wait" /\ pc[jt] = "done"
  /\ AfterJoin /\ playerFrame

\* The rest of the destructor: Release_StreamMediaPlayer.
ReleasePlayer ==
  /\ cpc = "release" /\ cpc' = "destroyed" /\ op' = "none"
  /\ clients' = "freed" /\ decoder' = "stopped"
  /\ UNCHANGED <<jt, calls, mayStart, queue, idVars, pc, kind, ctx, tries,
                 fieldVars, status, sessVars, beatVars, crashed>>

Caller ==
  \/ JoinChannel \/ SetSingleMedia \/ PlayFromStart \/ PlayByTime
  \/ CreateThread \/ SendToThread \/ SetVolume \/ VcrSend \/ VcrArm
  \/ CallStop \/ SendQuit \/ ReadJoinTarget \/ JoinReturns \/ ReleasePlayer

-----------------------------------------------------------------------------
(* The player thread: Network_Init *)

playerTail == UNCHANGED <<callerVars, created, kind, crashed>>

At(g, p)   == pc[g] = p
Goto(g, p) == pc' = [pc EXCEPT ![g] = p]

\* stream_player_thread reads stype once.
BeginThread(g) ==
  /\ At(g, "begin") /\ Goto(g, "clear")
  /\ kind' = [kind EXCEPT ![g] = stype]
  /\ UNCHANGED <<callerVars, queue, idVars, ctx, tries, fieldVars, status, clients,
                 sessVars, beatVars, decoder, crashed>>

\* Network_Init starts by RTSPClient_prv::init, which forgets the socket and
\* the session id of whatever the client held.
EnterNetwork ==
  /\ tries' = 0 /\ held' = FALSE /\ leaked' = (leaked \/ held)

\* Mutant: what an earlier caller sent stays in the queue.
ClearDummyKey_KeepsQueue(g) ==
  /\ At(g, "clear") /\ Goto(g, "connect") /\ ctx' = "start" /\ EnterNetwork
  /\ UNCHANGED <<queue, tid, fieldVars, status, clients, beatVars, decoder>> /\ playerTail

\* ClearDummyKey empties the queue, then Network_Init begins.
ClearDummyKey(g) ==
  /\ At(g, "clear") /\ Goto(g, "connect")
  /\ queue' = <<>> /\ ctx' = "start" /\ EnterNetwork
  /\ UNCHANGED <<tid, fieldVars, status, clients, beatVars, decoder>> /\ playerTail

\* Where the two ways out of Network_Init lead: its first caller looks at the
\* result, the two handlers of URLCHANGE do not.
Restart(g) == IF kind[g] = "TV" THEN "dvbplay" ELSE "resume"
AfterNetwork(g, ok) ==
  CASE ctx = "multicast" -> "loop"
    [] ctx = "unicast"   -> Restart(g)
    [] OTHER -> IF ~ok THEN "clearId" ELSE IF kind[g] = "TV" THEN "tune" ELSE "rtspPlay"

\* Mutant: one attempt too many.
Retry_OneMore(g, again, limit, last) ==
  IF tries < limit THEN tries' = tries + 1 /\ Goto(g, again)
                   ELSE tries' = 0 /\ Goto(g, last)

\* A failed attempt, repeated until the tries are used up.
Retry(g, again, limit, last) ==
  IF tries + 1 < limit THEN tries' = tries + 1 /\ Goto(g, again)
                       ELSE tries' = 0 /\ Goto(g, last)

netFrame == UNCHANGED <<tid, ctx, status, clients, decoder>>

Connect(g) ==
  /\ At(g, "connect")
  /\ \/ tries' = 0 /\ Goto(g, "setup")
     \/ May("connect") /\ Retry(g, "connect", NetTries, AfterNetwork(g, FALSE))
  /\ UNCHANGED <<queue, fieldVars, sessVars, beatVars>> /\ netFrame /\ playerTail

\* rtspSETUP: accepted; redirected (destroyConnection and back to the start,
\* as often as the server says so); refused or unanswered; accepted by the
\* server with a reply the client cannot read.
Setup(g) ==
  /\ At(g, "setup")
  /\ \/ Goto(g, "ssBegin") /\ tries' = 0 /\ held' = TRUE /\ leaked' = (leaked \/ held)
     \/ May("redirect") /\ Goto(g, "connect") /\ EnterNetwork
     \/ May("setup") /\ Goto(g, "setupPoll") /\ UNCHANGED <<tries, sessVars>>
     \/ /\ May("setupReply") /\ Goto(g, "setupPoll") /\ UNCHANGED tries
        /\ held' = TRUE /\ leaked' = (leaked \/ held)
  /\ UNCHANGED <<queue, fieldVars, beatVars>> /\ netFrame /\ playerTail

\* PlayerRecvStopKey after a failed attempt takes one message, whatever it is;
\* giving up closes the connection and sends no TEARDOWN.
SetupPoll(g) ==
  /\ At(g, "setupPoll") /\ queue' = Taken
  /\ IF Received = "QUIT" THEN tries' = 0 /\ Goto(g, AfterNetwork(g, FALSE))
                          ELSE Retry(g, "setup", NetTries, AfterNetwork(g, FALSE))
  /\ IF pc'[g] = "setup" THEN UNCHANGED sessVars
                         ELSE held' = FALSE /\ leaked' = (leaked \/ held)
  /\ UNCHANGED <<fieldVars, beatVars>> /\ netFrame /\ playerTail

\* ss_keep_alive_begin overwrites the id of the thread it began before.
SsBegin(g) ==
  /\ At(g, "ssBegin")
  /\ \/ /\ ss' = "starting" /\ orphan' = orphan \union {k \in {"ss"} : Beating(ss)}
        /\ if_sm_setup' = TRUE /\ staleId' = FALSE
        /\ Goto(g, IF setup = "UNI" THEN "msConnect" ELSE AfterNetwork(g, TRUE))
        /\ UNCHANGED held
     \/ /\ May("ssBegin") /\ held' = FALSE /\ Goto(g, AfterNetwork(g, FALSE))
        /\ UNCHANGED <<ss, orphan, staleId, if_sm_setup>>
  /\ UNCHANGED <<queue, tries, stype, setup, trick, leaked, ssErr, ms, msErr>>
  /\ netFrame /\ playerTail

MsConnect(g) ==
  /\ At(g, "msConnect")
  /\ \/ tries' = 0 /\ Goto(g, "msBegin")
     \/ May("msConnect") /\ Retry(g, "msConnect", NetTries, "msFail")
  /\ UNCHANGED <<queue, fieldVars, sessVars, beatVars>>
  /\ netFrame /\ playerTail

\* ss_keep_alive_end.  Cancelling a thread that has ended by itself may be refused:
\* it is joined all the same, but its id stays.
EndSs ==
  ss' = "none" /\ staleId' \in IF ss = "dead" THEN BOOLEAN ELSE {staleId}

\* Mutant: the session is torn down under its heartbeat.
MsFailBeats_NoEnd(g) ==
  /\ At(g, "msFail")
  /\ Goto(g, IF if_sm_setup THEN "msFailTeardown" ELSE AfterNetwork(g, FALSE))
  /\ UNCHANGED <<queue, tries, fieldVars, sessVars, beatVars>> /\ netFrame /\ playerTail

\* MS_FAIL: ss_keep_alive_end and TEARDOWN, if the flag still says so.
MsFailBeats(g) ==
  /\ At(g, "msFail")
  /\ \/ if_sm_setup /\ EndSs /\ Goto(g, "msFailTeardown")
     \/ ~if_sm_setup /\ Goto(g, AfterNetwork(g, FALSE)) /\ UNCHANGED <<ss, staleId>>
  /\ UNCHANGED <<queue, tries, fieldVars, sessVars, ssErr, orphan, ms, msErr>>
  /\ netFrame /\ playerTail

MsFailTeardown(g) ==
  /\ At(g, "msFailTeardown") /\ Goto(g, AfterNetwork(g, FALSE))
  /\ held' = FALSE /\ if_sm_setup' = FALSE
  /\ UNCHANGED <<queue, tries, stype, setup, trick, leaked, beatVars>>
  /\ netFrame /\ playerTail

\* ms_keep_alive_begin failing returns at once: session and ss thread stay.
MsBegin(g) ==
  /\ At(g, "msBegin")
  /\ \/ /\ ms' = "starting" /\ Goto(g, AfterNetwork(g, TRUE))
        /\ orphan' = orphan \union {k \in {"ms"} : Beating(ms)}
     \/ May("msBegin") /\ Goto(g, AfterNetwork(g, FALSE)) /\ UNCHANGED <<ms, orphan>>
  /\ UNCHANGED <<queue, tries, fieldVars, sessVars, ss, ssErr, staleId, msErr>>
  /\ netFrame /\ playerTail

Network(g) ==
  \/ Connect(g) \/ Setup(g) \/ SetupPoll(g) \/ SsBegin(g)
  \/ MsConnect(g) \/ MsFailBeats(g) \/ MsFailTeardown(g) \/ MsBegin(g)

-----------------------------------------------------------------------------
(* The player thread: from the session to the picture *)

\* The steps that touch neither the shared fields nor the two heartbeats.
playFrame == UNCHANGED <<tid, fieldVars, status, clients, sessVars, beatVars>>

RtspPlay(g) ==
  /\ At(g, "rtspPlay")
  /\ Goto(g, "tune") \/ (May("play") /\ Goto(g, "failBeats"))
  /\ UNCHANGED <<queue, ctx, tries, decoder>> /\ playFrame /\ playerTail

\* A vod thread whose tuner fails leaves by an order of its own: the callback
\* comes before the id is cleared.
Tune(g) ==
  /\ At(g, "tune") /\ tries' = 0
  /\ \/ Goto(g, "search") /\ UNCHANGED ctx
     \/ /\ May("tune") /\ Goto(g, "failBeats")
        /\ ctx' = IF kind[g] = "VOD" THEN "tuneFail" ELSE ctx
  /\ UNCHANGED <<queue, decoder>> /\ playFrame /\ playerTail

Search(g) ==
  /\ At(g, "search")
  /\ Goto(g, "dvbplay") \/ (May("search") /\ Goto(g, "searchPoll"))
  /\ UNCHANGED <<queue, ctx, tries, decoder>> /\ playFrame /\ playerTail

\* Mutants: a QUIT during the search leaves without giving anything back, or
\* is taken from the queue and forgotten.
SearchPoll_NoTeardown(g) ==
  /\ At(g, "searchPoll") /\ queue' = Taken
  /\ IF Received = "QUIT" THEN UNCHANGED tries /\ Goto(g, "clearId")
                          ELSE Retry(g, "search", SearchTries, "failBeats")
  /\ UNCHANGED <<ctx, decoder>> /\ playFrame /\ playerTail

SearchPoll_Swallows(g) ==
  /\ At(g, "searchPoll") /\ queue' = Taken
  /\ Retry(g, "search", SearchTries, "failBeats")
  /\ UNCHANGED <<ctx, decoder>> /\ playFrame /\ playerTail

SearchPoll(g) ==
  /\ At(g, "searchPoll") /\ queue' = Taken
  /\ IF Received = "QUIT" THEN UNCHANGED tries /\ Goto(g, "failBeats")
                          ELSE Retry(g, "search", SearchTries, "failBeats")
  /\ UNCHANGED <<ctx, decoder>> /\ playFrame /\ playerTail

\* DSP_DVBplay, and DSP_DVBplay_resume at the restart label of a vod thread.
StartDecoder(g) ==
  /\ At(g, "dvbplay")
  /\ \/ Goto(g, "loop") /\ decoder' = "playing"
     \/ May("dvbplay") /\ Goto(g, "endBeats") /\ UNCHANGED decoder
  /\ UNCHANGED <<queue, ctx, tries>> /\ playFrame /\ playerTail

\* Mutant: the early exit, which stops no decoder, instead of the cleanup label.
ResumeDecoder_EarlyExit(g) ==
  /\ At(g, "resume")
  /\ Goto(g, "loop") \/ (May("resume") /\ Goto(g, "failBeats"))
  /\ UNCHANGED <<queue, ctx, tries, decoder>> /\ playFrame /\ playerTail

ResumeDecoder(g) ==
  /\ At(g, "resume")
  /\ Goto(g, "loop") \/ (May("resume") /\ Goto(g, "endBeats"))
  /\ UNCHANGED <<queue, ctx, tries, decoder>> /\ playFrame /\ playerTail

-----------------------------------------------------------------------------
(* The player thread: process_tvod_msg, one poll of the main loop *)

\* process_common_msg deals with a volume in range before anything else is looked
\* at, the heartbeat flags included; one out of range is left to the handlers of
\* the other messages, which know no such command.
PollVolume(g) ==
  /\ At(g, "loop") /\ Received = "VOLUMECHANGE" /\ queue' = Taken
  /\ UNCHANGED <<pc, ctx, tries, decoder>> /\ playFrame /\ playerTail

\* URLCHANGE: Network_Release deletes both clients, Network_Init uses them.
ChangeUrl(g, from) ==
  /\ Goto(g, "connect") /\ ctx' = from /\ clients' = "freed" /\ EnterNetwork

pollFrame == UNCHANGED <<tid, stype, setup, if_sm_setup, beatVars, decoder>>

\* Mutant: the heartbeat flag is not looked at.
MulticastCmd_NoFlag == Received

\* process_multicast_msg
MulticastCmd == IF ssErr THEN "QUIT" ELSE Received
PollMulticast(g) ==
  /\ At(g, "loop") /\ setup = "SDV" /\ queue' = Taken
  /\ \/ MulticastCmd = "QUIT" /\ Goto(g, "endBeats")
        /\ UNCHANGED <<ctx, tries, clients, sessVars>>
     \/ MulticastCmd = "URLCHANGE" /\ ChangeUrl(g, "multicast")
     \/ MulticastCmd \notin {"QUIT", "URLCHANGE"}
        /\ UNCHANGED <<pc, ctx, tries, clients, sessVars>>
  /\ UNCHANGED <<trick, status>> /\ pollFrame /\ playerTail

\* process_unicast_msg: an announced begin or end of stream replaces the
\* command received, the trick flags replace that, a lost heartbeat all.  A decoder
\* that refuses the first pause ends the round before the mark of a rewind is looked at.
UnicastCmd ==
  LET announced == CASE status = "play" -> "VCR" [] status = "quit" -> "QUIT"
                     [] OTHER -> Received
  IN IF ssErr \/ msErr THEN "QUIT" ELSE IF trick THEN "VCR" ELSE announced

PollUnicast(g) ==
  /\ At(g, "loop") /\ setup = "UNI" /\ queue' = Taken /\ status' = "none"
  /\ \/ UnicastCmd = "QUIT" /\ Goto(g, "endBeats") /\ trick' = FALSE
        /\ UNCHANGED <<ctx, tries, clients, sessVars>>
     \/ UnicastCmd = "URLCHANGE" /\ ChangeUrl(g, "unicast") /\ trick' = FALSE
     \/ UnicastCmd \in {"REALTIMETV", "VCR"} /\ Goto(g, Restart(g)) /\ trick' = FALSE
        /\ UNCHANGED <<ctx, tries, clients, sessVars>>
     \/ UnicastCmd \in {"NONE", "SEEK", "VCR", "VOLUMECHANGE"} /\ trick' = FALSE
        /\ UNCHANGED <<pc, ctx, tries, clients, sessVars>>
     \/ trick /\ May("tplay") /\ trick' \in BOOLEAN
        /\ UNCHANGED <<pc, ctx, tries, clients, sessVars>>
  /\ pollFrame /\ playerTail

Poll(g) == PollVolume(g) \/ PollMulticast(g) \/ PollUnicast(g)

-----------------------------------------------------------------------------
(* The player thread: the ways out *)

\* Mutant: the streaming heartbeat of a vod thread is not ended.
EndHeartbeats_SsOnly(g) ==
  /\ EndSs
  /\ UNCHANGED <<queue, tid, ctx, tries, fieldVars, status, clients, sessVars, ssErr, orphan,
                 ms, msErr, decoder>>

\* ss_keep_alive_end, and ms_keep_alive_end of a vod thread.  The latter does not
\* look at its id: without a thread to cancel it fails (or worse); it leaves
\* player_status when the cancellation is refused.
EndHeartbeats(g) ==
  /\ EndSs
  /\ IF kind[g] = "VOD" /\ ms # "none"
     THEN ms' = "none" /\ status' \in {"none"} \union (IF ms = "dead" THEN {status} ELSE {})
     ELSE UNCHANGED <<ms, status>>
  /\ UNCHANGED <<queue, tid, ctx, tries, fieldVars, clients, sessVars, ssErr, orphan,
                 msErr, decoder>>

\* The early exits: a live thread tears the session down unconditionally.
FailBeats(g) ==
  /\ At(g, "failBeats") /\ Goto(g, "failTeardown") /\ EndHeartbeats(g) /\ playerTail

exitFrame == UNCHANGED <<queue, tid, ctx, tries, stype, setup, trick, status, leaked, beatVars>>

FailTeardown(g) ==
  /\ At(g, "failTeardown")
  /\ Goto(g, IF ctx = "tuneFail" THEN "cbBefore" ELSE "clearId")
  /\ held' = (held /\ kind[g] = "VOD" /\ ~if_sm_setup)
  /\ UNCHANGED <<if_sm_setup, clients, decoder>> /\ exitFrame /\ playerTail

\* The cleanup label.
CleanupBeats(g) ==
  /\ At(g, "endBeats") /\ Goto(g, "teardown") /\ EndHeartbeats(g) /\ playerTail

CleanupTeardown(g) ==
  /\ At(g, "teardown")
  /\ Goto(g, IF kind[g] = "VOD" THEN "release" ELSE "decStop")
  /\ held' = (held /\ ~if_sm_setup)
  /\ UNCHANGED <<if_sm_setup, clients, decoder>> /\ exitFrame /\ playerTail

ReleaseClients(g) ==
  /\ At(g, "release") /\ Goto(g, "decStop")
  /\ clients' = "freed" /\ if_sm_setup' = FALSE
  /\ UNCHANGED <<held, decoder>> /\ exitFrame /\ playerTail

StopDecoder(g) ==
  /\ At(g, "decStop") /\ Goto(g, IF kind[g] = "VOD" THEN "cbBefore" ELSE "lastClear")
  /\ decoder' = "stopped"
  /\ UNCHANGED <<if_sm_setup, clients, held>> /\ exitFrame /\ playerTail

\* EVENT_PLAYER_EXIT comes before mediaplayer_thread = 0 on some paths and
\* after it on others.
Callback(g) ==
  /\ \/ At(g, "cbBefore") /\ Goto(g, "lastClear")
     \/ At(g, "cbAfter") /\ Goto(g, "done")
  /\ UNCHANGED <<if_sm_setup, clients, held, decoder>> /\ exitFrame /\ playerTail

ClearId(g) ==
  /\ \/ At(g, "clearId") /\ Goto(g, "cbAfter")
     \/ At(g, "lastClear") /\ Goto(g, "done")
  /\ tid' = 0
  /\ UNCHANGED <<queue, ctx, tries, fieldVars, status, clients, sessVars, beatVars,
                 decoder>> /\ playerTail

Leave(g) ==
  \/ FailBeats(g) \/ FailTeardown(g) \/ CleanupBeats(g) \/ CleanupTeardown(g)
  \/ ReleaseClients(g) \/ StopDecoder(g) \/ Callback(g) \/ ClearId(g)

Player(g) ==
  \/ BeginThread(g) \/ ClearDummyKey(g) \/ Network(g)
  \/ RtspPlay(g) \/ Tune(g) \/ Search(g) \/ SearchPoll(g)
  \/ StartDecoder(g) \/ ResumeDecoder(g) \/ Poll(g) \/ Leave(g)

-----------------------------------------------------------------------------
(* The keep-alive threads (module KeepAlive has their insides) *)

beatFrame == UNCHANGED <<callerVars, queue, idVars, pc, kind, ctx, tries, fieldVars,
                         clients, sessVars, decoder, crashed>>

\* Each clears the error flag itself, when it first runs.
SsStart ==
  /\ ss = "starting" /\ ss' = "run" /\ ssErr' = FALSE
  /\ UNCHANGED <<staleId, orphan, ms, msErr, status>> /\ beatFrame

SsFail ==
  /\ May("heartbeat") /\ ss = "run" /\ ss' = "dead" /\ ssErr' = TRUE
  /\ UNCHANGED <<staleId, orphan, ms, msErr, status>> /\ beatFrame

MsStart ==
  /\ ms = "starting" /\ ms' = "run" /\ msErr' = FALSE
  /\ UNCHANGED <<ss, ssErr, staleId, orphan, status>> /\ beatFrame

MsFail ==
  /\ May("heartbeat") /\ ms = "run" /\ ms' = "dead" /\ msErr' = TRUE
  /\ UNCHANGED <<ss, ssErr, staleId, orphan, status>> /\ beatFrame

\* ANNOUNCE: begin of stream, end of stream, or shifted back to live.
MsAnnounce ==
  /\ May("announce") /\ ms = "run" /\ status' \in {"play", "quit"}
  /\ UNCHANGED beatVars /\ beatFrame

\* A thread whose id was overwritten goes on writing the shared flags.
OrphanWrites ==
  /\ \/ "ss" \in orphan /\ ssErr' \in BOOLEAN /\ UNCHANGED msErr
     \/ "ms" \in orphan /\ msErr' \in BOOLEAN /\ UNCHANGED ssErr
  /\ UNCHANGED <<ss, staleId, orphan, ms, status>> /\ beatFrame

Heartbeats ==
  SsStart \/ SsFail \/ MsStart \/ MsFail \/ MsAnnounce \/ OrphanWrites

-----------------------------------------------------------------------------
(* Undefined behaviour: the build may also die of it *)

\* Steps of the player thread that use or delete the two clients.
ClientPcs == {"connect", "setup", "ssBegin", "msConnect", "msFail", "msFailTeardown",
              "msBegin", "rtspPlay", "failTeardown", "teardown", "release"}

\* A deleted client used or deleted again; ms_keep_alive_end with no thread to
\* cancel; ss_keep_alive_end of a thread that was joined before; a SETUP reply
\* without its GlobalSession line; the callback of a thread the destructor did not
\* find, out of the destroyed object.
UsesDeleted(g)  == clients = "freed" /\ pc[g] \in ClientPcs
JoinsNothing(g) == ms = "none" /\ kind[g] = "VOD" /\ pc[g] \in {"failBeats", "endBeats"}
JoinsTwice(g)   == staleId /\ pc[g] \in {"failBeats", "endBeats", "msFail"}
ReadsNull(g)    == May("setupReply") /\ pc[g] = "setup"
CallsBack(g)    == cpc = "destroyed" /\ pc[g] = "cbAfter"
Die ==
  /\ \/ clients = "freed" /\ cpc \in {"start", "release"}
     \/ \E g \in Thread :
          UsesDeleted(g) \/ JoinsNothing(g) \/ JoinsTwice(g) \/ ReadsNull(g) \/ CallsBack(g)
  /\ crashed' = TRUE
  /\ UNCHANGED <<callerVars, queue, idVars, pc, kind, ctx, tries, fieldVars, status,
                 clients, sessVars, beatVars, decoder>>

Next ==
  /\ ~crashed
  /\ \/ Caller
     \/ \E g \in Thread : Player(g)
     \/ Heartbeats
     \/ Die

Spec == Init /\ [][Next]_vars

-----------------------------------------------------------------------------
(* Fairness *)

\* The scheduler runs every thread that can take a step; the page decides
\* freely when to call, so only the insides of an operation are fair.
Inside == CreateThread \/ SendToThread \/ VcrArm \/ SendQuit \/ ReadJoinTarget
          \/ JoinReturns \/ ReleasePlayer
FairSpec ==
  /\ Spec
  /\ WF_vars(~crashed /\ Inside)
  /\ \A g \in Thread : WF_vars(~crashed /\ Player(g))
  /\ WF_vars(~crashed /\ SsStart) /\ WF_vars(~crashed /\ MsStart)

-----------------------------------------------------------------------------
(* Safety, whatever the page does *)

\* Every variable holds what the code's field can hold; the retry counter never
\* reaches the larger limit, the queue never exceeds its capacity.
TypeOK ==
  /\ cpc \in Cpcs /\ op \in StartOps \union StopOps \union {"vcr", "none"}
  /\ jt \in 0 .. MaxThreads /\ calls \in 0 .. MaxCalls /\ mayStart \in BOOLEAN
  /\ queue \in Seq(Message) /\ Len(queue) <= QueueCap
  /\ tid \in 0 .. MaxThreads /\ created \in 0 .. MaxThreads
  /\ pc \in [Thread -> Pcs] /\ kind \in [Thread -> {"TV", "VOD"}]
  /\ ctx \in {"start", "multicast", "unicast", "tuneFail"}
  /\ tries \in Nat /\ (tries < NetTries \/ tries < SearchTries)
  /\ stype \in {"TV", "VOD"} /\ setup \in {"SDV", "UNI"}
  /\ if_sm_setup \in BOOLEAN /\ trick \in BOOLEAN
  /\ status \in {"none", "play", "quit"} /\ clients \in {"live", "freed"}
  /\ held \in BOOLEAN /\ leaked \in BOOLEAN
  /\ ss \in Beats /\ ssErr \in BOOLEAN /\ staleId \in BOOLEAN /\ orphan \subseteq {"ss", "ms"}
  /\ ms \in Beats /\ msErr \in BOOLEAN
  /\ decoder \in {"stopped", "playing"} /\ crashed \in BOOLEAN

\* There is never more than one player thread at work, and mediaplayer_thread
\* names it: the test of the id that decides between pthread_create and a
\* message is never wrong about a thread that still uses the player's fields.
OneActive == \A g \in Thread : Active(g) => tid = g /\ g = created

\* A player thread that has emptied the queue is never shown a message that
\* was sent before it was created, such as the QUIT meant for the thread before.
NoStaleMessage ==
  \A g \in Thread : Active(g) /\ pc[g] \notin {"begin", "clear"}
    => \A i \in 1 .. Len(queue) : queue[i].gen = g

\* The decoder runs only under a player thread that will still reach
\* DSP_DVBplay_stop: no way out leaves the picture on.
NetPcs == {"connect", "setup", "setupPoll", "ssBegin", "msConnect", "msFail",
           "msFailTeardown", "msBegin"}
DecoderOwned ==
  decoder = "playing" =>
    \E g \in Thread :
      \/ pc[g] \in {"dvbplay", "loop", "resume", "endBeats", "teardown", "release", "decStop"}
      \/ pc[g] \in NetPcs /\ ctx \in {"multicast", "unicast"}

QuitWaits(g) == \E i \in 1 .. Len(queue) : queue[i] = [cmd |-> "QUIT", gen |-> g]

\* A step that takes a QUIT: the one at the front, or with it the last one.
TakesQuit(g) ==
  /\ QuitWaits(g) /\ Len(queue') < Len(queue)
  /\ Received = "QUIT" \/ ~QuitWaits(g)'

\* What may replace a QUIT that is received: a mark of the page or a begin of stream;
\* and Network_Init on the way to another medium, whose result nobody looks at.
MayReplace(g) ==
  \/ pc[g] = "loop" /\ setup = "UNI" /\ (trick \/ status = "play")
  \/ pc[g] = "setupPoll" /\ ctx # "start"

\* Once a player thread has passed ClearDummyKey, no step takes a QUIT from the queue
\* but one that puts the thread on its way out, wherever in the start-up, the search
\* or the main loop it looks; stop, in its join, has no second one to send.
QuitHeeded ==
  [][\A g \in Thread :
       Active(g) /\ pc[g] \notin {"begin", "clear"} /\ TakesQuit(g) =>
         pc'[g] \in {"clearId", "failBeats", "endBeats"} \/ MayReplace(g)]_vars

-----------------------------------------------------------------------------
(* Safety for a page that stops one medium before it starts the next *)

\* A player thread that clears mediaplayer_thread has given everything back:
\* the session is torn down at the server and no heartbeat thread remains,
\* whichever way out it took.
ExitReleasesAll ==
  Disciplined /\ tid = 0 =>
    ~held /\ ~leaked /\ ss = "none" /\ ms = "none" /\ orphan = {}

\* The player keeps its contract with the session manager: a heartbeat only
\* inside a session, TEARDOWN only after the heartbeat, no second SETUP.
Contract == INSTANCE SessionContract
              WITH open <- held \/ leaked, beating <- Beating(ss)
KeepsContract == Contract!Spec

\* The two flags tell the loss of the heartbeat of this session, never of another: no
\* thread is begun while the one before still owns its flag, on any way through the
\* start-up and out again.
SsBeat == INSTANCE HeartbeatContract WITH thread <- ss, flag <- ssErr, gone <- crashed
MsBeat == INSTANCE HeartbeatContract WITH thread <- ms, flag <- msErr, gone <- crashed
BeatsKeepContract == SsBeat!Spec /\ MsBeat!Spec

-----------------------------------------------------------------------------
(* Liveness, under FairSpec *)

\* A QUIT in the queue of a thread that has passed ClearDummyKey ends that
\* thread, wherever in the start-up or the main loop it is.
QuitHonoured ==
  \A g \in Thread :
    (Active(g) /\ pc[g] \notin {"begin", "clear"} /\ QuitWaits(g))
      ~> (pc[g] = "done" \/ crashed)

\* A heartbeat the session manager stopped answering ends the player thread.
HeartbeatLossEndsPlayer ==
  \A g \in Thread :
    (pc[g] = "loop" /\ ss = "dead" /\ ssErr) ~> (pc[g] = "done" \/ crashed)

-----------------------------------------------------------------------------
(* What the comments of the repository say and the code does not do *)

\* `Every streamplayer needs two rtspclient instances' (StreamMediaPlayer.cpp,
\* line 831): whoever uses or deletes the clients finds them allocated.
TwoClients ==
  clients = "freed" =>
    cpc # "release" /\ \A g \in Thread : pc[g] \notin ClientPcs

=============================================================================
