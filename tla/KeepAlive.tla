----------------------------- MODULE KeepAlive -----------------------------
(***************************************************************************)
(* One session seen from the socket: the two keep-alive threads, and the   *)
(* player thread that sends trick commands through the very socket and     *)
(* buffers the streaming heartbeat uses.  There is no lock, so filling     *)
(* tx_buffer and sending it, and reading into rx_buffer and parsing it,    *)
(* are steps of their own.  Starts inside Network_Init, when both threads  *)
(* have been created, and ends when the player thread has joined them.     *)
(*                                                                         *)
(* A read takes whatever has arrived, several messages at once if they     *)
(* came together; the parser looks at the front only.                      *)
(***************************************************************************)
EXTENDS Naturals, Sequences

CONSTANTS
  Env,           \* what the servers may do beside answering in time
  Scripts,       \* the requests of a trick command, in order
  Announces,     \* the notices the streaming server may send
  MissMax,       \* KEEP_ALIVE_MISS_MAX
  MaxCommands,   \* bound: trick commands in a behaviour
  MaxAnnounces,  \* bound: notices in a behaviour
  MaxRefused,    \* bound: requests the server refuses in a behaviour
  MaxLate        \* bound: heartbeat replies that come after the read timed out

Requests == {"pause", "play", "scan"}
Notices  == {"eos", "bos", "unknown"}
Replies  == {"ok", "bad"}

\* What the marks of a TVS medium make the player thread send: PAUSE, or FASTBACKWARD,
\* which pauses before it scans.
MarkScripts == {<<"pause">>, <<"pause", "scan">>}

ASSUME KeepAliveAssumption ==
  /\ MissMax \in Nat \ {0}
  /\ MaxCommands \in Nat /\ MaxAnnounces \in Nat
  /\ MaxRefused \in Nat /\ MaxLate \in Nat
  /\ Scripts \subseteq Seq(Requests)
  /\ Announces \subseteq Notices

VARIABLES
  mpc,        \* where ms_keep_alive_thread is
  tx,         \* tx_buffer of the streaming client: a request or an answer
  rx,         \* its rx_buffer: the front message and the first notice in it
  miss,       \* ms_keep_alive_miss_cnt
  msErr,      \* if_keep_alive_error of the streaming client
  status,     \* its player_status
  vpc,        \* where the player thread is
  todo, vtry, \* requests the command still has to send; the attempt
  quit,       \* the command at hand is QUIT
  begun,      \* the PLAY that starts the medium has been answered
  sspc, ssMiss, ssErr,  \* ss_keep_alive_thread, its counter, its flag
  wire,       \* how many requests are under way to the streaming server
  inbox,      \* messages the client's socket holds
  server, sm, \* the streaming server and the session manager
  crashed,    \* the process died of undefined behaviour
  broken,     \* select failed in the streaming heartbeat (history)
  commands, announced,  \* how many so far (bounds)
  refused,    \* requests the server refused (bound and history)
  late,       \* heartbeat replies that came late (bound)
  excuse,     \* late replies, and reads by commands, since miss was reset (history)
  acted       \* notices the player thread acted on (history)

beatVars   == <<mpc, miss, msErr>>
bufVars    == <<tx, rx>>
cmdVars    == <<vpc, todo, vtry, quit, begun>>
ssVars     == <<sspc, ssMiss, ssErr>>
netVars    == <<wire, inbox, server, sm>>
boundVars  == <<commands, announced, late>>
histVars   == <<refused, excuse, acted>>
vars == <<beatVars, bufVars, status, cmdVars, ssVars, netVars, crashed, broken, boundVars,
          histVars>>

May(e) == e \in Env

\* What a parser sees of the messages a read returned: the message at the front,
\* and the first `notice:' anywhere.
Empty == [front |-> "none", notice |-> "none"]
Received(messages) ==
  LET at == {i \in 1 .. Len(messages) : messages[i] \in Notices}
  IN  [front  |-> Head(messages),
       notice |-> IF at = {} THEN "none"
                  ELSE messages[CHOOSE i \in at : \A j \in at : i <= j]]

\* The process dies and its memory with it.
Crash ==
  /\ crashed' = TRUE
  /\ mpc' = "gone" /\ sspc' = "gone" /\ vpc' = "ended"
  /\ tx' = "answer" /\ rx' = Empty /\ wire' = 0 /\ inbox' = <<>>
  /\ miss' = 0 /\ ssMiss' = 0 /\ status' = "none" /\ msErr' = FALSE /\ ssErr' = FALSE
  /\ todo' = <<>> /\ vtry' = 0 /\ quit' = FALSE /\ begun' = FALSE
  /\ excuse' = 0 /\ acted' = 0
  /\ UNCHANGED <<server, sm, broken, boundVars, refused>>

\* Both threads exist and have not run; the error flags are uninitialised.
Init ==
  /\ mpc = "args" /\ sspc = "args" /\ vpc = "init"
  /\ tx = "answer" /\ rx = Empty /\ wire = 0 /\ inbox = <<>>
  /\ miss = 0 /\ ssMiss = 0 /\ status = "none"
  /\ msErr \in BOOLEAN /\ ssErr \in BOOLEAN
  /\ todo = <<>> /\ vtry = 0 /\ quit = FALSE /\ begun = FALSE
  /\ server = "up" /\ sm = "up" /\ crashed = FALSE /\ broken = FALSE
  /\ commands = 0 /\ announced = 0
  /\ refused = 0 /\ late = 0 /\ excuse = 0 /\ acted = 0

-----------------------------------------------------------------------------
(* The socket and the buffers, used by both threads *)

\* send_command writes what tx_buffer holds now.  A live server gets it; an
\* answer to a notice asks for no reply, so it is not followed further.
Deliver == wire' = IF server = "up" /\ tx = "request" THEN wire + 1 ELSE wire

\* readv returns what has arrived, into rx_buffer.
Arrived == inbox # <<>>
TakeInbox == rx' = Received(inbox) /\ inbox' = <<>>
\* readv returns 0: the server closed the connection.
AtEnd == inbox = <<>> /\ server = "closed"
\* readv returns -1: nothing came before the socket's timeout.
Expires == inbox = <<>> /\ server # "closed"

-----------------------------------------------------------------------------
(* ms_keep_alive_thread *)

\* The thread reads its arguments and clears flag and counter.
MsArgs ==
  /\ mpc = "args"
  /\ mpc' = "fill" /\ msErr' = FALSE /\ miss' = 0
  /\ UNCHANGED <<bufVars, status, cmdVars, ssVars, netVars, crashed, broken, boundVars,
                 histVars>>

\* Mutant: the counter is cleared in the loop instead of before it.
Fill_Clears ==
  /\ mpc = "fill"
  /\ mpc' = "send" /\ tx' = "request" /\ miss' = 0
  /\ UNCHANGED <<msErr, rx, status, cmdVars, ssVars, netVars, crashed, broken, boundVars,
                 histVars>>

\* The head of the loop writes the next heartbeat into tx_buffer.
Fill ==
  /\ mpc = "fill"
  /\ mpc' = "send" /\ tx' = "request"
  /\ UNCHANGED <<miss, msErr, rx, status, cmdVars, ssVars, netVars, crashed, broken, boundVars,
                 histVars>>

\* A failing send is only logged.
Send ==
  /\ mpc = "send"
  /\ Deliver /\ mpc' = "recv"
  /\ UNCHANGED <<miss, msErr, bufVars, status, cmdVars, ssVars, inbox, server, sm, crashed, broken,
                 boundVars, histVars>>

\* Mutant: one miss too many is allowed.
Missed_OneMore ==
  /\ miss' = miss + 1
  /\ mpc' = IF miss = MissMax THEN "over" ELSE "fill"
  /\ msErr' = (miss = MissMax \/ msErr)
  /\ IF server = "up" /\ wire > 0
       THEN late < MaxLate /\ late' = late + 1 /\ excuse' = excuse + 1
       ELSE UNCHANGED <<late, excuse>>

\* A reply that is still under way may come after the read gave up; one that is
\* not under way will not come at all.
Missed ==
  /\ miss' = miss + 1
  /\ mpc' = IF miss + 1 = MissMax THEN "over" ELSE "fill"
  /\ msErr' = (miss + 1 = MissMax \/ msErr)
  /\ IF server = "up" /\ wire > 0
       THEN late < MaxLate /\ late' = late + 1 /\ excuse' = excuse + 1
       ELSE UNCHANGED <<late, excuse>>

\* Mutant: a read that timed out is counted, and then parsed all the same.
Recv_NoContinue ==
  /\ mpc = "recv"
  /\ \/ Arrived /\ TakeInbox /\ UNCHANGED miss
     \/ AtEnd /\ rx' = Empty /\ miss' = miss + 1 /\ UNCHANGED inbox
     \/ Expires /\ miss' = miss + 1 /\ UNCHANGED <<rx, inbox>>
  /\ mpc' = IF miss' = MissMax THEN "over" ELSE "parse"
  /\ excuse' = excuse + miss' - miss
  /\ UNCHANGED <<msErr, tx, status, cmdVars, ssVars, wire, server, sm, crashed, broken, boundVars,
                 refused, acted>>

Recv ==
  /\ mpc = "recv"
  /\ \/ /\ Arrived
        /\ TakeInbox /\ mpc' = "parse" /\ UNCHANGED <<miss, msErr, late, excuse>>
     \/ AtEnd /\ rx' = Empty /\ Missed /\ UNCHANGED inbox
     \/ Expires /\ Missed /\ UNCHANGED <<rx, inbox>>
  /\ UNCHANGED <<tx, status, cmdVars, ssVars, wire, server, sm, crashed, broken, commands,
                 announced, refused, acted>>

\* Mutant: an answer does not reset the counter.
Parse_NoReset ==
  /\ mpc = "parse"
  /\ mpc' = CASE rx.front \in {"ok", "none"} -> "select"
              [] rx.front = "bad"           -> "over"
              [] rx.front \in Notices       -> "announce"
  /\ excuse' = IF rx.front = "ok" THEN 0 ELSE excuse
  /\ UNCHANGED <<miss, msErr, bufVars, status, cmdVars, ssVars, netVars, crashed, broken, boundVars,
                 refused, acted>>

\* The first message in rx_buffer decides: an answer resets the counter, a
\* refusal ends the loop, a notice goes to the ANNOUNCE handler.
Parse ==
  /\ mpc = "parse"
  /\ \/ /\ rx.front = "ok"
        /\ mpc' = "select" /\ miss' = 0 /\ excuse' = 0
     \/ /\ rx.front = "bad"
        /\ mpc' = "over" /\ UNCHANGED <<miss, excuse>>
     \/ /\ rx.front \in Notices
        /\ mpc' = "announce" /\ UNCHANGED <<miss, excuse>>
     \/ /\ rx = Empty
        /\ mpc' = "select" /\ UNCHANGED <<miss, excuse>>
  /\ UNCHANGED <<msErr, bufVars, status, cmdVars, ssVars, netVars, crashed, broken, boundVars,
                 refused, acted>>

\* select waits for a message until the next heartbeat is due; the loop ends if it
\* fails.
Select ==
  /\ mpc = "select"
  /\ \/ /\ mpc' \in IF Arrived \/ AtEnd THEN {"fill", "recv2"} ELSE {"fill"}
        /\ UNCHANGED broken
     \/ May("select") /\ mpc' = "over" /\ broken' = TRUE
  /\ UNCHANGED <<miss, msErr, bufVars, status, cmdVars, ssVars, netVars, crashed,
                 boundVars, histVars>>

\* The message select saw may be gone: a trick command may have read it.
Recv2 ==
  /\ mpc = "recv2"
  /\ \/ Arrived /\ TakeInbox /\ mpc' = "parse2"
     \/ AtEnd /\ rx' = Empty /\ mpc' = "fill" /\ UNCHANGED inbox
     \/ Expires /\ mpc' = "fill" /\ UNCHANGED <<rx, inbox>>
  /\ UNCHANGED <<miss, msErr, tx, status, cmdVars, ssVars, wire, server, sm, crashed, broken,
                 boundVars, histVars>>

\* Between two heartbeats only a notice counts; anything else is dropped.
Parse2 ==
  /\ mpc = "parse2"
  /\ mpc' = IF rx.front \in Notices THEN "announce" ELSE "fill"
  /\ UNCHANGED <<miss, msErr, bufVars, status, cmdVars, ssVars, netVars, crashed, broken,
                 boundVars, histVars>>

\* The handler looks for the first notice in rx_buffer, sets player_status and
\* writes the answer into tx_buffer; an unknown notice is not answered.  If a
\* trick command has replaced the notice by a reply, none is found: NULL is read.
Announce ==
  /\ mpc = "announce"
  /\ \/ rx.notice = "none" /\ Crash
     \/ /\ rx.notice # "none"
        /\ IF rx.notice = "unknown"
             THEN mpc' = "fill" /\ UNCHANGED <<status, tx>>
             ELSE /\ status' = IF rx.notice = "eos" THEN "quit" ELSE "play"
                  /\ tx' = "answer" /\ mpc' = "answer"
        /\ UNCHANGED <<miss, msErr, rx, cmdVars, ssVars, netVars, crashed, broken, boundVars,
                       histVars>>

\* The answer goes out, or whatever tx_buffer holds by now.
Answer ==
  /\ mpc = "answer"
  /\ Deliver /\ mpc' = "fill"
  /\ UNCHANGED <<miss, msErr, bufVars, status, cmdVars, ssVars, inbox, server, sm, crashed, broken,
                 boundVars, histVars>>

\* Mutant: a loop that ends on a refusal raises no flag.
Over_NoFlag ==
  /\ mpc = "over"
  /\ mpc' = "done"
  /\ UNCHANGED <<miss, msErr, bufVars, status, cmdVars, ssVars, netVars, crashed, broken,
                 boundVars, histVars>>

\* The loop returned: the thread raises its flag and ends.
Over ==
  /\ mpc = "over"
  /\ mpc' = "done" /\ msErr' = TRUE
  /\ UNCHANGED <<miss, bufVars, status, cmdVars, ssVars, netVars, crashed, broken, boundVars,
                 histVars>>

\* pthread_cancel takes effect where the thread calls the system; there it takes
\* no further step.
CancelPoints == {"fill", "send", "recv", "select", "recv2", "answer"}
Cancelled == vpc = "joinMs" /\ mpc \in CancelPoints

Heartbeat ==
  MsArgs \/ Fill \/ Send \/ Recv \/ Parse \/ Select \/ Recv2 \/ Parse2 \/ Announce \/ Answer \/ Over

-----------------------------------------------------------------------------
(* ss_keep_alive_thread, on a connection of its own *)

\* Mutant: the flag of the session before is not cleared.
SsArgs_KeepsFlag ==
  /\ sspc = "args"
  /\ sspc' = "beat" /\ ssMiss' = 0
  /\ UNCHANGED <<ssErr, beatVars, bufVars, status, cmdVars, netVars, crashed, broken,
                 boundVars, histVars>>

SsArgs ==
  /\ sspc = "args"
  /\ sspc' = "beat" /\ ssErr' = FALSE /\ ssMiss' = 0
  /\ UNCHANGED <<beatVars, bufVars, status, cmdVars, netVars, crashed, broken, boundVars,
                 histVars>>

\* A heartbeat that fails counts, for the whole life of the session; one that is
\* answered changes nothing, and is no step here.
SsMissed ==
  /\ sspc = "beat" /\ (sm = "silent" \/ May("ssMiss"))
  /\ ssMiss' = ssMiss + 1
  /\ sspc' = IF ssMiss + 1 = MissMax THEN "done" ELSE "beat"
  /\ ssErr' = (ssMiss + 1 = MissMax \/ ssErr)
  /\ UNCHANGED <<beatVars, bufVars, status, cmdVars, netVars, crashed, broken, boundVars,
                 histVars>>

-----------------------------------------------------------------------------
(* The player thread *)

\* Network_Init returns; its caller sends the PLAY that starts the medium, once.
NetworkInitReturns ==
  /\ vpc = "init"
  /\ vpc' = "fill" /\ todo' = <<"play">> /\ vtry' = 2
  /\ UNCHANGED <<beatVars, bufVars, status, quit, begun, ssVars, netVars, crashed, broken,
                 boundVars, histVars>>

\* A round of the main loop: a message from the page, if any, unless
\* player_status replaces it.  On a begin of stream playerstate is PLAYING
\* before the command PLAY is looked at, which then sends nothing.
Poll ==
  /\ vpc = "poll"
  /\ \E s \in Scripts \union {<<>>}, q \in BOOLEAN :
       /\ s # <<>> => ~q /\ commands < MaxCommands
       /\ commands' = IF s # <<>> THEN commands + 1 ELSE commands
       /\ todo' = IF status = "none" THEN s ELSE <<>>
       /\ quit' = IF status = "none" THEN q ELSE status = "quit"
  /\ vpc' = IF status = "none" THEN "flags" ELSE "clear"
  /\ vtry' = 1
  /\ acted' = IF status = "none" THEN acted ELSE acted + 1
  /\ UNCHANGED <<beatVars, bufVars, status, begun, ssVars, netVars, crashed, broken, announced,
                 late, refused, excuse>>

\* player_status is set back, whatever it holds by now.
ClearStatus ==
  /\ vpc = "clear"
  /\ status' = "none" /\ vpc' = "flags"
  /\ UNCHANGED <<beatVars, bufVars, todo, vtry, quit, begun, ssVars, netVars, crashed, broken,
                 boundVars, histVars>>

\* The marks of a TVS medium replace the command, QUIT included: a pause asked for
\* before the session, after which a rewind may be, each asked for once.  If the
\* decoder refuses to pause, the round ends before the heartbeats' errors are read.
Mark ==
  /\ vpc = "flags" /\ commands < MaxCommands
  /\ \/ \E s \in MarkScripts \cap Scripts : todo' = s /\ UNCHANGED vpc
     \/ todo' = <<>> /\ vpc' = "poll"
  /\ commands' = commands + 1 /\ quit' = FALSE
  /\ UNCHANGED <<beatVars, bufVars, status, vtry, begun, ssVars, netVars, crashed, broken,
                 announced, late, histVars>>

\* Either heartbeat's error makes the command a QUIT.
ReadFlags ==
  /\ vpc = "flags"
  /\ vpc' = IF ssErr \/ msErr \/ quit THEN "joinSs"
            ELSE IF todo = <<>> THEN "poll" ELSE "fill"
  /\ UNCHANGED <<beatVars, bufVars, status, todo, vtry, quit, begun, ssVars, netVars, crashed,
                 broken, boundVars, histVars>>

VcrFill ==
  /\ vpc = "fill"
  /\ tx' = "request" /\ vpc' = "send"
  /\ UNCHANGED <<beatVars, rx, status, todo, vtry, quit, begun, ssVars, netVars, crashed, broken,
                 boundVars, histVars>>

\* A request that failed is tried once more; then the next one is sent all the
\* same.  Only the PLAY that starts the medium ends the player when it fails.
Failed ==
  \/ vtry = 1 /\ vtry' = 2 /\ vpc' = "fill" /\ UNCHANGED todo
  \/ /\ vtry = 2 /\ begun
     /\ todo' = Tail(todo) /\ vtry' = 1 /\ vpc' = IF todo' = <<>> THEN "poll" ELSE "fill"
  \/ vtry = 2 /\ ~begun /\ vpc' = "joinSs" /\ UNCHANGED <<todo, vtry>>
Succeeded ==
  /\ todo' = Tail(todo) /\ vtry' = 1 /\ vpc' = IF todo' = <<>> THEN "poll" ELSE "fill"

\* Writing to a connection the server closed may fail.
VcrSend ==
  /\ vpc = "send"
  /\ \/ Deliver /\ vpc' = "recv" /\ UNCHANGED <<todo, vtry>>
     \/ server = "closed" /\ Failed /\ UNCHANGED wire
  /\ UNCHANGED <<beatVars, bufVars, status, quit, begun, ssVars, inbox, server, sm, crashed, broken,
                 boundVars, histVars>>

\* PLAY looks at the code of the reply, the other requests at nothing.
VcrRecv ==
  /\ vpc = "recv"
  /\ \/ /\ Arrived /\ TakeInbox /\ excuse' = excuse + 1
        /\ IF Head(todo) = "play" THEN vpc' = "check" /\ UNCHANGED <<todo, vtry>> ELSE Succeeded
     \/ AtEnd /\ rx' = Empty /\ Failed /\ UNCHANGED <<inbox, excuse>>
     \/ Expires /\ Failed /\ UNCHANGED <<rx, inbox, excuse>>
  /\ UNCHANGED <<beatVars, tx, status, quit, begun, ssVars, wire, server, sm, crashed, broken,
                 boundVars, refused, acted>>

\* The code is looked for in rx_buffer: a notice has none and counts as refused;
\* an rx_buffer the heartbeat emptied in between has no blank to look behind.
VcrCheck ==
  /\ vpc = "check"
  /\ \/ rx = Empty /\ Crash
     \/ /\ rx # Empty
        /\ IF rx.front = "ok" THEN Succeeded /\ begun' = TRUE ELSE Failed /\ UNCHANGED begun
        /\ UNCHANGED <<beatVars, bufVars, status, quit, ssVars, netVars, crashed, broken, boundVars,
                       histVars>>

\* The cancellation of a thread that ended may be refused; player_status then stays.
\* A thread that has not read its arguments, or that is about to raise its flag,
\* does so before a cancellation takes effect.
JoinSs ==
  /\ vpc = "joinSs" /\ sspc \in {"beat", "done"}
  /\ sspc' = "gone" /\ vpc' = "joinMs"
  /\ UNCHANGED <<beatVars, bufVars, status, todo, vtry, quit, begun, ssMiss, ssErr, netVars,
                 crashed, broken, boundVars, histVars>>
JoinMs ==
  /\ vpc = "joinMs" /\ mpc \in CancelPoints \union {"done"}
  /\ status' = "none" \/ (mpc = "done" /\ UNCHANGED status)
  /\ mpc' = "gone" /\ vpc' = "ended"
  /\ UNCHANGED <<miss, msErr, bufVars, todo, vtry, quit, begun, ssVars, netVars, crashed, broken,
                 boundVars, histVars>>

Player ==
  NetworkInitReturns \/ Poll \/ ClearStatus \/ Mark \/ ReadFlags \/ VcrFill \/ VcrSend \/ VcrRecv
  \/ VcrCheck \/ JoinSs \/ JoinMs

-----------------------------------------------------------------------------
(* The servers *)

Serve ==
  /\ server = "up" /\ vpc # "ended" /\ wire > 0
  /\ wire' = wire - 1
  /\ \/ inbox' = Append(inbox, "ok") /\ UNCHANGED refused
     \/ refused < MaxRefused /\ inbox' = Append(inbox, "bad") /\ refused' = refused + 1
  /\ UNCHANGED <<beatVars, bufVars, status, cmdVars, ssVars, server, sm, crashed, broken, boundVars,
                 excuse, acted>>

\* Notices come once the medium plays.
Notify ==
  /\ server = "up" /\ begun /\ vpc # "ended" /\ announced < MaxAnnounces
  /\ \E n \in Announces : inbox' = Append(inbox, n)
  /\ announced' = announced + 1
  /\ UNCHANGED <<beatVars, bufVars, status, cmdVars, ssVars, wire, server, sm, crashed, broken,
                 commands, late, histVars>>

\* A server that fails loses what was under way to it; what it has sent stays.
ServerFails ==
  /\ server = "up" /\ vpc # "ended"
  /\ server' \in {f \in {"silent", "closed"} : May(f)}
  /\ wire' = 0
  /\ UNCHANGED <<beatVars, bufVars, status, cmdVars, ssVars, inbox, sm, crashed, broken,
                 boundVars, histVars>>
ManagerFails ==
  /\ sm = "up" /\ vpc # "ended" /\ May("sm")
  /\ sm' = "silent"
  /\ UNCHANGED <<beatVars, bufVars, status, cmdVars, ssVars, wire, inbox, server, crashed, broken,
                 boundVars, histVars>>

Servers == Serve \/ Notify \/ ServerFails \/ ManagerFails

-----------------------------------------------------------------------------

\* The arguments are variables of Network_Init: once it has returned, a thread
\* that reads them reads a dead stack frame, which may also kill the process.
ReadsArgs == mpc \in {"args", "over"} \/ sspc \in {"args", "beat"}
DeadFrame == vpc # "init" /\ ReadsArgs /\ Crash

Stopped == (vpc = "ended" \/ crashed) /\ UNCHANGED vars

Next ==
  \/ ~crashed /\ ((~Cancelled /\ Heartbeat) \/ SsArgs \/ SsMissed \/ Player \/ Servers \/ DeadFrame)
  \/ Stopped

Spec == Init /\ [][Next]_vars

\* Every thread of the process that can take a step takes one, a read that
\* nothing answers times out, and a server that is up answers in the end.
FairSpec ==
  /\ Spec
  /\ WF_vars(~crashed /\ ~Cancelled /\ Heartbeat)
  /\ WF_vars(~crashed /\ Player)
  /\ WF_vars(~crashed /\ SsArgs)
  /\ WF_vars(~crashed /\ sm = "silent" /\ SsMissed)
  /\ WF_vars(~crashed /\ Serve)

-----------------------------------------------------------------------------
(* Properties *)

MsTypes ==
  /\ mpc \in {"args", "fill", "send", "recv", "parse", "select", "recv2", "parse2", "announce",
              "answer", "over", "done", "gone"}
  /\ miss \in 0 .. MissMax /\ (miss = MissMax => mpc \in {"over", "done", "gone"})
  /\ status \in {"none", "play", "quit"}
SsTypes ==
  /\ sspc \in {"args", "beat", "done", "gone"}
  /\ ssMiss \in 0 .. MissMax /\ (ssMiss = MissMax => sspc \in {"done", "gone"})
PlayerTypes ==
  /\ vpc \in {"init", "poll", "clear", "flags", "fill", "send", "recv", "check", "joinSs",
              "joinMs", "ended"}
  /\ todo \in Seq(Requests) /\ (vpc \in {"fill", "send", "recv", "check"} => todo # <<>>)
  /\ vtry \in 0 .. 2
SocketTypes ==
  /\ tx \in {"request", "answer"}
  /\ rx \in [front : Replies \union Notices \union {"none"}, notice : Notices \union {"none"}]
  /\ inbox \in Seq(Replies \union Notices) /\ wire \in Nat
  /\ server \in {"up", "silent", "closed"} /\ sm \in {"up", "silent"}
CountTypes ==
  /\ commands \in 0 .. MaxCommands /\ announced \in 0 .. MaxAnnounces
  /\ refused \in 0 .. MaxRefused /\ late \in 0 .. MaxLate /\ excuse \in Nat /\ acted \in Nat
FlagTypes ==
  /\ msErr \in BOOLEAN /\ ssErr \in BOOLEAN /\ quit \in BOOLEAN /\ begun \in BOOLEAN
  /\ crashed \in BOOLEAN /\ broken \in BOOLEAN

\* Every variable holds what the code's field can hold; the miss counters stop
\* at the limit, and a thread that has reached it is on its way out.
TypeOK == MsTypes /\ SsTypes /\ PlayerTypes /\ SocketTypes /\ CountTypes /\ FlagTypes

\* A streaming server that is up is not given up without a cause: every miss
\* that counts goes back to a reply that came late or to a reply a trick command
\* read in the heartbeat's place since the last answer, and without a refusal or
\* an error of select only MissMax of them end the heartbeat.
LiveServerKept ==
  server = "up" =>
    /\ miss <= excuse
    /\ mpc \in {"over", "done"} /\ refused = 0 /\ ~broken => miss = MissMax

\* A notice is acted on at most once, although rx_buffer keeps it until the next
\* read and both threads read into it.
ActedOnce == acted <= announced

\* Each thread keeps the contract the player reads its flag by (module
\* HeartbeatContract, which StreamPlayer assumes of the two): the loss is raised by
\* every way out of the loop, once, and stays up until the thread is joined, although
\* the flag is uninitialised before the thread has run.
MsThread == CASE mpc = "args" -> "starting" [] mpc = "gone" -> "none"
              [] mpc = "done" \/ (mpc = "over" /\ msErr) -> "dead" [] OTHER -> "run"
SsThread == CASE sspc = "args" -> "starting" [] sspc = "gone" -> "none"
              [] sspc = "done" -> "dead" [] OTHER -> "run"
MsBeat == INSTANCE HeartbeatContract WITH thread <- MsThread, flag <- msErr, gone <- crashed
SsBeat == INSTANCE HeartbeatContract WITH thread <- SsThread, flag <- ssErr, gone <- crashed
MsKeepsContract == MsBeat!Spec
SsKeepsContract == SsBeat!Spec

\* A streaming server or a session manager that stops answering, or closes, ends
\* the player, also while a trick command reads the heartbeat's replies.
LossNoticed == (server # "up" \/ sm = "silent") ~> (vpc = "ended" \/ crashed)

=============================================================================
