------------------------------ MODULE Receiver ------------------------------
(***************************************************************************)
(* The receiver of the box under the player threads: tuner, program table, *)
(* descrambler and decoder (tsplay/tsplayer.c), the DRM licence of a film   *)
(* and the tunnel of the cable gateway.                                    *)
(*                                                                         *)
(* There is one of each, in global variables, a file and a device, and each *)
(* player uses them as if they were its own.  user remembers which player    *)
(* touched a thing last: the invariants say what a player may rely on as    *)
(* long as that was itself.                                                *)
(***************************************************************************)
EXTENDS Naturals, Sequences, FiniteSets

CONSTANTS
  Inst,       \* the native players
  Wants,      \* what Network_Init may be told to play: <<frequency, program>>
  Lineup,     \* per frequency the programs its table lists
  Kinds,      \* "live", or the film's licence: "0", "clear", "dvb", "bad"
  MaxTries,   \* MAX_SEARCH_RETRY_TIMES
  MaxCalls,   \* bound: players made and media started
  MaxFaults   \* bound: failures of tuner, search, licence, descrambler, setting.xml, gateway

ASSUME ReceiverAssumption ==
  /\ 0 \notin Inst /\ Wants \subseteq Nat \X Nat
  /\ (\A w \in Wants : w[1] # 0) /\ 0 \notin DOMAIN Lineup
  /\ Kinds \subseteq {"live", "0", "clear", "dvb", "bad"}
  /\ MaxTries \in Nat \ {0} /\ MaxCalls \in Nat /\ MaxFaults \in Nat

Things == {"tuner", "table", "key", "tunnel"}
Setup  == {"net", "tune", "search", "licence", "play"}
\* The frequencies DSP_DVBplay_tune takes.
Band   == 501 .. 899
Ended  == {"idle", "spent"}

VARIABLES
  pc,         \* per player: gone, idle, a step of its thread, spent, or crashed
  medium,     \* per player: its kind, play_param of the session, searches left, and
              \* what parse_cw_from_license returned
  curFreq,    \* cur_freq
  quit,       \* a QUIT is in the queue
  tunerFreq, tuned, \* g_TunerFreq; the frequency the tuner is locked on, 0 for none
  table,      \* g_pProgTbl: the frequency it was read from, 0 for HI_NULL
  isScramble, key, keys, \* g_isScramble, g_phKey, the descramblers that exist (by maker)
  licence,    \* the licence in the file: <<>> or <<writer, what parse_cw_from_license returned>>
  ready,      \* decoder and demultiplexer are initialised
  opened,     \* status_decoder: the player will close them
  page, asked, replies, tunnel, \* the page's thread (what it does, for which player); the gateway
  timeouts, calls, faults,
  user        \* history: who used a thing last, 0 for nobody

threadVars  == <<pc, medium, curFreq, quit>>
tunerVars   == <<tunerFreq, tuned>>
keyVars     == <<isScramble, key, keys>>
decoderVars == <<ready, opened>>
gatewayVars == <<page, asked, replies, tunnel, timeouts>>
vars == <<threadVars, tunerVars, table, keyVars, licence, decoderVars, gatewayVars, calls, faults,
          user>>

NoMedium == [kind |-> "live", freq |-> 0, prog |-> 0, tries |-> 0, scramble |-> "no"]

Init ==
  /\ pc = [i \in Inst |-> "gone"] /\ medium = [i \in Inst |-> NoMedium]
  /\ curFreq = [i \in Inst |-> 0] /\ quit = [i \in Inst |-> FALSE]
  /\ tunerFreq = 0 /\ tuned = 0 /\ table = 0
  /\ isScramble = FALSE /\ key = 0 /\ keys = {} /\ licence = <<>> /\ ready = FALSE
  /\ opened = [i \in Inst |-> FALSE]
  /\ page = <<"free", 0>> /\ asked = <<>> /\ replies = <<>> /\ tunnel = FALSE /\ timeouts = 0
  /\ calls = 0 /\ faults = 0 /\ user = [t \in Things |-> 0]

Call  == calls < MaxCalls /\ calls' = calls + 1
Fault == faults < MaxFaults /\ faults' = faults + 1
\* What a thread knew of its medium is dead when it ended.
Over(i)  == medium' = [medium EXCEPT ![i] = NoMedium]
To(i, s) == pc' = [pc EXCEPT ![i] = s]
Uses(i, ts) == user' = [t \in Things |-> IF t \in ts THEN i ELSE user[t]]

-----------------------------------------------------------------------------
(* Making and destroying a player; the gateway *)

\* Mutant: a request that was not answered in time is sent again.
GiveUp_Resend == asked' = Append(asked, page[1]) /\ UNCHANGED replies

\* A request of the page's thread; none is sent when the gateway's client is not
\* online.
Request(i, r) ==
  /\ page' = <<r, i>> /\ asked' = Append(asked, r) /\ UNCHANGED faults
  /\ user' = [user EXCEPT !["tunnel"] = i]
NotOnline(i, next) ==
  Fault /\ page' = next /\ UNCHANGED asked /\ user' = [user EXCEPT !["tunnel"] = 0]

\* The constructor asks for the tunnel, then initialises the receiver; it goes on
\* whatever the gateway says.
Make(i) ==
  /\ page[1] = "free" /\ pc[i] = "gone" /\ Call
  /\ Request(i, "START") \/ NotOnline(i, <<"making", i>>)
  /\ UNCHANGED <<threadVars, tunerVars, table, keyVars, licence, decoderVars, replies, tunnel,
                 timeouts>>

\* The frequencies scan_sg may leave the tuner on, 0 when it is not locked.
Scanned == (DOMAIN Lineup \cap Band) \union {0}

\* DSP_DVBplay_init checks nothing it calls and never fails; decoder and tuner may be
\* in use already, by the other player.  When setting.xml can be read, scan_sg looks
\* for the service group with the same tuner; when not, the player goes on without,
\* and will not close what it opened.
Initialise(i) ==
  /\ page = <<"making", i>> /\ page' = <<"free", 0>>
  /\ To(i, "idle") /\ ready' = TRUE /\ Uses(i, {"tuner"})
  /\ curFreq' = [curFreq EXCEPT ![i] = 0]
  /\ \/ tuned' \in Scanned /\ opened' = [opened EXCEPT ![i] = TRUE] /\ UNCHANGED faults
     \/ Fault /\ tuned' \in {tuned, 0} /\ opened' = [opened EXCEPT ![i] = FALSE]
  /\ UNCHANGED <<medium, quit, tunerFreq, table, keyVars, licence,
                 asked, replies, tunnel, timeouts, calls>>

\* What stop and close share: the descrambler of g_phKey goes, whoever made it.
DropKey ==
  IF isScramble THEN isScramble' = FALSE /\ keys' = keys \ {key} /\ UNCHANGED key
  ELSE UNCHANGED keyVars

\* DSP_DVBplay_close takes decoder, tuner and table from everybody.
Close(i) ==
  /\ DropKey /\ table' = 0 /\ tuned' = 0 /\ ready' = FALSE
  /\ Uses(i, {"table", "tuner", "key"})

\* The destructor: a player that was not set up to its end closes nothing.
Destroy(i) ==
  /\ page[1] = "free" /\ pc[i] \in Ended
  /\ To(i, "gone") /\ page' = <<"closing", i>>
  /\ IF opened[i] THEN Close(i) ELSE UNCHANGED <<keyVars, table, tuned, ready, user>>
  /\ opened' = [opened EXCEPT ![i] = FALSE]
  /\ UNCHANGED <<medium, curFreq, quit, tunerFreq, licence, asked, replies,
                 tunnel, timeouts, calls, faults>>

\* Mutant: the destructor leaves the tunnel open.
GiveTunnelBack_Not(i) ==
  /\ page = <<"closing", i>> /\ page' = <<"free", 0>>
  /\ UNCHANGED <<threadVars, tunerVars, table, keyVars, licence, decoderVars, asked, replies,
                 tunnel, timeouts, calls, faults, user>>

GiveTunnelBack(i) ==
  /\ page = <<"closing", i>>
  /\ Request(i, "END") \/ NotOnline(i, <<"free", 0>>)
  /\ UNCHANGED <<threadVars, tunerVars, table, keyVars, licence, decoderVars, replies, tunnel,
                 timeouts, calls>>

\* The gateway takes the requests in order.  It may refuse to open the tunnel, which
\* request_to_open_channel sees in the reply and its caller ignores.
Gateway ==
  /\ asked # <<>> /\ asked' = Tail(asked) /\ replies' = Append(replies, Head(asked))
  /\ \/ tunnel' = (Head(asked) = "START") /\ UNCHANGED <<faults, user>>
     \/ /\ Head(asked) = "START" /\ Fault /\ UNCHANGED tunnel
        /\ user' = [user EXCEPT !["tunnel"] = IF Len(asked) = 1 THEN 0 ELSE @]
  /\ UNCHANGED <<threadVars, tunerVars, table, keyVars, licence, decoderVars, page, timeouts,
                 calls>>

GiveUp == UNCHANGED <<asked, replies>>

\* The page's thread takes the first reply, which may be one it no longer waits
\* for; or it gives up after CCGW_TIMEOUT.
Answered ==
  /\ page[1] \in {"START", "END"}
  /\ \/ replies # <<>> /\ replies' = Tail(replies) /\ UNCHANGED <<asked, timeouts, faults>>
     \/ Fault /\ timeouts' = timeouts + 1 /\ GiveUp
  /\ page' = IF page[1] = "START" THEN <<"making", page[2]>> ELSE <<"free", 0>>
  /\ UNCHANGED <<threadVars, tunerVars, table, keyVars, licence, decoderVars, tunnel, calls,
                 user>>

-----------------------------------------------------------------------------
(* The operations of the page *)

\* The thread starts and has emptied the queue (a QUIT sent before is lost, module
\* StreamPlayer).  A film that played to its end has deleted the clients: its
\* object cannot play again.
Play(i, k) ==
  /\ page[1] = "free" /\ pc[i] = "idle" /\ Call
  /\ To(i, "net") /\ medium' = [medium EXCEPT ![i].kind = k] /\ quit' = [quit EXCEPT ![i] = FALSE]
  /\ UNCHANGED <<curFreq, tunerVars, table, keyVars, licence, decoderVars,
                 gatewayVars, faults, user>>

\* stop, leaveChannel and the destructor send QUIT and join.
Stop(i) ==
  /\ page[1] = "free" /\ pc[i] \in Setup \union {"loop"}
  /\ quit' = [quit EXCEPT ![i] = TRUE] /\ page' = <<"join", i>>
  /\ UNCHANGED <<pc, medium, curFreq, tunerVars, table, keyVars, licence,
                 decoderVars, asked, replies, tunnel, timeouts, calls, faults, user>>
Joined(i) ==
  /\ page = <<"join", i>> /\ pc[i] \in Ended /\ page' = <<"free", 0>>
  /\ quit' = [quit EXCEPT ![i] = FALSE]
  /\ UNCHANGED <<pc, medium, curFreq, tunerVars, table, keyVars, licence,
                 decoderVars, asked, replies, tunnel, timeouts, calls, faults, user>>

-----------------------------------------------------------------------------
(* The thread *)

\* Network_Init (and the first PLAY of a film) end with parameters to play, or
\* fail or see the QUIT; modules StreamPlayer and KeepAlive model them.
Net(i) ==
  /\ pc[i] = "net"
  /\ \/ To(i, "tune")
        /\ \E w \in Wants : medium' = [medium EXCEPT ![i] =
             [@ EXCEPT !.freq = w[1], !.prog = w[2], !.tries = MaxTries]]
     \/ To(i, "idle") /\ Over(i)
  /\ UNCHANGED <<curFreq, quit, tunerVars, table, keyVars, licence, decoderVars,
                 gatewayVars, calls, faults, user>>

\* Mutant: any frequency is taken.
TuneTo_Any(f) == f
\* DSP_DVBplay_tune takes only frequencies of its band; for another it connects
\* to the one before, and says so to nobody.
TuneTo(f) == IF f \in Band THEN f ELSE tunerFreq

\* Mutant: a tune that failed leaves cur_freq as it was.
Lost_Kept(i) == UNCHANGED curFreq
\* A tune that failed must not be taken for done the next time.
Lost(i) == curFreq' = [curFreq EXCEPT ![i] = 0]

\* The tuner can lock unless nobody ever tuned or the other player closed it.
Locks(f) == TuneTo(f) # 0 /\ ready

Tune(i) ==
  LET f == medium[i].freq IN
  /\ pc[i] = "tune"
  /\ IF curFreq[i] = f
     THEN To(i, "search") /\ UNCHANGED <<medium, tunerVars, curFreq, user, faults>>
     ELSE /\ tunerFreq' = TuneTo(f) /\ Uses(i, {"tuner"})
          /\ \/ Locks(f) /\ tuned' = TuneTo(f) /\ To(i, "search")
                /\ curFreq' = [curFreq EXCEPT ![i] = f] /\ UNCHANGED <<medium, faults>>
             \/ (IF Locks(f) THEN Fault ELSE UNCHANGED faults)
                /\ tuned' = 0 /\ To(i, "idle") /\ Over(i) /\ Lost(i)
  /\ UNCHANGED <<quit, table, keyVars, licence, decoderVars, gatewayVars, calls>>

Programs == IF tuned \in DOMAIN Lineup THEN Lineup[tuned] ELSE {}

\* Mutant: a QUIT leaves the search loop towards the decoder.
GivesUp_QuitGoesOn(i) ==
  CASE quit[i] -> To(i, "play") /\ UNCHANGED medium
    [] ~quit[i] /\ medium[i].tries = 1 -> To(i, "idle") /\ Over(i)
    [] OTHER -> UNCHANGED pc /\ medium' = [medium EXCEPT ![i].tries = @ - 1]
\* After a search that failed: a QUIT or the last try ends the thread.
GivesUp(i) ==
  IF quit[i] \/ medium[i].tries = 1 THEN To(i, "idle") /\ Over(i)
  ELSE UNCHANGED pc /\ medium' = [medium EXCEPT ![i].tries = @ - 1]

\* DSP_DVBplay_search: the table of the frequency, kept only when it lists the
\* program.
Search(i) ==
  LET listed == medium[i].prog \in Programs IN
  /\ pc[i] = "search" /\ Uses(i, {"table"})
  /\ \/ listed /\ table' = tuned /\ UNCHANGED <<medium, faults>>
        /\ To(i, IF medium[i].kind = "live" THEN "play" ELSE "licence")
     \/ (IF listed THEN Fault ELSE UNCHANGED faults) /\ table' = 0 /\ GivesUp(i)
  /\ UNCHANGED <<curFreq, quit, tunerVars, keyVars, licence, decoderVars, gatewayVars, calls>>

\* parse_cw_from_license: the licence goes to a file, the DRM module gives the
\* key.  Only a licence "0" writes no file.  When the file cannot be opened or written
\* it holds what it held; when the DRM module refuses the licence the file stays.  An
\* error plays the film as clear.
Scramble(i, r) == medium' = [medium EXCEPT ![i].scramble = r]
Licence(i) ==
  LET k == medium[i].kind IN
  /\ pc[i] = "licence" /\ To(i, "play")
  /\ \/ k = "0" /\ UNCHANGED <<medium, licence, faults>>
     \/ k # "0" /\ UNCHANGED faults
        /\ \E r \in {"yes", "no", "error"} :
             /\ r = (CASE k = "dvb" -> "yes" [] k = "clear" -> "no" [] OTHER -> "error")
             /\ Scramble(i, r) /\ licence' = <<i, r>>
     \/ k # "0" /\ Fault /\ Scramble(i, "error") /\ licence' \in {licence, <<i, "error">>}
  /\ UNCHANGED <<curFreq, quit, tunerVars, table, keyVars, decoderVars, gatewayVars, calls,
                 user>>

\* The descrambler of DSP_DVBplay; g_isScramble is set before it is known to exist.
Descramble(i) ==
  IF medium[i].scramble = "yes"
  THEN /\ isScramble' = TRUE /\ Uses(i, {"key"})
       /\ \/ key' = i /\ keys' = keys \union {i} /\ UNCHANGED faults
          \/ Fault /\ UNCHANGED <<key, keys>>
  ELSE UNCHANGED <<keyVars, user, faults>>

\* DSP_DVBplay reads the table through its pointer.
Start(i) ==
  /\ pc[i] = "play"
  /\ CASE table = 0 -> To(i, "crashed") /\ UNCHANGED <<keyVars, user, faults>>
       [] table # 0 /\ medium[i].prog \in Lineup[table] ->
            Descramble(i) /\ (To(i, "loop") \/ To(i, "clean"))
       [] OTHER -> To(i, "clean") /\ UNCHANGED <<keyVars, user, faults>>
  /\ UNCHANGED <<medium, curFreq, quit, tunerVars, table, licence, decoderVars,
                 gatewayVars, calls>>

\* The main loop ends by a QUIT, or by itself (a heartbeat failed, the film ended).
Loop(i) ==
  /\ pc[i] = "loop" /\ To(i, "clean")
  /\ UNCHANGED <<medium, curFreq, quit, tunerVars, table, keyVars, licence, decoderVars,
                 gatewayVars, calls, faults, user>>

\* Mutant: the licence is kept when the user stopped the film.
Spend_NotOnQuit(i) ==
  licence' = IF medium[i].scramble = "yes" /\ ~quit[i] THEN <<>> ELSE licence
\* The licence of a scrambled film is counted down and its file removed: the file
\* there is, whoever wrote it.
Spend(i) == licence' = IF medium[i].scramble = "yes" THEN <<>> ELSE licence

Clean(i) ==
  /\ pc[i] = "clean" /\ To(i, "halt") /\ Spend(i)
  /\ UNCHANGED <<medium, curFreq, quit, tunerVars, table, keyVars, decoderVars,
                 gatewayVars, calls, faults, user>>

\* Mutant: DSP_DVBplay_stop leaves the descrambler.
Release_Table == table' = 0 /\ UNCHANGED keyVars
\* DSP_DVBplay_stop: the table and the descrambler there are go.
Release == table' = 0 /\ DropKey

Halt(i) ==
  /\ pc[i] = "halt" /\ To(i, IF medium[i].kind = "live" THEN "idle" ELSE "spent")
  /\ Release /\ Uses(i, {"table", "key"})
  /\ Over(i)
  /\ UNCHANGED <<curFreq, quit, tunerVars, licence, decoderVars,
                 gatewayVars, calls, faults>>

-----------------------------------------------------------------------------

Thread(i) ==
  \/ Net(i) \/ Tune(i) \/ Search(i) \/ Licence(i) \/ Start(i) \/ Loop(i) \/ Clean(i) \/ Halt(i)
\* A thread that reads the table through HI_NULL takes the whole process with it.
Alive == \A i \in Inst : pc[i] # "crashed"
Next ==
  /\ Alive
  /\ \/ \E i \in Inst :
          \/ Make(i) \/ Initialise(i) \/ Destroy(i) \/ GiveTunnelBack(i)
          \/ \E k \in Kinds : Play(i, k)
          \/ Stop(i) \/ Joined(i) \/ Thread(i)
     \/ Gateway \/ Answered

Spec == Init /\ [][Next]_vars

-----------------------------------------------------------------------------
(* Properties *)

Steps == Setup \union Ended \union {"gone", "loop", "clean", "halt", "crashed"}
Pages == {"free", "START", "END", "making", "closing", "join"}

MediumType == [kind : Kinds \union {"live"}, freq : Nat, prog : Nat, tries : 0 .. MaxTries,
               scramble : {"no", "yes", "error"}]

\* The types of the variables: in particular the table is HI_NULL or of a
\* frequency of the line-up, and the descramblers are the players'.
TypeOK ==
  /\ pc \in [Inst -> Steps] /\ medium \in [Inst -> MediumType]
  /\ curFreq \in [Inst -> Nat] /\ quit \in [Inst -> BOOLEAN]
  /\ tunerFreq \in Band \union {0} /\ tuned \in Band \union {0}
  /\ table \in DOMAIN Lineup \union {0}
  /\ isScramble \in BOOLEAN /\ key \in Inst \union {0} /\ keys \subseteq Inst
  /\ licence \in {<<>>} \union (Inst \X {"no", "yes", "error"}) /\ ready \in BOOLEAN
  /\ opened \in [Inst -> BOOLEAN]
  /\ page \in Pages \X (Inst \union {0})
  /\ asked \in Seq({"START", "END"}) /\ replies \in Seq({"START", "END"}) /\ tunnel \in BOOLEAN
  /\ timeouts \in Nat /\ calls \in Nat /\ faults \in Nat
  /\ user \in [Things -> Inst \union {0}]

\* DSP_DVBplay finds the table that the search of its own thread left, with the
\* program in it, unless another player searched, stopped or closed since.
TableThere ==
  \A i \in Inst : pc[i] \in {"licence", "play", "crashed"} /\ user["table"] = i =>
    table # 0 /\ medium[i].prog \in Lineup[table]

\* cur_freq, which lets a player skip the tuning, is where the tuner is, unless
\* another player was made, tuned or closed it since, or the frequency is outside
\* the band.
TunedRight ==
  \A i \in Inst : pc[i] # "gone" /\ user["tuner"] = i /\ curFreq[i] \in Band => tuned = curFreq[i]

\* The player that used the descrambler last leaves none behind when its thread
\* has ended, however it ended.
KeyDropped ==
  \A i \in Inst :
    user["key"] = i /\ pc[i] \in Ended \union {"gone"} => ~isScramble /\ key \notin keys

\* The licence of a film accepted as scrambled does not outlast the thread that
\* played it: it was counted down, and its file removed.
LicenceSpent ==
  licence # <<>> /\ licence[2] = "yes" => pc[licence[1]] \notin Ended \union {"gone"}

\* No licence outlasts the thread that wrote it.  The code breaks it: the file of a
\* clear film, and of one the DRM module refused, is never removed.
LicenceRemoved == licence # <<>> => pc[licence[1]] \notin Ended \union {"gone"}

\* When the gateway has done what it was asked, the tunnel is open exactly if the
\* player that asked last, and was not refused, exists: a destroyed player gave it back.
TunnelFollows ==
  \A i \in Inst : asked = <<>> /\ user["tunnel"] = i /\ page[1] \in {"free", "join"} =>
    (tunnel <=> pc[i] # "gone")

\* Each request given up leaves one reply too many, for good: every later request
\* is answered by the reply to an earlier one.
RepliesInStep ==
  Len(asked) + Len(replies) = timeouts + (IF page[1] \in {"START", "END"} THEN 1 ELSE 0)

=============================================================================
