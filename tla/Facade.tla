------------------------------- MODULE Facade -------------------------------
(***************************************************************************)
(* SNmediaplayer: the objects a page creates, the static table of two       *)
(* native players they are bound to, the settings kept in setting.xml, the  *)
(* list of channels, and the one System V queue on which all native players *)
(* receive.                                                                *)
(*                                                                         *)
(* The pages run in one thread: an operation that joins a player thread     *)
(* blocks them all.  Of a native player's thread only what it does with the *)
(* queue is kept (module StreamPlayer models the rest).                    *)
(***************************************************************************)
EXTENDS Naturals, Sequences

CONSTANTS
  Page,        \* the SNmediaplayer objects
  Volumes,     \* what the pages pass to setVolume
  StoredVolume, \* the volume in setting.xml at the start
  Modes,       \* display modes the pages use
  PageAreas,   \* display areas the pages use
  Channels,    \* channel numbers
  XmlFails,    \* TRUE: setting.xml may be unreadable
  QueueCap,    \* messages the queue holds before msgsnd fails
  MaxCalls     \* bound: operations called

ASSUME FacadeAssumption ==
  /\ Volumes \subseteq Nat /\ StoredVolume \in Nat /\ XmlFails \in BOOLEAN
  /\ QueueCap \in Nat /\ MaxCalls \in Nat
  /\ Modes \subseteq {0, 1, 2, 3, 255} /\ PageAreas \subseteq {"part", "full"}

Inst  == {0, 1}
\* Display areas: a part of the screen, or all of it.
Areas == {"part", "full"}
\* The flags of a page: those the player keeps and those its setters drop.
KeptFlags == {"nativeUI"}
Flags     == KeptFlags \union {"cycle"}
Cmds      == {"QUIT", "VOLUMECHANGE", "OTHER"}

Empty == [there |-> FALSE]
None  == 2

VARIABLES
  page,       \* per object: absent, or its instance, mode, area, volume, mute flag and flags
  slot,       \* sn_real_mediaplayer: per instance Empty or the fields of its player
  thread,     \* per instance, the thread its id names or an operation joins: none,
              \* begin, loop, or leaving (on its last callback, its id cleared)
  late,       \* per instance: a thread nobody joins is on its last callback
  astray,     \* such a thread is left without its player
  queue, qid, \* the queue's messages; its id, 0 when it does not exist
  made,       \* ids given so far
  waiting,    \* the instance whose thread an operation joins, or None
  deleting,   \* the operation that joins is the destructor
  missed,     \* history: a notice or a mark took the place of the QUIT it sent
  xmlVolume, xmlMute,   \* setting.xml
  infos, ids, \* sn_channel_list, userchannelid_list
  calls,      \* operations called (bound)
  sound,      \* the volume of the sound output, the thread that set it, for which player
  stopped,    \* history: the pair <<thread ended by a QUIT, its sender>>, or none
  joined,     \* history: the channel asked for last and the channel whose description was used
  released    \* history: per instance, a player was destroyed since this one was made

pageVars == <<page, xmlVolume, xmlMute, infos, ids>>
qVars    == <<queue, qid, made>>
waitVars == <<waiting, deleting, missed>>
threadVars == <<thread, late, astray>>
histVars == <<stopped, joined, released>>
vars == <<pageVars, slot, threadVars, qVars, waitVars, calls, sound, histVars>>

Occupied(i) == slot[i].there
Absent == [there |-> FALSE]

Init ==
  /\ page = [p \in Page |-> Absent] /\ slot = [i \in Inst |-> Empty]
  /\ thread = [i \in Inst |-> "none"] /\ late = [i \in Inst |-> FALSE] /\ astray = FALSE
  /\ queue = <<>> /\ qid = 0 /\ made = 0 /\ waiting = None /\ deleting = FALSE /\ missed = FALSE
  /\ xmlVolume = StoredVolume /\ xmlMute \in BOOLEAN
  /\ infos = <<>> /\ ids = <<>> /\ calls = 0 /\ sound = <<0, None, None>>
  /\ stopped = <<None, None>> /\ joined = <<0, 0>> /\ released = [i \in Inst |-> FALSE]

-----------------------------------------------------------------------------
(* The page objects *)

Call == waiting = None /\ calls < MaxCalls /\ calls' = calls + 1
CallOn(p) == Call /\ page[p].there

\* The volume in the file, or what there was when it cannot be read.
ReadVolume(old) == {xmlVolume} \union (IF XmlFails THEN {old} ELSE {})

\* The constructor takes a free slot, and slot 0 when both are taken.  The stored
\* index of the volume is taken as it is; unreadable, it leaves the field unset.
FreeSlot == IF Occupied(0) /\ ~Occupied(1) THEN 1 ELSE 0
NewPage(p) ==
  /\ Call /\ ~page[p].there
  /\ \E v \in ReadVolume(0) :
       page' = [page EXCEPT ![p] = [there |-> TRUE, inst |-> FreeSlot, mode |-> 0,
                  area |-> "full", volume |-> v, mute |-> xmlMute, flags |-> {"nativeUI"}]]
  /\ UNCHANGED <<xmlVolume, xmlMute, infos, ids, slot, threadVars, qVars, waitVars, sound,
                 histVars>>

\* The page goes; its player stays in the table for another page to bind to.
DropPage(p) ==
  /\ CallOn(p) /\ page' = [page EXCEPT ![p] = Absent]
  /\ UNCHANGED <<xmlVolume, xmlMute, infos, ids, slot, threadVars, qVars, waitVars, sound,
                 histVars>>

\* Mutant: bindNativePlayerInstance does not look at the number.
Bind_Any(p, i) ==
  /\ CallOn(p) /\ page' = [page EXCEPT ![p].inst = i]
  /\ UNCHANGED <<xmlVolume, xmlMute, infos, ids, slot, threadVars, qVars, waitVars, sound,
                 histVars>>

\* Another slot for the object.  Only this operation looks whether there is one.
Bind(p, i) ==
  /\ CallOn(p) /\ i \in Inst /\ page' = [page EXCEPT ![p].inst = i]
  /\ UNCHANGED <<xmlVolume, xmlMute, infos, ids, slot, threadVars, qVars, waitVars, sound,
                 histVars>>

\* initMediaPlayer: instance and attributes at once, in the object only.
InitMediaPlayer(p, i, m, a) ==
  /\ CallOn(p)
  /\ page' = [page EXCEPT ![p] = [@ EXCEPT !.inst = i, !.mode = m, !.area = a, !.mute = FALSE,
                                           !.flags = Flags]]
  /\ UNCHANGED <<xmlVolume, xmlMute, infos, ids, slot, threadVars, qVars, waitVars, sound,
                 histVars>>

\* A setter: the object's copy, and the player's when there is one and its own
\* setter is not empty.
SetFlag(p, f) ==
  /\ CallOn(p) /\ f \notin page[p].flags
  /\ page' = [page EXCEPT ![p].flags = @ \union {f}]
  /\ LET i == page[p].inst IN
       slot' = IF Occupied(i) /\ f \in KeptFlags
               THEN [slot EXCEPT ![i].flags = @ \union {f}] ELSE slot
  /\ UNCHANGED <<xmlVolume, xmlMute, infos, ids, threadVars, qVars, waitVars, sound, histVars>>

-----------------------------------------------------------------------------
(* The queue all native players share *)

\* msgsnd with the id the player got when it was made: fails without anybody
\* noticing when the queue is full or was removed since.
Send(i, c) ==
  queue' = IF slot[i].msgid = qid /\ Len(queue) < QueueCap
           THEN Append(queue, [cmd |-> c, from |-> i]) ELSE queue

\* A native player, made with the object's attributes: msgget joins the queue or
\* creates it.
Player(p) ==
  [there |-> TRUE, volume |-> page[p].volume, mute |-> page[p].mute, mode |-> page[p].mode,
   area |-> page[p].area, full |-> page[p].mode = 1 \/ page[p].area = "full", fresh |-> TRUE,
   flags |-> page[p].flags, msgid |-> IF qid = 0 THEN made + 1 ELSE qid]
Make(p) ==
  LET i == page[p].inst IN
  IF Occupied(i) THEN UNCHANGED <<slot, qid, made, released>>
  ELSE /\ slot' = [slot EXCEPT ![i] = Player(p)]
       /\ qid' = Player(p).msgid /\ made' = (IF qid = 0 THEN made + 1 ELSE made)
       /\ released' = [released EXCEPT ![i] = FALSE]

\* setSingleMedia, playFromStart and playByTime make the player if the slot is
\* empty and start its thread, or send a message to the one that runs.
Play(p) ==
  LET i == page[p].inst IN
  /\ Make(p)
  /\ IF thread[i] = "none" THEN thread' = [thread EXCEPT ![i] = "begin"] /\ UNCHANGED queue
     ELSE Send(i, "OTHER") /\ UNCHANGED thread
  /\ UNCHANGED <<late, astray>>
PlayMedia(p) ==
  /\ CallOn(p) /\ Play(p)
  /\ UNCHANGED <<pageVars, waitVars, sound, stopped, joined>>

\* pause, fastForward, fastRewind, resume: nothing without a player.
TrickMode(p) ==
  /\ CallOn(p) /\ Occupied(page[p].inst) /\ Send(page[p].inst, "OTHER")
  /\ UNCHANGED <<pageVars, slot, threadVars, qid, made, waitVars, sound, histVars>>

-----------------------------------------------------------------------------
(* Channels *)

\* Mutant: Channel_Init forgets the second list.
ClearChannels_OnlyInfos == infos' = <<>> /\ UNCHANGED ids

ClearChannels == infos' = <<>> /\ ids' = <<>>

\* registerChannelInfo and registerChannel; "Channel_Init" empties the lists.
RegisterChannel(c) ==
  /\ Call
  /\ infos' = Append(infos, c) /\ ids' = Append(ids, c)
  /\ UNCHANGED <<page, xmlVolume, xmlMute, slot, threadVars, qVars, waitVars, sound, histVars>>
ChannelInit ==
  /\ Call /\ ClearChannels
  /\ UNCHANGED <<page, xmlVolume, xmlMute, slot, threadVars, qVars, waitVars, sound, histVars>>

\* joinChannel: the first entry with the number; without one, -1 and no player.
\* A description that does not parse makes the player and starts nothing.
First(c) == CHOOSE k \in DOMAIN infos : ids[k] = c /\ \A j \in 1 .. k - 1 : ids[j] # c
JoinChannel(p, c) ==
  /\ CallOn(p)
  /\ IF \E k \in DOMAIN infos : ids[k] = c
     THEN /\ Play(p) \/ (Make(p) /\ UNCHANGED <<threadVars, queue>>)
          /\ joined' = <<c, infos[First(c)]>>
     ELSE UNCHANGED <<slot, threadVars, qVars, joined, released>>
  /\ UNCHANGED <<pageVars, waitVars, sound, stopped>>

-----------------------------------------------------------------------------
(* Stop and release *)

\* What stop, leaveChannel and the destructor share: a thread that runs is sent a
\* QUIT and joined.
Quit(i) ==
  IF thread[i] # "none" THEN Send(i, "QUIT") ELSE UNCHANGED queue

Stop(p) ==
  LET i == page[p].inst IN
  /\ CallOn(p) /\ Occupied(i) /\ thread[i] # "none"
  /\ Quit(i) /\ waiting' = i /\ deleting' = FALSE /\ missed' = FALSE
  /\ UNCHANGED <<pageVars, slot, threadVars, qid, made, sound, histVars>>

\* releaseMediaPlayer deletes the slot it is given, releaseNativePlayer the slot
\* of the object, whatever it is given.
Release(i) ==
  /\ Occupied(i) /\ Quit(i) /\ waiting' = i /\ deleting' = TRUE /\ missed' = FALSE
  /\ UNCHANGED <<pageVars, slot, threadVars, qid, made, sound, histVars>>
ReleaseMediaPlayer(p, i) == CallOn(p) /\ Release(i)
ReleaseNativePlayer(p) == CallOn(p) /\ Release(page[p].inst)

\* The destructor removes the queue, for every player, and empties the slot.
RemoveQueue(i) ==
  IF slot[i].msgid = qid THEN qid' = 0 /\ queue' = <<>> ELSE UNCHANGED <<qid, queue>>

Deleted(i) ==
  /\ slot' = [slot EXCEPT ![i] = Empty]
  /\ released' = [j \in Inst |-> j # i \/ released[j]]
  /\ astray' = (astray \/ late[i]) /\ late' = [late EXCEPT ![i] = FALSE]
NotDeleted == UNCHANGED <<slot, released, late, astray>>

\* Mutant: the slot is emptied without joining its thread.
Joinable_Always(i) == waiting = i

\* Mutant: stop removes the queue too.
Returned_Removes(i) == RemoveQueue(i) /\ IF deleting THEN Deleted(i) ELSE NotDeleted

\* pthread_join returns when the thread has ended.  A thread whose id is cleared is
\* not joined: the destructor does not wait for its last callback.
Joinable(i) == waiting = i /\ thread[i] = "none"
Returned(i) ==
  IF deleting THEN RemoveQueue(i) /\ Deleted(i) ELSE UNCHANGED <<queue, qid>> /\ NotDeleted

JoinReturns(i) ==
  /\ Joinable(i) /\ Returned(i) /\ waiting' = None /\ deleting' = FALSE /\ missed' = FALSE
  /\ UNCHANGED <<pageVars, thread, made, calls, sound, stopped, joined>>

-----------------------------------------------------------------------------
(* The volume, the mute flag and setting.xml *)

\* The file keeps half the volume: the old browser's scale is 0 to 50.
Stored(v) == v \div 2

\* getVolume doubles what it reads; when it cannot read, what it has.
GetVolume(p) ==
  /\ CallOn(p)
  /\ \E v \in ReadVolume(page[p].volume) :
       page' = [page EXCEPT ![p].volume = 2 * v]
  /\ UNCHANGED <<xmlVolume, xmlMute, infos, ids, slot, threadVars, qVars, waitVars, sound,
                 histVars>>

\* Mutant: the player gets the scale of the file.
SetVolume_Stored(p, v) ==
  LET i == page[p].inst IN
  /\ CallOn(p) /\ page' = [page EXCEPT ![p].volume = v, ![p].mute = FALSE]
  /\ xmlVolume' = Stored(v)
  /\ IF Occupied(i) THEN slot' = [slot EXCEPT ![i].volume = Stored(v)] /\ Send(i, "VOLUMECHANGE")
     ELSE UNCHANGED <<slot, queue>>
  /\ UNCHANGED <<xmlMute, infos, ids, threadVars, qid, made, waitVars, sound, histVars>>

SetVolume(p, v) ==
  LET i == page[p].inst IN
  /\ CallOn(p) /\ page' = [page EXCEPT ![p].volume = v, ![p].mute = FALSE]
  /\ xmlVolume' = Stored(v)
  /\ IF Occupied(i) THEN slot' = [slot EXCEPT ![i].volume = v] /\ Send(i, "VOLUMECHANGE")
     ELSE UNCHANGED <<slot, queue>>
  /\ UNCHANGED <<xmlMute, infos, ids, threadVars, qid, made, waitVars, sound, histVars>>

GetMuteFlag(p) ==
  /\ CallOn(p) /\ page' = [page EXCEPT ![p].mute = xmlMute]
  /\ UNCHANGED <<xmlVolume, xmlMute, infos, ids, slot, threadVars, qVars, waitVars, sound,
                 histVars>>

\* The flag reaches the file only when the slot has a player, and never the
\* player: its setMuteFlag is empty.
SetMuteFlag(p, m) ==
  /\ CallOn(p) /\ page' = [page EXCEPT ![p].mute = m]
  /\ xmlMute' = IF Occupied(page[p].inst) THEN m ELSE xmlMute
  /\ UNCHANGED <<xmlVolume, infos, ids, slot, threadVars, qVars, waitVars, sound, histVars>>

-----------------------------------------------------------------------------
(* The window *)

SetDisplayMode(p, m) ==
  /\ CallOn(p) /\ page' = [page EXCEPT ![p].mode = m]
  /\ LET i == page[p].inst IN
       slot' = IF Occupied(i) THEN [slot EXCEPT ![i].mode = m, ![i].fresh = FALSE] ELSE slot
  /\ UNCHANGED <<xmlVolume, xmlMute, infos, ids, threadVars, qVars, waitVars, sound, histVars>>

SetDisplayArea(p, a) ==
  /\ CallOn(p) /\ page' = [page EXCEPT ![p].area = a]
  /\ LET i == page[p].inst IN
       slot' = IF Occupied(i) THEN [slot EXCEPT ![i].area = a, ![i].fresh = FALSE] ELSE slot
  /\ UNCHANGED <<xmlVolume, xmlMute, infos, ids, threadVars, qVars, waitVars, sound, histVars>>

\* What refreshVideoDisplay passes to player_setwindowparms.
Asked(m, a) == CASE m = 1 -> "full" [] m = 255 -> "empty" [] OTHER -> a

\* Mutant: iftvfullscreen is only ever set.
Placed_NeverCleared(s, a) ==
  LET full == s.mode = 1 \/ a \in {"full", "empty"}
  IN  [s EXCEPT !.area = IF full THEN "full" ELSE a, !.full = full \/ @, !.fresh = TRUE]

\* player_setwindowparms: mode 1 and the empty rectangle (mode 255, which is to
\* hide the window) become the whole screen, and the area set before is lost.
Placed(s, a) ==
  LET full == s.mode = 1 \/ a \in {"full", "empty"}
  IN  [s EXCEPT !.area = IF full THEN "full" ELSE a, !.full = full, !.fresh = TRUE]

RefreshVideoDisplay(p) ==
  LET i == page[p].inst IN
  /\ CallOn(p) /\ Occupied(i)
  /\ slot' = [slot EXCEPT ![i] = Placed(@, Asked(@.mode, @.area))]
  /\ UNCHANGED <<pageVars, threadVars, qVars, waitVars, sound, histVars>>

-----------------------------------------------------------------------------
(* The threads of the native players *)

\* The main loop begins by emptying the queue, whoever the messages are for.
Begin(i) ==
  /\ thread[i] = "begin" /\ thread' = [thread EXCEPT ![i] = "loop"]
  /\ queue' = IF slot[i].msgid = qid THEN <<>> ELSE queue
  /\ UNCHANGED <<pageVars, slot, late, astray, qid, made, waitVars, calls, sound, histVars>>

Take(i) ==
  /\ thread[i] = "loop" /\ slot[i].msgid = qid /\ queue # <<>>
  /\ queue' = Tail(queue)
  /\ sound' = IF Head(queue).cmd = "VOLUMECHANGE"
               THEN <<slot[i].volume, i, Head(queue).from>> ELSE sound
  /\ UNCHANGED <<pageVars, slot, late, astray, qid, made, waiting, deleting, calls, joined,
                 released>>

\* Mutant: the main loop does not know QUIT.
Poll_NoQuit(i) == Take(i) /\ UNCHANGED <<thread, stopped, missed>>

\* Any thread takes the first message.  A volume it sets is its own player's.  On a
\* unicast medium a begin of stream, or the mark of a pause or a rewind, replaces
\* the message: a QUIT is then lost, and the thread goes on.
Poll(i) ==
  /\ Take(i)
  /\ IF Head(queue).cmd = "QUIT"
     THEN \/ /\ thread' = [thread EXCEPT ![i] = "none"] /\ stopped' = <<i, Head(queue).from>>
             /\ UNCHANGED missed
          \/ missed' = TRUE /\ UNCHANGED <<thread, stopped>>
     ELSE UNCHANGED <<thread, stopped, missed>>

\* The thread ends of itself at the end of the medium: its last callback, then the
\* id is cleared and it returns.
EndsAlone(i) ==
  /\ thread[i] # "none" /\ thread' = [thread EXCEPT ![i] = "none"]
  /\ UNCHANGED <<pageVars, slot, late, astray, qVars, waitVars, calls, sound, histVars>>

\* A medium that cannot be set up: the id is cleared first, then comes the
\* last callback.  Only an operation that is joining waits for its return.
GivesUp(i) ==
  /\ thread[i] = "loop"
  /\ IF waiting = i THEN thread' = [thread EXCEPT ![i] = "leaving"] /\ UNCHANGED late
     ELSE thread' = [thread EXCEPT ![i] = "none"] /\ late' = [late EXCEPT ![i] = TRUE]
  /\ UNCHANGED <<pageVars, slot, astray, qVars, waitVars, calls, sound, histVars>>

\* The last callback returns (of several that are late, the last one).
LastCallback(i) ==
  /\ \/ thread[i] = "leaving" /\ thread' = [thread EXCEPT ![i] = "none"] /\ UNCHANGED <<late,
                                                                                        astray>>
     \/ late[i] /\ late' = [late EXCEPT ![i] = FALSE] /\ UNCHANGED <<thread, astray>>
     \/ astray /\ astray' = FALSE /\ UNCHANGED <<thread, late>>
  /\ UNCHANGED <<pageVars, slot, qVars, waitVars, calls, sound, histVars>>

-----------------------------------------------------------------------------

SettingsNext(p) ==
  \/ GetVolume(p) \/ \E v \in Volumes : SetVolume(p, v)
  \/ GetMuteFlag(p) \/ \E m \in BOOLEAN : SetMuteFlag(p, m)
  \/ \E f \in Flags : SetFlag(p, f)
WindowNext(p) ==
  \/ \E m \in Modes : SetDisplayMode(p, m)
  \/ \E a \in PageAreas : SetDisplayArea(p, a)
  \/ RefreshVideoDisplay(p)
PlayerNext(p) ==
  \/ PlayMedia(p) \/ TrickMode(p) \/ Stop(p) \/ ReleaseNativePlayer(p)
  \/ \E c \in Channels : JoinChannel(p, c)
  \/ \E i \in Inst \union {2} : Bind(p, i)
  \/ \E i \in Inst : ReleaseMediaPlayer(p, i)
                     \/ \E m \in Modes, a \in PageAreas : InitMediaPlayer(p, i, m, a)
Next ==
  \/ \E p \in Page : NewPage(p) \/ DropPage(p)
                     \/ SettingsNext(p) \/ WindowNext(p) \/ PlayerNext(p)
  \/ \E c \in Channels : RegisterChannel(c)
  \/ ChannelInit
  \/ \E i \in Inst : JoinReturns(i) \/ Begin(i) \/ Poll(i)
                     \/ EndsAlone(i) \/ GivesUp(i) \/ LastCallback(i)

\* Fairness: a thread that runs polls, its last callback returns, and so does a join
\* whose thread ended.
Spec == Init /\ [][Next]_vars
FairSpec ==
  Spec /\ \A i \in Inst :
            /\ WF_vars(Begin(i)) /\ WF_vars(Poll(i)) /\ WF_vars(LastCallback(i))
            /\ WF_vars(JoinReturns(i))

-----------------------------------------------------------------------------
(* Properties *)

PageType == [there : {TRUE}, inst : Inst, mode : Modes \union {0}, area : Areas,
             volume : Nat, mute : BOOLEAN, flags : SUBSET Flags]
SlotType == [there : {TRUE}, volume : Nat, mute : BOOLEAN, mode : Modes \union {0}, area : Areas,
             full : BOOLEAN, fresh : BOOLEAN, flags : SUBSET Flags, msgid : Nat]
MsgType  == [cmd : Cmds, from : Inst]

PageTypes   == page \in [Page -> PageType \union {Absent}]
SlotTypes   == slot \in [Inst -> SlotType \union {Empty}]
ThreadTypes ==
  /\ thread \in [Inst -> {"none", "begin", "loop", "leaving"}]
  /\ late \in [Inst -> BOOLEAN] /\ astray \in BOOLEAN /\ missed \in BOOLEAN
  /\ waiting \in Inst \union {None} /\ deleting \in BOOLEAN
QueueTypes  == queue \in Seq(MsgType) /\ Len(queue) <= QueueCap /\ qid \in Nat /\ made \in Nat
XmlTypes    == xmlVolume \in Nat /\ xmlMute \in BOOLEAN
ListTypes   == infos \in Seq(Channels) /\ ids \in Seq(Channels)
PastTypes   ==
  /\ calls \in Nat /\ sound \in Nat \X (Inst \union {None}) \X (Inst \union {None})
  /\ stopped \in (Inst \union {None}) \X (Inst \union {None})
  /\ released \in [Inst -> BOOLEAN]

\* The types: an object is bound to one of the slots and every slot is empty or
\* has a whole player; the table has room for MAX_PLAYER_NUM.
TypeOK ==
  /\ PageTypes /\ SlotTypes /\ ThreadTypes /\ QueueTypes /\ XmlTypes /\ ListTypes /\ PastTypes

\* No thread outlives its player but one that has cleared its id for its last
\* callback, which the destructor cannot wait for (astray): a thread that still sets
\* up or plays, one that is being joined, and every late one until the destructor
\* ran, have the object they run on.
NoOrphanThread == \A i \in Inst : thread[i] # "none" \/ late[i] => Occupied(i)

\* The queue is there for every player but those who saw another one destroyed.
QueueHeld == \A i \in Inst : Occupied(i) /\ ~released[i] => slot[i].msgid = qid /\ qid # 0

\* joinChannel plays the description of the channel it was asked for: the two
\* lists are kept in step.
JoinsAsked == joined[1] = joined[2]

\* A volume key sets the sound to a volume the pages asked for, never to the half
\* of it that the file keeps and new players start with, unless the thread of
\* another player took the message.
SoundScale == sound[2] = sound[3] => sound[1] \in Volumes \union {0}

\* iftvfullscreen says whether the picture fills the screen, from a refresh (or
\* the making of the player) to the next call that changes mode or area.
FullscreenAgrees ==
  \A i \in Inst : Occupied(i) /\ slot[i].fresh =>
    (slot[i].full <=> slot[i].mode = 1 \/ slot[i].area = "full")

\* A player thread ends by a QUIT only when its own player was stopped.  The code
\* breaks it: all players read the queue of MEDIAPLAYER_QUEUE_KEY.
StopsOnlyItself == stopped[1] = stopped[2]

\* A stop whose QUIT is in the queue, while no other player's thread is there to
\* take it, returns, unless a notice or a mark replaced the QUIT.
StopReturns ==
  \A i \in Inst :
    (/\ waiting = i /\ \E k \in DOMAIN queue : queue[k].cmd = "QUIT"
     /\ slot[i].msgid = qid /\ thread[1 - i] = "none" /\ thread[i] = "loop")
    ~> (waiting = None \/ missed)

=============================================================================
