---------------------------- MODULE FacadeProofs ----------------------------
(***************************************************************************)
(* Theorems about Facade, for every number of objects, every set of         *)
(* channels, volumes and areas, and any capacity of the queue.             *)
(***************************************************************************)
EXTENDS Facade, SequenceTheorems, WellFoundedInduction, TLAPS

(* Types *)

\* An object that is there has all its fields, and a slot that is occupied too.
LEMMA Whole ==
  ASSUME TypeOK
  PROVE  /\ \A p \in Page : page[p].there => page[p] \in PageType
         /\ \A i \in Inst : Occupied(i) => slot[i] \in SlotType
         /\ \A i \in Inst : ~Occupied(i) => slot[i] = Empty
<1>1. ASSUME NEW p \in Page, page[p].there PROVE page[p] \in PageType
  BY <1>1 DEF TypeOK, PageTypes, Absent
<1>2. ASSUME NEW i \in Inst, Occupied(i) PROVE slot[i] \in SlotType
  BY <1>2 DEF TypeOK, SlotTypes, Empty, Occupied
<1>3. ASSUME NEW i \in Inst, ~Occupied(i) PROVE slot[i] = Empty
  <2>1. \A s \in SlotType : s.there
    BY DEF SlotType
  <2> QED BY <1>3, <2>1 DEF TypeOK, SlotTypes, Occupied
<1> QED BY <1>1, <1>2, <1>3

\* A message adds one entry to the queue or none.
LEMMA SendType ==
  ASSUME QueueTypes, NEW i \in Inst, NEW c \in Cmds, Send(i, c)
  PROVE  queue' \in Seq(MsgType) /\ Len(queue') <= QueueCap
<1>1. [cmd |-> c, from |-> i] \in MsgType
  BY DEF MsgType
<1> QED BY <1>1, FacadeAssumption DEF QueueTypes, Send, FacadeAssumption

\* What is made of an object is a whole player.
LEMMA PlayerType ==
  ASSUME TypeOK, NEW p \in Page, page[p].there
  PROVE  Player(p) \in SlotType /\ page[p].inst \in Inst
<1>1. page[p] \in PageType
  BY Whole
<1>2. (IF qid = 0 THEN made + 1 ELSE qid) \in Nat
  BY DEF TypeOK, QueueTypes
<1> QED BY <1>1, <1>2 DEF PageType, SlotType, Player, Areas

\* Making a player for an object keeps the table whole.
LEMMA MakeType ==
  ASSUME TypeOK, NEW p \in Page, page[p].there, Make(p)
  PROVE  SlotTypes' /\ qid' \in Nat /\ made' \in Nat /\ released' \in [Inst -> BOOLEAN]
<1>1. Player(p) \in SlotType /\ page[p].inst \in Inst
  BY PlayerType
<1>2. Player(p).msgid \in Nat
  BY <1>1 DEF SlotType
<1>3. SlotTypes'
  BY <1>1 DEF TypeOK, SlotTypes, Make
<1>4. qid' \in Nat /\ made' \in Nat
  BY <1>2 DEF TypeOK, QueueTypes, Make
<1>5. released' \in [Inst -> BOOLEAN]
  BY <1>1 DEF TypeOK, PastTypes, Make
<1> QED BY <1>3, <1>4, <1>5

\* So does starting its thread or sending it a message.
LEMMA PlayTypes ==
  ASSUME TypeOK, NEW p \in Page, page[p].there, Play(p)
  PROVE  /\ SlotTypes' /\ QueueTypes' /\ released' \in [Inst -> BOOLEAN]
         /\ thread' \in [Inst -> {"none", "begin", "loop", "leaving"}] /\ UNCHANGED <<late, astray>>
<1>1. page[p].inst \in Inst
  BY PlayerType
<1>2. SlotTypes' /\ qid' \in Nat /\ made' \in Nat /\ released' \in [Inst -> BOOLEAN]
  BY MakeType DEF Play
<1>3. queue' \in Seq(MsgType) /\ Len(queue') <= QueueCap
  BY <1>1, SendType DEF Play, TypeOK, QueueTypes, Cmds
<1>4. thread' \in [Inst -> {"none", "begin", "loop", "leaving"}] /\ UNCHANGED <<late, astray>>
  BY <1>1 DEF Play, TypeOK, ThreadTypes
<1> QED BY <1>2, <1>3, <1>4 DEF QueueTypes

\* Removing the queue leaves it empty.
LEMMA RemoveType ==
  ASSUME QueueTypes, NEW i \in Inst, RemoveQueue(i)
  PROVE  queue' \in Seq(MsgType) /\ Len(queue') <= QueueCap /\ qid' \in Nat
<1>1. CASE slot[i].msgid = qid
  BY <1>1, FacadeAssumption DEF RemoveQueue, FacadeAssumption
<1>2. CASE slot[i].msgid # qid
  BY <1>2 DEF RemoveQueue, QueueTypes
<1> QED BY <1>1, <1>2

\* What a thread that polls does to the record of the sound and of its end.
LEMMA PollTypes ==
  ASSUME TypeOK, NoOrphanThread, NEW i \in Inst, Poll(i)
  PROVE  PastTypes'
<1>1. Head(queue).from \in Inst
  <2>1. Head(queue) \in MsgType
    BY DEF TypeOK, QueueTypes, Poll, Take
  <2> QED BY <2>1 DEF MsgType
<1>2. slot[i].volume \in Nat
  <2>1. Occupied(i)
    BY DEF NoOrphanThread, Poll, Take
  <2> QED BY <2>1, Whole DEF SlotType
<1>3. <<slot[i].volume, i, Head(queue).from>> \in Nat \X (Inst \union {None}) \X (Inst \union {None})
  BY <1>1, <1>2
<1>4. <<i, Head(queue).from>> \in (Inst \union {None}) \X (Inst \union {None})
  BY <1>1
<1>5. sound' \in Nat \X (Inst \union {None}) \X (Inst \union {None})
  <2>1. sound' = sound \/ sound' = <<slot[i].volume, i, Head(queue).from>>
    BY DEF Poll, Take
  <2> QED BY <2>1, <1>3 DEF TypeOK, PastTypes
<1>6. stopped' \in (Inst \union {None}) \X (Inst \union {None})
  <2>1. stopped' = stopped \/ stopped' = <<i, Head(queue).from>>
    BY DEF Poll, Take
  <2> QED BY <2>1, <1>4 DEF TypeOK, PastTypes
<1> QED BY <1>5, <1>6 DEF TypeOK, PastTypes, Poll, Take

\* A volume read is a number, whether the file can be read or not.
LEMMA VolumeType ==
  ASSUME TypeOK, NEW old \in Nat, NEW v \in ReadVolume(old)
  PROVE  v \in Nat
<1>1. v = xmlVolume \/ v = old
  <2>1. CASE XmlFails
    BY <2>1 DEF ReadVolume
  <2>2. CASE ~XmlFails
    BY <2>2 DEF ReadVolume
  <2> QED BY <2>1, <2>2
<1> QED BY <1>1 DEF TypeOK, XmlTypes

\* A window placed is a whole player.
LEMMA PlacedType ==
  ASSUME NEW s \in SlotType, NEW a \in {"part", "full", "empty"}
  PROVE  Placed(s, a) \in SlotType /\ Placed(s, a).fresh /\ Placed(s, a).mode = s.mode
         /\ (Placed(s, a).full <=> s.mode = 1 \/ Placed(s, a).area = "full")
<1> DEFINE full == s.mode = 1 \/ a \in {"full", "empty"}
           area == IF full THEN "full" ELSE a
<1>1. full \in BOOLEAN /\ area \in Areas /\ (full <=> s.mode = 1 \/ area = "full")
  BY DEF Areas
<1>2. Placed(s, a) = [s EXCEPT !.area = area, !.full = full, !.fresh = TRUE]
  BY DEF Placed
<1> HIDE DEF full, area
<1> QED BY <1>1, <1>2 DEF SlotType

LEMMA InitTypeOK == Init => TypeOK
<1> SUFFICES ASSUME Init PROVE TypeOK
  OBVIOUS
<1> USE FacadeAssumption DEF FacadeAssumption, Init
<1>1. PageTypes
  BY DEF PageTypes
<1>2. SlotTypes
  BY DEF SlotTypes
<1>3. ThreadTypes
  BY DEF ThreadTypes
<1>4. QueueTypes
  BY DEF QueueTypes
<1>5. XmlTypes
  BY DEF XmlTypes
<1>6. ListTypes
  BY DEF ListTypes
<1>7. PastTypes
  BY DEF PastTypes, None
<1> QED BY <1>1, <1>2, <1>3, <1>4, <1>5, <1>6, <1>7 DEF TypeOK

LEMMA NextTypeOK == TypeOK /\ NoOrphanThread /\ [Next]_vars => TypeOK'
<1> SUFFICES ASSUME TypeOK, NoOrphanThread, [Next]_vars PROVE TypeOK'
  OBVIOUS
<1> USE FacadeAssumption DEF FacadeAssumption, Call, CallOn, pageVars, qVars, waitVars, threadVars, histVars
<1>1. ASSUME NEW p \in Page, NewPage(p) PROVE TypeOK'
  <2>1. SlotTypes' /\ ThreadTypes' /\ QueueTypes' /\ XmlTypes' /\ ListTypes' /\ PastTypes'
    BY <1>1 DEF NewPage, TypeOK, SlotTypes, ThreadTypes, QueueTypes, XmlTypes, ListTypes, PastTypes
  <2>2. PageTypes'
    <3> DEFINE new(v) == [there |-> TRUE, inst |-> FreeSlot, mode |-> 0, area |-> "full", volume |-> v,
                          mute |-> xmlMute, flags |-> {"nativeUI"}]
    <3>1. PICK v \in ReadVolume(0) : page' = [page EXCEPT ![p] = new(v)]
      BY <1>1 DEF NewPage
    <3>2. v \in Nat /\ xmlMute \in BOOLEAN
      BY <3>1, VolumeType DEF TypeOK, XmlTypes
    <3>3. FreeSlot \in Inst /\ {"nativeUI"} \in SUBSET Flags
      BY DEF FreeSlot, Inst, Flags, KeptFlags
    <3>4. new(v) \in PageType
      BY <3>2, <3>3 DEF PageType, Areas
    <3> HIDE DEF new
    <3> QED BY <3>1, <3>4 DEF TypeOK, PageTypes
  <2> QED BY <2>1, <2>2 DEF TypeOK
<1>2. ASSUME NEW p \in Page, DropPage(p) PROVE TypeOK'
  <2>1. page[p] \in PageType /\ page[p].inst \in Inst
    BY <1>2, Whole DEF DropPage, PageType
  <2>2. SlotTypes' /\ ThreadTypes' /\ QueueTypes' /\ XmlTypes' /\ ListTypes' /\ PastTypes'
    BY <1>2 DEF DropPage, TypeOK, SlotTypes, ThreadTypes, QueueTypes, XmlTypes, ListTypes, PastTypes
  <2>3. PageTypes'
    BY <1>2, <2>1 DEF DropPage, TypeOK, PageTypes, PageType, Absent, Areas
  <2> QED BY <2>2, <2>3 DEF TypeOK
<1>3. ASSUME NEW p \in Page, NEW i \in Inst \union {2}, Bind(p, i) PROVE TypeOK'
  <2>1. page[p] \in PageType /\ page[p].inst \in Inst
    BY <1>3, Whole DEF Bind, PageType
  <2>2. SlotTypes' /\ ThreadTypes' /\ QueueTypes' /\ XmlTypes' /\ ListTypes' /\ PastTypes'
    BY <1>3 DEF Bind, TypeOK, SlotTypes, ThreadTypes, QueueTypes, XmlTypes, ListTypes, PastTypes
  <2>3. PageTypes'
    BY <1>3, <2>1 DEF Bind, TypeOK, PageTypes, PageType, Absent, Areas
  <2> QED BY <2>2, <2>3 DEF TypeOK
<1>4. ASSUME NEW p \in Page, NEW i \in Inst, NEW m \in Modes, NEW a \in PageAreas, InitMediaPlayer(p, i, m, a) PROVE TypeOK'
  <2>1. page[p] \in PageType /\ page[p].inst \in Inst
    BY <1>4, Whole DEF InitMediaPlayer, PageType
  <2>2. SlotTypes' /\ ThreadTypes' /\ QueueTypes' /\ XmlTypes' /\ ListTypes' /\ PastTypes'
    BY <1>4 DEF InitMediaPlayer, TypeOK, SlotTypes, ThreadTypes, QueueTypes, XmlTypes, ListTypes, PastTypes
  <2>3. PageTypes'
    BY <1>4, <2>1 DEF InitMediaPlayer, TypeOK, PageTypes, PageType, Absent, Areas, Flags, KeptFlags
  <2> QED BY <2>2, <2>3 DEF TypeOK
<1>5. ASSUME NEW p \in Page, NEW f \in Flags, SetFlag(p, f) PROVE TypeOK'
  <2>1. page[p] \in PageType /\ page[p].inst \in Inst
    BY <1>5, Whole DEF SetFlag, PageType
  <2>2. ThreadTypes' /\ QueueTypes' /\ XmlTypes' /\ ListTypes' /\ PastTypes'
    BY <1>5 DEF SetFlag, TypeOK, ThreadTypes, QueueTypes, XmlTypes, ListTypes, PastTypes
  <2>3. PageTypes'
    <3>0. page[p].flags \union {f} \in SUBSET Flags
      <4>1. page[p].flags \in SUBSET Flags
        BY <2>1 DEF PageType
      <4> QED BY <4>1, <1>5
    <3>1. [page[p] EXCEPT !.flags = @ \union {f}] \in PageType
      BY <2>1, <3>0 DEF PageType
    <3>2. page' = [page EXCEPT ![p] = [page[p] EXCEPT !.flags = @ \union {f}]]
      BY <1>5 DEF SetFlag
    <3> QED BY <3>1, <3>2 DEF TypeOK, PageTypes
  <2>4. SlotTypes'
    <3>1. CASE Occupied(page[p].inst)
      <4>1. slot[page[p].inst] \in SlotType
        BY <3>1, <2>1, Whole
      <4>0. slot[page[p].inst].flags \union {f} \in SUBSET Flags
        BY <4>1, <1>5 DEF SlotType
      <4>2. [slot[page[p].inst] EXCEPT !.flags = @ \union {f}] \in SlotType
        BY <4>0, <4>1 DEF SlotType
      <4>3. slot' \in {slot, [slot EXCEPT ![page[p].inst] = [slot[page[p].inst] EXCEPT !.flags = @ \union {f}]]}
        BY <1>5, <3>1 DEF SetFlag
      <4> QED BY <4>2, <4>3 DEF TypeOK, SlotTypes
    <3>2. CASE ~Occupied(page[p].inst)
      BY <1>5, <3>2 DEF SetFlag, TypeOK, SlotTypes
    <3> QED BY <3>1, <3>2
  <2> QED BY <2>2, <2>3, <2>4 DEF TypeOK
<1>6. ASSUME NEW p \in Page, PlayMedia(p) PROVE TypeOK'
  <2>1. page[p] \in PageType /\ page[p].inst \in Inst
    BY <1>6, Whole DEF PlayMedia, PageType
  <2>2. PageTypes' /\ XmlTypes' /\ ListTypes'
    BY <1>6 DEF PlayMedia, TypeOK, PageTypes, XmlTypes, ListTypes
  <2>3. SlotTypes'
    BY <1>6, <2>1, PlayTypes DEF PlayMedia, TypeOK, SlotTypes
  <2>4. ThreadTypes'
    BY <1>6, <2>1, PlayTypes DEF PlayMedia, TypeOK, ThreadTypes
  <2>5. QueueTypes'
    BY <1>6, <2>1, PlayTypes DEF PlayMedia, TypeOK, QueueTypes
  <2>6. PastTypes'
    BY <1>6, <2>1, PlayTypes DEF PlayMedia, TypeOK, PastTypes
  <2> QED BY <2>2, <2>3, <2>4, <2>5, <2>6 DEF TypeOK
<1>7. ASSUME NEW p \in Page, TrickMode(p) PROVE TypeOK'
  <2>1. page[p] \in PageType /\ page[p].inst \in Inst
    BY <1>7, Whole DEF TrickMode, PageType
  <2>2. PageTypes' /\ SlotTypes' /\ ThreadTypes' /\ XmlTypes' /\ ListTypes' /\ PastTypes'
    BY <1>7 DEF TrickMode, TypeOK, PageTypes, SlotTypes, ThreadTypes, XmlTypes, ListTypes, PastTypes
  <2>3. QueueTypes'
    BY <1>7, <2>1, SendType DEF TrickMode, TypeOK, QueueTypes, Cmds
  <2> QED BY <2>2, <2>3 DEF TypeOK
<1>8. ASSUME NEW c \in Channels, RegisterChannel(c) PROVE TypeOK'
  <2>1. PageTypes' /\ SlotTypes' /\ ThreadTypes' /\ QueueTypes' /\ XmlTypes' /\ PastTypes'
    BY <1>8 DEF RegisterChannel, TypeOK, PageTypes, SlotTypes, ThreadTypes, QueueTypes, XmlTypes, PastTypes
  <2>2. ListTypes'
    BY <1>8 DEF RegisterChannel, TypeOK, ListTypes
  <2> QED BY <2>1, <2>2 DEF TypeOK
<1>9. ASSUME ChannelInit PROVE TypeOK'
  <2>1. PageTypes' /\ SlotTypes' /\ ThreadTypes' /\ QueueTypes' /\ XmlTypes' /\ PastTypes'
    BY <1>9 DEF ChannelInit, TypeOK, PageTypes, SlotTypes, ThreadTypes, QueueTypes, XmlTypes, PastTypes
  <2>2. ListTypes'
    BY <1>9 DEF ChannelInit, TypeOK, ListTypes, ClearChannels
  <2> QED BY <2>1, <2>2 DEF TypeOK
<1>10. ASSUME NEW p \in Page, NEW c \in Channels, JoinChannel(p, c) PROVE TypeOK'
  <2>1. page[p] \in PageType /\ page[p].inst \in Inst
    BY <1>10, Whole DEF JoinChannel, PageType
  <2>2. PageTypes' /\ XmlTypes' /\ ListTypes'
    BY <1>10 DEF JoinChannel, TypeOK, PageTypes, XmlTypes, ListTypes
  <2>3. SlotTypes'
    BY <1>10, <2>1, PlayTypes, MakeType DEF JoinChannel, TypeOK, SlotTypes
  <2>4. ThreadTypes'
    BY <1>10, <2>1, PlayTypes, MakeType DEF JoinChannel, TypeOK, ThreadTypes
  <2>5. QueueTypes'
    BY <1>10, <2>1, PlayTypes, MakeType DEF JoinChannel, TypeOK, QueueTypes
  <2>6. PastTypes'
    BY <1>10, <2>1, PlayTypes, MakeType DEF JoinChannel, TypeOK, PastTypes
  <2> QED BY <2>2, <2>3, <2>4, <2>5, <2>6 DEF TypeOK
<1>11. ASSUME NEW p \in Page, Stop(p) PROVE TypeOK'
  <2>1. page[p] \in PageType /\ page[p].inst \in Inst
    BY <1>11, Whole DEF Stop, PageType
  <2>2. PageTypes' /\ SlotTypes' /\ XmlTypes' /\ ListTypes' /\ PastTypes'
    BY <1>11 DEF Stop, TypeOK, PageTypes, SlotTypes, XmlTypes, ListTypes, PastTypes
  <2>3. ThreadTypes'
    BY <1>11, <2>1 DEF Stop, TypeOK, ThreadTypes
  <2>4. QueueTypes'
    BY <1>11, <2>1, SendType DEF Stop, TypeOK, QueueTypes, Cmds, Quit
  <2> QED BY <2>2, <2>3, <2>4 DEF TypeOK
<1>12. ASSUME NEW p \in Page, NEW i \in Inst, ReleaseMediaPlayer(p, i) PROVE TypeOK'
  <2>1. page[p] \in PageType /\ page[p].inst \in Inst
    BY <1>12, Whole DEF ReleaseMediaPlayer, Release, PageType
  <2>2. PageTypes' /\ SlotTypes' /\ XmlTypes' /\ ListTypes' /\ PastTypes'
    BY <1>12 DEF ReleaseMediaPlayer, Release, TypeOK, PageTypes, SlotTypes, XmlTypes, ListTypes, PastTypes
  <2>3. ThreadTypes'
    BY <1>12, <2>1 DEF ReleaseMediaPlayer, Release, TypeOK, ThreadTypes
  <2>4. QueueTypes'
    BY <1>12, <2>1, SendType DEF ReleaseMediaPlayer, Release, TypeOK, QueueTypes, Cmds, Quit
  <2> QED BY <2>2, <2>3, <2>4 DEF TypeOK
<1>13. ASSUME NEW p \in Page, ReleaseNativePlayer(p) PROVE TypeOK'
  <2>1. page[p] \in PageType /\ page[p].inst \in Inst
    BY <1>13, Whole DEF ReleaseNativePlayer, Release, PageType
  <2>2. PageTypes' /\ SlotTypes' /\ XmlTypes' /\ ListTypes' /\ PastTypes'
    BY <1>13 DEF ReleaseNativePlayer, Release, TypeOK, PageTypes, SlotTypes, XmlTypes, ListTypes, PastTypes
  <2>3. ThreadTypes'
    BY <1>13, <2>1 DEF ReleaseNativePlayer, Release, TypeOK, ThreadTypes
  <2>4. QueueTypes'
    BY <1>13, <2>1, SendType DEF ReleaseNativePlayer, Release, TypeOK, QueueTypes, Cmds, Quit
  <2> QED BY <2>2, <2>3, <2>4 DEF TypeOK
<1>14. ASSUME NEW i \in Inst, JoinReturns(i) PROVE TypeOK'
  <2>1. PageTypes' /\ XmlTypes' /\ ListTypes'
    BY <1>14 DEF JoinReturns, TypeOK, PageTypes, XmlTypes, ListTypes
  <2>2. SlotTypes'
    BY <1>14, Whole DEF JoinReturns, TypeOK, SlotTypes, SlotType, Areas, Returned, Deleted, NotDeleted, RemoveQueue, Empty
  <2>3. ThreadTypes'
    BY <1>14 DEF JoinReturns, TypeOK, ThreadTypes, Returned, Deleted, NotDeleted, RemoveQueue
  <2>4. QueueTypes'
    BY <1>14, RemoveType DEF JoinReturns, TypeOK, QueueTypes, Returned, Deleted, NotDeleted
  <2>5. PastTypes'
    BY <1>14 DEF JoinReturns, TypeOK, PastTypes, Returned, Deleted, NotDeleted, RemoveQueue
  <2> QED BY <2>1, <2>2, <2>3, <2>4, <2>5 DEF TypeOK
<1>15. ASSUME NEW p \in Page, GetVolume(p) PROVE TypeOK'
  <2>1. page[p] \in PageType /\ page[p].inst \in Inst
    BY <1>15, Whole DEF GetVolume, PageType
  <2>2. SlotTypes' /\ ThreadTypes' /\ QueueTypes' /\ XmlTypes' /\ ListTypes' /\ PastTypes'
    BY <1>15 DEF GetVolume, TypeOK, SlotTypes, ThreadTypes, QueueTypes, XmlTypes, ListTypes, PastTypes
  <2>3. PageTypes'
    <3>0. PICK v \in ReadVolume(page[p].volume) : page' = [page EXCEPT ![p].volume = 2 * v]
      BY <1>15 DEF GetVolume
    <3>00. 2 * v \in Nat
      <4>1. page[p].volume \in Nat
        BY <2>1 DEF PageType
      <4>2. v \in Nat
        BY <4>1, <3>0, VolumeType
      <4> QED BY <4>2
    <3>1. [page[p] EXCEPT !.volume = 2 * v] \in PageType
      BY <1>15, <2>1, <3>00 DEF PageType
    <3>2. page' = [page EXCEPT ![p] = [page[p] EXCEPT !.volume = 2 * v]]
      BY <3>0
    <3> QED BY <3>1, <3>2 DEF TypeOK, PageTypes
  <2> QED BY <2>2, <2>3 DEF TypeOK
<1>16. ASSUME NEW p \in Page, NEW v \in Volumes, SetVolume(p, v) PROVE TypeOK'
  <2>1. page[p] \in PageType /\ page[p].inst \in Inst
    BY <1>16, Whole DEF SetVolume, PageType
  <2>2. ThreadTypes' /\ ListTypes' /\ PastTypes'
    BY <1>16 DEF SetVolume, TypeOK, ThreadTypes, ListTypes, PastTypes
  <2>3. PageTypes'
    <3>1. [page[p] EXCEPT !.volume = v, !.mute = FALSE] \in PageType
      BY <1>16, <2>1 DEF PageType
    <3>2. page' = [page EXCEPT ![p] = [page[p] EXCEPT !.volume = v, !.mute = FALSE]]
      BY <1>16 DEF SetVolume
    <3> QED BY <3>1, <3>2 DEF TypeOK, PageTypes
  <2>4. SlotTypes'
    <3>1. CASE Occupied(page[p].inst)
      <4>1. slot[page[p].inst] \in SlotType
        BY <3>1, <2>1, Whole
      <4>2. [slot[page[p].inst] EXCEPT !.volume = v] \in SlotType
        BY <4>1, <1>16, <2>1 DEF SlotType
      <4>3. slot' \in {slot, [slot EXCEPT ![page[p].inst] = [slot[page[p].inst] EXCEPT !.volume = v]]}
        BY <1>16, <3>1 DEF SetVolume
      <4> QED BY <4>2, <4>3 DEF TypeOK, SlotTypes
    <3>2. CASE ~Occupied(page[p].inst)
      BY <1>16, <3>2 DEF SetVolume, TypeOK, SlotTypes
    <3> QED BY <3>1, <3>2
  <2>5. QueueTypes'
    BY <1>16, <2>1, SendType DEF SetVolume, TypeOK, QueueTypes, Cmds
  <2>6. XmlTypes'
    BY <1>16, <2>1 DEF SetVolume, TypeOK, XmlTypes, Stored
  <2> QED BY <2>2, <2>3, <2>4, <2>5, <2>6 DEF TypeOK
<1>17. ASSUME NEW p \in Page, GetMuteFlag(p) PROVE TypeOK'
  <2>1. page[p] \in PageType /\ page[p].inst \in Inst
    BY <1>17, Whole DEF GetMuteFlag, PageType
  <2>2. SlotTypes' /\ ThreadTypes' /\ QueueTypes' /\ XmlTypes' /\ ListTypes' /\ PastTypes'
    BY <1>17 DEF GetMuteFlag, TypeOK, SlotTypes, ThreadTypes, QueueTypes, XmlTypes, ListTypes, PastTypes
  <2>3. PageTypes'
    <3>1. [page[p] EXCEPT !.mute = xmlMute] \in PageType
      BY <1>17, <2>1 DEF PageType, TypeOK, XmlTypes
    <3>2. page' = [page EXCEPT ![p] = [page[p] EXCEPT !.mute = xmlMute]]
      BY <1>17 DEF GetMuteFlag
    <3> QED BY <3>1, <3>2 DEF TypeOK, PageTypes
  <2> QED BY <2>2, <2>3 DEF TypeOK
<1>18. ASSUME NEW p \in Page, NEW m \in BOOLEAN, SetMuteFlag(p, m) PROVE TypeOK'
  <2>1. page[p] \in PageType /\ page[p].inst \in Inst
    BY <1>18, Whole DEF SetMuteFlag, PageType
  <2>2. SlotTypes' /\ ThreadTypes' /\ QueueTypes' /\ ListTypes' /\ PastTypes'
    BY <1>18 DEF SetMuteFlag, TypeOK, SlotTypes, ThreadTypes, QueueTypes, ListTypes, PastTypes
  <2>3. PageTypes'
    BY <1>18, <2>1 DEF SetMuteFlag, TypeOK, PageTypes, PageType, Absent, Areas
  <2>4. XmlTypes'
    BY <1>18, <2>1 DEF SetMuteFlag, TypeOK, XmlTypes
  <2> QED BY <2>2, <2>3, <2>4 DEF TypeOK
<1>19. ASSUME NEW p \in Page, NEW m \in Modes, SetDisplayMode(p, m) PROVE TypeOK'
  <2>1. page[p] \in PageType /\ page[p].inst \in Inst
    BY <1>19, Whole DEF SetDisplayMode, PageType
  <2>2. ThreadTypes' /\ QueueTypes' /\ XmlTypes' /\ ListTypes' /\ PastTypes'
    BY <1>19 DEF SetDisplayMode, TypeOK, ThreadTypes, QueueTypes, XmlTypes, ListTypes, PastTypes
  <2>3. PageTypes'
    BY <1>19, <2>1 DEF SetDisplayMode, TypeOK, PageTypes, PageType, Absent, Areas
  <2>4. SlotTypes'
    <3>1. CASE Occupied(page[p].inst)
      <4>1. slot[page[p].inst] \in SlotType
        BY <3>1, <2>1, Whole
      <4>2. [slot[page[p].inst] EXCEPT !.mode = m, !.fresh = FALSE] \in SlotType
        BY <4>1, <1>19, <2>1 DEF SlotType
      <4>3. slot' \in {slot, [slot EXCEPT ![page[p].inst] = [slot[page[p].inst] EXCEPT !.mode = m, !.fresh = FALSE]]}
        <5> DEFINE set == [slot EXCEPT ![page[p].inst].mode = m, ![page[p].inst].fresh = FALSE]
        <5>1. slot' = set
          BY <1>19, <3>1 DEF SetDisplayMode
        <5>2. set = [slot EXCEPT ![page[p].inst] = [slot[page[p].inst] EXCEPT !.mode = m, !.fresh = FALSE]]
          BY <2>1 DEF TypeOK, SlotTypes
        <5> QED BY <5>1, <5>2
      <4> QED BY <4>2, <4>3 DEF TypeOK, SlotTypes
    <3>2. CASE ~Occupied(page[p].inst)
      BY <1>19, <3>2 DEF SetDisplayMode, TypeOK, SlotTypes
    <3> QED BY <3>1, <3>2
  <2> QED BY <2>2, <2>3, <2>4 DEF TypeOK
<1>20. ASSUME NEW p \in Page, NEW a \in PageAreas, SetDisplayArea(p, a) PROVE TypeOK'
  <2>1. page[p] \in PageType /\ page[p].inst \in Inst
    BY <1>20, Whole DEF SetDisplayArea, PageType
  <2>2. ThreadTypes' /\ QueueTypes' /\ XmlTypes' /\ ListTypes' /\ PastTypes'
    BY <1>20 DEF SetDisplayArea, TypeOK, ThreadTypes, QueueTypes, XmlTypes, ListTypes, PastTypes
  <2>3. PageTypes'
    BY <1>20, <2>1 DEF SetDisplayArea, TypeOK, PageTypes, PageType, Absent, Areas
  <2>4. SlotTypes'
    <3>1. CASE Occupied(page[p].inst)
      <4>1. slot[page[p].inst] \in SlotType
        BY <3>1, <2>1, Whole
      <4>2. [slot[page[p].inst] EXCEPT !.area = a, !.fresh = FALSE] \in SlotType
        BY <4>1, <1>20, <2>1 DEF SlotType, Areas
      <4>3. slot' \in {slot, [slot EXCEPT ![page[p].inst] = [slot[page[p].inst] EXCEPT !.area = a, !.fresh = FALSE]]}
        BY <1>20, <3>1 DEF SetDisplayArea
      <4> QED BY <4>2, <4>3 DEF TypeOK, SlotTypes
    <3>2. CASE ~Occupied(page[p].inst)
      BY <1>20, <3>2 DEF SetDisplayArea, TypeOK, SlotTypes
    <3> QED BY <3>1, <3>2
  <2> QED BY <2>2, <2>3, <2>4 DEF TypeOK
<1>21. ASSUME NEW p \in Page, RefreshVideoDisplay(p) PROVE TypeOK'
  <2>1. page[p] \in PageType /\ page[p].inst \in Inst
    BY <1>21, Whole DEF RefreshVideoDisplay, PageType
  <2>2. PageTypes' /\ ThreadTypes' /\ QueueTypes' /\ XmlTypes' /\ ListTypes' /\ PastTypes'
    BY <1>21 DEF RefreshVideoDisplay, TypeOK, PageTypes, ThreadTypes, QueueTypes, XmlTypes, ListTypes, PastTypes
  <2>3. SlotTypes'
    <3>1. CASE Occupied(page[p].inst)
      <4>1. slot[page[p].inst] \in SlotType
        BY <3>1, <2>1, Whole
      <4>2. Placed(slot[page[p].inst], Asked(slot[page[p].inst].mode, slot[page[p].inst].area)) \in SlotType
        <5>1. Asked(slot[page[p].inst].mode, slot[page[p].inst].area) \in {"part", "full", "empty"}
          BY <4>1 DEF SlotType, Asked, Areas
        <5> QED BY <4>1, <5>1, PlacedType
      <4>3. slot' \in {slot, [slot EXCEPT ![page[p].inst] = Placed(slot[page[p].inst], Asked(slot[page[p].inst].mode, slot[page[p].inst].area))]}
        BY <1>21, <3>1 DEF RefreshVideoDisplay
      <4> QED BY <4>2, <4>3 DEF TypeOK, SlotTypes
    <3>2. CASE ~Occupied(page[p].inst)
      BY <1>21, <3>2 DEF RefreshVideoDisplay, TypeOK, SlotTypes
    <3> QED BY <3>1, <3>2
  <2> QED BY <2>2, <2>3 DEF TypeOK
<1>22. ASSUME NEW i \in Inst, Begin(i) PROVE TypeOK'
  <2>1. PageTypes' /\ SlotTypes' /\ XmlTypes' /\ ListTypes' /\ PastTypes'
    BY <1>22 DEF Begin, TypeOK, PageTypes, SlotTypes, XmlTypes, ListTypes, PastTypes
  <2>2. ThreadTypes'
    BY <1>22 DEF Begin, TypeOK, ThreadTypes
  <2>3. QueueTypes'
    BY <1>22 DEF Begin, TypeOK, QueueTypes
  <2> QED BY <2>1, <2>2, <2>3 DEF TypeOK
<1>23. ASSUME NEW i \in Inst, Poll(i) PROVE TypeOK'
  <2>1. PageTypes' /\ SlotTypes' /\ XmlTypes' /\ ListTypes'
    BY <1>23 DEF Poll, Take, TypeOK, PageTypes, SlotTypes, XmlTypes, ListTypes
  <2>2. ThreadTypes'
    BY <1>23 DEF Poll, Take, TypeOK, ThreadTypes
  <2>3. QueueTypes'
    BY <1>23 DEF Poll, Take, TypeOK, QueueTypes
  <2>4. PastTypes'
    BY <1>23, PollTypes
  <2> QED BY <2>1, <2>2, <2>3, <2>4 DEF TypeOK
<1>24. ASSUME NEW i \in Inst, EndsAlone(i) \/ GivesUp(i) \/ LastCallback(i) PROVE TypeOK'
  <2>1. PageTypes' /\ SlotTypes' /\ QueueTypes' /\ XmlTypes' /\ ListTypes' /\ PastTypes'
    BY <1>24 DEF EndsAlone, GivesUp, LastCallback, TypeOK, PageTypes, SlotTypes, QueueTypes, XmlTypes,
      ListTypes, PastTypes
  <2>2. ThreadTypes'
    BY <1>24 DEF EndsAlone, GivesUp, LastCallback, TypeOK, ThreadTypes
  <2> QED BY <2>1, <2>2 DEF TypeOK
<1>25. CASE UNCHANGED vars
  BY <1>25 DEF vars, TypeOK, PageTypes, SlotTypes, ThreadTypes, QueueTypes, XmlTypes, ListTypes, PastTypes
<1> QED BY <1>1, <1>2, <1>3, <1>4, <1>5, <1>6, <1>7, <1>8, <1>9, <1>10, <1>11, <1>12, <1>13, <1>14, <1>15, <1>16, <1>17, <1>18, <1>19, <1>20, <1>21, <1>22, <1>23, <1>24, <1>25 DEF Next, SettingsNext, WindowNext, PlayerNext

(* Threads and slots *)

\* The picture of a player refreshed since its mode or area changed is recorded right.
Agrees(s) == s.fresh => (s.full <=> s.mode = 1 \/ s.area = "full")

\* A setter turns the player of one slot, if there is one, into a whole player on
\* the same queue, whose volume is the one before or one the page asked for.
LEMMA Setters ==
  ASSUME TypeOK, NEW p \in Page, SettingsNext(p) \/ WindowNext(p)
  PROVE  LET i == page[p].inst IN
         /\ i \in Inst
         /\ \/ UNCHANGED slot
            \/ /\ Occupied(i)
               /\ \E s \in SlotType :
                    /\ slot' = [slot EXCEPT ![i] = s] /\ s.msgid = slot[i].msgid
                    /\ s.volume \in Volumes \union {slot[i].volume} /\ (Agrees(slot[i]) => Agrees(s))
<1> DEFINE i == page[p].inst
           q == slot[i]
           good(s) == /\ s \in SlotType /\ s.msgid = q.msgid /\ s.volume \in Volumes \union {q.volume}
                      /\ (Agrees(q) => Agrees(s))
<1>1. page[p] \in PageType /\ i \in Inst
  BY Whole DEF SettingsNext, WindowNext, CallOn, GetVolume, SetVolume, GetMuteFlag, SetMuteFlag,
    SetFlag, SetDisplayMode, SetDisplayArea, RefreshVideoDisplay, PageType
<1>2. CASE ~Occupied(i)
  BY <1>1, <1>2 DEF SettingsNext, WindowNext, GetVolume, SetVolume, GetMuteFlag, SetMuteFlag,
    SetFlag, SetDisplayMode, SetDisplayArea, RefreshVideoDisplay
<1>3. CASE Occupied(i)
  <2>1. q \in SlotType
    BY <1>1, <1>3, Whole
  <2>2. \A v \in Volumes : good([q EXCEPT !.volume = v])
    BY <2>1, FacadeAssumption DEF SlotType, FacadeAssumption, Agrees
  <2>3. \A f \in Flags : good([q EXCEPT !.flags = @ \union {f}])
    <3> SUFFICES ASSUME NEW f \in Flags PROVE good([q EXCEPT !.flags = @ \union {f}])
      OBVIOUS
    <3>1. q.flags \union {f} \in SUBSET Flags
      BY <2>1 DEF SlotType
    <3> QED BY <2>1, <3>1 DEF SlotType, Agrees
  <2>4. \A m \in Modes : good([q EXCEPT !.mode = m, !.fresh = FALSE])
    BY <2>1 DEF SlotType, Agrees
  <2>5. \A a \in PageAreas : good([q EXCEPT !.area = a, !.fresh = FALSE])
    BY <2>1, FacadeAssumption DEF SlotType, FacadeAssumption, Areas, Agrees
  <2>6. good(Placed(q, Asked(q.mode, q.area)))
    <3>1. Asked(q.mode, q.area) \in {"part", "full", "empty"}
      BY <2>1 DEF SlotType, Asked, Areas
    <3>2. Placed(q, Asked(q.mode, q.area)).msgid = q.msgid /\ Placed(q, Asked(q.mode, q.area)).volume = q.volume
      BY <2>1 DEF SlotType, Placed
    <3> QED BY <2>1, <3>1, <3>2, PlacedType DEF Agrees
  <2>7. \/ UNCHANGED slot
        \/ \E v \in Volumes : slot' = [slot EXCEPT ![i] = [q EXCEPT !.volume = v]]
        \/ \E f \in Flags : slot' = [slot EXCEPT ![i] = [q EXCEPT !.flags = @ \union {f}]]
        \/ \E m \in Modes : slot' = [slot EXCEPT ![i] = [q EXCEPT !.mode = m, !.fresh = FALSE]]
        \/ \E a \in PageAreas : slot' = [slot EXCEPT ![i] = [q EXCEPT !.area = a, !.fresh = FALSE]]
        \/ slot' = [slot EXCEPT ![i] = Placed(q, Asked(q.mode, q.area))]
    <3>1. CASE SettingsNext(p)
      BY <3>1, <1>3, Zenon DEF SettingsNext, GetVolume, SetVolume, GetMuteFlag, SetMuteFlag, SetFlag
    <3>2. ASSUME NEW m \in Modes, SetDisplayMode(p, m)
          PROVE  slot' = [slot EXCEPT ![i] = [q EXCEPT !.mode = m, !.fresh = FALSE]]
      <4>1. slot' = [slot EXCEPT ![i].mode = m, ![i].fresh = FALSE]
        BY <3>2, <1>3 DEF SetDisplayMode
      <4> QED BY <4>1, <1>1 DEF TypeOK, SlotTypes
    <3>3. ASSUME NEW a \in PageAreas, SetDisplayArea(p, a)
          PROVE  slot' = [slot EXCEPT ![i] = [q EXCEPT !.area = a, !.fresh = FALSE]]
      <4>1. slot' = [slot EXCEPT ![i].area = a, ![i].fresh = FALSE]
        BY <3>3, <1>3 DEF SetDisplayArea
      <4> QED BY <4>1, <1>1 DEF TypeOK, SlotTypes
    <3>4. CASE RefreshVideoDisplay(p)
      BY <3>4 DEF RefreshVideoDisplay
    <3> QED BY <3>1, <3>2, <3>3, <3>4 DEF WindowNext
  <2>8. UNCHANGED slot \/ \E s \in SlotType : slot' = [slot EXCEPT ![i] = s] /\ good(s)
    <3> HIDE DEF i, q, good
    <3>1. \A s : good(s) => s \in SlotType
      BY DEF good
    <3> QED BY <2>2, <2>3, <2>4, <2>5, <2>6, <2>7, <3>1
  <2> QED BY <1>1, <1>3, <2>8
<1> QED BY <1>2, <1>3

\* Every slot with a thread keeps its player.
LEMMA NextNoOrphan == TypeOK /\ NoOrphanThread /\ [Next]_vars => NoOrphanThread'
<1> SUFFICES ASSUME TypeOK, NoOrphanThread, [Next]_vars PROVE NoOrphanThread'
  OBVIOUS
<1> USE DEF pageVars, qVars, waitVars, threadVars, histVars
<1>1. /\ \A i \in Inst : Occupied(i) => Occupied(i)'
      /\ \A i \in Inst : (thread'[i] # "none" => thread[i] # "none") /\ (late'[i] => late[i])
      => NoOrphanThread'
  BY DEF NoOrphanThread
<1>2. ASSUME NEW p \in Page, page[p].there, Make(p)
      PROVE  /\ \A i \in Inst : Occupied(i) => Occupied(i)'
             /\ slot'[page[p].inst].there
  <2>1. Player(p).there /\ page[p].inst \in Inst
    BY <1>2, PlayerType DEF Player
  <2>2. CASE Occupied(page[p].inst)
    <3>1. slot' = slot
      BY <1>2, <2>2 DEF Make
    <3> QED BY <2>2, <3>1 DEF Occupied
  <2>3. CASE ~Occupied(page[p].inst)
    <3>1. slot' = [slot EXCEPT ![page[p].inst] = Player(p)]
      BY <1>2, <2>3 DEF Make
    <3>2. slot'[page[p].inst] = Player(p) /\ \A i \in Inst : i # page[p].inst => slot'[i] = slot[i]
      BY <2>1, <3>1 DEF TypeOK, SlotTypes
    <3> QED BY <2>1, <3>2 DEF Occupied
  <2> QED BY <2>2, <2>3
<1>3. ASSUME NEW p \in Page, page[p].there, Play(p) PROVE NoOrphanThread'
  <2>1. page[p].inst \in Inst
    BY <1>3, PlayerType
  <2>2. Make(p) /\ thread' \in {thread, [thread EXCEPT ![page[p].inst] = "begin"]} /\ late' = late
    BY <1>3 DEF Play
  <2>3. (\A i \in Inst : Occupied(i) => Occupied(i)') /\ slot'[page[p].inst].there
    BY <1>2, <1>3, <2>2
  <2>4. \A i \in Inst : i # page[p].inst => thread'[i] = thread[i]
    BY <2>1, <2>2 DEF TypeOK, ThreadTypes
  <2> QED
    <3> SUFFICES ASSUME NEW i \in Inst, thread'[i] # "none" \/ late[i] PROVE Occupied(i)'
      BY <2>2 DEF NoOrphanThread
    <3> QED BY <2>3, <2>4 DEF NoOrphanThread, Occupied
<1>4. ASSUME NEW i \in Inst, Occupied(i), NEW s \in SlotType, slot' = [slot EXCEPT ![i] = s]
      PROVE  \A j \in Inst : Occupied(j) => Occupied(j)'
  BY <1>4 DEF Occupied, SlotType, TypeOK, SlotTypes
\* Operations that leave the table and the threads alone.
<1>5. ASSUME UNCHANGED <<slot, thread, late>> PROVE NoOrphanThread'
  BY <1>5 DEF NoOrphanThread, Occupied
<1>6. ASSUME NEW p \in Page, SettingsNext(p) \/ WindowNext(p) PROVE NoOrphanThread'
  <2>1. UNCHANGED <<thread, late>>
    BY <1>6 DEF SettingsNext, WindowNext, GetVolume, SetVolume, GetMuteFlag, SetMuteFlag,
      SetFlag, SetDisplayMode, SetDisplayArea, RefreshVideoDisplay
  <2>2. \A i \in Inst : Occupied(i) => Occupied(i)'
    BY <1>6, <1>4, Setters DEF Occupied
  <2> QED BY <1>1, <2>1, <2>2
<1>7. CASE \E p \in Page : PlayerNext(p)
  <2>1. PICK p \in Page : PlayerNext(p)
    BY <1>7
  <2>2. CASE PlayMedia(p)
    BY <2>2, <1>3 DEF PlayMedia, CallOn
  <2>3. ASSUME NEW c \in Channels, JoinChannel(p, c) PROVE NoOrphanThread'
    BY <2>3, <1>1, <1>2, <1>3, <1>5 DEF JoinChannel, CallOn
  <2>4. CASE ~PlayMedia(p) /\ ~\E c \in Channels : JoinChannel(p, c)
    BY <2>1, <2>4, <1>5 DEF PlayerNext, TrickMode, Stop, ReleaseNativePlayer, ReleaseMediaPlayer, Release,
      Bind, InitMediaPlayer
  <2> QED BY <2>2, <2>3, <2>4
<1>8. ASSUME NEW i \in Inst, JoinReturns(i) PROVE NoOrphanThread'
  <2>1. thread[i] = "none" /\ UNCHANGED thread
    BY <1>8 DEF JoinReturns, Joinable
  <2>2. CASE NotDeleted
    BY <2>1, <2>2, <1>5 DEF NotDeleted
  <2>3. CASE Deleted(i)
    <3>1. ~late'[i] /\ \A j \in Inst : j # i => late'[j] = late[j] /\ slot'[j] = slot[j]
      BY <2>3 DEF Deleted, TypeOK, ThreadTypes, SlotTypes
    <3> SUFFICES ASSUME NEW j \in Inst, thread[j] # "none" \/ late'[j] PROVE Occupied(j)'
      BY <2>1 DEF NoOrphanThread
    <3> QED BY <2>1, <3>1 DEF NoOrphanThread, Occupied
  <2> QED BY <1>8, <2>2, <2>3 DEF JoinReturns, Returned
<1>9. ASSUME NEW i \in Inst, Begin(i) \/ Poll(i) \/ EndsAlone(i) \/ GivesUp(i) \/ LastCallback(i)
      PROVE  NoOrphanThread'
  BY <1>9 DEF Begin, Poll, Take, EndsAlone, GivesUp, LastCallback, NoOrphanThread, Occupied, TypeOK, ThreadTypes
<1>10. CASE (\E p \in Page : NewPage(p) \/ DropPage(p)) \/ (\E c \in Channels : RegisterChannel(c)) \/ ChannelInit
  BY <1>10, <1>5 DEF NewPage, DropPage, RegisterChannel, ChannelInit
<1>11. CASE UNCHANGED vars
  BY <1>11, <1>5 DEF vars
<1> QED BY <1>6, <1>7, <1>8, <1>9, <1>10, <1>11 DEF Next

LEMMA InitNoOrphan == Init => NoOrphanThread
BY DEF Init, NoOrphanThread

\* TypeOK always holds: no operation binds an object to a slot that is not
\* there, overfills the queue or leaves a player half made.
THEOREM TypeCorrect == Spec => []TypeOK
<1>1. Init => TypeOK /\ NoOrphanThread
  BY InitTypeOK, InitNoOrphan
<1>2. TypeOK /\ NoOrphanThread /\ [Next]_vars => (TypeOK /\ NoOrphanThread)'
  BY NextTypeOK, NextNoOrphan
<1> QED BY <1>1, <1>2, PTL DEF Spec

\* A slot is emptied only when no thread that still sets up, plays or is being
\* joined runs on its player, whatever object stops or releases whatever slot.  The
\* threads that cleared their id for a last callback are excepted once the
\* destructor ran (astray): it has nothing to join.
THEOREM ThreadsKeepPlayers == Spec => []NoOrphanThread
<1>1. Init => TypeOK /\ NoOrphanThread
  BY InitTypeOK, InitNoOrphan
<1>2. TypeOK /\ NoOrphanThread /\ [Next]_vars => (TypeOK /\ NoOrphanThread)'
  BY NextTypeOK, NextNoOrphan
<1> QED BY <1>1, <1>2, PTL DEF Spec

-----------------------------------------------------------------------------
(* The window *)

LEMMA NextFullscreen == TypeOK /\ FullscreenAgrees /\ [Next]_vars => FullscreenAgrees'
<1> SUFFICES ASSUME TypeOK, FullscreenAgrees, [Next]_vars PROVE FullscreenAgrees'
  OBVIOUS
<1> USE DEF pageVars, qVars, waitVars, threadVars, histVars
<1>1. CASE UNCHANGED slot
  BY <1>1 DEF FullscreenAgrees, Occupied
<1>2. ASSUME NEW i \in Inst, NEW s, slot' = [slot EXCEPT ![i] = s], Agrees(s) PROVE FullscreenAgrees'
  <2> SUFFICES ASSUME NEW j \in Inst, Occupied(j)', slot'[j].fresh
               PROVE  slot'[j].full <=> slot'[j].mode = 1 \/ slot'[j].area = "full"
    BY DEF FullscreenAgrees
  <2> QED BY <1>2 DEF FullscreenAgrees, Occupied, Agrees, TypeOK, SlotTypes
<1>3. ASSUME NEW p \in Page, page[p].there, Make(p) PROVE FullscreenAgrees'
  <2>1. Agrees(Player(p)) /\ page[p].inst \in Inst
    BY <1>3, PlayerType DEF Player, Agrees
  <2> QED BY <1>1, <1>2, <1>3, <2>1 DEF Make
<1>4. ASSUME NEW p \in Page, SettingsNext(p) \/ WindowNext(p) PROVE FullscreenAgrees'
  <2>1. CASE UNCHANGED slot
    BY <2>1, <1>1
  <2>2. CASE slot' # slot
    <3>1. Occupied(page[p].inst) /\ page[p].inst \in Inst
      BY <1>4, <2>2, Setters
    <3>2. Agrees(slot[page[p].inst])
      BY <3>1 DEF FullscreenAgrees, Agrees
    <3> QED BY <1>2, <1>4, <2>2, <3>1, <3>2, Setters
  <2> QED BY <2>1, <2>2
<1>5. ASSUME NEW p \in Page, PlayerNext(p) PROVE FullscreenAgrees'
  <2>1. UNCHANGED slot \/ (page[p].there /\ Make(p))
    BY <1>5 DEF PlayerNext, PlayMedia, Play, JoinChannel, CallOn, TrickMode, Stop, ReleaseNativePlayer,
      ReleaseMediaPlayer, Release, Bind, InitMediaPlayer
  <2> QED BY <2>1, <1>1, <1>3
<1>6. ASSUME NEW i \in Inst, JoinReturns(i) PROVE FullscreenAgrees'
  <2>1. slot' = slot \/ slot' = [slot EXCEPT ![i] = Empty]
    BY <1>6 DEF JoinReturns, Returned, Deleted, NotDeleted
  <2>2. ~Empty.there
    BY DEF Empty
  <2> QED BY <2>1, <2>2, <1>1 DEF FullscreenAgrees, Occupied, TypeOK, SlotTypes
<1>7. CASE \/ \E p \in Page : NewPage(p) \/ DropPage(p)
           \/ \E c \in Channels : RegisterChannel(c)
           \/ ChannelInit
           \/ \E i \in Inst : Begin(i) \/ Poll(i) \/ EndsAlone(i) \/ GivesUp(i) \/ LastCallback(i)
           \/ UNCHANGED vars
  BY <1>7, <1>1 DEF NewPage, DropPage, RegisterChannel, ChannelInit, Begin, Poll, Take, EndsAlone, GivesUp, LastCallback, vars
<1> QED BY <1>4, <1>5, <1>6, <1>7 DEF Next

\* iftvfullscreen agrees with what the player shows, whichever object placed the
\* window and in whatever order modes and areas were set.
THEOREM FullscreenRight == Spec => []FullscreenAgrees
<1>1. Init => TypeOK /\ NoOrphanThread /\ FullscreenAgrees
  BY InitTypeOK, InitNoOrphan DEF Init, FullscreenAgrees, Occupied, Empty
<1>2. TypeOK /\ NoOrphanThread /\ FullscreenAgrees /\ [Next]_vars => (TypeOK /\ NoOrphanThread /\ FullscreenAgrees)'
  BY NextTypeOK, NextNoOrphan, NextFullscreen
<1> QED BY <1>1, <1>2, PTL DEF Spec

-----------------------------------------------------------------------------
(* The queue *)

\* Ids are given in order, and a player's is one of those given.
IdsGiven == qid <= made /\ \A i \in Inst : Occupied(i) => slot[i].msgid \in 1 .. made
\* A message in the queue is of a player that still exists and sends to this very
\* queue; if it is about the volume, a page has set that player's volume.
FromPlayers ==
  \A k \in 1 .. Len(queue) :
    LET i == queue[k].from IN
      /\ Occupied(i) /\ slot[i].msgid = qid
      /\ queue[k].cmd = "VOLUMECHANGE" => slot[i].volume \in Volumes
QueueInv == IdsGiven /\ QueueHeld /\ FromPlayers /\ SoundScale

LEMMA InitQueueInv == Init => QueueInv
BY DEF Init, QueueInv, IdsGiven, QueueHeld, FromPlayers, SoundScale, Occupied, Empty

\* Messages are records, and a sender is a slot.
LEMMA Messages ==
  ASSUME QueueTypes, NEW k \in 1 .. Len(queue)
  PROVE  queue[k] \in MsgType /\ queue[k].from \in Inst
<1>1. queue[k] \in MsgType
  BY ElementOfSeq DEF QueueTypes
<1> QED BY <1>1 DEF MsgType

\* A message of a player to its own queue keeps the invariant if it is not about
\* the volume.
LEMMA SendKeeps ==
  ASSUME TypeOK, QueueInv, NEW i \in Inst, NEW c \in Cmds \ {"VOLUMECHANGE"}, Occupied(i), Send(i, c),
         UNCHANGED <<slot, qid>>
  PROVE  FromPlayers'
<1>1. CASE UNCHANGED queue
  BY <1>1 DEF QueueInv, FromPlayers, Occupied
<1>2. CASE slot[i].msgid = qid /\ queue' = Append(queue, [cmd |-> c, from |-> i])
  <2> SUFFICES ASSUME NEW k \in 1 .. Len(queue')
               PROVE  LET j == queue'[k].from IN
                        /\ slot[j].there /\ slot[j].msgid = qid
                        /\ queue'[k].cmd = "VOLUMECHANGE" => slot[j].volume \in Volumes
    BY DEF FromPlayers, Occupied
  <2>1. CASE k \in 1 .. Len(queue)
    <3>1. queue'[k] = queue[k]
      BY <1>2, <2>1 DEF TypeOK, QueueTypes
    <3> QED BY <2>1, <3>1 DEF QueueInv, FromPlayers, Occupied
  <2>2. CASE k = Len(queue) + 1
    <3>1. queue'[k] = [cmd |-> c, from |-> i]
      BY <1>2, <2>2 DEF TypeOK, QueueTypes
    <3> QED BY <1>2, <3>1 DEF Occupied
  <2>3. Len(queue') = Len(queue) + 1 /\ Len(queue) \in Nat
    BY <1>2 DEF TypeOK, QueueTypes
  <2> QED BY <2>1, <2>2, <2>3
<1> QED BY <1>1, <1>2 DEF Send

\* A player made joins the queue there is, or a new one nobody has a message in.
LEMMA MakeKeeps ==
  ASSUME TypeOK, QueueInv, NEW p \in Page, page[p].there, Make(p), UNCHANGED queue
  PROVE  IdsGiven' /\ QueueHeld' /\ FromPlayers' /\ slot'[page[p].inst].there
<1> DEFINE i == page[p].inst
           new == Player(p)
<1>1. new \in SlotType /\ i \in Inst /\ new.there /\ new.msgid = (IF qid = 0 THEN made + 1 ELSE qid)
  BY PlayerType DEF Player
<1>2. CASE Occupied(i)
  BY <1>2 DEF Make, QueueInv, IdsGiven, QueueHeld, FromPlayers, Occupied
<1>3. CASE ~Occupied(i)
  <2>1. slot' = [slot EXCEPT ![i] = new] /\ qid' = new.msgid /\ released' = [released EXCEPT ![i] = FALSE]
        /\ made' = (IF qid = 0 THEN made + 1 ELSE made)
    BY <1>3 DEF Make
  <2>2. slot'[i] = new /\ \A j \in Inst : j # i => slot'[j] = slot[j] /\ released'[j] = released[j]
    BY <1>1, <2>1 DEF TypeOK, SlotTypes, PastTypes
  <2>3. qid \in Nat /\ made \in Nat /\ qid <= made
    BY DEF TypeOK, QueueTypes, QueueInv, IdsGiven
  <2>4. \A j \in Inst : Occupied(j) => slot[j].msgid \in 1 .. made
    BY DEF QueueInv, IdsGiven
  <2> HIDE DEF new, i
  <2>5. IdsGiven'
    <3>1. new.msgid \in 1 .. made' /\ made <= made' /\ qid' <= made'
      BY <1>1, <2>1, <2>3
    <3> QED BY <1>1, <2>1, <2>2, <2>3, <2>4, <3>1 DEF IdsGiven, Occupied
  <2>6. QueueHeld'
    <3> SUFFICES ASSUME NEW j \in Inst, slot'[j].there, ~released'[j]
                 PROVE  slot'[j].msgid = qid' /\ qid' # 0
      BY DEF QueueHeld, Occupied
    <3>1. CASE j = i
      BY <1>1, <2>1, <2>2, <2>3, <3>1
    <3>2. CASE j # i
      <4>1. slot[j].msgid = qid /\ qid # 0
        BY <2>2, <3>2 DEF QueueInv, QueueHeld, Occupied
      <4> QED BY <1>1, <2>1, <2>2, <3>2, <4>1
    <3> QED BY <3>1, <3>2
  <2>7. FromPlayers'
    <3> SUFFICES ASSUME NEW k \in 1 .. Len(queue)
                 PROVE  LET j == queue[k].from IN
                          /\ slot'[j].there /\ slot'[j].msgid = qid'
                          /\ queue[k].cmd = "VOLUMECHANGE" => slot'[j].volume \in Volumes
      BY DEF FromPlayers, Occupied
    <3> DEFINE j == queue[k].from
    <3>1. j \in Inst
      BY Messages DEF TypeOK
    <3>2. Occupied(j) /\ slot[j].msgid = qid /\ (queue[k].cmd = "VOLUMECHANGE" => slot[j].volume \in Volumes)
      BY DEF QueueInv, FromPlayers
    <3> HIDE DEF j
    <3>3. qid # 0
      BY <2>3, <2>4, <3>1, <3>2
    <3>4. j # i
      BY <1>3, <3>2 DEF i
    <3>5. slot'[j].there /\ slot'[j].msgid = qid' /\ (queue[k].cmd = "VOLUMECHANGE" => slot'[j].volume \in Volumes)
      BY <1>1, <2>1, <2>2, <3>1, <3>2, <3>3, <3>4 DEF Occupied
    <3> QED BY <3>5 DEF j
  <2> QED BY <1>1, <2>2, <2>5, <2>6, <2>7 DEF i
<1> QED BY <1>2, <1>3

\* What the thread that polls, and the one that begins, leave in the queue was there.
LEMMA TailKeeps ==
  ASSUME TypeOK, QueueInv, UNCHANGED <<slot, qid>>, queue' = <<>> \/ queue' = queue
                                                    \/ (queue # <<>> /\ queue' = Tail(queue))
  PROVE  FromPlayers'
<1>1. CASE queue' = <<>>
  BY <1>1 DEF FromPlayers
<1>2. CASE queue' = queue
  BY <1>2 DEF QueueInv, FromPlayers, Occupied
<1>3. CASE queue # <<>> /\ queue' = Tail(queue)
  <2> SUFFICES ASSUME NEW k \in 1 .. Len(queue')
               PROVE  LET j == queue'[k].from IN
                        /\ slot[j].there /\ slot[j].msgid = qid
                        /\ queue'[k].cmd = "VOLUMECHANGE" => slot[j].volume \in Volumes
    BY DEF FromPlayers, Occupied
  <2>1. k + 1 \in 1 .. Len(queue) /\ queue'[k] = queue[k + 1]
    BY <1>3 DEF TypeOK, QueueTypes
  <2> QED BY <2>1 DEF QueueInv, FromPlayers, Occupied
<1> QED BY <1>1, <1>2, <1>3

\* A setter keeps what the queue says of the players.
LEMMA SettersKeep ==
  ASSUME TypeOK, QueueInv, NEW i \in Inst, Occupied(i), NEW s \in SlotType,
         slot' = [slot EXCEPT ![i] = s], s.msgid = slot[i].msgid, s.volume \in Volumes \union {slot[i].volume},
         UNCHANGED <<qid, made, released>>
  PROVE  /\ IdsGiven' /\ QueueHeld'
         /\ \A k \in 1 .. Len(queue) :
              LET j == queue[k].from IN
                /\ slot'[j].there /\ slot'[j].msgid = qid
                /\ queue[k].cmd = "VOLUMECHANGE" => slot'[j].volume \in Volumes
<1>1. slot'[i] = s /\ s.there /\ \A j \in Inst : j # i => slot'[j] = slot[j]
  BY DEF TypeOK, SlotTypes, SlotType
<1>2. \A j \in Inst : /\ slot'[j].there <=> slot[j].there
                      /\ slot'[j].there => slot'[j].msgid = slot[j].msgid
                      /\ slot[j].volume \in Volumes => slot'[j].volume \in Volumes
  BY <1>1 DEF Occupied
<1>3. IdsGiven'
  BY <1>2 DEF QueueInv, IdsGiven, Occupied
<1>4. QueueHeld'
  BY <1>2 DEF QueueInv, QueueHeld, Occupied
<1>5. ASSUME NEW k \in 1 .. Len(queue)
      PROVE  LET j == queue[k].from IN
               /\ slot'[j].there /\ slot'[j].msgid = qid
               /\ queue[k].cmd = "VOLUMECHANGE" => slot'[j].volume \in Volumes
  <2>1. PICK f \in Inst : f = queue[k].from
    BY Messages DEF TypeOK
  <2>2. /\ slot[f].there /\ slot[f].msgid = qid
        /\ queue[k].cmd = "VOLUMECHANGE" => slot[f].volume \in Volumes
    BY <2>1 DEF QueueInv, FromPlayers, Occupied
  <2>3. /\ slot'[f].there /\ slot'[f].msgid = qid
        /\ queue[k].cmd = "VOLUMECHANGE" => slot'[f].volume \in Volumes
    <3>1. CASE f = i
      <4>1. slot'[f] = s
        BY <3>1, <1>1
      <4>2. s.msgid = slot[f].msgid /\ s.volume \in Volumes \union {slot[f].volume}
        BY <3>1
      <4> QED BY <4>1, <4>2, <2>2, <1>1
    <3>2. CASE f # i
      <4>1. slot'[f] = slot[f]
        BY <3>2, <2>1, <1>1
      <4> QED BY <4>1, <2>2
    <3> QED BY <3>1, <3>2
  <2> QED BY <2>1, <2>3
<1> QED BY <1>3, <1>4, <1>5

LEMMA NextQueueInv == TypeOK /\ NoOrphanThread /\ QueueInv /\ [Next]_vars => QueueInv'
<1> SUFFICES ASSUME TypeOK, NoOrphanThread, QueueInv, [Next]_vars PROVE QueueInv'
  OBVIOUS
<1> USE DEF pageVars, qVars, waitVars, threadVars, histVars
<1>1. UNCHANGED sound => SoundScale'
  BY DEF QueueInv, SoundScale
<1>2. UNCHANGED <<slot, qid, made, released>> => IdsGiven' /\ QueueHeld'
  BY DEF QueueInv, IdsGiven, QueueHeld, Occupied
<1>3. UNCHANGED <<slot, qid, queue>> => FromPlayers'
  BY DEF QueueInv, FromPlayers, Occupied
<1>4. ASSUME UNCHANGED <<slot, qid, made, released, queue, sound>> PROVE QueueInv'
  BY <1>1, <1>2, <1>3, <1>4 DEF QueueInv
<1>5. ASSUME NEW p \in Page, NEW v \in Volumes, SetVolume(p, v) PROVE QueueInv'
  <2> DEFINE i == page[p].inst
             s == [slot[i] EXCEPT !.volume = v]
  <2>1. i \in Inst
    BY <1>5, Whole DEF SetVolume, CallOn, PageType
  <2>2. CASE ~Occupied(i)
    BY <1>4, <1>5, <2>2 DEF SetVolume
  <2>3. CASE Occupied(i)
    <3>1. slot[i] \in SlotType
      BY <2>1, <2>3, Whole
    <3>2. s \in SlotType /\ s.msgid = slot[i].msgid /\ s.volume = v
      BY <3>1, FacadeAssumption DEF SlotType, FacadeAssumption
    <3>3. slot' = [slot EXCEPT ![i] = s] /\ Send(i, "VOLUMECHANGE") /\ UNCHANGED <<qid, made, released, sound>>
      BY <1>5, <2>3 DEF SetVolume
    <3>4. /\ IdsGiven' /\ QueueHeld'
          /\ \A k \in 1 .. Len(queue) :
               LET j == queue[k].from IN
                 /\ slot'[j].there /\ slot'[j].msgid = qid
                 /\ queue[k].cmd = "VOLUMECHANGE" => slot'[j].volume \in Volumes
      <4> HIDE DEF i, s
      <4> QED BY <2>1, <2>3, <3>2, <3>3, SettersKeep
    <3>5. slot'[i] = s
      BY <2>1, <3>3 DEF TypeOK, SlotTypes
    <3>6. FromPlayers'
      <4>1. CASE queue' = queue
        BY <3>3, <3>4, <4>1 DEF FromPlayers, Occupied
      <4>2. CASE slot[i].msgid = qid /\ queue' = Append(queue, [cmd |-> "VOLUMECHANGE", from |-> i])
        <5> SUFFICES ASSUME NEW k \in 1 .. Len(queue')
                     PROVE  LET j == queue'[k].from IN
                              /\ slot'[j].there /\ slot'[j].msgid = qid
                              /\ queue'[k].cmd = "VOLUMECHANGE" => slot'[j].volume \in Volumes
          BY <3>3 DEF FromPlayers, Occupied
        <5>1. CASE k \in 1 .. Len(queue)
          <6>1. queue'[k] = queue[k]
            BY <4>2, <5>1 DEF TypeOK, QueueTypes
          <6> QED BY <3>4, <5>1, <6>1
        <5>2. CASE k = Len(queue) + 1
          <6>1. queue'[k] = [cmd |-> "VOLUMECHANGE", from |-> i]
            BY <4>2, <5>2 DEF TypeOK, QueueTypes
          <6>2. s.there
            BY <3>2 DEF SlotType
          <6> HIDE DEF i, s
          <6> QED BY <3>2, <3>5, <4>2, <6>1, <6>2
        <5>3. Len(queue') = Len(queue) + 1 /\ Len(queue) \in Nat
          BY <4>2 DEF TypeOK, QueueTypes
        <5> QED BY <5>1, <5>2, <5>3
      <4> QED BY <3>3, <4>1, <4>2 DEF Send
    <3> QED BY <1>1, <3>3, <3>4, <3>6 DEF QueueInv
  <2> QED BY <2>2, <2>3
<1>6. ASSUME NEW p \in Page, SettingsNext(p) \/ WindowNext(p), ~\E v \in Volumes : SetVolume(p, v) PROVE QueueInv'
  <2>1. UNCHANGED <<qid, made, released, queue, sound>>
    BY <1>6 DEF SettingsNext, WindowNext, GetVolume, GetMuteFlag, SetMuteFlag,
      SetFlag, SetDisplayMode, SetDisplayArea, RefreshVideoDisplay
  <2>2. CASE UNCHANGED slot
    BY <1>4, <2>1, <2>2
  <2>3. CASE slot' # slot
    <3>1. IdsGiven' /\ QueueHeld' /\ FromPlayers'
      BY <1>6, <2>1, <2>3, Setters, SettersKeep DEF FromPlayers, Occupied
    <3> QED BY <1>1, <2>1, <3>1 DEF QueueInv
  <2> QED BY <2>2, <2>3
<1>7. ASSUME NEW p \in Page, page[p].there, Make(p), UNCHANGED <<queue, sound>> PROVE QueueInv'
  BY <1>1, <1>7, MakeKeeps DEF QueueInv
<1>8. ASSUME NEW p \in Page, page[p].there, Play(p), UNCHANGED sound PROVE QueueInv'
  <2> DEFINE i == page[p].inst
  <2>1. i \in Inst /\ Make(p)
    BY <1>8, PlayerType DEF Play
  <2>2. CASE UNCHANGED queue
    BY <1>7, <1>8, <2>1, <2>2
  <2>3. CASE thread[i] # "none" /\ Send(i, "OTHER")
    <3>1. Occupied(i)
      BY <2>1, <2>3 DEF NoOrphanThread
    <3>2. UNCHANGED <<slot, qid, made, released>>
      BY <2>1, <3>1 DEF Make
    <3>3. FromPlayers'
      BY <2>1, <2>3, <3>1, <3>2, SendKeeps DEF Cmds
    <3> QED BY <1>1, <1>2, <1>8, <3>2, <3>3 DEF QueueInv
  <2> QED BY <1>8, <2>2, <2>3 DEF Play
<1>9. ASSUME NEW i \in Inst, NEW c \in Cmds \ {"VOLUMECHANGE"}, Occupied(i), Send(i, c),
             UNCHANGED <<slot, qid, made, released, sound>>
      PROVE  QueueInv'
  BY <1>1, <1>2, <1>9, SendKeeps DEF QueueInv
<1>10. ASSUME NEW p \in Page, PlayerNext(p) PROVE QueueInv'
  <2>1. CASE PlayMedia(p)
    BY <1>8, <2>1 DEF PlayMedia, CallOn
  <2>2. ASSUME NEW c \in Channels, JoinChannel(p, c) PROVE QueueInv'
    BY <1>4, <1>7, <1>8, <2>2 DEF JoinChannel, CallOn
  <2>3. CASE TrickMode(p)
    BY <1>9, <2>3, Whole DEF TrickMode, CallOn, Cmds, PageType
  <2>4. ASSUME NEW i \in Inst, Occupied(i), Quit(i), UNCHANGED <<slot, qid, made, released, sound>>
        PROVE  QueueInv'
    BY <1>4, <1>9, <2>4 DEF Quit, Cmds
  <2>5. CASE Stop(p)
    BY <2>4, <2>5, Whole DEF Stop, CallOn, PageType
  <2>6. ASSUME NEW i \in Inst, Release(i) PROVE QueueInv'
    BY <2>4, <2>6 DEF Release
  <2>7. page[p].there => page[p].inst \in Inst
    BY Whole DEF PageType
  <2>8. CASE (\E i \in Inst : ReleaseMediaPlayer(p, i)) \/ ReleaseNativePlayer(p)
    BY <2>6, <2>7, <2>8 DEF ReleaseMediaPlayer, ReleaseNativePlayer, CallOn
  <2>9. CASE (\E i \in Inst \union {2} : Bind(p, i)) \/ \E i \in Inst, m \in Modes, a \in PageAreas : InitMediaPlayer(p, i, m, a)
    BY <1>4, <2>9 DEF Bind, InitMediaPlayer
  <2> QED BY <1>10, <2>1, <2>2, <2>3, <2>5, <2>8, <2>9 DEF PlayerNext
<1>11. ASSUME NEW i \in Inst, JoinReturns(i) PROVE QueueInv'
  <2>1. CASE ~deleting
    BY <1>4, <1>11, <2>1 DEF JoinReturns, Returned, Deleted, NotDeleted
  <2>2. CASE deleting
    <3>1. /\ RemoveQueue(i) /\ slot' = [slot EXCEPT ![i] = Empty] /\ UNCHANGED <<made, sound>>
          /\ released' = [j \in Inst |-> j # i \/ released[j]]
      BY <1>11, <2>2 DEF JoinReturns, Returned, Deleted, NotDeleted
    <3>2. ~slot'[i].there /\ \A j \in Inst : j # i => slot'[j] = slot[j] /\ released'[j]
      BY <3>1 DEF TypeOK, SlotTypes, Empty
    <3>3. qid' \in {0, qid} /\ qid \in Nat /\ made \in Nat
      BY <3>1 DEF RemoveQueue, TypeOK, QueueTypes
    <3>4. IdsGiven'
      BY <3>1, <3>2, <3>3 DEF QueueInv, IdsGiven, Occupied
    <3>5. QueueHeld'
      BY <3>2 DEF QueueHeld, Occupied
    <3>6. FromPlayers'
      <4>1. CASE slot[i].msgid = qid
        BY <3>1, <4>1 DEF RemoveQueue, FromPlayers
      <4>2. CASE slot[i].msgid # qid
        <5>1. UNCHANGED <<queue, qid>>
          BY <3>1, <4>2 DEF RemoveQueue
        <5> SUFFICES ASSUME NEW k \in 1 .. Len(queue)
                     PROVE  LET j == queue[k].from IN
                              /\ slot'[j].there /\ slot'[j].msgid = qid
                              /\ queue[k].cmd = "VOLUMECHANGE" => slot'[j].volume \in Volumes
          BY <5>1 DEF FromPlayers, Occupied
        <5>2. queue[k].from \in Inst /\ queue[k].from # i
          BY <4>2, Messages DEF TypeOK, QueueInv, FromPlayers
        <5> QED BY <3>2, <5>2 DEF QueueInv, FromPlayers, Occupied
      <4> QED BY <4>1, <4>2
    <3> QED BY <1>1, <3>1, <3>4, <3>5, <3>6 DEF QueueInv
  <2> QED BY <2>1, <2>2
<1>12. ASSUME NEW i \in Inst, Begin(i) \/ EndsAlone(i) \/ GivesUp(i) \/ LastCallback(i) PROVE QueueInv'
  BY <1>1, <1>2, <1>12, TailKeeps DEF Begin, EndsAlone, GivesUp, LastCallback, QueueInv
<1>13. ASSUME NEW i \in Inst, Poll(i) PROVE QueueInv'
  <2>1. UNCHANGED <<slot, qid, made, released>> /\ queue # <<>> /\ queue' = Tail(queue)
    BY <1>13 DEF Poll, Take
  <2>2. FromPlayers'
    BY <2>1, TailKeeps
  <2>3. SoundScale'
    <3>1. CASE UNCHANGED sound
      BY <3>1, <1>1
    <3>2. CASE Head(queue).cmd = "VOLUMECHANGE" /\ sound' = <<slot[i].volume, i, Head(queue).from>>
      <4>1. 1 \in 1 .. Len(queue) /\ Head(queue) = queue[1]
        BY <2>1 DEF TypeOK, QueueTypes
      <4>2. Head(queue).from = i => slot[i].volume \in Volumes
        BY <3>2, <4>1 DEF QueueInv, FromPlayers
      <4> QED BY <3>2, <4>2 DEF SoundScale
    <3> QED BY <1>13, <3>1, <3>2 DEF Poll, Take
  <2> QED BY <1>2, <2>1, <2>2, <2>3 DEF QueueInv
<1>14. CASE \/ \E p \in Page : NewPage(p) \/ DropPage(p)
            \/ \E c \in Channels : RegisterChannel(c)
            \/ ChannelInit
            \/ UNCHANGED vars
  BY <1>4, <1>14 DEF NewPage, DropPage, RegisterChannel, ChannelInit, vars
<1> QED BY <1>5, <1>6, <1>10, <1>11, <1>12, <1>13, <1>14 DEF Next

LEMMA QueueInvAlways == Spec => []QueueInv
<1>1. Init => TypeOK /\ NoOrphanThread /\ QueueInv
  BY InitTypeOK, InitNoOrphan, InitQueueInv
<1>2. TypeOK /\ NoOrphanThread /\ QueueInv /\ [Next]_vars => (TypeOK /\ NoOrphanThread /\ QueueInv)'
  BY NextTypeOK, NextNoOrphan, NextQueueInv
<1> QED BY <1>1, <1>2, PTL DEF Spec

\* A player keeps its queue until a player is destroyed: then the queue is removed
\* under every other player, and only then.
THEOREM QueueKept == Spec => []QueueHeld
<1>1. QueueInv => QueueHeld
  BY DEF QueueInv
<1> QED BY <1>1, QueueInvAlways, PTL

\* The sound a thread sets for its own player is a volume some page asked for,
\* also when the player was made anew while its message was in the queue.
THEOREM SoundAsAsked == Spec => []SoundScale
<1>1. QueueInv => SoundScale
  BY DEF QueueInv
<1> QED BY <1>1, QueueInvAlways, PTL

-----------------------------------------------------------------------------
(* Channels *)

\* A set of naturals with an element has a least one.
LEMMA Least ==
  ASSUME NEW at \in SUBSET Nat, at # {}
  PROVE  \E i \in at : \A j \in at : i <= j
<1> DEFINE R == {ss \in Nat \X Nat : ss[1] < ss[2]}
<1>1. IsWellFoundedOn(R, Nat)
  <2>1. OpToRel(<, Nat) = R
    BY Zenon DEF OpToRel
  <2> QED BY <2>1, NatLessThanWellFounded, Zenon
<1>2. \E i \in at : \A j \in at : ~(<<j, i>> \in R)
  <2> HIDE DEF R
  <2> QED BY <1>1, WFMin
<1>3. ASSUME NEW i \in Nat, NEW j \in Nat, <<j, i>> \notin R PROVE i <= j
  BY <1>3
<1> HIDE DEF R
<1> QED BY <1>2, <1>3

\* The entry found is one of the channel asked for.
LEMMA FirstFinds ==
  ASSUME ListTypes, infos = ids, NEW c, \E k \in DOMAIN infos : ids[k] = c
  PROVE  infos[First(c)] = c
<1> DEFINE at == {k \in DOMAIN infos : ids[k] = c}
<1>1. DOMAIN infos = 1 .. Len(infos) /\ Len(infos) \in Nat
  BY DEF ListTypes
<1>2. PICK m \in at : \A j \in at : m <= j
  <2>1. at \in SUBSET Nat /\ at # {}
    BY <1>1
  <2> HIDE DEF at
  <2> QED BY <2>1, Least
<1>3. m \in DOMAIN infos /\ ids[m] = c /\ \A j \in 1 .. m - 1 : ids[j] # c
  BY <1>1, <1>2
<1>4. ids[First(c)] = c
  BY <1>3 DEF First
<1> QED BY <1>4

Joined == infos = ids /\ JoinsAsked

LEMMA NextJoined == TypeOK /\ Joined /\ [Next]_vars => Joined'
<1> SUFFICES ASSUME TypeOK, Joined, [Next]_vars PROVE Joined'
  OBVIOUS
<1> USE DEF pageVars, qVars, waitVars, threadVars, histVars, Joined, JoinsAsked
<1>1. CASE UNCHANGED <<infos, ids, joined>>
  BY <1>1
<1>2. ASSUME NEW c \in Channels, RegisterChannel(c) PROVE Joined'
  BY <1>2 DEF RegisterChannel
<1>3. CASE ChannelInit
  BY <1>3 DEF ChannelInit, ClearChannels
<1>4. ASSUME NEW p \in Page, NEW c \in Channels, JoinChannel(p, c) PROVE Joined'
  <2>1. CASE \E k \in DOMAIN infos : ids[k] = c
    <3>1. joined' = <<c, infos[First(c)]>> /\ UNCHANGED <<infos, ids>>
      BY <1>4, <2>1 DEF JoinChannel
    <3>2. infos[First(c)] = c
      BY <2>1, FirstFinds DEF TypeOK
    <3> QED BY <3>1, <3>2
  <2>2. CASE ~\E k \in DOMAIN infos : ids[k] = c
    BY <1>4, <2>2 DEF JoinChannel
  <2> QED BY <2>1, <2>2
<1>5. ASSUME NEW p \in Page, PlayerNext(p), ~\E c \in Channels : JoinChannel(p, c) PROVE UNCHANGED <<infos, ids, joined>>
  BY <1>5 DEF PlayerNext, PlayMedia, TrickMode, Stop, ReleaseNativePlayer, ReleaseMediaPlayer, Release,
    Bind, InitMediaPlayer
<1>6. ASSUME NEW p \in Page, SettingsNext(p) \/ WindowNext(p) PROVE UNCHANGED <<infos, ids, joined>>
  BY <1>6 DEF SettingsNext, WindowNext, GetVolume, SetVolume, GetMuteFlag, SetMuteFlag,
    SetFlag, SetDisplayMode, SetDisplayArea, RefreshVideoDisplay
<1>7. CASE \/ \E p \in Page : NewPage(p) \/ DropPage(p)
           \/ \E i \in Inst : JoinReturns(i) \/ Begin(i) \/ Poll(i) \/ EndsAlone(i) \/ GivesUp(i) \/ LastCallback(i)
           \/ UNCHANGED vars
  BY <1>1, <1>7 DEF NewPage, DropPage, JoinReturns, Begin, Poll, Take, EndsAlone, GivesUp, LastCallback, vars
<1> QED BY <1>1, <1>2, <1>3, <1>4, <1>5, <1>6, <1>7 DEF Next

\* joinChannel plays the description registered for the channel asked for, however
\* often channels were registered and the lists emptied.
THEOREM JoinsWhatIsAsked == Spec => []JoinsAsked
<1>1. Init => TypeOK /\ NoOrphanThread /\ Joined
  BY InitTypeOK, InitNoOrphan DEF Init, Joined, JoinsAsked
<1>2. TypeOK /\ NoOrphanThread /\ Joined /\ [Next]_vars => (TypeOK /\ NoOrphanThread /\ Joined)'
  BY NextTypeOK, NextNoOrphan, NextJoined
<1>3. Joined => JoinsAsked
  BY DEF Joined
<1> QED BY <1>1, <1>2, <1>3, PTL DEF Spec

=============================================================================
