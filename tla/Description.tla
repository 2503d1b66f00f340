----------------------------- MODULE Description -----------------------------
(***************************************************************************)
(* What is played: from the description the page hands over (a channel or a *)
(* medium, in text), through the fields of player and session client, to    *)
(* the SETUP, the PLAY and the licence of the thread; and the position in   *)
(* the medium the page is told.                                            *)
(*                                                                         *)
(* The fields are written piece by piece, an erroneous description leaves   *)
(* part of them, and only joinChannel looks whether parsing succeeded.  The *)
(* page waits for the end of one medium before it asks for the next (module *)
(* StreamPlayer is about pages that do not).                               *)
(***************************************************************************)
EXTENDS Integers

CONSTANTS
  Texts,       \* the descriptions, records of DescriptionType
  SetupTimes,  \* SETUP_TIMES
  Second,      \* the milliseconds of a second
  PtsModulus,  \* time stamps of the pictures are modulo this (2^32)
  MaxOffset,   \* PTS_MAX_OFFSET
  FirstPts,    \* time stamps the first picture may have
  Moves,       \* how far the picture moves between two looks at it
  MaxCalls,    \* bound: media asked for
  MaxFaults,   \* bound: requests refused, unanswered or redirected
  MaxLooks     \* bound: looks at the picture

Absent == -1
Kinds  == {"SDV", "VOD", "TVS", "TVOD"}
Shifted == {"TVS", "TVOD"}

\* Which of its fields a description has: for a channel the number and the URL
\* (there, empty or not there), for a medium URL, times, licence and bit rate.
DescriptionType ==
  [id : Nat, userChannel : {"none", "empty", "given"}, channelUrl : {"none", "empty", "given"},
   mediaUrl : BOOLEAN, startTime : Nat \union {Absent}, endTime : Nat \union {Absent},
   licence : Nat \union {Absent}, rate : Nat \union {Absent}]

ASSUME DescriptionAssumption ==
  /\ Texts \subseteq DescriptionType /\ \A d \in Texts : d.id # 0 /\ d.licence # 0
  /\ SetupTimes \in Nat \ {0} /\ Second \in Nat \ {0}
  /\ PtsModulus \in Nat \ {0} /\ MaxOffset \in Nat /\ 2 * MaxOffset < PtsModulus
  /\ FirstPts \subseteq 0 .. PtsModulus - 1 /\ Moves \subseteq Int
  /\ MaxCalls \in Nat /\ MaxFaults \in Nat /\ MaxLooks \in Nat

VARIABLES
  text,       \* real_json_str
  setupType, start, stop, \* setup_type, media_start_time, media_stop_time
  session,    \* the session client: content, licence, rate, its copy of the times
  stype,      \* "tv" or "vod"
  tpc, tries, \* the player thread, "none" when there is none; SETUPs left
  setup, play, key,       \* what the thread sent last: SETUP, PLAY; the licence it opened
  firstPts, lastPts,      \* play_first_pts, play_last_pts
  picture,    \* the decoder: first time stamp, distance played since, looks, none of them too far
  calls, faults,
  clients,    \* the two clients, made with the player: "there", "deleted" by a thread
              \* that went through cleanup, or "lost": the memory belongs to another
  given       \* history: the description of the medium asked for, whether it was accepted

fieldVars == <<setupType, start, stop, session>>
sentVars  == <<setup, play, key>>
ptsVars   == <<firstPts, lastPts, picture>>
vars == <<text, fieldVars, stype, tpc, tries, sentVars, ptsVars, calls, faults, clients, given>>

NoText  == [id |-> 0, userChannel |-> "none", channelUrl |-> "none", mediaUrl |-> FALSE,
            startTime |-> Absent, endTime |-> Absent, licence |-> Absent, rate |-> Absent]
NoSetup == [kind |-> "none", content |-> 0, rate |-> 0, from |-> 0, to |-> 0]
NoPts   == PtsModulus - 1   \* ~0
Black   == [first |-> NoPts, moved |-> 0, looks |-> 0, steady |-> TRUE]

\* A new player: the constructor sets text (the one the page object keeps) and
\* start; stype, setup_type, media_stop_time and most of the client are what the
\* heap held.
Init ==
  /\ text \in Texts \union {NoText} /\ start = 0 /\ stype \in {"tv", "vod"}
  /\ setupType \in Kinds \union {"none"}
  /\ \E h \in {0, 1} : stop = h /\ session = [content |-> 0, licence |-> h, rate |-> h, from |-> h,
                                               to |-> h]
  /\ tpc = "none" /\ tries = 0 /\ setup = NoSetup /\ play = Absent /\ key = Absent
  /\ firstPts = NoPts /\ lastPts = 0 /\ picture = Black
  /\ calls = 0 /\ faults = 0 /\ clients = "there" /\ given = [ok |-> FALSE, channel |-> FALSE]

-----------------------------------------------------------------------------
(* The page: parsing *)

\* getchannelurlfromjson.  The kind is set before anything is looked at.
ChannelAccepted(d) == d.userChannel = "given" /\ d.channelUrl = "given"
ParseChannel(d) ==
  /\ setupType' = "SDV"
  /\ session' = IF ChannelAccepted(d) THEN [session EXCEPT !.content = d.id]
                ELSE session
  /\ UNCHANGED <<start, stop>>

\* Mutant: a medium without a licence is not refused.
MediaAccepted_NoLicence(d) == d.mediaUrl /\ d.endTime # Absent

\* getmediaurlfromjson accepts a medium with an end and, if it is a film (has no
\* start), with a licence.
MediaAccepted(d) ==
  d.mediaUrl /\ d.endTime # Absent /\ (d.startTime = Absent => d.licence # Absent)

\* Milliseconds are cut off: an end of less than a second is none.
MediaKind(d) ==
  CASE d.startTime = Absent -> "VOD"
    [] d.startTime # Absent /\ d.endTime \div Second = 0 -> "TVS"
    [] OTHER -> "TVOD"

\* Mutant: what is not a film leaves the licence of the film before.
Film_KeepsLicence(d) ==
  [session EXCEPT !.content = d.id,
     !.licence = IF MediaKind(d) = "VOD" THEN d.licence ELSE @,
     !.rate = IF MediaKind(d) = "VOD" /\ d.rate # Absent THEN d.rate ELSE 0]

\* The session client of a medium: licence and rate for a film only.
Film(d) ==
  [session EXCEPT !.content = d.id,
     !.licence = IF MediaKind(d) = "VOD" THEN d.licence ELSE 0,
     !.rate = IF MediaKind(d) = "VOD" /\ d.rate # Absent THEN d.rate ELSE 0]

\* Mutant: the start of the programme before is not cleared.
StartOf_KeepsOld(d) == IF d.mediaUrl /\ d.startTime # Absent THEN d.startTime \div Second ELSE start
StartOf(d) == IF d.mediaUrl /\ d.startTime # Absent THEN d.startTime \div Second ELSE 0

\* Each step writes its field; what an error comes before stays as it was.
ParseMedia(d) ==
  /\ start' = StartOf(d)
  /\ stop' = IF d.mediaUrl /\ d.endTime # Absent THEN d.endTime \div Second ELSE stop
  /\ setupType' = IF d.mediaUrl /\ (d.startTime = Absent \/ d.endTime # Absent)
                  THEN MediaKind(d) ELSE setupType
  /\ session' = IF MediaAccepted(d) THEN Film(d) ELSE session

-----------------------------------------------------------------------------
(* The page: operations, when no thread runs *)

Call == tpc = "none" /\ calls < MaxCalls /\ calls' = calls + 1
Start ==
  /\ tpc' = "begin" /\ setup' = NoSetup /\ play' = Absent /\ key' = Absent /\ picture' = Black
  /\ UNCHANGED <<tries, firstPts, lastPts, faults, clients>>

\* The one operation that looks whether parsing succeeded.
JoinChannel(d) ==
  /\ Call /\ text' = d /\ ParseChannel(d)
  /\ IF ChannelAccepted(d)
     THEN stype' = "tv" /\ given' = [ok |-> TRUE, channel |-> TRUE] /\ Start
     ELSE given' = [ok |-> FALSE, channel |-> TRUE]
          /\ UNCHANGED <<stype, tpc, tries, sentVars, ptsVars, faults, clients>>

\* The text is parsed twice, to the same effect.
SetSingleMedia(d) ==
  /\ Call /\ text' = d /\ ParseMedia(d) /\ stype' = "vod"
  /\ given' = [ok |-> MediaAccepted(d), channel |-> FALSE] /\ Start

\* playFromStart and playByTime play the text there is, as what the medium before
\* was; a time stamp is not used.
PlayAgain ==
  /\ Call /\ ParseMedia(text)
  /\ given' = [ok |-> MediaAccepted(text), channel |-> FALSE] /\ Start
  /\ UNCHANGED <<text, stype>>

-----------------------------------------------------------------------------
(* The player thread *)

Fault == faults < MaxFaults /\ faults' = faults + 1
Ends  == tpc' = "none"
pageFrame == UNCHANGED <<text, stype, calls, given, setupType, start, stop>>
playFrame == pageFrame /\ UNCHANGED clients

\* Mutant: the times are handed over with a start only.
TimesOf_OnlyStart == [session EXCEPT !.from = start]

TimesOf == [session EXCEPT !.from = start, !.to = stop]

\* Network_Init hands the times of a shifted programme to the client.
HandOver ==
  /\ tpc = "begin" /\ tpc' = "setup" /\ tries' = SetupTimes
  /\ session' = IF setupType \in Shifted THEN TimesOf ELSE session
  /\ firstPts' = IF stype = "vod" THEN NoPts ELSE firstPts
  /\ UNCHANGED <<lastPts, picture, sentVars, faults>> /\ playFrame

\* rtspSETUP: the request of each kind.  Whether a shifted programme has an end is
\* asked of the client's copy.
Requested ==
  LET plain == [NoSetup EXCEPT !.kind = setupType, !.content = session.content]
  IN  CASE setupType = "none" -> setup
        [] setupType = "SDV" -> plain
        [] setupType = "VOD" -> [plain EXCEPT !.rate = session.rate]
        [] setupType \in Shifted /\ session.to = 0 ->
             [plain EXCEPT !.kind = "TVS", !.from = session.from]
        [] OTHER -> [plain EXCEPT !.kind = "TVOD", !.from = session.from, !.to = session.to]

\* The session manager accepts; or it refuses, and the request is sent again; or
\* it sends the client elsewhere, to start anew.
RtspSETUP ==
  /\ tpc = "setup" /\ setup' = Requested
  /\ \/ /\ setupType # "none" /\ tpc' = (IF stype = "vod" THEN "play" ELSE "loop")
        /\ UNCHANGED <<tries, faults>>
     \/ /\ IF setupType = "none" THEN UNCHANGED faults ELSE Fault
        /\ tries' = tries - 1
        /\ IF tries = 1 THEN Ends ELSE UNCHANGED tpc
     \/ setupType # "none" /\ Fault /\ tries' = SetupTimes /\ UNCHANGED tpc
  /\ UNCHANGED <<session, play, key, ptsVars>> /\ playFrame

\* main_vod_player's rtspPLAY, to a streaming server only if the session has one.
RtspPLAY ==
  /\ tpc = "play"
  /\ \/ setupType # "SDV" /\ play' = start /\ tpc' = "licence" /\ UNCHANGED faults
     \/ (IF setupType = "SDV" THEN UNCHANGED faults ELSE Fault) /\ Ends /\ UNCHANGED play
  /\ UNCHANGED <<tries, session, setup, key, ptsVars>> /\ playFrame

\* The licence the descrambler is given.
OpenLicence ==
  /\ tpc = "licence" /\ key' = session.licence /\ tpc' = "loop"
  /\ UNCHANGED <<tries, session, setup, play, ptsVars, faults>> /\ playFrame

\* A QUIT or any failure ends the thread; stop then returns.  A vod thread that got
\* as far as the descrambler ends through cleanup, and that deletes both clients;
\* the ends before it, and the threads of channels, leave them.
EndThread ==
  /\ tpc # "none" /\ Ends
  /\ clients' = IF tpc = "loop" /\ stype = "vod" /\ clients = "there" THEN "deleted" ELSE clients
  /\ UNCHANGED <<tries, session, sentVars, ptsVars, faults>> /\ pageFrame

\* The player goes on using its clients: the next description is written where the
\* deleted one was and the next thread reads it there.  As long as nobody else is
\* given the memory it answers; from then on its fields hold anything (one value
\* for all of them stands for that), or the process ends.
Overwritten ==
  /\ clients # "there" /\ clients' = "lost"
  /\ \E h \in {0, 1} : session' = [content |-> h, licence |-> h, rate |-> h, from |-> h, to |-> h]
  /\ UNCHANGED <<text, setupType, start, stop, stype, tpc, tries, sentVars, ptsVars, calls,
                 faults, given>>

-----------------------------------------------------------------------------
(* The position *)

\* Mutant: only a picture that went forward counts.
Near_Forward(p, q) == (p - q) % PtsModulus <= MaxOffset

\* Unsigned subtraction: near in either direction, across the wrap too.
Near(p, q) ==
  (p - q) % PtsModulus <= MaxOffset \/ (q - p) % PtsModulus <= MaxOffset

\* update_play_pts, for a decoder whose first picture is f and whose last is l.
UpdatePlayPts(f, l) ==
  CASE f # NoPts /\ firstPts = NoPts /\ f # 0 -> firstPts' = f /\ lastPts' = l
    [] f # NoPts /\ (firstPts # NoPts \/ f = 0) /\ Near(l, lastPts) ->
         lastPts' = l /\ UNCHANGED firstPts
    [] OTHER -> UNCHANGED <<firstPts, lastPts>>

\* The main loop of a vod thread looks at the decoder's time stamps.  The first
\* picture has a time stamp of its own; before it the decoder has none.  At the
\* first look after it the decoder may be some pictures further.
Look ==
  /\ tpc = "loop" /\ stype = "vod" /\ picture.looks < MaxLooks
  /\ \E f \in IF picture.first = NoPts THEN FirstPts ELSE {picture.first},
        d \in IF picture.first = NoPts THEN Moves \cap Nat ELSE Moves :
       LET moved == IF f = NoPts THEN 0 ELSE picture.moved + d
           near  == picture.first = NoPts \/ d \in -MaxOffset .. MaxOffset
       IN  /\ picture' = [first |-> f, moved |-> moved, looks |-> picture.looks + 1,
                          steady |-> picture.steady /\ near]
           /\ UpdatePlayPts(f, (f + moved) % PtsModulus)
  /\ UNCHANGED <<tpc, tries, session, sentVars, faults>> /\ playFrame

\* getCurrentPlayTime
CurrentPlayTime ==
  IF firstPts = NoPts THEN 0 ELSE ((lastPts - firstPts) % PtsModulus) \div Second

-----------------------------------------------------------------------------

Page == PlayAgain \/ \E d \in Texts : JoinChannel(d) \/ SetSingleMedia(d)
Thread == HandOver \/ RtspSETUP \/ RtspPLAY \/ OpenLicence \/ Look \/ EndThread
Next == Page \/ Thread \/ Overwritten
Spec == Init /\ [][Next]_vars

-----------------------------------------------------------------------------
(* Properties *)

SetupType == [kind : Kinds \union {"none"}, content : Nat, rate : Nat, from : Nat, to : Nat]
TypeOK ==
  /\ text \in DescriptionType /\ setupType \in Kinds \union {"none"}
  /\ start \in Nat /\ stop \in Nat /\ stype \in {"tv", "vod"}
  /\ session \in [content : Nat, licence : Nat, rate : Nat, from : Nat, to : Nat]
  /\ tpc \in {"none", "begin", "setup", "play", "licence", "loop"} /\ tries \in 0 .. SetupTimes
  /\ setup \in SetupType /\ play \in Nat \union {Absent} /\ key \in Nat \union {Absent}
  /\ firstPts \in 0 .. NoPts /\ lastPts \in 0 .. NoPts
  /\ picture \in [first : 0 .. NoPts, moved : Int, looks : Nat, steady : BOOLEAN]
  /\ calls \in Nat /\ faults \in Nat /\ clients \in {"there", "deleted", "lost"}
  /\ given \in [ok : BOOLEAN, channel : BOOLEAN]

\* What a description asks for, said without the fields it goes through.
StartsAt(d) == IF d.startTime = Absent THEN 0 ELSE d.startTime \div Second
EndsAt(d)   == d.endTime \div Second
FilmText(d) == d.startTime = Absent
Wanted(d, channel) ==
  CASE channel -> [NoSetup EXCEPT !.kind = "SDV", !.content = d.id]
    [] ~channel /\ FilmText(d) ->
         [NoSetup EXCEPT !.kind = "VOD", !.content = d.id,
                         !.rate = IF d.rate = Absent THEN 0 ELSE d.rate]
    [] OTHER -> [kind |-> IF EndsAt(d) = 0 THEN "TVS" ELSE "TVOD", content |-> d.id, rate |-> 0,
                 from |-> StartsAt(d), to |-> EndsAt(d)]

\* What a film's thread deleted is used for the media after it; the two properties
\* below are about a player whose clients nobody else has written over.
Answers == clients # "lost"

\* An accepted description is what the session manager is asked for: kind,
\* content, rate and times, whatever was played or refused before, at the first
\* attempt, at every retry and after a redirect.
SetupAsksForGiven ==
  given.ok /\ Answers /\ setup # NoSetup => setup = Wanted(text, given.channel)

\* A film is descrambled with its own licence, and what is not a film with none,
\* though the client keeps the licence of the film before.
LicenceOfMedium ==
  given.ok /\ Answers /\ key # Absent => key = IF FilmText(text) THEN text.licence ELSE 0

\* A film plays from its begin, a shifted programme from the start it came with,
\* whatever was played or refused before.
PlaysFromStart == given.ok /\ play # Absent => play = StartsAt(text)

\* A picture whose first time stamp the player takes: not 0, which it ignores (the
\* page is then told 0 for ever), nor the value that stands for none.  No look found
\* it farther from the one before than MaxOffset, and it is not behind the first.
Followable ==
  /\ tpc = "loop" /\ stype = "vod" /\ picture.first \notin {0, NoPts} /\ picture.steady
  /\ picture.moved \in 0 .. PtsModulus - 1

\* Of such a film the page is told the distance played since its first picture,
\* over the wrap of the time stamps too.
PositionTold == Followable /\ setupType = "VOD" => CurrentPlayTime = picture.moved \div Second

\* What the header promises of getCurrentPlayTime for a programme shifted in time:
\* the absolute time of the play point.
TvodTold ==
  Followable /\ setupType = "TVOD" => CurrentPlayTime = start + picture.moved \div Second

=============================================================================
