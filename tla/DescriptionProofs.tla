-------------------------- MODULE DescriptionProofs --------------------------
(***************************************************************************)
(* Theorems about Description, for every set of descriptions, every width of *)
(* the time stamps and any number of retries and redirects.                 *)
(***************************************************************************)
EXTENDS Description, TLAPS

(* Division *)

LEMMA DivNat == ASSUME NEW a \in Nat, NEW b \in Nat \ {0} PROVE a \div b \in Nat
OBVIOUS

LEMMA ModRange == ASSUME NEW a \in Int, NEW b \in Nat \ {0} PROVE a % b \in 0 .. b - 1
OBVIOUS

\* The only multiple of b between -b and b is 0.
LEMMA SmallMultiple ==
  ASSUME NEW b \in Nat \ {0}, NEW q \in Int, NEW r \in Int, r = b * q, -b < r, r < b
  PROVE  r = 0
<1>1. CASE q >= 1
  <2>1. b * q >= b
    BY <1>1
  <2> QED BY <2>1
<1>2. CASE q <= -1
  <2>1. b * q <= -b
    BY <1>2
  <2> QED BY <2>1
<1>3. CASE q = 0
  BY <1>3
<1> QED BY <1>1, <1>2, <1>3

\* A number below b that differs from x by a multiple of b is x modulo b.
LEMMA ModUnique ==
  ASSUME NEW b \in Nat \ {0}, NEW x \in Int, NEW y \in 0 .. b - 1, NEW q \in Int, x = y + b * q
  PROVE  x % b = y
<1> DEFINE d == x \div b
           r == x % b
<1>1. d \in Int /\ r \in 0 .. b - 1 /\ x = b * d + r
  OBVIOUS
<1> HIDE DEF d, r
<1>2. b * (q - d) = b * q - b * d
  BY <1>1
<1>3. r - y = b * (q - d) /\ q - d \in Int /\ r - y \in Int
  BY <1>1, <1>2
<1>4. -b < r - y /\ r - y < b
  BY <1>1
<1>5. r - y = 0
  BY <1>3, <1>4, SmallMultiple
<1> QED BY <1>1, <1>5 DEF r

\* Moving by d moves the rest by d, but for a multiple of b.
LEMMA ModAdd ==
  ASSUME NEW a \in Int, NEW d \in Int, NEW b \in Nat \ {0}
  PROVE  \E q \in Int : (a + d) % b = (a % b) + d + b * q
<1> DEFINE x == (a + d) \div b
           y == a \div b
<1>1. x \in Int /\ y \in Int
  OBVIOUS
<1>2. a + d = b * x + ((a + d) % b) /\ a = b * y + (a % b)
  OBVIOUS
<1>3. (a + d) % b \in Int /\ a % b \in Int
  OBVIOUS
<1> HIDE DEF x, y
<1>4. b * (y - x) = b * y - b * x
  BY <1>1
<1>5. (a + d) % b = (a % b) + d + b * (y - x)
  BY <1>1, <1>2, <1>3, <1>4
<1>6. y - x \in Int
  BY <1>1
<1> WITNESS y - x \in Int
<1> QED BY <1>5

\* The difference of two rests is the distance, modulo b.
LEMMA ModDistance ==
  ASSUME NEW a \in Int, NEW d \in Int, NEW b \in Nat \ {0}
  PROVE  /\ d \in 0 .. b - 1 => (((a + d) % b) - (a % b)) % b = d
         /\ -d \in 0 .. b - 1 => ((a % b) - ((a + d) % b)) % b = -d
<1>1. PICK q \in Int : (a + d) % b = (a % b) + d + b * q
  BY ModAdd
<1> DEFINE x == (a + d) % b
           y == a % b
<1>2. x \in Int /\ y \in Int /\ x = y + d + b * q
  BY <1>1
<1> HIDE DEF x, y
<1>3. ASSUME d \in 0 .. b - 1 PROVE (x - y) % b = d
  <2>1. x - y = d + b * q /\ x - y \in Int
    BY <1>2
  <2> QED BY <1>1, <1>3, <2>1, ModUnique
<1>4. ASSUME -d \in 0 .. b - 1 PROVE (y - x) % b = -d
  <2>1. y - x = (-d) + b * (-q) /\ y - x \in Int /\ -q \in Int
    <3>1. b * (-q) = -(b * q)
      BY <1>1
    <3> QED BY <1>1, <1>2, <3>1
  <2> QED BY <1>4, <2>1, ModUnique
<1>5. d \in 0 .. b - 1 => (x - y) % b = d
  BY <1>3
<1>6. -d \in 0 .. b - 1 => (y - x) % b = -d
  BY <1>4
<1> QED BY <1>5, <1>6 DEF x, y

-----------------------------------------------------------------------------
(* Types *)

\* While the session is being set up, an attempt is left.
AttemptLeft == tpc = "setup" => tries # 0
Typed == TypeOK /\ AttemptLeft

Session == [content : Nat, licence : Nat, rate : Nat, from : Nat, to : Nat]

LEMMA TextsType == Texts \subseteq DescriptionType /\ NoText \in DescriptionType
BY DescriptionAssumption DEF DescriptionAssumption, NoText, DescriptionType

LEMMA Clock == NoPts \in Nat /\ NoPts = PtsModulus - 1 /\ PtsModulus \in Nat \ {0} /\ Second \in Nat \ {0}
BY DescriptionAssumption DEF DescriptionAssumption, NoPts

LEMMA InitTyped == Init => Typed
<1> SUFFICES ASSUME Init PROVE Typed
  OBVIOUS
<1>1. text \in DescriptionType /\ setupType \in Kinds \union {"none"} /\ stype \in {"tv", "vod"}
  BY TextsType DEF Init
<1>2. session \in Session /\ stop \in Nat /\ start \in Nat
  BY DEF Init, Session
<1>3. setup \in SetupType /\ play \in Nat \union {Absent} /\ key \in Nat \union {Absent}
  BY DEF Init, NoSetup, SetupType
<1>4. /\ firstPts \in 0 .. NoPts /\ lastPts \in 0 .. NoPts
      /\ picture \in [first : 0 .. NoPts, moved : Int, looks : Nat, steady : BOOLEAN]
  BY Clock DEF Init, Black
<1>5. /\ tpc \in {"none", "begin", "setup", "play", "licence", "loop"} /\ tries \in 0 .. SetupTimes
      /\ calls \in Nat /\ faults \in Nat /\ given \in [ok : BOOLEAN, channel : BOOLEAN]
      /\ clients \in {"there", "deleted", "lost"}
  BY DescriptionAssumption DEF Init, DescriptionAssumption
<1>6. AttemptLeft
  BY DEF Init, AttemptLeft
<1> QED BY <1>1, <1>2, <1>3, <1>4, <1>5, <1>6 DEF Typed, TypeOK, Session

\* The times of a description in seconds.
LEMMA SecondsType ==
  ASSUME NEW d \in DescriptionType
  PROVE  /\ d.startTime # Absent => d.startTime \div Second \in Nat
         /\ d.endTime # Absent => d.endTime \div Second \in Nat
<1>1. d.startTime # Absent => d.startTime \in Nat
  BY DEF DescriptionType
<1>2. d.endTime # Absent => d.endTime \in Nat
  BY DEF DescriptionType
<1> QED BY <1>1, <1>2, Clock, DivNat

LEMMA FilmType ==
  ASSUME NEW d \in DescriptionType, MediaAccepted(d), session \in Session
  PROVE  Film(d) \in Session
<1>1. d.startTime = Absent => d.licence \in Nat
  BY DEF MediaAccepted, DescriptionType
<1>2. d.id \in Nat /\ (d.rate # Absent => d.rate \in Nat)
  BY DEF DescriptionType
<1>3. MediaKind(d) = "VOD" <=> d.startTime = Absent
  BY DEF MediaKind
<1> DEFINE l == IF MediaKind(d) = "VOD" THEN d.licence ELSE 0
           r == IF MediaKind(d) = "VOD" /\ d.rate # Absent THEN d.rate ELSE 0
<1>4. l \in Nat /\ r \in Nat
  BY <1>1, <1>2, <1>3
<1> HIDE DEF l, r
<1>5. [session EXCEPT !.content = d.id, !.licence = l, !.rate = r] \in Session
  BY <1>2, <1>4 DEF Session
<1> QED BY <1>5 DEF Film, l, r

LEMMA ParseType ==
  ASSUME TypeOK, NEW d \in DescriptionType, ParseMedia(d)
  PROVE  start' \in Nat /\ stop' \in Nat /\ setupType' \in Kinds \union {"none"} /\ session' \in Session
<1>1. start' \in Nat
  BY SecondsType DEF ParseMedia, StartOf
<1>2. stop' \in Nat
  BY SecondsType DEF ParseMedia, TypeOK
<1>3. setupType' \in Kinds \union {"none"}
  BY DEF ParseMedia, MediaKind, Kinds, TypeOK
<1>4. session' \in Session
  BY FilmType DEF ParseMedia, TypeOK, Session
<1> QED BY <1>1, <1>2, <1>3, <1>4

LEMMA StartType ==
  ASSUME Typed, Start
  PROVE  /\ tpc' = "begin" /\ setup' \in SetupType /\ play' \in Nat \union {Absent} /\ key' \in Nat \union {Absent}
         /\ picture' \in [first : 0 .. NoPts, moved : Int, looks : Nat, steady : BOOLEAN]
         /\ tries' \in 0 .. SetupTimes /\ firstPts' \in 0 .. NoPts /\ lastPts' \in 0 .. NoPts
         /\ faults' \in Nat /\ UNCHANGED clients
<1>1. setup' \in SetupType /\ play' \in Nat \union {Absent} /\ key' \in Nat \union {Absent}
  BY DEF Start, NoSetup, SetupType
<1>2. picture' \in [first : 0 .. NoPts, moved : Int, looks : Nat, steady : BOOLEAN]
  BY Clock DEF Start, Black
<1> QED BY <1>1, <1>2 DEF Start, Typed, TypeOK

LEMMA PageTyped == Typed /\ Page => Typed'
<1> SUFFICES ASSUME Typed, Page PROVE Typed'
  OBVIOUS
<1>1. ASSUME NEW d \in Texts, JoinChannel(d) PROVE Typed'
  <2>1. d \in DescriptionType /\ text' = d /\ calls' \in Nat
    BY <1>1, TextsType DEF JoinChannel, Call, Typed, TypeOK
  <2>2. setupType' \in Kinds \union {"none"} /\ session' \in Session /\ UNCHANGED <<start, stop>>
    <3>1. d.id \in Nat
      BY <2>1 DEF DescriptionType
    <3>2. [session EXCEPT !.content = d.id] \in Session
      BY <3>1 DEF Typed, TypeOK, Session
    <3> QED BY <1>1, <3>2 DEF JoinChannel, ParseChannel, Kinds, Typed, TypeOK, Session
  <2>3. CASE ChannelAccepted(d)
    <3>1. given' = [ok |-> TRUE, channel |-> TRUE] /\ stype' = "tv" /\ Start
      BY <1>1, <2>3 DEF JoinChannel
    <3>2. given' \in [ok : BOOLEAN, channel : BOOLEAN]
      BY <3>1
    <3> QED BY <2>1, <2>2, <3>1, <3>2, StartType DEF Typed, TypeOK, Session, AttemptLeft
  <2>4. CASE ~ChannelAccepted(d)
    <3>1. given' \in [ok : BOOLEAN, channel : BOOLEAN]
      <4>1. given' = [ok |-> FALSE, channel |-> TRUE]
        BY <1>1, <2>4 DEF JoinChannel
      <4> QED BY <4>1
    <3>2. UNCHANGED <<stype, tpc, tries, sentVars, ptsVars, faults, clients>>
      BY <1>1, <2>4 DEF JoinChannel
    <3> QED BY <2>1, <2>2, <3>1, <3>2 DEF sentVars, ptsVars, Typed, TypeOK, Session, AttemptLeft
  <2> QED BY <2>3, <2>4
<1>2. ASSUME NEW d \in Texts, SetSingleMedia(d) PROVE Typed'
  <2>1. d \in DescriptionType /\ text' = d /\ calls' \in Nat /\ stype' = "vod"
    BY <1>2, TextsType DEF SetSingleMedia, Call, Typed, TypeOK
  <2>2. start' \in Nat /\ stop' \in Nat /\ setupType' \in Kinds \union {"none"} /\ session' \in Session
    BY <1>2, <2>1, ParseType DEF SetSingleMedia, Typed
  <2>3. given' \in [ok : BOOLEAN, channel : BOOLEAN]
    <3>1. given' = [ok |-> MediaAccepted(d), channel |-> FALSE] /\ MediaAccepted(d) \in BOOLEAN
      BY <1>2 DEF SetSingleMedia, MediaAccepted
    <3> QED BY <3>1
  <2> QED BY <1>2, <2>1, <2>2, <2>3, StartType DEF SetSingleMedia, Typed, TypeOK, Session, AttemptLeft
<1>3. CASE PlayAgain
  <2>1. text \in DescriptionType /\ calls' \in Nat /\ UNCHANGED <<text, stype>>
    BY <1>3 DEF PlayAgain, Call, Typed, TypeOK
  <2>2. start' \in Nat /\ stop' \in Nat /\ setupType' \in Kinds \union {"none"} /\ session' \in Session
    BY <1>3, <2>1, ParseType DEF PlayAgain, Typed
  <2>3. given' \in [ok : BOOLEAN, channel : BOOLEAN]
    <3>1. given' = [ok |-> MediaAccepted(text), channel |-> FALSE] /\ MediaAccepted(text) \in BOOLEAN
      BY <1>3 DEF PlayAgain, MediaAccepted
    <3> QED BY <3>1
  <2> QED BY <1>3, <2>1, <2>2, <2>3, StartType DEF PlayAgain, Typed, TypeOK, Session, AttemptLeft
<1> QED BY <1>1, <1>2, <1>3 DEF Page

\* The request has the type of a request.
LEMMA RequestedType == ASSUME Typed PROVE Requested \in SetupType
<1> USE DEF Typed, TypeOK, SetupType
<1> DEFINE plain == [NoSetup EXCEPT !.kind = setupType, !.content = session.content]
<1>1. NoSetup \in SetupType /\ session.content \in Nat
  BY DEF NoSetup
<1>2. plain \in SetupType
  BY <1>1 DEF Kinds
<1> HIDE DEF plain
<1>3. /\ [plain EXCEPT !.rate = session.rate] \in SetupType
      /\ [plain EXCEPT !.kind = "TVS", !.from = session.from] \in SetupType
      /\ [plain EXCEPT !.kind = "TVOD", !.from = session.from, !.to = session.to] \in SetupType
  BY <1>2 DEF Kinds
<1>4. Requested = CASE setupType = "none" -> setup
                   [] setupType = "SDV" -> plain
                   [] setupType = "VOD" -> [plain EXCEPT !.rate = session.rate]
                   [] setupType \in Shifted /\ session.to = 0 -> [plain EXCEPT !.kind = "TVS", !.from = session.from]
                   [] OTHER -> [plain EXCEPT !.kind = "TVOD", !.from = session.from, !.to = session.to]
  BY DEF Requested, plain
<1>5. setup \in SetupType
  OBVIOUS
<1> QED BY <1>2, <1>3, <1>4, <1>5, Zenon

LEMMA ThreadTyped == Typed /\ Thread => Typed'
<1> SUFFICES ASSUME Typed, Thread PROVE Typed'
  OBVIOUS
<1> USE DEF Typed, TypeOK, AttemptLeft, pageFrame, playFrame, sentVars, ptsVars, Ends, Fault
<1>1. CASE HandOver
  <2>1. [session EXCEPT !.from = start, !.to = stop] \in Session
    BY DEF Session
  <2>2. session' \in Session
    BY <1>1, <2>1 DEF HandOver, TimesOf, Session
  <2>3. firstPts' \in 0 .. NoPts
    BY <1>1, Clock DEF HandOver
  <2>4. tpc' = "setup" /\ tries' = SetupTimes /\ SetupTimes \in 0 .. SetupTimes /\ SetupTimes # 0
    BY <1>1, DescriptionAssumption DEF HandOver, DescriptionAssumption
  <2> QED BY <1>1, <2>2, <2>3, <2>4 DEF HandOver, Session
<1>2. CASE RtspSETUP
  <2>1. setup' \in SetupType
    BY <1>2, RequestedType DEF RtspSETUP
  <2>2. SetupTimes \in Nat \ {0} /\ tries # 0 /\ tries \in 0 .. SetupTimes
    BY <1>2, DescriptionAssumption DEF RtspSETUP, DescriptionAssumption
  <2>3. tries' \in 0 .. SetupTimes /\ (tpc' = "setup" => tries' # 0)
    BY <1>2, <2>2 DEF RtspSETUP
  <2>4. tpc' \in {"none", "begin", "setup", "play", "licence", "loop"}
    BY <1>2 DEF RtspSETUP
  <2>5. faults' \in Nat
    BY <1>2 DEF RtspSETUP
  <2> QED BY <1>2, <2>1, <2>3, <2>4, <2>5 DEF RtspSETUP
<1>3. CASE RtspPLAY
  <2>1. tpc' \in {"licence", "none"} /\ play' \in Nat \union {Absent}
    BY <1>3 DEF RtspPLAY
  <2>2. faults' \in Nat
    BY <1>3 DEF RtspPLAY
  <2> QED BY <1>3, <2>1, <2>2 DEF RtspPLAY
<1>4. CASE OpenLicence
  <2>1. key' \in Nat \union {Absent} /\ tpc' = "loop"
    BY <1>4 DEF OpenLicence
  <2> QED BY <1>4, <2>1 DEF OpenLicence
<1>5. CASE Look
  <2>1. PICK f \in IF picture.first = NoPts THEN FirstPts ELSE {picture.first},
          d \in IF picture.first = NoPts THEN Moves \cap Nat ELSE Moves :
          LET moved == IF f = NoPts THEN 0 ELSE picture.moved + d
              near  == picture.first = NoPts \/ d \in -MaxOffset .. MaxOffset
          IN  /\ picture' = [first |-> f, moved |-> moved, looks |-> picture.looks + 1,
                             steady |-> picture.steady /\ near]
              /\ UpdatePlayPts(f, (f + moved) % PtsModulus)
    BY <1>5 DEF Look
  <2>2. f \in 0 .. NoPts /\ d \in Int
    BY <2>1, Clock, DescriptionAssumption DEF DescriptionAssumption
  <2> DEFINE moved == IF f = NoPts THEN 0 ELSE picture.moved + d
             near == picture.first = NoPts \/ d \in -MaxOffset .. MaxOffset
  <2>3. moved \in Int /\ near \in BOOLEAN
    BY <2>2
  <2> HIDE DEF moved, near
  <2>4. (f + moved) % PtsModulus \in 0 .. NoPts
    <3>1. f + moved \in Int
      BY <2>2, <2>3, Clock
    <3> QED BY <3>1, Clock, ModRange
  <2>5. picture' = [first |-> f, moved |-> moved, looks |-> picture.looks + 1,
                    steady |-> picture.steady /\ near]
        /\ UpdatePlayPts(f, (f + moved) % PtsModulus)
    BY <2>1 DEF moved, near
  <2>6. picture' \in [first : 0 .. NoPts, moved : Int, looks : Nat, steady : BOOLEAN]
    <3>1. (picture.steady /\ near) \in BOOLEAN /\ picture.looks + 1 \in Nat
      BY <2>3
    <3> QED BY <2>2, <2>3, <2>5, <3>1
  <2>7. firstPts' \in 0 .. NoPts /\ lastPts' \in 0 .. NoPts
    BY <2>2, <2>4, <2>5 DEF UpdatePlayPts
  <2> QED BY <1>5, <2>6, <2>7 DEF Look
<1>6. CASE EndThread
  BY <1>6 DEF EndThread
<1> QED BY <1>1, <1>2, <1>3, <1>4, <1>5, <1>6 DEF Thread

\* Whatever the clients' memory holds, the fields read from it are numbers.
LEMMA OverwrittenTyped == Typed /\ Overwritten => Typed'
<1> SUFFICES ASSUME Typed, Overwritten PROVE Typed'
  OBVIOUS
<1>1. session' \in Session /\ clients' = "lost"
  BY DEF Overwritten, Session
<1> QED BY <1>1 DEF Overwritten, Typed, TypeOK, AttemptLeft, Session, sentVars, ptsVars

LEMMA NextTyped == Typed /\ [Next]_vars => Typed'
<1> SUFFICES ASSUME Typed, [Next]_vars PROVE Typed'
  OBVIOUS
<1>1. CASE UNCHANGED vars
  BY <1>1 DEF Typed, TypeOK, AttemptLeft, vars, fieldVars, sentVars, ptsVars
<1> QED BY <1>1, PageTyped, ThreadTyped, OverwrittenTyped DEF Next

\* The types hold in every state, whatever a description leaves out: no time, no
\* licence and no time stamp is ever "absent" in a field.
THEOREM TypeCorrect == Spec => []TypeOK
<1>1. Spec => []Typed
  BY InitTyped, NextTyped, PTL DEF Spec
<1>2. Typed => TypeOK
  BY DEF Typed
<1> QED BY <1>1, <1>2, PTL

-----------------------------------------------------------------------------
(* What is asked for *)

\* The fields are those of the description that was accepted last.
FieldsOfChannel == setupType = "SDV" /\ (Answers => session.content = text.id)
FieldsOfMedium ==
  /\ MediaAccepted(text) /\ setupType = MediaKind(text)
  /\ start = StartsAt(text) /\ stop = EndsAt(text)
  /\ Answers =>
       /\ session.content = text.id
       /\ session.licence = (IF FilmText(text) THEN text.licence ELSE 0)
       /\ session.rate = (IF FilmText(text) /\ text.rate # Absent THEN text.rate ELSE 0)
\* The client has the times of a shifted programme once Network_Init handed them over.
HandedOver ==
  Answers /\ setupType \in Shifted /\ tpc \in {"setup", "play", "licence", "loop"} =>
    session.from = start /\ session.to = stop
\* What was sent agrees with the fields; a channel is neither played nor descrambled.
SentAsAsked ==
  /\ Answers /\ setup # NoSetup => setup = Wanted(text, given.channel)
  /\ play # Absent => ~given.channel /\ play = start
  /\ key # Absent => ~given.channel
  /\ Answers /\ key # Absent => key = session.licence
  /\ given.channel => tpc # "licence"
AskedInv ==
  given.ok =>
    /\ given.channel => FieldsOfChannel
    /\ ~given.channel => FieldsOfMedium
    /\ HandedOver /\ SentAsAsked

\* Parsing an accepted medium sets every field.
LEMMA ParsedFields ==
  ASSUME Typed, NEW d \in DescriptionType, MediaAccepted(d), ParseMedia(d), text' = d
  PROVE  FieldsOfMedium'
<1>1. setupType' = MediaKind(d) /\ start' = StartsAt(d) /\ stop' = EndsAt(d)
  BY DEF ParseMedia, MediaAccepted, StartOf, StartsAt, EndsAt
<1>2. session' = Film(d) /\ session \in Session
  BY DEF ParseMedia, Typed, TypeOK, Session
<1>3. MediaKind(d) = "VOD" <=> FilmText(d)
  BY DEF MediaKind, FilmText
<1>4. /\ session'.content = d.id
      /\ session'.licence = (IF FilmText(d) THEN d.licence ELSE 0)
      /\ session'.rate = (IF FilmText(d) /\ d.rate # Absent THEN d.rate ELSE 0)
  BY <1>2, <1>3 DEF Film, Session
<1> QED BY <1>1, <1>4 DEF FieldsOfMedium

LEMMA PageAsked == Typed /\ AskedInv /\ Page => AskedInv'
<1> SUFFICES ASSUME Typed, AskedInv, Page PROVE AskedInv'
  OBVIOUS
<1>1. ASSUME Start PROVE HandedOver' /\ SentAsAsked'
  BY <1>1 DEF Start, HandedOver, SentAsAsked
<1>2. ASSUME NEW d \in Texts, JoinChannel(d) PROVE AskedInv'
  <2>1. CASE ChannelAccepted(d)
    <3>1. given' = [ok |-> TRUE, channel |-> TRUE] /\ Start
      BY <1>2, <2>1 DEF JoinChannel
    <3>2. text' = d /\ setupType' = "SDV" /\ session' = [session EXCEPT !.content = d.id]
      BY <1>2, <2>1 DEF JoinChannel, ParseChannel
    <3>3. FieldsOfChannel'
      BY <3>2 DEF FieldsOfChannel, Typed, TypeOK
    <3> QED BY <1>1, <3>1, <3>3 DEF AskedInv
  <2>2. CASE ~ChannelAccepted(d)
    BY <1>2, <2>2 DEF JoinChannel, AskedInv
  <2> QED BY <2>1, <2>2
<1>3. ASSUME NEW d \in Texts, SetSingleMedia(d) PROVE AskedInv'
  <2>1. text' = d /\ ParseMedia(d) /\ given' = [ok |-> MediaAccepted(d), channel |-> FALSE] /\ Start
    BY <1>3 DEF SetSingleMedia
  <2>2. MediaAccepted(d) => FieldsOfMedium'
    BY <2>1, TextsType, ParsedFields
  <2> QED BY <1>1, <2>1, <2>2 DEF AskedInv
<1>4. CASE PlayAgain
  <2>1. text' = text /\ ParseMedia(text) /\ given' = [ok |-> MediaAccepted(text), channel |-> FALSE] /\ Start
    BY <1>4 DEF PlayAgain
  <2>2. MediaAccepted(text) => FieldsOfMedium'
    BY <2>1, ParsedFields DEF Typed, TypeOK
  <2> QED BY <1>1, <2>1, <2>2 DEF AskedInv
<1> QED BY <1>2, <1>3, <1>4 DEF Page

\* Requests are equal if their fields are.
LEMMA SameFields ==
  ASSUME NEW a \in SetupType, NEW b \in SetupType,
         a.kind = b.kind, a.content = b.content, a.rate = b.rate, a.from = b.from, a.to = b.to
  PROVE  a = b
BY DEF SetupType

\* The fields of the request.
LEMMA RequestedFields ==
  ASSUME Typed, setupType # "none"
  PROVE  /\ Requested.content = session.content
         /\ Requested.kind = (IF setupType \in {"SDV", "VOD"} THEN setupType
                              ELSE IF setupType \in Shifted /\ session.to = 0 THEN "TVS" ELSE "TVOD")
         /\ Requested.rate = (IF setupType = "VOD" THEN session.rate ELSE 0)
         /\ Requested.from = (IF setupType \in Shifted THEN session.from ELSE 0)
         /\ Requested.to = (IF setupType \in Shifted THEN session.to ELSE 0)
<1> DEFINE plain == [NoSetup EXCEPT !.kind = setupType, !.content = session.content]
<1>1. setupType \in Kinds
  BY DEF Typed, TypeOK
<1>2. plain \in SetupType
  <2>1. NoSetup \in SetupType /\ session.content \in Nat
    BY DEF NoSetup, SetupType, Typed, TypeOK
  <2> QED BY <1>1, <2>1 DEF SetupType
<1>3. /\ plain.kind = setupType /\ plain.content = session.content
      /\ plain.rate = 0 /\ plain.from = 0 /\ plain.to = 0
  BY DEF NoSetup
<1> HIDE DEF plain
<1>4. Requested = CASE setupType = "none" -> setup
                   [] setupType = "SDV" -> plain
                   [] setupType = "VOD" -> [plain EXCEPT !.rate = session.rate]
                   [] setupType \in Shifted /\ session.to = 0 -> [plain EXCEPT !.kind = "TVS", !.from = session.from]
                   [] OTHER -> [plain EXCEPT !.kind = "TVOD", !.from = session.from, !.to = session.to]
  BY DEF Requested, plain
<1>5. CASE setupType = "SDV"
  <2>1. Requested = plain
    BY <1>4, <1>5 DEF Shifted
  <2> QED BY <1>3, <1>5, <2>1 DEF Shifted
<1>6. CASE setupType = "VOD"
  <2>1. Requested = [plain EXCEPT !.rate = session.rate]
    BY <1>4, <1>6 DEF Shifted
  <2> QED BY <1>2, <1>3, <1>6, <2>1 DEF Shifted, SetupType
<1>7. CASE setupType \in Shifted /\ session.to = 0
  <2>1. Requested = [plain EXCEPT !.kind = "TVS", !.from = session.from]
    BY <1>4, <1>7 DEF Shifted
  <2> QED BY <1>2, <1>3, <1>7, <2>1 DEF Shifted, SetupType
<1>8. CASE setupType \in Shifted /\ session.to # 0
  <2>1. Requested = [plain EXCEPT !.kind = "TVOD", !.from = session.from, !.to = session.to]
    BY <1>4, <1>8 DEF Shifted
  <2> QED BY <1>2, <1>3, <1>8, <2>1 DEF Shifted, SetupType
<1> QED BY <1>1, <1>5, <1>6, <1>7, <1>8 DEF Kinds, Shifted

\* What a description wants, field by field.
LEMMA WantedFields ==
  ASSUME Typed, given.ok, given.channel \/ MediaAccepted(text)
  PROVE  LET w == Wanted(text, given.channel)
             shifted == ~given.channel /\ ~FilmText(text)
         IN  /\ w \in SetupType /\ w.content = text.id
             /\ w.kind = (IF given.channel THEN "SDV" ELSE MediaKind(text))
             /\ w.rate = (IF ~given.channel /\ FilmText(text) /\ text.rate # Absent THEN text.rate ELSE 0)
             /\ w.from = (IF shifted THEN StartsAt(text) ELSE 0)
             /\ w.to = (IF shifted THEN EndsAt(text) ELSE 0)
<1> DEFINE w == Wanted(text, given.channel)
<1>1. NoSetup \in SetupType /\ text.id \in Nat /\ (text.rate # Absent => text.rate \in Nat)
  BY DEF NoSetup, SetupType, Typed, TypeOK, DescriptionType
<1>2. NoSetup.rate = 0 /\ NoSetup.from = 0 /\ NoSetup.to = 0
  BY DEF NoSetup
<1>3. CASE given.channel
  <2>1. w = [NoSetup EXCEPT !.kind = "SDV", !.content = text.id]
    BY <1>3 DEF Wanted
  <2> QED BY <1>1, <1>2, <1>3, <2>1 DEF SetupType, Kinds
<1>4. CASE ~given.channel /\ FilmText(text)
  <2> DEFINE r == IF text.rate = Absent THEN 0 ELSE text.rate
  <2>1. r \in Nat /\ r = (IF text.rate # Absent THEN text.rate ELSE 0)
    BY <1>1
  <2>2. w = [NoSetup EXCEPT !.kind = "VOD", !.content = text.id, !.rate = r]
    BY <1>4 DEF Wanted
  <2>3. MediaKind(text) = "VOD"
    BY <1>4 DEF MediaKind, FilmText
  <2> HIDE DEF r, w
  <2>4. w \in SetupType /\ w.kind = "VOD" /\ w.content = text.id /\ w.rate = r /\ w.from = 0 /\ w.to = 0
    BY <1>1, <1>2, <2>1, <2>2 DEF SetupType, Kinds
  <2> QED BY <1>4, <2>1, <2>3, <2>4 DEF w
<1>5. CASE ~given.channel /\ ~FilmText(text)
  <2>1. w = [kind |-> IF EndsAt(text) = 0 THEN "TVS" ELSE "TVOD", content |-> text.id, rate |-> 0,
             from |-> StartsAt(text), to |-> EndsAt(text)]
    BY <1>5 DEF Wanted
  <2>2. MediaKind(text) = IF EndsAt(text) = 0 THEN "TVS" ELSE "TVOD"
    BY <1>5 DEF MediaKind, FilmText, EndsAt
  <2>3. StartsAt(text) \in Nat /\ EndsAt(text) \in Nat
    BY <1>5, SecondsType DEF StartsAt, EndsAt, FilmText, MediaAccepted, Typed, TypeOK
  <2>4. w \in SetupType
    BY <1>1, <2>1, <2>3 DEF SetupType, Kinds
  <2>5. /\ w.kind = MediaKind(text) /\ w.content = text.id /\ w.rate = 0
        /\ w.from = StartsAt(text) /\ w.to = EndsAt(text)
    BY <2>1, <2>2
  <2> QED BY <1>5, <2>4, <2>5
<1> QED BY <1>3, <1>4, <1>5

\* The request of an accepted description is the one wanted.
LEMMA RequestedIsWanted ==
  ASSUME Typed, AskedInv, given.ok, Answers, tpc = "setup"
  PROVE  Requested = Wanted(text, given.channel)
<1> DEFINE w == Wanted(text, given.channel)
           q == Requested
<1>1. given.channel \/ MediaAccepted(text)
  BY DEF AskedInv, FieldsOfMedium
<1>2. q \in SetupType
  BY RequestedType
<1>3. CASE given.channel
  <2>1. setupType = "SDV" /\ session.content = text.id
    BY <1>3 DEF AskedInv, FieldsOfChannel
  <2>2. q.kind = "SDV" /\ q.content = text.id /\ q.rate = 0 /\ q.from = 0 /\ q.to = 0
    BY <2>1, RequestedFields DEF Shifted
  <2>3. w \in SetupType /\ w.kind = "SDV" /\ w.content = text.id /\ w.rate = 0 /\ w.from = 0 /\ w.to = 0
    BY <1>1, <1>3, WantedFields
  <2> HIDE DEF w, q
  <2>4. q = w
    BY <1>2, <2>2, <2>3, SameFields
  <2> QED BY <2>1, <2>4 DEF w, q
<1>4. CASE ~given.channel
  <2>1. FieldsOfMedium /\ HandedOver
    BY <1>4 DEF AskedInv
  <2>2. setupType \in {"VOD", "TVS", "TVOD"} /\ setupType = MediaKind(text)
        /\ (setupType = "VOD" <=> FilmText(text)) /\ (~FilmText(text) => (setupType = "TVS" <=> EndsAt(text) = 0))
    BY <2>1 DEF FieldsOfMedium, MediaKind, FilmText, EndsAt
  <2>3. setupType \in Shifted => session.from = StartsAt(text) /\ session.to = EndsAt(text)
    BY <2>1 DEF FieldsOfMedium, HandedOver
  <2>4. /\ session.content = text.id
        /\ session.rate = (IF FilmText(text) /\ text.rate # Absent THEN text.rate ELSE 0)
    BY <2>1 DEF FieldsOfMedium
  <2>5. /\ q.kind = setupType /\ q.content = text.id
        /\ q.rate = (IF FilmText(text) /\ text.rate # Absent THEN text.rate ELSE 0)
        /\ q.from = (IF FilmText(text) THEN 0 ELSE StartsAt(text))
        /\ q.to = (IF FilmText(text) THEN 0 ELSE EndsAt(text))
    BY <2>2, <2>3, <2>4, RequestedFields DEF Shifted
  <2>6. /\ w \in SetupType /\ w.kind = setupType /\ w.content = text.id
        /\ w.rate = (IF FilmText(text) /\ text.rate # Absent THEN text.rate ELSE 0)
        /\ w.from = (IF FilmText(text) THEN 0 ELSE StartsAt(text))
        /\ w.to = (IF FilmText(text) THEN 0 ELSE EndsAt(text))
    BY <1>1, <1>4, <2>2, WantedFields
  <2> HIDE DEF w, q
  <2>7. q = w
    BY <1>2, <2>5, <2>6, SameFields
  <2> QED BY <2>2, <2>7 DEF w, q
<1> QED BY <1>3, <1>4

LEMMA ThreadAsked == Typed /\ AskedInv /\ Thread => AskedInv'
<1> SUFFICES ASSUME Typed, AskedInv, Thread, given.ok PROVE AskedInv'
  BY DEF AskedInv, Thread, HandOver, RtspSETUP, RtspPLAY, OpenLicence, Look, EndThread, pageFrame, playFrame
<1> USE DEF AskedInv, pageFrame, playFrame, sentVars, ptsVars, Ends
<1>1. UNCHANGED <<text, given, setupType, start, stop>>
  BY DEF Thread, HandOver, RtspSETUP, RtspPLAY, OpenLicence, Look, EndThread
<1>0. Answers' => Answers
  BY DEF Answers, Thread, HandOver, RtspSETUP, RtspPLAY, OpenLicence, Look, EndThread
<1>2. ASSUME session' = session
      PROVE  (FieldsOfChannel => FieldsOfChannel') /\ (FieldsOfMedium => FieldsOfMedium')
  BY <1>0, <1>1, <1>2 DEF FieldsOfChannel, FieldsOfMedium
<1>3. CASE HandOver
  <2>1. session' = session \/ session' = [session EXCEPT !.from = start, !.to = stop]
    BY <1>3 DEF HandOver, TimesOf
  <2>2. session'.content = session.content /\ session'.licence = session.licence /\ session'.rate = session.rate
    BY <2>1 DEF Typed, TypeOK
  <2>3. (FieldsOfChannel => FieldsOfChannel') /\ (FieldsOfMedium => FieldsOfMedium')
    BY <1>0, <1>1, <2>2 DEF FieldsOfChannel, FieldsOfMedium
  <2>4. HandedOver'
    BY <1>0, <1>1, <1>3 DEF HandOver, HandedOver, TimesOf, Typed, TypeOK
  <2>5. SentAsAsked'
    BY <1>0, <1>1, <1>3, <2>2 DEF HandOver, SentAsAsked
  <2> QED BY <1>1, <2>3, <2>4, <2>5
<1>4. CASE RtspSETUP
  <2>1. session' = session /\ (Answers => setup' = Wanted(text, given.channel))
    BY <1>4, RequestedIsWanted DEF RtspSETUP
  <2>2. HandedOver'
    BY <1>0, <1>1, <1>4, <2>1 DEF RtspSETUP, HandedOver
  <2>3. SentAsAsked'
    BY <1>0, <1>1, <1>4, <2>1 DEF RtspSETUP, SentAsAsked
  <2> QED BY <1>1, <1>2, <2>1, <2>2, <2>3
<1>5. CASE RtspPLAY
  <2>1. session' = session
    BY <1>5 DEF RtspPLAY
  <2>2. HandedOver'
    BY <1>0, <1>1, <1>5, <2>1 DEF RtspPLAY, HandedOver
  <2>3. SentAsAsked'
    BY <1>0, <1>1, <1>5, <2>1 DEF RtspPLAY, SentAsAsked, FieldsOfChannel
  <2> QED BY <1>1, <1>2, <2>1, <2>2, <2>3
<1>6. CASE OpenLicence
  <2>1. session' = session
    BY <1>6 DEF OpenLicence
  <2>2. HandedOver'
    BY <1>0, <1>1, <1>6, <2>1 DEF OpenLicence, HandedOver
  <2>3. SentAsAsked'
    BY <1>0, <1>1, <1>6, <2>1 DEF OpenLicence, SentAsAsked
  <2> QED BY <1>1, <1>2, <2>1, <2>2, <2>3
<1>7. CASE Look \/ EndThread
  <2>1. session' = session /\ UNCHANGED <<setup, play, key>> /\ (tpc' = tpc \/ tpc' = "none")
    BY <1>7 DEF Look, EndThread
  <2>2. HandedOver' /\ SentAsAsked'
    BY <1>0, <1>1, <2>1 DEF HandedOver, SentAsAsked
  <2> QED BY <1>1, <1>2, <2>1, <2>2
<1> QED BY <1>3, <1>4, <1>5, <1>6, <1>7 DEF Thread

\* Nothing is claimed of a session client somebody else has written over; what was
\* played came from the player's own field.
LEMMA OverwrittenAsked == AskedInv /\ Overwritten => AskedInv'
BY DEF Overwritten, Answers, AskedInv, FieldsOfChannel, FieldsOfMedium, HandedOver, SentAsAsked,
       sentVars

LEMMA NextAsked == Typed /\ AskedInv /\ [Next]_vars => AskedInv'
<1> SUFFICES ASSUME Typed, AskedInv, [Next]_vars PROVE AskedInv'
  OBVIOUS
<1>1. CASE UNCHANGED vars
  BY <1>1 DEF AskedInv, FieldsOfChannel, FieldsOfMedium, HandedOver, SentAsAsked, Answers,
              vars, fieldVars, sentVars, ptsVars
<1> QED BY <1>1, PageAsked, ThreadAsked, OverwrittenAsked DEF Next

LEMMA Asked == Spec => []AskedInv
<1>1. Init => Typed /\ AskedInv
  BY InitTyped DEF Init, AskedInv
<1>2. Typed /\ AskedInv /\ [Next]_vars => (Typed /\ AskedInv)'
  BY NextTyped, NextAsked
<1> QED BY <1>1, <1>2, PTL DEF Spec

\* Every SETUP of an accepted description names its kind, content, rate and times:
\* at the first attempt, at every retry and after a redirect, whatever the medium
\* before left in player and client; as long as the memory of a deleted client is
\* nobody else's.
THEOREM SetupIsWhatWasGiven == Spec => []SetupAsksForGiven
<1>1. AskedInv => SetupAsksForGiven
  BY DEF AskedInv, SentAsAsked, SetupAsksForGiven
<1> QED BY <1>1, Asked, PTL

\* The licence a film is descrambled with is its own, that of a shifted programme
\* none, though the client keeps what it had until the next medium is accepted; as
\* long as the memory of a deleted client is nobody else's.
THEOREM LicenceIsOfMedium == Spec => []LicenceOfMedium
<1>1. AskedInv => LicenceOfMedium
  BY DEF AskedInv, SentAsAsked, FieldsOfMedium, LicenceOfMedium
<1> QED BY <1>1, Asked, PTL

\* PLAY starts at the begin of a film and at the given start of a shifted programme.
THEOREM PlaysFromItsStart == Spec => []PlaysFromStart
<1>1. AskedInv => PlaysFromStart
  BY DEF AskedInv, SentAsAsked, FieldsOfMedium, PlaysFromStart
<1> QED BY <1>1, Asked, PTL

-----------------------------------------------------------------------------
(* The position *)

\* Before the first picture of a vod thread the player has no first time stamp;
\* after it, as long as every look was near, it has the first and the last one.
Followed ==
  IF picture.first = NoPts THEN firstPts = NoPts
  ELSE picture.first # 0 /\ picture.steady =>
         firstPts = picture.first /\ lastPts = (picture.first + picture.moved) % PtsModulus
PositionInv ==
  /\ tpc = "begin" => picture = Black
  /\ stype = "vod" /\ tpc \in {"setup", "play", "licence", "loop"} => Followed

\* A picture that moved by no more than MaxOffset is near, in either direction and
\* across the wrap.
LEMMA NearMove ==
  ASSUME NEW a \in Int, NEW d \in -MaxOffset .. MaxOffset
  PROVE  Near((a + d) % PtsModulus, a % PtsModulus)
<1>1. /\ PtsModulus \in Nat \ {0} /\ MaxOffset \in Nat /\ 2 * MaxOffset < PtsModulus
      /\ d \in Int /\ -MaxOffset <= d /\ d <= MaxOffset
  BY DescriptionAssumption DEF DescriptionAssumption
<1> DEFINE p == (a + d) % PtsModulus
           q == a % PtsModulus
<1>2. CASE d >= 0
  <2>1. d \in 0 .. PtsModulus - 1
    BY <1>1, <1>2
  <2>2. (p - q) % PtsModulus = d
    BY <1>1, <2>1, ModDistance
  <2> HIDE DEF p, q
  <2>3. Near(p, q)
    BY <1>1, <2>2 DEF Near
  <2> QED BY <2>3 DEF p, q
<1>3. CASE d < 0
  <2>1. -d \in 0 .. PtsModulus - 1
    BY <1>1, <1>3
  <2>2. (q - p) % PtsModulus = -d
    BY <1>1, <2>1, ModDistance
  <2> HIDE DEF p, q
  <2>3. Near(p, q)
    BY <1>1, <2>2 DEF Near
  <2> QED BY <2>3 DEF p, q
<1> QED BY <1>1, <1>2, <1>3

LEMMA LookFollowed == ASSUME Typed, PositionInv, Look PROVE Followed'
<1>1. PICK f \in IF picture.first = NoPts THEN FirstPts ELSE {picture.first},
          d \in IF picture.first = NoPts THEN Moves \cap Nat ELSE Moves :
        LET moved == IF f = NoPts THEN 0 ELSE picture.moved + d
            near  == picture.first = NoPts \/ d \in -MaxOffset .. MaxOffset
        IN  /\ picture' = [first |-> f, moved |-> moved, looks |-> picture.looks + 1,
                           steady |-> picture.steady /\ near]
            /\ UpdatePlayPts(f, (f + moved) % PtsModulus)
  BY DEF Look
<1>2. Followed
  BY DEF PositionInv, Look
<1> DEFINE moved == IF f = NoPts THEN 0 ELSE picture.moved + d
           l == (f + moved) % PtsModulus
<1>3. /\ picture'.first = f /\ picture'.moved = moved /\ UpdatePlayPts(f, l)
      /\ picture'.steady => picture.steady /\ (picture.first = NoPts \/ d \in -MaxOffset .. MaxOffset)
  BY <1>1
<1>4. CASE picture.first = NoPts
  <2>1. firstPts = NoPts
    BY <1>2, <1>4 DEF Followed
  <2>2. CASE f = NoPts
    <3>1. UNCHANGED firstPts
      BY <1>3, <2>2 DEF UpdatePlayPts
    <3> QED BY <1>3, <2>1, <2>2, <3>1 DEF Followed, NoPts
  <2>3. CASE f # NoPts
    <3> HIDE DEF l, moved
    <3>1. f # 0 => firstPts' = f /\ lastPts' = l
      BY <1>3, <2>1, <2>3 DEF UpdatePlayPts
    <3> QED BY <1>3, <2>3, <3>1 DEF Followed, NoPts, l
  <2> QED BY <2>2, <2>3
<1>5. CASE picture.first # NoPts
  <2>1. f = picture.first /\ moved = picture.moved + d
    BY <1>1, <1>5
  <2> SUFFICES ASSUME f # 0, picture'.steady PROVE firstPts' = f /\ lastPts' = l
    BY <1>3, <1>5, <2>1 DEF Followed, NoPts
  <2>2. firstPts = f /\ lastPts = (f + picture.moved) % PtsModulus /\ d \in -MaxOffset .. MaxOffset
    BY <1>2, <1>3, <1>5, <2>1 DEF Followed
  <2>3. f \in Int /\ picture.moved \in Int /\ d \in Int
    BY <2>1, <2>2, Clock, DescriptionAssumption DEF Typed, TypeOK, DescriptionAssumption
  <2>4. f + moved = (f + picture.moved) + d /\ f + picture.moved \in Int
    BY <2>1, <2>3
  <2>5. Near((f + picture.moved + d) % PtsModulus, (f + picture.moved) % PtsModulus)
    BY <2>2, <2>4, NearMove
  <2>6. Near(l, lastPts)
    BY <2>2, <2>4, <2>5
  <2> HIDE DEF l, moved
  <2> QED BY <1>3, <1>5, <2>1, <2>2, <2>6 DEF UpdatePlayPts
<1> QED BY <1>4, <1>5

LEMMA NextPosition == Typed /\ PositionInv /\ [Next]_vars => PositionInv'
<1> SUFFICES ASSUME Typed, PositionInv, [Next]_vars PROVE PositionInv'
  OBVIOUS
<1>1. CASE UNCHANGED vars
  BY <1>1 DEF PositionInv, Followed, Black, NoPts, vars, sentVars, ptsVars
<1>2. CASE Page
  <2>1. (tpc' = "begin" /\ picture' = Black) \/ (tpc' = "none" /\ UNCHANGED picture)
    BY <1>2 DEF Page, JoinChannel, SetSingleMedia, PlayAgain, Start, Call, ptsVars
  <2> QED BY <2>1 DEF PositionInv, Black, NoPts
<1>3. CASE HandOver
  <2>1. picture = Black /\ UNCHANGED <<picture, stype>> /\ tpc' = "setup" /\ (stype = "vod" => firstPts' = NoPts)
    BY <1>3 DEF HandOver, PositionInv, pageFrame, playFrame
  <2> QED BY <2>1 DEF PositionInv, Followed, Black, NoPts
<1>4. CASE RtspSETUP \/ RtspPLAY \/ OpenLicence \/ EndThread
  <2>1. UNCHANGED <<ptsVars, stype>> /\ (tpc' = "none" \/ tpc \in {"setup", "play", "licence"}) /\ tpc' # "begin"
    BY <1>4 DEF RtspSETUP, RtspPLAY, OpenLicence, EndThread, Ends, pageFrame, playFrame
  <2> QED BY <2>1 DEF PositionInv, Followed, ptsVars, NoPts
<1>5. CASE Look
  BY <1>5, LookFollowed DEF Look, PositionInv
<1>6. CASE Overwritten
  BY <1>6 DEF Overwritten, PositionInv, Followed, ptsVars, Black, NoPts
<1> QED BY <1>1, <1>2, <1>3, <1>4, <1>5, <1>6 DEF Next, Thread

\* The page is told the distance a film has played, forward and backward, across
\* the wrap of the time stamps: every near picture is taken, and the first one is
\* the origin.  It is about a first time stamp the player takes, neither 0 (for which
\* the page is told 0 for ever) nor all ones.
THEOREM PositionIsTold == Spec => []PositionTold
<1>1. Init => Typed /\ PositionInv
  BY InitTyped DEF Init, PositionInv
<1>2. Typed /\ PositionInv /\ [Next]_vars => (Typed /\ PositionInv)'
  BY NextTyped, NextPosition
<1>3. Typed /\ PositionInv => PositionTold
  <2> SUFFICES ASSUME Typed, PositionInv, tpc = "loop", stype = "vod", picture.first \notin {0, NoPts},
                      picture.steady, picture.moved \in 0 .. PtsModulus - 1
               PROVE  CurrentPlayTime = picture.moved \div Second
    BY DEF PositionTold, Followable
  <2>1. firstPts = picture.first /\ lastPts = (picture.first + picture.moved) % PtsModulus
    BY DEF PositionInv, Followed
  <2>2. /\ picture.first \in 0 .. PtsModulus - 1 /\ picture.first \in Int /\ picture.moved \in Int
        /\ PtsModulus \in Nat \ {0}
    BY Clock DEF Typed, TypeOK
  <2>3. picture.first % PtsModulus = picture.first
    BY <2>2
  <2>4. (lastPts - firstPts) % PtsModulus = picture.moved
    <3>1. (((picture.first + picture.moved) % PtsModulus) - (picture.first % PtsModulus)) % PtsModulus
            = picture.moved
      BY <2>2, ModDistance
    <3> QED BY <2>1, <2>3, <3>1
  <2> QED BY <2>1, <2>4 DEF CurrentPlayTime
<1> QED BY <1>1, <1>2, <1>3, PTL DEF Spec

=============================================================================
