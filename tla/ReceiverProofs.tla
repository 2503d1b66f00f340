---------------------------- MODULE ReceiverProofs ----------------------------
(***************************************************************************)
(* Theorems about Receiver, for any number of players, any line-up and any  *)
(* bounds.                                                                 *)
(***************************************************************************)
EXTENDS Receiver, SequenceTheorems, TLAPS

(* Types *)

\* A thread that has not found its program has a search left.
TriesLeft == \A i \in Inst : pc[i] \in {"tune", "search"} => medium[i].tries # 0
\* A player that is being made or destroyed is not there.
PlayerAbsent ==
  \A i \in Inst : page[1] \in {"START", "making", "END", "closing"} /\ page[2] = i => pc[i] = "gone"
Typed == TypeOK /\ TriesLeft /\ PlayerAbsent

LEMMA NoMediumType == NoMedium \in MediumType
BY ReceiverAssumption DEF NoMedium, MediumType, ReceiverAssumption

LEMMA InitTyped == Init => Typed
<1> SUFFICES ASSUME Init PROVE Typed
  OBVIOUS
<1>1. pc \in [Inst -> Steps] /\ TriesLeft
  BY DEF Init, Steps, TriesLeft
<1>2. medium \in [Inst -> MediumType]
  BY NoMediumType DEF Init
<1>3. page \in Pages \X (Inst \union {0})
  BY DEF Init, Pages
<1>4. /\ curFreq \in [Inst -> Nat] /\ quit \in [Inst -> BOOLEAN] /\ user \in [Things -> Inst \union {0}]
      /\ tunerFreq \in Band \union {0} /\ tuned \in Band \union {0} /\ table \in DOMAIN Lineup \union {0}
  BY DEF Init
<1>5. /\ isScramble \in BOOLEAN /\ key \in Inst \union {0} /\ keys \subseteq Inst
      /\ licence \in {<<>>} \union (Inst \X {"no", "yes", "error"}) /\ ready \in BOOLEAN
      /\ opened \in [Inst -> BOOLEAN]
  BY DEF Init
<1>6. asked \in Seq({"START", "END"}) /\ replies \in Seq({"START", "END"})
  BY DEF Init
<1>7. tunnel \in BOOLEAN /\ timeouts \in Nat /\ calls \in Nat /\ faults \in Nat
  BY DEF Init
<1>8. PlayerAbsent
  BY DEF Init, PlayerAbsent
<1> QED BY <1>1, <1>2, <1>3, <1>4, <1>5, <1>6, <1>7, <1>8 DEF Typed, TypeOK

\* What the steps of a thread do to its record.
LEMMA MediumTypes ==
  ASSUME TypeOK, NEW i \in Inst
  PROVE  /\ Over(i) => medium' \in [Inst -> MediumType]
         /\ \A k \in Kinds : [medium EXCEPT ![i].kind = k] \in [Inst -> MediumType]
         /\ \A r \in {"no", "yes", "error"} : [medium EXCEPT ![i].scramble = r] \in [Inst -> MediumType]
         /\ \A w \in Wants : [medium EXCEPT ![i] = [@ EXCEPT !.freq = w[1], !.prog = w[2], !.tries = MaxTries]]
                               \in [Inst -> MediumType]
         /\ medium[i].tries # 0 => [medium EXCEPT ![i].tries = @ - 1] \in [Inst -> MediumType]
<1>1. medium[i] \in MediumType
  BY DEF TypeOK
<1>2. Over(i) => medium' \in [Inst -> MediumType]
  BY NoMediumType DEF TypeOK, Over
<1>3. ASSUME NEW k \in Kinds PROVE [medium EXCEPT ![i].kind = k] \in [Inst -> MediumType]
  <2>1. [medium[i] EXCEPT !.kind = k] \in MediumType
    BY <1>1 DEF MediumType
  <2> QED BY <2>1 DEF TypeOK
<1>4. ASSUME NEW r \in {"no", "yes", "error"}
      PROVE  [medium EXCEPT ![i].scramble = r] \in [Inst -> MediumType]
  <2>1. [medium[i] EXCEPT !.scramble = r] \in MediumType
    BY <1>1 DEF MediumType
  <2> QED BY <2>1 DEF TypeOK
<1>5. ASSUME NEW w \in Wants
      PROVE  [medium EXCEPT ![i] = [@ EXCEPT !.freq = w[1], !.prog = w[2], !.tries = MaxTries]]
               \in [Inst -> MediumType]
  <2>1. w[1] \in Nat /\ w[2] \in Nat /\ MaxTries \in 0 .. MaxTries
    BY ReceiverAssumption DEF ReceiverAssumption
  <2> DEFINE m == [medium[i] EXCEPT !.freq = w[1], !.prog = w[2], !.tries = MaxTries]
  <2>2. m \in MediumType
    BY <1>1, <2>1 DEF MediumType
  <2> HIDE DEF m
  <2>3. [medium EXCEPT ![i] = m] \in [Inst -> MediumType]
    BY <2>2 DEF TypeOK
  <2> QED BY <2>3 DEF m
<1>6. ASSUME medium[i].tries # 0 PROVE [medium EXCEPT ![i].tries = @ - 1] \in [Inst -> MediumType]
  <2>1. [medium[i] EXCEPT !.tries = @ - 1] \in MediumType
    BY <1>1, <1>6, ReceiverAssumption DEF MediumType, ReceiverAssumption
  <2> QED BY <2>1 DEF TypeOK
<1> QED BY <1>2, <1>3, <1>4, <1>5, <1>6

\* A player that is about to be initialised has no thread.
LEMMA PageGone == ASSUME Typed, NEW i \in Inst, page = <<"making", i>> PROVE pc[i] = "gone"
BY DEF Typed, PlayerAbsent

\* The tuner gets a frequency of its band, or keeps the one it had.
LEMMA TuneToType == ASSUME TypeOK, NEW f PROVE TuneTo(f) \in Band \union {0}
BY DEF TypeOK, TuneTo

\* A table that lists a program was read from a frequency of the line-up.
LEMMA ListedType ==
  ASSUME TypeOK, NEW n, n \in Programs
  PROVE  tuned \in DOMAIN Lineup /\ tuned # 0 /\ n \in Lineup[tuned]
BY ReceiverAssumption DEF Programs, ReceiverAssumption

LEMMA AppendType ==
  ASSUME TypeOK PROVE Append(asked, "START") \in Seq({"START", "END"}) /\ Append(asked, "END") \in Seq({"START", "END"})
BY DEF TypeOK

LEMMA DropKeyType ==
  ASSUME TypeOK, DropKey
  PROVE  isScramble' \in BOOLEAN /\ key' \in Inst \union {0} /\ keys' \subseteq Inst
BY DEF TypeOK, DropKey, keyVars

\* What every action leaves alone or sets plainly.
LEMMA StepKeeps ==
  ASSUME Typed, NEW i \in Inst,
         Make(i) \/ Initialise(i) \/ Destroy(i) \/ GiveTunnelBack(i) \/ Stop(i) \/ Joined(i)
           \/ \E k \in Kinds : Play(i, k)
  PROVE  TypeOK' /\ TriesLeft'
<1> USE DEF Typed, TypeOK, TriesLeft, threadVars, tunerVars, keyVars, decoderVars, gatewayVars, To, Uses, Call, Fault
<1>1. CASE Make(i)
  <2>1. page' \in Pages \X (Inst \union {0})
    BY <1>1 DEF Make, Request, NotOnline, Pages
  <2>2. asked' \in Seq({"START", "END"})
    BY <1>1, AppendType DEF Make, Request, NotOnline
  <2>3. faults' \in Nat /\ calls' \in Nat
    BY <1>1 DEF Make, Request, NotOnline
  <2>4. user' \in [Things -> Inst \union {0}]
    BY <1>1 DEF Make, Request, NotOnline
  <2> QED BY <1>1, <2>1, <2>2, <2>3, <2>4 DEF Make
<1>2. CASE Initialise(i)
  <2>1. pc' \in [Inst -> Steps] /\ page' \in Pages \X (Inst \union {0})
    BY <1>2 DEF Initialise, Steps, Ended, Pages
  <2>2. TriesLeft'
    BY <1>2 DEF Initialise
  <2>3. tuned' \in Band \union {0}
    BY <1>2 DEF Initialise, Scanned
  <2>4. opened' \in [Inst -> BOOLEAN]
    BY <1>2 DEF Initialise
  <2>5. user' \in [Things -> Inst \union {0}]
    BY <1>2 DEF Initialise
  <2>6. faults' \in Nat /\ curFreq' \in [Inst -> Nat]
    BY <1>2 DEF Initialise
  <2> QED BY <1>2, <2>1, <2>2, <2>3, <2>4, <2>5, <2>6 DEF Initialise
<1>3. CASE Destroy(i)
  <2>1. pc' \in [Inst -> Steps] /\ page' \in Pages \X (Inst \union {0})
    BY <1>3 DEF Destroy, Steps, Pages
  <2>2. TriesLeft'
    BY <1>3 DEF Destroy
  <2>3. isScramble' \in BOOLEAN /\ key' \in Inst \union {0} /\ keys' \subseteq Inst
    BY <1>3, DropKeyType DEF Destroy, Close
  <2>4. user' \in [Things -> Inst \union {0}]
    BY <1>3 DEF Destroy, Close
  <2>5. /\ table' \in DOMAIN Lineup \union {0} /\ tuned' \in Band \union {0}
        /\ ready' \in BOOLEAN /\ opened' \in [Inst -> BOOLEAN]
    BY <1>3 DEF Destroy, Close
  <2> QED BY <1>3, <2>1, <2>2, <2>3, <2>4, <2>5 DEF Destroy
<1>4. CASE GiveTunnelBack(i)
  <2>1. page' \in Pages \X (Inst \union {0})
    BY <1>4 DEF GiveTunnelBack, Request, NotOnline, Pages
  <2>2. asked' \in Seq({"START", "END"})
    BY <1>4, AppendType DEF GiveTunnelBack, Request, NotOnline
  <2>3. faults' \in Nat
    BY <1>4 DEF GiveTunnelBack, Request, NotOnline
  <2>4. user' \in [Things -> Inst \union {0}]
    BY <1>4 DEF GiveTunnelBack, Request, NotOnline
  <2> QED BY <1>4, <2>1, <2>2, <2>3, <2>4 DEF GiveTunnelBack
<1>5. CASE Stop(i)
  BY <1>5 DEF Stop, Pages
<1>6. CASE Joined(i)
  BY <1>6 DEF Joined, Pages
<1>7. ASSUME NEW k \in Kinds, Play(i, k) PROVE TypeOK' /\ TriesLeft'
  <2>1. pc' \in [Inst -> Steps]
    BY <1>7 DEF Play, Steps, Setup
  <2>2. medium' \in [Inst -> MediumType]
    BY <1>7, MediumTypes DEF Play
  <2>3. TriesLeft'
    BY <1>7 DEF Play
  <2> QED BY <1>7, <2>1, <2>2, <2>3 DEF Play
<1> QED BY <1>1, <1>2, <1>3, <1>4, <1>5, <1>6, <1>7

LEMMA ThreadKeeps == ASSUME Typed, NEW i \in Inst, Thread(i) PROVE TypeOK' /\ TriesLeft'
<1> USE DEF Typed, TypeOK, TriesLeft, threadVars, tunerVars, keyVars, decoderVars, gatewayVars, To, Uses, Fault
<1>1. CASE Net(i)
  <2>1. pc' \in [Inst -> Steps]
    BY <1>1 DEF Net, Steps, Setup, Ended
  <2>2. medium' \in [Inst -> MediumType] /\ TriesLeft'
    <3>1. CASE To(i, "idle") /\ Over(i)
      BY <1>1, <3>1, MediumTypes DEF Net, Over
    <3>2. ASSUME To(i, "tune"), NEW w \in Wants,
                 medium' = [medium EXCEPT ![i] = [@ EXCEPT !.freq = w[1], !.prog = w[2], !.tries = MaxTries]]
          PROVE  medium' \in [Inst -> MediumType] /\ TriesLeft'
      <4>1. medium' \in [Inst -> MediumType]
        BY <3>2, MediumTypes
      <4>2. medium'[i].tries = MaxTries /\ MaxTries # 0
        BY <3>2, ReceiverAssumption DEF MediumType, ReceiverAssumption
      <4>3. \A j \in Inst : j # i => medium'[j] = medium[j] /\ pc'[j] = pc[j]
        BY <3>2
      <4> QED BY <4>1, <4>2, <4>3
    <3> QED BY <1>1, <3>1, <3>2 DEF Net
  <2> QED BY <1>1, <2>1, <2>2 DEF Net
<1>2. CASE Tune(i)
  <2>0. /\ \E s \in {"search", "idle"} : pc' = [pc EXCEPT ![i] = s]
        /\ \E f \in {medium[i].freq, 0} : curFreq' \in {curFreq, [curFreq EXCEPT ![i] = f]}
    BY <1>2, Zenon DEF Tune, Lost
  <2>1. pc' \in [Inst -> Steps]
    BY <2>0 DEF Steps, Setup, Ended
  <2>2. medium' \in [Inst -> MediumType] /\ medium[i].freq \in Nat
    BY <1>2, MediumTypes DEF Tune, MediumType
  <2>3. TriesLeft'
    BY <1>2 DEF Tune, Over
  <2>4. tunerFreq' \in Band \union {0} /\ tuned' \in Band \union {0}
    BY <1>2, TuneToType DEF Tune
  <2>5. curFreq' \in [Inst -> Nat]
    <3>1. PICK f \in {medium[i].freq, 0} : curFreq' \in {curFreq, [curFreq EXCEPT ![i] = f]}
      BY <2>0
    <3>2. f \in Nat /\ curFreq \in [Inst -> Nat]
      BY <2>2
    <3> QED BY <3>1, <3>2
  <2>6. user' \in [Things -> Inst \union {0}]
    BY <1>2 DEF Tune
  <2>7. faults' \in Nat
    BY <1>2 DEF Tune
  <2> QED BY <1>2, <2>1, <2>2, <2>3, <2>4, <2>5, <2>6, <2>7 DEF Tune
<1>3. CASE Search(i)
  <2>0. pc' = pc \/ \E s \in {"idle", "play", "licence"} : pc' = [pc EXCEPT ![i] = s]
    BY <1>3, Zenon DEF Search, GivesUp
  <2>1. pc' \in [Inst -> Steps]
    BY <2>0 DEF Steps, Setup, Ended
  <2>2. medium' \in [Inst -> MediumType]
    BY <1>3, MediumTypes DEF Search, GivesUp
  <2>3. TriesLeft'
    <3>1. CASE UNCHANGED pc /\ medium' = [medium EXCEPT ![i].tries = @ - 1] /\ medium[i].tries # 1
      <4>1. medium[i].tries \in Nat /\ medium[i].tries # 0
        BY <1>3 DEF Search, MediumType
      <4>2. medium'[i].tries = medium[i].tries - 1
        BY <3>1 DEF MediumType
      <4>3. \A j \in Inst : j # i => medium'[j] = medium[j]
        BY <3>1
      <4> QED BY <3>1, <4>1, <4>2, <4>3
    <3>2. CASE \E s \in {"idle", "play", "licence"} : To(i, s) /\ (Over(i) \/ UNCHANGED medium)
      BY <3>2 DEF Over
    <3> QED BY <1>3, <3>1, <3>2 DEF Search, GivesUp
  <2>4. table' \in DOMAIN Lineup \union {0}
    BY <1>3, ListedType DEF Search
  <2>5. user' \in [Things -> Inst \union {0}] /\ faults' \in Nat
    BY <1>3 DEF Search
  <2> QED BY <1>3, <2>1, <2>2, <2>3, <2>4, <2>5 DEF Search
<1>4. CASE Licence(i)
  <2>1. pc' \in [Inst -> Steps]
    BY <1>4 DEF Licence, Steps, Setup
  <2>2. PICK r \in {"no", "yes", "error"} : medium' = medium \/ medium' = [medium EXCEPT ![i].scramble = r]
    BY <1>4 DEF Licence, Scramble
  <2>3. medium' \in [Inst -> MediumType]
    <3>1. r \in {"no", "yes", "error"}
      BY <2>2
    <3>2. [medium EXCEPT ![i].scramble = r] \in [Inst -> MediumType]
      BY <3>1, MediumTypes
    <3> QED BY <2>2, <3>2
  <2>4. \A j \in Inst : medium'[j].tries = medium[j].tries /\ (j # i => pc'[j] = pc[j]) /\ pc'[i] = "play"
    <3>1. pc'[i] = "play" /\ \A j \in Inst : j # i => pc'[j] = pc[j]
      BY <1>4 DEF Licence
    <3>2. medium[i] \in MediumType
      OBVIOUS
    <3>3. medium'[i] = medium[i] \/ medium'[i] = [medium[i] EXCEPT !.scramble = r]
      BY <2>2
    <3>4. medium'[i].tries = medium[i].tries
      BY <3>2, <3>3 DEF MediumType
    <3>5. \A j \in Inst : j # i => medium'[j] = medium[j]
      BY <2>2
    <3> QED BY <3>1, <3>4, <3>5
  <2>5. TriesLeft'
    BY <2>4
  <2>6. licence' \in {<<>>} \union (Inst \X {"no", "yes", "error"})
    BY <1>4 DEF Licence
  <2>7. faults' \in Nat
    BY <1>4 DEF Licence
  <2> QED BY <1>4, <2>1, <2>3, <2>5, <2>6, <2>7 DEF Licence
<1>5. CASE Start(i)
  <2>1. pc' \in [Inst -> Steps]
    BY <1>5 DEF Start, Steps
  <2>2. TriesLeft'
    BY <1>5 DEF Start
  <2>3. isScramble' \in BOOLEAN /\ key' \in Inst \union {0} /\ keys' \subseteq Inst
    <3>1. UNCHANGED keyVars \/ Descramble(i)
      BY <1>5 DEF Start
    <3>2. CASE Descramble(i)
      BY <3>2 DEF Descramble
    <3> QED BY <3>1, <3>2
  <2>4. user' \in [Things -> Inst \union {0}] /\ faults' \in Nat
    <3>1. UNCHANGED <<user, faults>> \/ Descramble(i)
      BY <1>5 DEF Start
    <3>2. CASE Descramble(i)
      <4>1. user' \in [Things -> Inst \union {0}]
        BY <3>2 DEF Descramble
      <4>2. faults' \in Nat
        BY <3>2 DEF Descramble
      <4> QED BY <4>1, <4>2
    <3> QED BY <3>1, <3>2
  <2> QED BY <1>5, <2>1, <2>2, <2>3, <2>4 DEF Start
<1>6. CASE Loop(i)
  BY <1>6 DEF Loop, Steps
<1>7. CASE Clean(i)
  BY <1>7 DEF Clean, Spend, Steps
<1>8. CASE Halt(i)
  <2>1. pc' \in [Inst -> Steps]
    BY <1>8 DEF Halt, Steps, Ended
  <2>2. medium' \in [Inst -> MediumType]
    BY <1>8, MediumTypes DEF Halt
  <2>3. TriesLeft'
    BY <1>8 DEF Halt, Over
  <2>4. isScramble' \in BOOLEAN /\ key' \in Inst \union {0} /\ keys' \subseteq Inst
    BY <1>8, DropKeyType DEF Halt, Release
  <2>5. user' \in [Things -> Inst \union {0}]
    BY <1>8 DEF Halt
  <2> QED BY <1>8, <2>1, <2>2, <2>3, <2>4, <2>5 DEF Halt, Release
<1> QED BY <1>1, <1>2, <1>3, <1>4, <1>5, <1>6, <1>7, <1>8 DEF Thread

LEMMA GatewayKeeps == ASSUME Typed, Gateway \/ Answered PROVE TypeOK' /\ TriesLeft'
<1> USE DEF Typed, TypeOK, TriesLeft, threadVars, tunerVars, keyVars, decoderVars, Fault
<1>1. CASE Gateway
  <2>1. Head(asked) \in {"START", "END"} /\ Tail(asked) \in Seq({"START", "END"})
    BY <1>1 DEF Gateway
  <2>2. tunnel' \in BOOLEAN
    BY <1>1 DEF Gateway
  <2>4. faults' \in Nat
    BY <1>1 DEF Gateway
  <2>3. user' \in [Things -> Inst \union {0}]
    BY <1>1 DEF Gateway
  <2> QED BY <1>1, <2>1, <2>2, <2>3, <2>4 DEF Gateway
<1>2. CASE Answered
  <2>1. page' \in Pages \X (Inst \union {0})
    BY <1>2 DEF Answered, Pages
  <2>2. asked' \in Seq({"START", "END"})
    BY <1>2 DEF Answered, GiveUp
  <2>3. replies' \in Seq({"START", "END"})
    <3>1. replies' = replies \/ (replies # <<>> /\ replies' = Tail(replies))
      BY <1>2 DEF Answered, GiveUp
    <3>2. replies # <<>> => Tail(replies) \in Seq({"START", "END"})
      OBVIOUS
    <3> QED BY <3>1, <3>2
  <2>4. timeouts' \in Nat /\ faults' \in Nat
    BY <1>2 DEF Answered
  <2> QED BY <1>2, <2>1, <2>2, <2>3, <2>4 DEF Answered
<1> QED BY <1>1, <1>2

LEMMA NextPlayerAbsent == Typed /\ Next => PlayerAbsent'
<1> SUFFICES ASSUME Typed, Next PROVE PlayerAbsent'
  OBVIOUS
<1> USE DEF Typed, TypeOK, To, threadVars, gatewayVars
<1>1. ASSUME NEW i \in Inst,
             Make(i) \/ Initialise(i) \/ Destroy(i) \/ Stop(i) \/ Joined(i) \/ GiveTunnelBack(i)
               \/ \E k \in Kinds : Play(i, k)
      PROVE  PlayerAbsent'
  BY <1>1 DEF PlayerAbsent, Make, Initialise, Destroy, Stop, Joined, GiveTunnelBack, Play, Request, NotOnline
<1>2. ASSUME NEW i \in Inst, Thread(i) PROVE PlayerAbsent'
  <2>1. pc[i] # "gone" /\ UNCHANGED page
    BY <1>2 DEF Thread, Net, Tune, Search, Licence, Start, Loop, Clean, Halt
  <2>2. \A j \in Inst : j # i => pc'[j] = pc[j]
    BY <1>2 DEF Thread, Net, Tune, Search, GivesUp, Licence, Start, Loop, Clean, Halt
  <2> QED BY <2>1, <2>2 DEF PlayerAbsent
<1>3. CASE Gateway \/ Answered
  BY <1>3 DEF PlayerAbsent, Gateway, Answered
<1> QED BY <1>1, <1>2, <1>3 DEF Next

LEMMA NextTyped == Typed /\ [Next]_vars => Typed'
<1> SUFFICES ASSUME Typed, [Next]_vars PROVE Typed'
  OBVIOUS
<1>1. CASE UNCHANGED vars
  BY <1>1 DEF Typed, TypeOK, TriesLeft, PlayerAbsent, vars, threadVars, tunerVars, keyVars, decoderVars, gatewayVars
<1>2. CASE Next
  <2>1. TypeOK' /\ TriesLeft'
    BY <1>2, StepKeeps, ThreadKeeps, GatewayKeeps DEF Next
  <2> QED BY <1>2, <2>1, NextPlayerAbsent DEF Typed
<1> QED BY <1>1, <1>2

\* The types hold in every state: in particular a search is never repeated with
\* none left, and the table is one of the line-up's.
THEOREM TypeCorrect == Spec => []TypeOK
<1>1. Spec => []Typed
  BY InitTyped, NextTyped, PTL DEF Spec
<1>2. Typed => TypeOK
  BY DEF Typed
<1> QED BY <1>1, <1>2, PTL

-----------------------------------------------------------------------------
(* The table *)

\* Only search, stop and close touch the table, and they say so.
LEMMA TableTouched ==
  ASSUME Typed, NEW i \in Inst,
         \/ Make(i) \/ Initialise(i) \/ GiveTunnelBack(i) \/ Stop(i) \/ Joined(i) \/ Net(i) \/ Tune(i)
         \/ (Destroy(i) /\ ~opened[i]) \/ Licence(i) \/ Start(i) \/ Loop(i) \/ Clean(i) \/ (\E k \in Kinds : Play(i, k))
         \/ Gateway \/ Answered
  PROVE  UNCHANGED table /\ user'["table"] = user["table"]
<1> USE DEF Typed, TypeOK, Things, Uses, Request, NotOnline, Descramble, threadVars, tunerVars, keyVars, decoderVars, gatewayVars
<1>1. UNCHANGED table
  BY DEF Make, Initialise, Destroy, GiveTunnelBack, Stop, Joined, Net, Tune, Licence, Start, Loop, Clean,
         Play, Gateway, Answered
<1>2. user'["table"] = user["table"]
  <2>1. CASE Make(i) \/ GiveTunnelBack(i)
    BY <2>1 DEF Make, GiveTunnelBack
  <2>2. CASE Tune(i)
    BY <2>2 DEF Tune
  <2>3. CASE Start(i)
    BY <2>3 DEF Start
  <2> QED BY <2>1, <2>2, <2>3 DEF Initialise, Destroy, Stop, Joined, Net, Licence, Loop, Clean, Play, Gateway, Answered
<1> QED BY <1>1, <1>2

\* Outside the search a player that is at its table keeps medium and step, or
\* goes on towards the decoder.
LEMMA TableKept ==
  ASSUME Typed, TableThere, UNCHANGED table, user'["table"] = user["table"],
         \A j \in Inst : pc'[j] \in {"licence", "play", "crashed"} =>
           /\ pc[j] \in {"licence", "play", "crashed"} /\ medium'[j].prog = medium[j].prog
  PROVE  TableThere'
BY DEF TableThere

LEMMA NextTableThere == Typed /\ TableThere /\ [Next]_vars => TableThere'
<1> SUFFICES ASSUME Typed, TableThere, [Next]_vars PROVE TableThere'
  OBVIOUS
<1> DEFINE Far == {"licence", "play", "crashed"}
<1> USE DEF To, Over, threadVars, tunerVars, keyVars, decoderVars, gatewayVars
<1>1. CASE UNCHANGED vars
  BY <1>1 DEF TableThere, vars
<1>2. ASSUME NEW i \in Inst, Search(i) PROVE TableThere'
  <2>1. user'["table"] = i
    BY <1>2 DEF Search, Uses, Things
  <2>2. CASE pc'[i] \in Far
    <3>1. medium[i].prog \in Programs /\ table' = tuned /\ medium' = medium
      BY <1>2, <2>2 DEF Search, GivesUp, Typed, TypeOK
    <3>2. tuned # 0 /\ medium[i].prog \in Lineup[tuned]
      BY <3>1, ListedType DEF Typed
    <3> QED BY <2>1, <3>1, <3>2 DEF TableThere
  <2> QED BY <2>1, <2>2 DEF TableThere
<1>3. ASSUME NEW i \in Inst, (Destroy(i) /\ opened[i]) \/ Halt(i) PROVE TableThere'
  <2>1. user'["table"] = i
    BY <1>3 DEF Destroy, Close, Halt, Uses, Things
  <2>2. pc'[i] \notin Far
    BY <1>3 DEF Destroy, Halt, Typed, TypeOK
  <2> QED BY <2>1, <2>2 DEF TableThere
<1>4. ASSUME NEW i \in Inst, Licence(i) PROVE TableThere'
  <2>1. PICK r : medium' = medium \/ medium' = [medium EXCEPT ![i].scramble = r]
    BY <1>4 DEF Licence, Scramble
  <2>2. \A j \in Inst : medium'[j].prog = medium[j].prog
    <3>1. medium \in [Inst -> MediumType] /\ medium[i] \in MediumType
      BY DEF Typed, TypeOK
    <3>2. medium'[i] = medium[i] \/ medium'[i] = [medium[i] EXCEPT !.scramble = r]
      BY <2>1, <3>1
    <3>3. medium'[i].prog = medium[i].prog
      BY <3>1, <3>2 DEF MediumType
    <3>4. \A j \in Inst : j # i => medium'[j] = medium[j]
      BY <2>1, <3>1
    <3> QED BY <3>3, <3>4
  <2>3. \A j \in Inst : pc'[j] \in Far => pc[j] \in Far
    BY <1>4 DEF Licence, Typed, TypeOK
  <2> QED BY <1>4, <2>2, <2>3, TableTouched, TableKept
<1>5. ASSUME NEW i \in Inst,
             \/ Initialise(i) \/ (Destroy(i) /\ ~opened[i]) \/ Net(i) \/ Tune(i)
             \/ \E k \in Kinds : Play(i, k)
      PROVE  TableThere'
  <2>1. pc'[i] \notin Far
    BY <1>5 DEF Initialise, Destroy, Net, Tune, Play, Typed, TypeOK
  <2>2. \A j \in Inst : j # i => pc'[j] = pc[j] /\ medium'[j] = medium[j]
    BY <1>5 DEF Initialise, Destroy, Net, Tune, Play, Typed, TypeOK
  <2> QED BY <1>5, <2>1, <2>2, TableTouched, TableKept
<1>6. ASSUME NEW i \in Inst, Start(i) \/ Loop(i) \/ Clean(i) PROVE TableThere'
  <2>1. \A j \in Inst : (pc'[j] \in Far => pc[j] \in Far) /\ medium' = medium
    BY <1>6 DEF Start, Loop, Clean, Typed, TypeOK
  <2> QED BY <1>6, <2>1, TableTouched, TableKept
<1>7. ASSUME NEW i \in Inst, Make(i) \/ GiveTunnelBack(i) \/ Stop(i) \/ Joined(i) \/ Gateway \/ Answered
      PROVE  TableThere'
  <2>1. UNCHANGED <<pc, medium>>
    BY <1>7 DEF Make, GiveTunnelBack, Stop, Joined, Gateway, Answered
  <2> QED BY <1>7, <2>1, TableTouched, TableKept
<1>8. CASE Gateway \/ Answered
  <2>1. CASE Inst = {}
    BY <2>1 DEF TableThere
  <2> QED BY <1>7, <1>8, <2>1
<1> QED BY <1>1, <1>2, <1>3, <1>4, <1>5, <1>6, <1>7, <1>8 DEF Next, Thread

\* DSP_DVBplay never reads the table through HI_NULL, nor misses its program, in
\* the thread whose search was the last to touch the table: searching, giving up
\* and the licence leave the way to the decoder only with the table in place.
THEOREM TableIsThere == Spec => []TableThere
<1>1. Init => TableThere
  BY DEF Init, TableThere
<1>2. Typed /\ TableThere /\ [Next]_vars => (Typed /\ TableThere)'
  BY NextTyped, NextTableThere
<1>3. Init => Typed /\ TableThere
  BY <1>1, InitTyped
<1> QED BY <1>2, <1>3, PTL DEF Spec

-----------------------------------------------------------------------------
(* The tuner *)

LEMMA NextTunedRight == Typed /\ TunedRight /\ [Next]_vars => TunedRight'
<1> SUFFICES ASSUME Typed, TunedRight, [Next]_vars PROVE TunedRight'
  OBVIOUS
<1> USE DEF To, Over, threadVars, tunerVars, keyVars, decoderVars, gatewayVars
<1>1. CASE UNCHANGED vars
  BY <1>1 DEF TunedRight, vars
<1>2. ASSUME NEW i \in Inst, Tune(i) PROVE TunedRight'
  <2>1. CASE UNCHANGED <<tunerVars, curFreq, user>>
    BY <1>2, <2>1 DEF TunedRight, Tune, Typed, TypeOK
  <2>2. CASE user'["tuner"] = i /\ tuned' = TuneTo(medium[i].freq) /\ curFreq' = [curFreq EXCEPT ![i] = medium[i].freq]
    BY <2>2 DEF TunedRight, TuneTo, Typed, TypeOK
  <2>3. CASE user'["tuner"] = i /\ Lost(i)
    BY <2>3 DEF TunedRight, Lost, Band, Typed, TypeOK
  <2> QED BY <1>2, <2>1, <2>2, <2>3 DEF Tune, Uses, Things
<1>3. ASSUME NEW i \in Inst, Initialise(i) PROVE TunedRight'
  <2>1. user'["tuner"] = i /\ curFreq'[i] \notin Band
    BY <1>3 DEF Initialise, Uses, Things, Band, Typed, TypeOK
  <2> QED BY <2>1 DEF TunedRight
<1>4. ASSUME NEW i \in Inst, Destroy(i) PROVE TunedRight'
  <2>1. pc'[i] = "gone" /\ UNCHANGED curFreq /\ \A j \in Inst : j # i => pc'[j] = pc[j]
    BY <1>4 DEF Destroy, Typed, TypeOK
  <2>2. CASE opened[i]
    <3>1. user'["tuner"] = i
      BY <1>4, <2>2 DEF Destroy, Close, Uses, Things
    <3> QED BY <2>1, <3>1 DEF TunedRight
  <2>3. CASE ~opened[i]
    BY <1>4, <2>1, <2>3 DEF Destroy, TunedRight
  <2> QED BY <2>2, <2>3
<1>5. ASSUME UNCHANGED <<tuned, curFreq>>, user'["tuner"] = user["tuner"],
             \A j \in Inst : pc'[j] # "gone" => pc[j] # "gone"
      PROVE  TunedRight'
  BY <1>5 DEF TunedRight
<1>6. ASSUME NEW i \in Inst, Net(i) \/ Search(i) \/ Licence(i) \/ Start(i) \/ Loop(i) \/ Clean(i) \/ Halt(i)
      PROVE  TunedRight'
  <2>1. UNCHANGED <<tuned, curFreq>>
    BY <1>6 DEF Net, Search, Licence, Start, Loop, Clean, Halt
  <2>2. user'["tuner"] = user["tuner"]
    BY <1>6 DEF Net, Search, Licence, Start, Descramble, Loop, Clean, Halt, Uses, Things
  <2>3. \A j \in Inst : pc'[j] # "gone" => pc[j] # "gone"
    BY <1>6 DEF Net, Search, GivesUp, Licence, Start, Loop, Clean, Halt, Typed, TypeOK
  <2> QED BY <1>5, <2>1, <2>2, <2>3
<1>7. ASSUME NEW i \in Inst, Make(i) \/ GiveTunnelBack(i) \/ Stop(i) \/ Joined(i) \/ \E k \in Kinds : Play(i, k)
      PROVE  TunedRight'
  <2>1. UNCHANGED <<tuned, curFreq>>
    BY <1>7 DEF Make, GiveTunnelBack, Stop, Joined, Play
  <2>2. user'["tuner"] = user["tuner"]
    BY <1>7 DEF Make, GiveTunnelBack, Request, NotOnline, Stop, Joined, Play, Typed, TypeOK, Things
  <2>3. \A j \in Inst : pc'[j] # "gone" => pc[j] # "gone"
    BY <1>7 DEF Make, GiveTunnelBack, Stop, Joined, Play, Typed, TypeOK
  <2> QED BY <1>5, <2>1, <2>2, <2>3
<1>8. CASE Gateway \/ Answered
  BY <1>5, <1>8 DEF Gateway, Answered, Typed, TypeOK, Things
<1> QED BY <1>1, <1>2, <1>3, <1>4, <1>6, <1>7, <1>8 DEF Next, Thread

\* A player that skips tuning because cur_freq is what it wants is tuned to it: a
\* tune that failed never leaves cur_freq ahead of the tuner.  Excepted are a
\* frequency outside the band, and a player whose tuner another one took since, by
\* being made, by tuning or by closing it.
THEOREM SkipsOnlyWhatIsTuned == Spec => []TunedRight
<1>1. Init => TunedRight
  BY DEF Init, TunedRight
<1>2. Typed /\ TunedRight /\ [Next]_vars => (Typed /\ TunedRight)'
  BY NextTyped, NextTunedRight
<1>3. Init => Typed /\ TunedRight
  BY <1>1, InitTyped
<1> QED BY <1>2, <1>3, PTL DEF Spec

-----------------------------------------------------------------------------
(* The descrambler *)

\* A descrambler exists only while the flag says so, and the flag is set by a
\* thread that has not yet passed DSP_DVBplay_stop.
KeyInv ==
  /\ ~isScramble => key \notin keys
  /\ \A i \in Inst : user["key"] = i /\ pc[i] \notin {"loop", "clean", "halt", "crashed"} => ~isScramble

LEMMA NextKeyInv == Typed /\ KeyInv /\ [Next]_vars => KeyInv'
<1> SUFFICES ASSUME Typed, KeyInv, [Next]_vars PROVE KeyInv'
  OBVIOUS
<1> DEFINE Past == {"loop", "clean", "halt", "crashed"}
<1> USE DEF To, Over, threadVars, tunerVars, keyVars, decoderVars, gatewayVars
<1>1. ASSUME UNCHANGED keyVars, user'["key"] = user["key"],
             \A j \in Inst : pc[j] \in Past => pc'[j] \in Past
      PROVE  KeyInv'
  BY <1>1 DEF KeyInv
<1>2. CASE UNCHANGED vars
  BY <1>1, <1>2 DEF vars
<1>3. ASSUME NEW i \in Inst, Start(i) PROVE KeyInv'
  <2>1. pc'[i] \in Past /\ \A j \in Inst : j # i => pc'[j] = pc[j]
    BY <1>3 DEF Start, Typed, TypeOK
  <2>2. CASE UNCHANGED <<keyVars, user>>
    BY <1>1, <2>1, <2>2 DEF KeyInv
  <2>3. CASE isScramble' = TRUE /\ user'["key"] = i
    BY <2>1, <2>3 DEF KeyInv
  <2> QED BY <1>3, <2>2, <2>3 DEF Start, Descramble, Uses, Things
<1>4. ASSUME NEW i \in Inst, (Destroy(i) /\ opened[i]) \/ Halt(i) PROVE KeyInv'
  <2>1. DropKey
    BY <1>4 DEF Destroy, Close, Halt, Release
  <2>2. ~isScramble' /\ key' \notin keys'
    BY <2>1 DEF DropKey, KeyInv, Typed, TypeOK
  <2> QED BY <2>2 DEF KeyInv
<1>5. ASSUME NEW i \in Inst, Net(i) \/ Tune(i) \/ Search(i) \/ Licence(i) \/ Loop(i) \/ Clean(i) PROVE KeyInv'
  <2>1. UNCHANGED keyVars
    BY <1>5 DEF Net, Tune, Search, Licence, Loop, Clean
  <2>2. user'["key"] = user["key"]
    BY <1>5 DEF Net, Tune, Search, Licence, Loop, Clean, Uses, Things
  <2>3. \A j \in Inst : pc[j] \in Past => pc'[j] \in Past
    BY <1>5 DEF Net, Tune, Search, GivesUp, Licence, Loop, Clean, Typed, TypeOK
  <2> QED BY <1>1, <2>1, <2>2, <2>3
<1>6. ASSUME NEW i \in Inst,
             \/ Make(i) \/ Initialise(i) \/ (Destroy(i) /\ ~opened[i]) \/ GiveTunnelBack(i)
             \/ Stop(i) \/ Joined(i) \/ \E k \in Kinds : Play(i, k)
      PROVE  KeyInv'
  <2>1. UNCHANGED keyVars
    BY <1>6 DEF Make, Initialise, Destroy, GiveTunnelBack, Stop, Joined, Play
  <2>2. user'["key"] = user["key"]
    BY <1>6 DEF Make, Initialise, Destroy, Uses, GiveTunnelBack, Request, NotOnline, Stop, Joined, Play, Typed, TypeOK, Things
  <2>3. \A j \in Inst : pc[j] \in Past => pc'[j] \in Past
    <3>1. CASE Initialise(i)
      BY <3>1, PageGone DEF Initialise, Typed, TypeOK
    <3> QED BY <1>6, <3>1 DEF Make, Destroy, Ended, GiveTunnelBack, Stop, Joined, Play, Typed, TypeOK
  <2> QED BY <1>1, <2>1, <2>2, <2>3
<1>7. CASE Gateway \/ Answered
  BY <1>1, <1>7 DEF Gateway, Answered, Typed, TypeOK, Things
<1> QED BY <1>2, <1>3, <1>4, <1>5, <1>6, <1>7 DEF Next, Thread

\* The descrambler made for a film is gone when its thread has ended, whether the
\* film ended, was stopped or never started, unless the other player used it since.
THEOREM NoKeyLeft == Spec => []KeyDropped
<1>1. Init => KeyInv
  BY DEF Init, KeyInv
<1>2. Typed /\ KeyInv /\ [Next]_vars => (Typed /\ KeyInv)'
  BY NextTyped, NextKeyInv
<1>3. Init => Typed /\ KeyInv
  BY <1>1, InitTyped
<1>4. KeyInv => KeyDropped
  BY DEF KeyInv, KeyDropped, Ended
<1> QED BY <1>2, <1>3, <1>4, PTL DEF Spec

-----------------------------------------------------------------------------
(* The licence *)

\* The file of a film accepted as scrambled is there only while its writer is between the
\* licence and the counting, and knows that the film is scrambled.
LicenceInv ==
  licence # <<>> /\ licence[2] = "yes" =>
    /\ pc[licence[1]] \in {"play", "loop", "clean", "crashed"}
    /\ medium[licence[1]].scramble = "yes"

LEMMA NextLicenceInv == Typed /\ LicenceInv /\ [Next]_vars => LicenceInv'
<1> SUFFICES ASSUME Typed, LicenceInv, [Next]_vars PROVE LicenceInv'
  OBVIOUS
<1> DEFINE Holds == {"play", "loop", "clean", "crashed"}
<1> USE DEF To, Over, threadVars, tunerVars, keyVars, decoderVars, gatewayVars
<1>1. ASSUME UNCHANGED licence,
             \A j \in Inst : pc[j] \in Holds => pc'[j] \in Holds /\ medium'[j].scramble = medium[j].scramble
      PROVE  LicenceInv'
  <2> SUFFICES ASSUME licence # <<>>, licence[2] = "yes"
               PROVE  pc'[licence[1]] \in Holds /\ medium'[licence[1]].scramble = "yes"
    BY <1>1 DEF LicenceInv
  <2>1. licence[1] \in Inst
    BY DEF Typed, TypeOK
  <2> QED BY <1>1, <2>1 DEF LicenceInv
<1>2. CASE UNCHANGED vars
  BY <1>1, <1>2 DEF vars
<1>3. ASSUME NEW i \in Inst, Licence(i) PROVE LicenceInv'
  <2>1. pc' = [pc EXCEPT ![i] = "play"] /\ medium[i] \in MediumType
    BY <1>3 DEF Licence, Typed, TypeOK
  <2>2. CASE UNCHANGED licence
    <3>1. \A j \in Inst : pc[j] \in Holds => j # i
      BY <1>3 DEF Licence
    <3>2. \A j \in Inst : j # i => pc'[j] = pc[j] /\ medium'[j] = medium[j]
      BY <1>3 DEF Licence, Scramble, Typed, TypeOK
    <3> QED BY <1>1, <2>2, <3>1, <3>2
  <2>3. ASSUME NEW r \in {"yes", "no", "error"}, licence' = <<i, r>>, Scramble(i, r)
        PROVE  LicenceInv'
    <3> SUFFICES ASSUME r = "yes" PROVE pc'[i] = "play" /\ medium'[i].scramble = "yes"
      BY <2>3 DEF LicenceInv
    <3>1. medium'[i] = [medium[i] EXCEPT !.scramble = "yes"]
      BY <2>3 DEF Scramble, Typed, TypeOK
    <3>2. medium'[i].scramble = "yes"
      BY <2>1, <3>1 DEF MediumType
    <3> QED BY <2>1, <3>2 DEF Typed, TypeOK
  <2> QED BY <1>3, <2>2, <2>3 DEF Licence
<1>4. ASSUME NEW i \in Inst, Clean(i) PROVE LicenceInv'
  <2>1. CASE medium[i].scramble = "yes"
    BY <1>4, <2>1 DEF Clean, Spend, LicenceInv
  <2>2. CASE medium[i].scramble # "yes"
    <3> SUFFICES ASSUME licence # <<>>, licence[2] = "yes"
                 PROVE  pc'[licence[1]] \in Holds /\ medium'[licence[1]].scramble = "yes"
      BY <1>4, <2>2 DEF Clean, Spend, LicenceInv
    <3>1. licence[1] \in Inst /\ licence[1] # i
      BY <2>2 DEF LicenceInv, Typed, TypeOK
    <3> QED BY <1>4, <3>1 DEF Clean, LicenceInv, Typed, TypeOK
  <2> QED BY <2>1, <2>2
<1>5. ASSUME NEW i \in Inst, Start(i) \/ Loop(i) PROVE LicenceInv'
  BY <1>1, <1>5 DEF Start, Loop, Typed, TypeOK
<1>6. ASSUME NEW i \in Inst, Net(i) \/ Tune(i) \/ Search(i) \/ Halt(i) \/ Destroy(i) PROVE LicenceInv'
  <2>1. pc[i] \notin Holds /\ UNCHANGED licence
    BY <1>6 DEF Net, Tune, Search, Halt, Destroy, Ended
  <2>2. \A j \in Inst : j # i => pc'[j] = pc[j] /\ medium'[j] = medium[j]
    BY <1>6 DEF Net, Tune, Search, GivesUp, Halt, Destroy, Typed, TypeOK
  <2> QED BY <1>1, <2>1, <2>2
<1>7. ASSUME NEW i \in Inst, NEW k \in Kinds, Play(i, k) PROVE LicenceInv'
  <2>1. pc[i] \notin Holds /\ UNCHANGED licence
    BY <1>7 DEF Play
  <2>2. \A j \in Inst : j # i => pc'[j] = pc[j] /\ medium'[j] = medium[j]
    BY <1>7 DEF Play, Typed, TypeOK
  <2> QED BY <1>1, <2>1, <2>2
<1>8. ASSUME NEW i \in Inst, Initialise(i) PROVE LicenceInv'
  <2>1. \A j \in Inst : pc[j] \in Holds => pc'[j] \in Holds
    BY <1>8, PageGone DEF Initialise, Typed, TypeOK
  <2> QED BY <1>1, <1>8, <2>1 DEF Initialise
<1>9. ASSUME NEW i \in Inst, Make(i) \/ GiveTunnelBack(i) \/ Stop(i) \/ Joined(i) PROVE LicenceInv'
  BY <1>1, <1>9 DEF Make, GiveTunnelBack, Stop, Joined
<1>10. CASE Gateway \/ Answered
  BY <1>1, <1>10 DEF Gateway, Answered
<1> QED BY <1>2, <1>3, <1>4, <1>5, <1>6, <1>7, <1>8, <1>9, <1>10 DEF Next, Thread

\* The licence of a film that parse_cw_from_license accepted as scrambled is counted
\* down and its file removed before the thread that wrote it ends, whatever ended it.
THEOREM LicenceIsSpent == Spec => []LicenceSpent
<1>1. Init => LicenceInv
  BY DEF Init, LicenceInv
<1>2. Typed /\ LicenceInv /\ [Next]_vars => (Typed /\ LicenceInv)'
  BY NextTyped, NextLicenceInv
<1>3. Init => Typed /\ LicenceInv
  BY <1>1, InitTyped
<1>4. LicenceInv => LicenceSpent
  BY DEF LicenceInv, LicenceSpent, Ended
<1> QED BY <1>2, <1>3, <1>4, PTL DEF Spec

-----------------------------------------------------------------------------
(* The tunnel *)

\* What the gateway will have done when it has taken all requests.
TunnelWanted == IF asked = <<>> THEN tunnel ELSE asked[Len(asked)] = "START"

\* Whoever asked last wants the tunnel as long as it exists, is being made, or
\* has not given it back yet.
Wanting(i) == pc[i] # "gone" \/ page \in {<<"START", i>>, <<"making", i>>, <<"closing", i>>}
TunnelInv == \A i \in Inst : user["tunnel"] = i => (TunnelWanted <=> Wanting(i))

LEMMA TailLast ==
  ASSUME NEW S, NEW q \in Seq(S), q # <<>>, Len(q) # 1
  PROVE  Tail(q) # <<>> /\ Tail(q)[Len(Tail(q))] = q[Len(q)]
<1>1. Len(q) \in Nat /\ Len(q) # 0
  BY EmptySeq
<1>2. Len(Tail(q)) = Len(q) - 1 /\ Tail(q) \in Seq(S)
  BY HeadTailProperties
<1>3. Tail(q) # <<>>
  <2>1. Len(Tail(q)) # 0
    BY <1>1, <1>2
  <2>2. Len(<<>>) = 0
    BY EmptySeq
  <2> QED BY <2>1, <2>2
<1>4. Tail(q)[Len(q) - 1] = q[Len(q)]
  BY <1>1, <1>2, HeadTailProperties
<1> QED BY <1>2, <1>3, <1>4

\* The gateway may have refused the last request: then nobody relies on the tunnel.
Refused == Len(asked) = 1 /\ user'["tunnel"] = 0

\* A request is wanted next; the gateway's step changes nothing about that.
LEMMA WantedNext ==
  ASSUME Typed
  PROVE  /\ \A r \in {"START", "END"} : asked' = Append(asked, r) => (TunnelWanted' <=> r = "START")
         /\ Gateway /\ ~Refused => (TunnelWanted' <=> TunnelWanted)
<1> USE DEF Typed, TypeOK, TunnelWanted
<1>1. ASSUME NEW r \in {"START", "END"}, asked' = Append(asked, r) PROVE TunnelWanted' <=> r = "START"
  <2>1. asked' # <<>> /\ asked'[Len(asked')] = r
    BY <1>1, AppendProperties
  <2> QED BY <2>1
<1>2. ASSUME Gateway, ~Refused PROVE TunnelWanted' <=> TunnelWanted
  <2>1. asked # <<>> /\ asked' = Tail(asked) /\ (Len(asked) = 1 => tunnel' = (asked[1] = "START"))
    BY <1>2 DEF Gateway, Refused, Things
  <2>2. CASE Len(asked) = 1
    <3>1. asked' = <<>>
      BY <2>1, <2>2
    <3> QED BY <2>1, <2>2, <3>1
  <2>3. CASE Len(asked) # 1
    BY <2>1, <2>3, TailLast
  <2> QED BY <2>2, <2>3
<1> QED BY <1>1, <1>2

LEMMA NextTunnelInv == Typed /\ TunnelInv /\ [Next]_vars => TunnelInv'
<1> SUFFICES ASSUME Typed, TunnelInv, [Next]_vars PROVE TunnelInv'
  OBVIOUS
<1> USE DEF To, threadVars, tunerVars, keyVars, decoderVars, gatewayVars
<1>1. ASSUME UNCHANGED <<asked, tunnel>>, user'["tunnel"] = user["tunnel"],
             \A j \in Inst : Wanting(j)' <=> Wanting(j)
      PROVE  TunnelInv'
  BY <1>1 DEF TunnelInv, TunnelWanted
<1>2. CASE UNCHANGED vars
  BY <1>1, <1>2 DEF vars, Wanting
<1>3. ASSUME NEW i \in Inst, Make(i) PROVE TunnelInv'
  <2>1. CASE Request(i, "START")
    <3>1. TunnelWanted'
      BY <2>1, WantedNext DEF Request
    <3>2. Wanting(i)'
      BY <2>1 DEF Request, Wanting
    <3>3. user'["tunnel"] = i
      BY <2>1 DEF Request, Typed, TypeOK, Things
    <3> QED BY <3>1, <3>2, <3>3 DEF TunnelInv
  <2>2. CASE NotOnline(i, <<"making", i>>)
    BY <2>2, ReceiverAssumption DEF NotOnline, TunnelInv, ReceiverAssumption, Typed, TypeOK, Things
  <2> QED BY <1>3, <2>1, <2>2 DEF Make
<1>4. ASSUME NEW i \in Inst, GiveTunnelBack(i) PROVE TunnelInv'
  <2>1. CASE Request(i, "END")
    <3>1. ~TunnelWanted'
      BY <2>1, WantedNext DEF Request
    <3>2. ~Wanting(i)'
      BY <1>4, <2>1 DEF GiveTunnelBack, Request, Wanting, Typed, PlayerAbsent
    <3>3. user'["tunnel"] = i
      BY <2>1 DEF Request, Typed, TypeOK, Things
    <3> QED BY <3>1, <3>2, <3>3 DEF TunnelInv
  <2>2. CASE NotOnline(i, <<"free", 0>>)
    BY <2>2, ReceiverAssumption DEF NotOnline, TunnelInv, ReceiverAssumption, Typed, TypeOK, Things
  <2> QED BY <1>4, <2>1, <2>2 DEF GiveTunnelBack
<1>5. ASSUME NEW i \in Inst, Initialise(i) PROVE TunnelInv'
  <2>1. UNCHANGED <<asked, tunnel>> /\ user'["tunnel"] = user["tunnel"]
        /\ page = <<"making", i>> /\ page' = <<"free", 0>>
    BY <1>5 DEF Initialise, Uses, Things
  <2>2. pc'[i] = "idle" /\ \A j \in Inst : j # i => pc'[j] = pc[j]
    BY <1>5 DEF Initialise, Typed, TypeOK
  <2>3. \A j \in Inst : Wanting(j)' <=> Wanting(j)
    BY <2>1, <2>2 DEF Wanting
  <2> QED BY <1>1, <2>1, <2>3
<1>6. ASSUME NEW i \in Inst, Destroy(i) PROVE TunnelInv'
  <2>1. UNCHANGED <<asked, tunnel>> /\ user'["tunnel"] = user["tunnel"]
    BY <1>6 DEF Destroy, Close, Uses, Things
  <2>2. pc[i] # "gone" /\ pc'[i] = "gone" /\ \A j \in Inst : j # i => pc'[j] = pc[j]
    BY <1>6 DEF Destroy, Ended, Typed, TypeOK
  <2>3. page[1] = "free" /\ page' = <<"closing", i>>
    BY <1>6 DEF Destroy
  <2>4. \A j \in Inst : Wanting(j)' <=> Wanting(j)
    BY <2>2, <2>3 DEF Wanting
  <2> QED BY <1>1, <2>1, <2>4
<1>7. ASSUME NEW i \in Inst, Stop(i) \/ Joined(i) PROVE TunnelInv'
  <2>1. \A j \in Inst : Wanting(j)' <=> Wanting(j)
    BY <1>7 DEF Stop, Joined, Wanting
  <2> QED BY <1>1, <1>7, <2>1 DEF Stop, Joined
<1>8. ASSUME NEW i \in Inst, Thread(i) \/ \E k \in Kinds : Play(i, k) PROVE TunnelInv'
  <2>1. UNCHANGED <<asked, tunnel, page>>
    BY <1>8 DEF Thread, Net, Tune, Search, Licence, Start, Loop, Clean, Halt, Play
  <2>2. user'["tunnel"] = user["tunnel"]
    BY <1>8 DEF Thread, Net, Tune, Search, Licence, Start, Descramble, Loop, Clean, Halt, Play, Uses, Things
  <2>3. \A j \in Inst : pc'[j] # "gone" <=> pc[j] # "gone"
    BY <1>8 DEF Thread, Net, Tune, Search, GivesUp, Licence, Start, Loop, Clean, Halt, Play, Typed, TypeOK
  <2> QED BY <1>1, <2>1, <2>2, <2>3 DEF Wanting
<1>9. CASE Gateway
  <2>1. UNCHANGED <<pc, page>> /\ user'["tunnel"] \in {user["tunnel"], 0}
    BY <1>9 DEF Gateway, Typed, TypeOK, Things
  <2>2. CASE user'["tunnel"] = 0
    BY <2>2, ReceiverAssumption DEF TunnelInv, ReceiverAssumption
  <2>3. CASE user'["tunnel"] = user["tunnel"] /\ user'["tunnel"] # 0
    <3>1. TunnelWanted' <=> TunnelWanted
      BY <1>9, <2>3, WantedNext DEF Refused
    <3> QED BY <2>1, <2>3, <3>1 DEF TunnelInv, Wanting
  <2> QED BY <2>1, <2>2, <2>3
<1>10. CASE Answered
  <2>1. UNCHANGED <<asked, tunnel, user, pc>>
    BY <1>10 DEF Answered, GiveUp
  <2>2. page = <<page[1], page[2]>> /\ page[1] \in {"START", "END"}
    BY <1>10 DEF Answered, Typed, TypeOK
  <2>3. \A j \in Inst : Wanting(j)' <=> Wanting(j)
    BY <1>10, <2>1, <2>2 DEF Answered, Wanting
  <2> QED BY <1>1, <2>1, <2>3
<1> QED BY <1>2, <1>3, <1>4, <1>5, <1>6, <1>7, <1>8, <1>9, <1>10 DEF Next

\* The tunnel follows the players: once the gateway has done what it was asked,
\* it is open exactly if the player that asked last, and was not refused, exists,
\* however many requests were given up and answered late.
THEOREM TunnelFollowsPlayers == Spec => []TunnelFollows
<1>1. Init => TunnelInv
  BY ReceiverAssumption DEF Init, TunnelInv, Things, ReceiverAssumption
<1>2. Typed /\ TunnelInv /\ [Next]_vars => (Typed /\ TunnelInv)'
  BY NextTyped, NextTunnelInv
<1>3. Init => Typed /\ TunnelInv
  BY <1>1, InitTyped
<1>4. TunnelInv => TunnelFollows
  BY DEF TunnelInv, TunnelWanted, Wanting, TunnelFollows
<1> QED BY <1>2, <1>3, <1>4, PTL DEF Spec

-----------------------------------------------------------------------------
(* The replies *)

Waiting == IF page[1] \in {"START", "END"} THEN 1 ELSE 0

LEMMA NextRepliesInStep == Typed /\ RepliesInStep /\ [Next]_vars => RepliesInStep'
<1> SUFFICES ASSUME Typed, RepliesInStep, [Next]_vars PROVE RepliesInStep'
  OBVIOUS
<1> USE DEF threadVars, tunerVars, keyVars, decoderVars, gatewayVars
<1>1. Len(asked) \in Nat /\ Len(replies) \in Nat /\ timeouts \in Nat
      /\ Len(asked) + Len(replies) = timeouts + Waiting
  BY DEF Typed, TypeOK, RepliesInStep, Waiting
<1>2. ASSUME UNCHANGED <<asked, replies, timeouts>>, Waiting' = Waiting PROVE RepliesInStep'
  BY <1>2 DEF RepliesInStep, Waiting
<1>3. CASE UNCHANGED vars
  BY <1>2, <1>3 DEF vars, Waiting
<1>4. ASSUME NEW i \in Inst, NEW r \in {"START", "END"}, Request(i, r), Waiting = 0, UNCHANGED <<replies, timeouts>>
      PROVE  RepliesInStep'
  <2>1. Len(asked') = Len(asked) + 1 /\ page'[1] \in {"START", "END"}
    BY <1>4 DEF Request, Typed, TypeOK
  <2> QED BY <1>1, <1>4, <2>1 DEF RepliesInStep
<1>5. ASSUME NEW i \in Inst, Make(i) PROVE RepliesInStep'
  <2>1. Waiting = 0 /\ UNCHANGED <<replies, timeouts>>
    BY <1>5 DEF Make, Waiting
  <2>2. CASE NotOnline(i, <<"making", i>>)
    BY <1>2, <2>1, <2>2 DEF NotOnline, Waiting
  <2> QED BY <1>4, <1>5, <2>1, <2>2 DEF Make
<1>6. ASSUME NEW i \in Inst, GiveTunnelBack(i) PROVE RepliesInStep'
  <2>1. Waiting = 0 /\ UNCHANGED <<replies, timeouts>>
    BY <1>6 DEF GiveTunnelBack, Waiting
  <2>2. CASE NotOnline(i, <<"free", 0>>)
    BY <1>2, <2>1, <2>2 DEF NotOnline, Waiting
  <2> QED BY <1>4, <1>6, <2>1, <2>2 DEF GiveTunnelBack
<1>7. ASSUME NEW i \in Inst, Initialise(i) \/ Destroy(i) \/ Stop(i) \/ Joined(i) PROVE RepliesInStep'
  <2>1. UNCHANGED <<asked, replies, timeouts>> /\ Waiting = 0 /\ Waiting' = 0
    BY <1>7 DEF Initialise, Destroy, Stop, Joined, Waiting
  <2> QED BY <1>2, <2>1
<1>8. ASSUME NEW i \in Inst, Thread(i) \/ \E k \in Kinds : Play(i, k) PROVE RepliesInStep'
  <2>1. UNCHANGED gatewayVars
    BY <1>8 DEF Thread, Net, Tune, Search, Licence, Start, Loop, Clean, Halt, Play
  <2> QED BY <1>2, <2>1 DEF Waiting
<1>9. CASE Gateway
  <2>1. Len(asked') = Len(asked) - 1 /\ Len(replies') = Len(replies) + 1
    BY <1>9 DEF Gateway, Typed, TypeOK
  <2>2. UNCHANGED <<timeouts, page>>
    BY <1>9 DEF Gateway
  <2> QED BY <1>1, <2>1, <2>2 DEF RepliesInStep, Waiting
<1>10. CASE Answered
  <2>1. Waiting = 1 /\ Waiting' = 0
    BY <1>10 DEF Answered, Waiting
  <2>2. CASE replies # <<>> /\ replies' = Tail(replies) /\ UNCHANGED <<asked, timeouts>>
    <3>1. Len(replies') = Len(replies) - 1
      BY <2>2 DEF Typed, TypeOK
    <3> QED BY <1>1, <2>1, <2>2, <3>1 DEF RepliesInStep, Waiting
  <2>3. CASE timeouts' = timeouts + 1 /\ UNCHANGED <<asked, replies>>
    BY <1>1, <2>1, <2>3 DEF RepliesInStep, Waiting
  <2> QED BY <1>10, <2>2, <2>3 DEF Answered, GiveUp
<1> QED BY <1>3, <1>5, <1>6, <1>7, <1>8, <1>9, <1>10 DEF Next

\* Requests and replies stay in step but for the requests given up: each of those
\* leaves one reply that the next request takes for its own.
THEOREM RepliesCounted == Spec => []RepliesInStep
<1>1. Init => RepliesInStep
  BY DEF Init, RepliesInStep
<1>2. Typed /\ RepliesInStep /\ [Next]_vars => (Typed /\ RepliesInStep)'
  BY NextTyped, NextRepliesInStep
<1>3. Init => Typed /\ RepliesInStep
  BY <1>1, InitTyped
<1> QED BY <1>2, <1>3, PTL DEF Spec

=============================================================================
