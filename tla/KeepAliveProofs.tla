--------------------------- MODULE KeepAliveProofs ---------------------------
(***************************************************************************)
(* Theorems about KeepAlive, for every value of its constants.             *)
(***************************************************************************)
EXTENDS KeepAlive, SequenceTheorems, WellFoundedInduction, TLAPS

(* Types *)

\* A set of naturals with an element has a least one.
LEMMA Least ==
  ASSUME NEW at \in SUBSET Nat, at # {}
  PROVE  \E i \in at : \A j \in at : i <= j
<1> DEFINE R == {ss \in Nat \X Nat : ss[1] < ss[2]}
<1>0. OpToRel(<, Nat) = R
  BY Zenon DEF OpToRel
<1>1. IsWellFoundedOn(R, Nat)
  BY <1>0, NatLessThanWellFounded, Zenon
<1>2. \E i \in at : \A j \in at : ~(<<j, i>> \in R)
  <2> HIDE DEF R
  <2> QED BY <1>1, WFMin
<1>3. \A i, j \in Nat : <<j, i>> \notin R => i <= j
  <2> SUFFICES ASSUME NEW i \in Nat, NEW j \in Nat, ~(i <= j) PROVE <<j, i>> \in R
    OBVIOUS
  <2>1. j < i
    OBVIOUS
  <2> QED BY <2>1
<1> HIDE DEF R
<1> QED BY <1>2, <1>3

\* What a parser sees of a read comes from the messages read.
LEMMA ReceivedType ==
  ASSUME NEW q \in Seq(Replies \union Notices), q # <<>>
  PROVE  /\ Received(q) \in [front : Replies \union Notices \union {"none"},
                             notice : Notices \union {"none"}]
         /\ Received(q).front = q[1] /\ 1 \in 1 .. Len(q)
<1> DEFINE at == {i \in 1 .. Len(q) : q[i] \in Notices}
           n  == IF at = {} THEN "none" ELSE q[CHOOSE i \in at : \A j \in at : i <= j]
<1>1. Len(q) \in Nat /\ Head(q) = q[1] /\ 1 \in 1 .. Len(q) /\ q[1] \in Replies \union Notices
  OBVIOUS
<1>2. n \in Notices \union {"none"}
  <2>1. CASE at = {}
    BY <2>1
  <2>2. CASE at # {}
    <3>1. \E i \in at : \A j \in at : i <= j
      <4>1. at \in SUBSET Nat
        BY <1>1
      <4> HIDE DEF at
      <4> QED BY <2>2, <4>1, Least
    <3> DEFINE m == CHOOSE i \in at : \A j \in at : i <= j
    <3>2. m \in at
      <4> HIDE DEF at
      <4> QED BY <3>1
    <3>3. q[m] \in Notices
      <4> HIDE DEF m
      <4> QED BY <3>2
    <3> QED BY <2>2, <3>3
  <2> QED BY <2>1, <2>2
<1>3. Received(q) = [front |-> Head(q), notice |-> n]
  BY DEF Received
<1> HIDE DEF n
<1> QED BY <1>1, <1>2, <1>3

LEMMA InitTypeOK == Init => TypeOK
<1> SUFFICES ASSUME Init PROVE TypeOK
  OBVIOUS
<1> USE KeepAliveAssumption DEF KeepAliveAssumption, Init
<1>1. MsTypes
  BY DEF MsTypes
<1>2. SsTypes
  BY DEF SsTypes
<1>3. PlayerTypes
  BY DEF PlayerTypes
<1>4. SocketTypes
  BY DEF SocketTypes, Empty
<1>5. CountTypes
  BY DEF CountTypes
<1>6. FlagTypes
  BY DEF FlagTypes
<1> QED BY <1>1, <1>2, <1>3, <1>4, <1>5, <1>6 DEF TypeOK

LEMMA CrashType == TypeOK /\ Crash => TypeOK'
<1> SUFFICES ASSUME TypeOK, Crash PROVE TypeOK'
  OBVIOUS
<1> USE KeepAliveAssumption DEF KeepAliveAssumption, Crash, TypeOK, boundVars
<1>1. MsTypes'
  BY DEF MsTypes
<1>2. SsTypes'
  BY DEF SsTypes
<1>3. PlayerTypes'
  BY DEF PlayerTypes
<1>4. SocketTypes'
  BY DEF SocketTypes, Empty
<1>5. CountTypes'
  BY DEF CountTypes
<1>6. FlagTypes'
  BY DEF FlagTypes
<1> QED BY <1>1, <1>2, <1>3, <1>4, <1>5, <1>6

\* A read leaves in rx_buffer what a parser can see, and an empty socket.
LEMMA ReadType ==
  ASSUME SocketTypes, Arrived, TakeInbox
  PROVE  /\ rx' \in [front : Replies \union Notices \union {"none"}, notice : Notices \union {"none"}]
         /\ inbox' = <<>>
BY ReceivedType DEF SocketTypes, Arrived, TakeInbox

LEMMA EmptyType ==
  Empty \in [front : Replies \union Notices \union {"none"}, notice : Notices \union {"none"}]
BY DEF Empty

LEMMA NextTypeOK == TypeOK /\ [Next]_vars => TypeOK'
<1> SUFFICES ASSUME TypeOK, [Next]_vars PROVE TypeOK'
  OBVIOUS
<1> USE KeepAliveAssumption DEF KeepAliveAssumption, TypeOK, beatVars, bufVars, cmdVars, ssVars, netVars, boundVars, histVars
<1>1. CASE MsArgs
  <2>1. MsTypes'
    BY <1>1 DEF MsArgs, MsTypes
  <2>2. SsTypes'
    BY <1>1 DEF MsArgs, SsTypes
  <2>3. PlayerTypes'
    BY <1>1 DEF MsArgs, PlayerTypes
  <2>4. SocketTypes'
    BY <1>1 DEF MsArgs, SocketTypes
  <2>5. CountTypes'
    BY <1>1 DEF MsArgs, CountTypes
  <2>6. FlagTypes'
    BY <1>1 DEF MsArgs, FlagTypes
  <2> QED BY <2>1, <2>2, <2>3, <2>4, <2>5, <2>6
<1>2. CASE Fill
  <2>1. MsTypes'
    BY <1>2 DEF Fill, MsTypes
  <2>2. SsTypes'
    BY <1>2 DEF Fill, SsTypes
  <2>3. PlayerTypes'
    BY <1>2 DEF Fill, PlayerTypes
  <2>4. SocketTypes'
    BY <1>2 DEF Fill, SocketTypes
  <2>5. CountTypes'
    BY <1>2 DEF Fill, CountTypes
  <2>6. FlagTypes'
    BY <1>2 DEF Fill, FlagTypes
  <2> QED BY <2>1, <2>2, <2>3, <2>4, <2>5, <2>6
<1>3. CASE Send
  <2>1. MsTypes'
    BY <1>3 DEF Send, MsTypes
  <2>2. SsTypes'
    BY <1>3 DEF Send, SsTypes
  <2>3. PlayerTypes'
    BY <1>3 DEF Send, PlayerTypes
  <2>4. SocketTypes'
    BY <1>3 DEF Deliver, Send, SocketTypes
  <2>5. CountTypes'
    BY <1>3 DEF Send, CountTypes
  <2>6. FlagTypes'
    BY <1>3 DEF Send, FlagTypes
  <2> QED BY <2>1, <2>2, <2>3, <2>4, <2>5, <2>6
<1>4. CASE Recv
  <2>1. MsTypes'
    BY <1>4 DEF Missed, Recv, MsTypes
  <2>2. SsTypes'
    BY <1>4 DEF Recv, SsTypes
  <2>3. PlayerTypes'
    BY <1>4 DEF Recv, PlayerTypes
  <2>4. SocketTypes'
    <3>1. UNCHANGED <<tx, wire, server, sm>>
      BY <1>4 DEF Recv
    <3>2. CASE Arrived /\ TakeInbox
      <4>1. SocketTypes
        OBVIOUS
      <4>2. /\ rx' \in [front : Replies \union Notices \union {"none"}, notice : Notices \union {"none"}]
            /\ inbox' = <<>>
        BY <3>2, <4>1, ReadType
      <4>3. inbox' \in Seq(Replies \union Notices)
        BY <4>2
      <4> QED BY <3>1, <4>2, <4>3 DEF SocketTypes
    <3>3. CASE rx' = Empty /\ UNCHANGED inbox
      BY <3>1, <3>3, EmptyType DEF SocketTypes
    <3>4. CASE UNCHANGED <<rx, inbox>>
      BY <3>1, <3>4 DEF SocketTypes
    <3> QED BY <1>4, <3>2, <3>3, <3>4 DEF Recv
  <2>5. CountTypes'
    BY <1>4 DEF Missed, Recv, CountTypes
  <2>6. FlagTypes'
    BY <1>4 DEF Missed, Recv, FlagTypes
  <2> QED BY <2>1, <2>2, <2>3, <2>4, <2>5, <2>6
<1>5. CASE Parse
  <2>1. MsTypes'
    BY <1>5 DEF Parse, MsTypes
  <2>2. SsTypes'
    BY <1>5 DEF Parse, SsTypes
  <2>3. PlayerTypes'
    BY <1>5 DEF Parse, PlayerTypes
  <2>4. SocketTypes'
    BY <1>5 DEF Parse, SocketTypes
  <2>5. CountTypes'
    BY <1>5 DEF Parse, CountTypes
  <2>6. FlagTypes'
    BY <1>5 DEF Parse, FlagTypes
  <2> QED BY <2>1, <2>2, <2>3, <2>4, <2>5, <2>6
<1>6. CASE Select
  <2>1. MsTypes'
    BY <1>6 DEF Select, MsTypes
  <2>2. SsTypes'
    BY <1>6 DEF Select, SsTypes
  <2>3. PlayerTypes'
    BY <1>6 DEF Select, PlayerTypes
  <2>4. SocketTypes'
    BY <1>6 DEF Select, SocketTypes
  <2>5. CountTypes'
    BY <1>6 DEF Select, CountTypes
  <2>6. FlagTypes'
    BY <1>6 DEF Select, FlagTypes
  <2> QED BY <2>1, <2>2, <2>3, <2>4, <2>5, <2>6
<1>7. CASE Recv2
  <2>1. MsTypes'
    BY <1>7 DEF Recv2, MsTypes
  <2>2. SsTypes'
    BY <1>7 DEF Recv2, SsTypes
  <2>3. PlayerTypes'
    BY <1>7 DEF Recv2, PlayerTypes
  <2>4. SocketTypes'
    <3>1. UNCHANGED <<tx, wire, server, sm>>
      BY <1>7 DEF Recv2
    <3>2. CASE Arrived /\ TakeInbox
      <4>1. SocketTypes
        OBVIOUS
      <4>2. /\ rx' \in [front : Replies \union Notices \union {"none"}, notice : Notices \union {"none"}]
            /\ inbox' = <<>>
        BY <3>2, <4>1, ReadType
      <4>3. inbox' \in Seq(Replies \union Notices)
        BY <4>2
      <4> QED BY <3>1, <4>2, <4>3 DEF SocketTypes
    <3>3. CASE rx' = Empty /\ UNCHANGED inbox
      BY <3>1, <3>3, EmptyType DEF SocketTypes
    <3>4. CASE UNCHANGED <<rx, inbox>>
      BY <3>1, <3>4 DEF SocketTypes
    <3> QED BY <1>7, <3>2, <3>3, <3>4 DEF Recv2
  <2>5. CountTypes'
    BY <1>7 DEF Recv2, CountTypes
  <2>6. FlagTypes'
    BY <1>7 DEF Recv2, FlagTypes
  <2> QED BY <2>1, <2>2, <2>3, <2>4, <2>5, <2>6
<1>8. CASE Parse2
  <2>1. MsTypes'
    BY <1>8 DEF Parse2, MsTypes
  <2>2. SsTypes'
    BY <1>8 DEF Parse2, SsTypes
  <2>3. PlayerTypes'
    BY <1>8 DEF Parse2, PlayerTypes
  <2>4. SocketTypes'
    BY <1>8 DEF Parse2, SocketTypes
  <2>5. CountTypes'
    BY <1>8 DEF Parse2, CountTypes
  <2>6. FlagTypes'
    BY <1>8 DEF Parse2, FlagTypes
  <2> QED BY <2>1, <2>2, <2>3, <2>4, <2>5, <2>6
<1>9. CASE Announce
  <2>0. CASE Crash
    BY <2>0, CrashType
  <2> SUFFICES ASSUME ~Crash PROVE TypeOK'
    BY <2>0
  <2>1. MsTypes'
    BY <1>9 DEF Announce, MsTypes
  <2>2. SsTypes'
    BY <1>9 DEF Announce, SsTypes
  <2>3. PlayerTypes'
    BY <1>9 DEF Announce, PlayerTypes
  <2>4. SocketTypes'
    BY <1>9 DEF Announce, SocketTypes
  <2>5. CountTypes'
    BY <1>9 DEF Announce, CountTypes
  <2>6. FlagTypes'
    BY <1>9 DEF Announce, FlagTypes
  <2> QED BY <2>1, <2>2, <2>3, <2>4, <2>5, <2>6
<1>10. CASE Answer
  <2>1. MsTypes'
    BY <1>10 DEF Answer, MsTypes
  <2>2. SsTypes'
    BY <1>10 DEF Answer, SsTypes
  <2>3. PlayerTypes'
    BY <1>10 DEF Answer, PlayerTypes
  <2>4. SocketTypes'
    BY <1>10 DEF Deliver, Answer, SocketTypes
  <2>5. CountTypes'
    BY <1>10 DEF Answer, CountTypes
  <2>6. FlagTypes'
    BY <1>10 DEF Answer, FlagTypes
  <2> QED BY <2>1, <2>2, <2>3, <2>4, <2>5, <2>6
<1>11. CASE Over
  <2>1. MsTypes'
    BY <1>11 DEF Over, MsTypes
  <2>2. SsTypes'
    BY <1>11 DEF Over, SsTypes
  <2>3. PlayerTypes'
    BY <1>11 DEF Over, PlayerTypes
  <2>4. SocketTypes'
    BY <1>11 DEF Over, SocketTypes
  <2>5. CountTypes'
    BY <1>11 DEF Over, CountTypes
  <2>6. FlagTypes'
    BY <1>11 DEF Over, FlagTypes
  <2> QED BY <2>1, <2>2, <2>3, <2>4, <2>5, <2>6
<1>12. CASE SsArgs
  <2>1. MsTypes'
    BY <1>12 DEF SsArgs, MsTypes
  <2>2. SsTypes'
    BY <1>12 DEF SsArgs, SsTypes
  <2>3. PlayerTypes'
    BY <1>12 DEF SsArgs, PlayerTypes
  <2>4. SocketTypes'
    BY <1>12 DEF SsArgs, SocketTypes
  <2>5. CountTypes'
    BY <1>12 DEF SsArgs, CountTypes
  <2>6. FlagTypes'
    BY <1>12 DEF SsArgs, FlagTypes
  <2> QED BY <2>1, <2>2, <2>3, <2>4, <2>5, <2>6
<1>13. CASE SsMissed
  <2>1. MsTypes'
    BY <1>13 DEF SsMissed, MsTypes
  <2>2. SsTypes'
    BY <1>13 DEF SsMissed, SsTypes
  <2>3. PlayerTypes'
    BY <1>13 DEF SsMissed, PlayerTypes
  <2>4. SocketTypes'
    BY <1>13 DEF SsMissed, SocketTypes
  <2>5. CountTypes'
    BY <1>13 DEF SsMissed, CountTypes
  <2>6. FlagTypes'
    BY <1>13 DEF SsMissed, FlagTypes
  <2> QED BY <2>1, <2>2, <2>3, <2>4, <2>5, <2>6
<1>14. CASE NetworkInitReturns
  <2>1. MsTypes'
    BY <1>14 DEF NetworkInitReturns, MsTypes
  <2>2. SsTypes'
    BY <1>14 DEF NetworkInitReturns, SsTypes
  <2>3. PlayerTypes'
    <3>1. <<"play">> \in Seq(Requests) /\ <<"play">> # <<>>
      BY DEF Requests
    <3> QED BY <1>14, <3>1 DEF NetworkInitReturns, PlayerTypes
  <2>4. SocketTypes'
    BY <1>14 DEF NetworkInitReturns, SocketTypes
  <2>5. CountTypes'
    BY <1>14 DEF NetworkInitReturns, CountTypes
  <2>6. FlagTypes'
    BY <1>14 DEF NetworkInitReturns, FlagTypes
  <2> QED BY <2>1, <2>2, <2>3, <2>4, <2>5, <2>6
<1>15. CASE Poll
  <2>1. MsTypes'
    BY <1>15 DEF Poll, MsTypes
  <2>2. SsTypes'
    BY <1>15 DEF Poll, SsTypes
  <2>3. PlayerTypes'
    <3>1. todo' \in Seq(Requests)
      <4>1. Scripts \union {<<>>} \subseteq Seq(Requests)
        <5>1. <<>> \in Seq(Requests)
          OBVIOUS
        <5>2. Scripts \subseteq Seq(Requests)
          BY DEF KeepAliveAssumption
        <5> QED BY <5>1, <5>2
      <4>2. PICK s \in Scripts \union {<<>>} : todo' = IF status = "none" THEN s ELSE <<>>
        BY <1>15 DEF Poll
      <4>3. s \in Seq(Requests) /\ <<>> \in Seq(Requests)
        BY <4>1
      <4> QED BY <4>2, <4>3
    <3>2. vpc' \in {"flags", "clear"} /\ vtry' = 1
      BY <1>15 DEF Poll
    <3> QED BY <3>1, <3>2 DEF PlayerTypes
  <2>4. SocketTypes'
    BY <1>15 DEF Poll, SocketTypes
  <2>5. CountTypes'
    BY <1>15 DEF Poll, CountTypes
  <2>6. FlagTypes'
    BY <1>15 DEF Poll, FlagTypes
  <2> QED BY <2>1, <2>2, <2>3, <2>4, <2>5, <2>6
<1>16. CASE ClearStatus
  <2>1. MsTypes'
    BY <1>16 DEF ClearStatus, MsTypes
  <2>2. SsTypes'
    BY <1>16 DEF ClearStatus, SsTypes
  <2>3. PlayerTypes'
    BY <1>16 DEF ClearStatus, PlayerTypes
  <2>4. SocketTypes'
    BY <1>16 DEF ClearStatus, SocketTypes
  <2>5. CountTypes'
    BY <1>16 DEF ClearStatus, CountTypes
  <2>6. FlagTypes'
    BY <1>16 DEF ClearStatus, FlagTypes
  <2> QED BY <2>1, <2>2, <2>3, <2>4, <2>5, <2>6
<1>17. CASE ReadFlags
  <2>1. MsTypes'
    BY <1>17 DEF ReadFlags, MsTypes
  <2>2. SsTypes'
    BY <1>17 DEF ReadFlags, SsTypes
  <2>3. PlayerTypes'
    BY <1>17 DEF ReadFlags, PlayerTypes
  <2>4. SocketTypes'
    BY <1>17 DEF ReadFlags, SocketTypes
  <2>5. CountTypes'
    BY <1>17 DEF ReadFlags, CountTypes
  <2>6. FlagTypes'
    BY <1>17 DEF ReadFlags, FlagTypes
  <2> QED BY <2>1, <2>2, <2>3, <2>4, <2>5, <2>6
<1>18. CASE VcrFill
  <2>1. MsTypes'
    BY <1>18 DEF VcrFill, MsTypes
  <2>2. SsTypes'
    BY <1>18 DEF VcrFill, SsTypes
  <2>3. PlayerTypes'
    BY <1>18 DEF VcrFill, PlayerTypes
  <2>4. SocketTypes'
    BY <1>18 DEF VcrFill, SocketTypes
  <2>5. CountTypes'
    BY <1>18 DEF VcrFill, CountTypes
  <2>6. FlagTypes'
    BY <1>18 DEF VcrFill, FlagTypes
  <2> QED BY <2>1, <2>2, <2>3, <2>4, <2>5, <2>6
<1>19. CASE VcrSend
  <2>1. MsTypes'
    BY <1>19 DEF VcrSend, MsTypes
  <2>2. SsTypes'
    BY <1>19 DEF VcrSend, SsTypes
  <2>3. PlayerTypes'
    BY <1>19 DEF Failed, VcrSend, PlayerTypes
  <2>4. SocketTypes'
    BY <1>19 DEF Deliver, VcrSend, SocketTypes
  <2>5. CountTypes'
    BY <1>19 DEF VcrSend, CountTypes
  <2>6. FlagTypes'
    BY <1>19 DEF VcrSend, FlagTypes
  <2> QED BY <2>1, <2>2, <2>3, <2>4, <2>5, <2>6
<1>20. CASE VcrRecv
  <2>1. MsTypes'
    BY <1>20 DEF VcrRecv, MsTypes
  <2>2. SsTypes'
    BY <1>20 DEF VcrRecv, SsTypes
  <2>3. PlayerTypes'
    BY <1>20 DEF Failed, Succeeded, VcrRecv, PlayerTypes
  <2>4. SocketTypes'
    <3>1. UNCHANGED <<tx, wire, server, sm>>
      BY <1>20 DEF VcrRecv
    <3>2. CASE Arrived /\ TakeInbox
      <4>1. SocketTypes
        OBVIOUS
      <4>2. /\ rx' \in [front : Replies \union Notices \union {"none"}, notice : Notices \union {"none"}]
            /\ inbox' = <<>>
        BY <3>2, <4>1, ReadType
      <4>3. inbox' \in Seq(Replies \union Notices)
        BY <4>2
      <4> QED BY <3>1, <4>2, <4>3 DEF SocketTypes
    <3>3. CASE rx' = Empty /\ UNCHANGED inbox
      BY <3>1, <3>3, EmptyType DEF SocketTypes
    <3>4. CASE UNCHANGED <<rx, inbox>>
      BY <3>1, <3>4 DEF SocketTypes
    <3> QED BY <1>20, <3>2, <3>3, <3>4 DEF VcrRecv
  <2>5. CountTypes'
    BY <1>20 DEF VcrRecv, CountTypes
  <2>6. FlagTypes'
    BY <1>20 DEF VcrRecv, FlagTypes
  <2> QED BY <2>1, <2>2, <2>3, <2>4, <2>5, <2>6
<1>21. CASE VcrCheck
  <2>0. CASE Crash
    BY <2>0, CrashType
  <2> SUFFICES ASSUME ~Crash PROVE TypeOK'
    BY <2>0
  <2>1. MsTypes'
    BY <1>21 DEF VcrCheck, MsTypes
  <2>2. SsTypes'
    BY <1>21 DEF VcrCheck, SsTypes
  <2>3. PlayerTypes'
    BY <1>21 DEF Failed, Succeeded, VcrCheck, PlayerTypes
  <2>4. SocketTypes'
    BY <1>21 DEF VcrCheck, SocketTypes
  <2>5. CountTypes'
    BY <1>21 DEF VcrCheck, CountTypes
  <2>6. FlagTypes'
    BY <1>21 DEF VcrCheck, FlagTypes
  <2> QED BY <2>1, <2>2, <2>3, <2>4, <2>5, <2>6
<1>22. CASE JoinSs
  <2>1. MsTypes'
    BY <1>22 DEF JoinSs, MsTypes
  <2>2. SsTypes'
    BY <1>22 DEF JoinSs, SsTypes
  <2>3. PlayerTypes'
    BY <1>22 DEF JoinSs, PlayerTypes
  <2>4. SocketTypes'
    BY <1>22 DEF JoinSs, SocketTypes
  <2>5. CountTypes'
    BY <1>22 DEF JoinSs, CountTypes
  <2>6. FlagTypes'
    BY <1>22 DEF JoinSs, FlagTypes
  <2> QED BY <2>1, <2>2, <2>3, <2>4, <2>5, <2>6
<1>23. CASE JoinMs
  <2>1. MsTypes'
    BY <1>23 DEF CancelPoints, JoinMs, MsTypes
  <2>2. SsTypes'
    BY <1>23 DEF JoinMs, SsTypes
  <2>3. PlayerTypes'
    BY <1>23 DEF JoinMs, PlayerTypes
  <2>4. SocketTypes'
    BY <1>23 DEF JoinMs, SocketTypes
  <2>5. CountTypes'
    BY <1>23 DEF JoinMs, CountTypes
  <2>6. FlagTypes'
    BY <1>23 DEF JoinMs, FlagTypes
  <2> QED BY <2>1, <2>2, <2>3, <2>4, <2>5, <2>6
<1>24. CASE Serve
  <2>1. MsTypes'
    BY <1>24 DEF Serve, MsTypes
  <2>2. SsTypes'
    BY <1>24 DEF Serve, SsTypes
  <2>3. PlayerTypes'
    BY <1>24 DEF Serve, PlayerTypes
  <2>4. SocketTypes'
    <3>1. wire \in Nat /\ wire > 0 /\ wire' = wire - 1
      BY <1>24 DEF Serve, SocketTypes
    <3>2. "ok" \in Replies \union Notices /\ "bad" \in Replies \union Notices
      BY DEF Replies
    <3>3. inbox' \in Seq(Replies \union Notices)
      BY <1>24, <3>2 DEF Serve, SocketTypes
    <3>4. UNCHANGED <<tx, rx, server, sm>>
      BY <1>24 DEF Serve
    <3> QED BY <3>1, <3>3, <3>4 DEF SocketTypes
  <2>5. CountTypes'
    BY <1>24 DEF Serve, CountTypes
  <2>6. FlagTypes'
    BY <1>24 DEF Serve, FlagTypes
  <2> QED BY <2>1, <2>2, <2>3, <2>4, <2>5, <2>6
<1>25. CASE Notify
  <2>1. MsTypes'
    BY <1>25 DEF Notify, MsTypes
  <2>2. SsTypes'
    BY <1>25 DEF Notify, SsTypes
  <2>3. PlayerTypes'
    BY <1>25 DEF Notify, PlayerTypes
  <2>4. SocketTypes'
    BY <1>25 DEF Notify, SocketTypes
  <2>5. CountTypes'
    BY <1>25 DEF Notify, CountTypes
  <2>6. FlagTypes'
    BY <1>25 DEF Notify, FlagTypes
  <2> QED BY <2>1, <2>2, <2>3, <2>4, <2>5, <2>6
<1>26. CASE ServerFails
  <2>1. MsTypes'
    BY <1>26 DEF ServerFails, MsTypes
  <2>2. SsTypes'
    BY <1>26 DEF ServerFails, SsTypes
  <2>3. PlayerTypes'
    BY <1>26 DEF ServerFails, PlayerTypes
  <2>4. SocketTypes'
    BY <1>26 DEF ServerFails, SocketTypes
  <2>5. CountTypes'
    BY <1>26 DEF ServerFails, CountTypes
  <2>6. FlagTypes'
    BY <1>26 DEF ServerFails, FlagTypes
  <2> QED BY <2>1, <2>2, <2>3, <2>4, <2>5, <2>6
<1>27. CASE ManagerFails
  <2>1. MsTypes'
    BY <1>27 DEF ManagerFails, MsTypes
  <2>2. SsTypes'
    BY <1>27 DEF ManagerFails, SsTypes
  <2>3. PlayerTypes'
    BY <1>27 DEF ManagerFails, PlayerTypes
  <2>4. SocketTypes'
    BY <1>27 DEF ManagerFails, SocketTypes
  <2>5. CountTypes'
    BY <1>27 DEF ManagerFails, CountTypes
  <2>6. FlagTypes'
    BY <1>27 DEF ManagerFails, FlagTypes
  <2> QED BY <2>1, <2>2, <2>3, <2>4, <2>5, <2>6
<1>28. CASE DeadFrame
  BY <1>28, CrashType DEF DeadFrame
<1>29. CASE UNCHANGED vars
  BY <1>29 DEF vars, MsTypes, SsTypes, PlayerTypes, SocketTypes, CountTypes, FlagTypes
<1>30. CASE Mark
  <2>1. MsTypes'
    BY <1>30 DEF Mark, MsTypes
  <2>2. SsTypes'
    BY <1>30 DEF Mark, SsTypes
  <2>3. PlayerTypes'
    <3>1. todo' \in Seq(Requests)
      <4>1. <<>> \in Seq(Requests)
        OBVIOUS
      <4>2. \A s \in MarkScripts \cap Scripts : s \in Seq(Requests)
        BY Zenon
      <4>3. todo' = <<>> \/ \E s \in MarkScripts \cap Scripts : todo' = s
        BY <1>30 DEF Mark
      <4> QED BY <4>1, <4>2, <4>3
    <3>2. vpc' \in {"flags", "poll"} /\ UNCHANGED vtry
      BY <1>30 DEF Mark
    <3> QED BY <3>1, <3>2 DEF PlayerTypes
  <2>4. SocketTypes'
    BY <1>30 DEF Mark, SocketTypes
  <2>5. CountTypes'
    BY <1>30 DEF Mark, CountTypes
  <2>6. FlagTypes'
    BY <1>30 DEF Mark, FlagTypes
  <2> QED BY <2>1, <2>2, <2>3, <2>4, <2>5, <2>6
<1> QED
  BY <1>1, <1>2, <1>3, <1>4, <1>5, <1>6, <1>7, <1>8, <1>9, <1>10, <1>11, <1>12, <1>13, <1>14, <1>15, <1>16, <1>17, <1>18, <1>19, <1>20, <1>21, <1>22, <1>23, <1>24, <1>25, <1>26, <1>27, <1>28, <1>29, <1>30 DEF Next, Heartbeat, Player, Servers, Stopped

\* Every variable of the session holds a value of its type, for any limit of
\* misses and any number of commands, notices, refusals and late replies.
THEOREM SessionTypeCorrect == Spec => []TypeOK
BY InitTypeOK, NextTypeOK, PTL DEF Spec

(* A live server is not given up *)

\* What waits in tx_buffer when the heartbeat is sent wants a reply: only the
\* thread itself ever writes anything else.
SendsRequest == mpc = "send" => tx = "request"

\* A heartbeat that waits for its reply gets one, unless a command has read it.
ReplyComes ==
  server = "up" /\ mpc = "recv" => wire > 0 \/ inbox # <<>> \/ miss < excuse

\* A refusal the client holds is one the server sent.
RefusalCounted ==
  refused = 0 => rx.front # "bad" /\ \A i \in 1 .. Len(inbox) : inbox[i] # "bad"

LiveInv == SendsRequest /\ ReplyComes /\ RefusalCounted /\ LiveServerKept

LEMMA InitLiveInv == Init => LiveInv
BY DEF Init, LiveInv, SendsRequest, ReplyComes, RefusalCounted, LiveServerKept, Empty

LEMMA CrashLiveInv == TypeOK /\ Crash => LiveInv'
BY DEF Crash, LiveInv, SendsRequest, ReplyComes, RefusalCounted, LiveServerKept, Empty

\* What a read takes in is no refusal if the server sent none.
LEMMA ReadNoRefusal ==
  ASSUME SocketTypes, RefusalCounted, Arrived, TakeInbox, UNCHANGED refused
  PROVE  RefusalCounted'
<1>1. rx'.front = inbox[1] /\ 1 \in 1 .. Len(inbox) /\ inbox' = <<>>
  BY ReceivedType DEF SocketTypes, Arrived, TakeInbox
<1> QED BY <1>1 DEF RefusalCounted

LEMMA NextLiveInv == TypeOK /\ LiveInv /\ [Next]_vars => LiveInv'
<1> SUFFICES ASSUME TypeOK, LiveInv, [Next]_vars PROVE LiveInv'
  OBVIOUS
<1>0. /\ miss \in Nat /\ excuse \in Nat /\ wire \in Nat /\ refused \in Nat /\ MissMax \in Nat
      /\ inbox \in Seq(Replies \union Notices) /\ SocketTypes
  BY KeepAliveAssumption DEF KeepAliveAssumption, TypeOK, MsTypes, SocketTypes, CountTypes
<1> USE DEF LiveInv, beatVars, bufVars, cmdVars, ssVars, netVars, boundVars, histVars
<1>1. CASE MsArgs
  <2>1. SendsRequest'
    BY <1>1, <1>0 DEF MsArgs, SendsRequest
  <2>2. ReplyComes'
    BY <1>1, <1>0 DEF LiveServerKept, MsArgs, ReplyComes
  <2>3. RefusalCounted'
    BY <1>1, <1>0 DEF MsArgs, RefusalCounted
  <2>4. LiveServerKept'
    BY <1>1, <1>0 DEF ReplyComes, RefusalCounted, MsArgs, LiveServerKept
  <2> QED BY <2>1, <2>2, <2>3, <2>4
<1>2. CASE Fill
  <2>1. SendsRequest'
    BY <1>2, <1>0 DEF Fill, SendsRequest
  <2>2. ReplyComes'
    BY <1>2, <1>0 DEF LiveServerKept, Fill, ReplyComes
  <2>3. RefusalCounted'
    BY <1>2, <1>0 DEF Fill, RefusalCounted
  <2>4. LiveServerKept'
    BY <1>2, <1>0 DEF ReplyComes, RefusalCounted, Fill, LiveServerKept
  <2> QED BY <2>1, <2>2, <2>3, <2>4
<1>3. CASE Send
  <2>1. SendsRequest'
    BY <1>3, <1>0 DEF Deliver, Send, SendsRequest
  <2>2. ReplyComes'
    BY <1>3, <1>0 DEF Deliver, SendsRequest, Send, ReplyComes
  <2>3. RefusalCounted'
    BY <1>3, <1>0 DEF Deliver, Send, RefusalCounted
  <2>4. LiveServerKept'
    BY <1>3, <1>0 DEF Deliver, ReplyComes, RefusalCounted, Send, LiveServerKept
  <2> QED BY <2>1, <2>2, <2>3, <2>4
<1>4. CASE Recv
  <2>1. SendsRequest'
    BY <1>4, <1>0 DEF Arrived, AtEnd, Expires, Missed, TakeInbox, Recv, SendsRequest
  <2>2. ReplyComes'
    BY <1>4, <1>0 DEF Arrived, AtEnd, Expires, Missed, TakeInbox, LiveServerKept, Recv, ReplyComes
  <2>3. RefusalCounted'
    <3>1. CASE Arrived /\ TakeInbox
      BY <1>4, <1>0, <3>1, ReadNoRefusal DEF Recv, Missed
    <3>2. CASE (rx' = Empty \/ UNCHANGED rx) /\ UNCHANGED inbox
      BY <1>4, <3>2 DEF Recv, RefusalCounted, Empty
    <3> QED BY <1>4, <3>1, <3>2 DEF Recv
  <2>4. LiveServerKept'
    BY <1>4, <1>0 DEF Arrived, AtEnd, Expires, Missed, TakeInbox, ReplyComes, RefusalCounted, Recv, LiveServerKept
  <2> QED BY <2>1, <2>2, <2>3, <2>4
<1>5. CASE Parse
  <2>1. SendsRequest'
    BY <1>5, <1>0 DEF Parse, SendsRequest
  <2>2. ReplyComes'
    BY <1>5, <1>0 DEF LiveServerKept, Parse, ReplyComes
  <2>3. RefusalCounted'
    BY <1>5, <1>0 DEF Parse, RefusalCounted
  <2>4. LiveServerKept'
    BY <1>5, <1>0 DEF ReplyComes, RefusalCounted, Parse, LiveServerKept
  <2> QED BY <2>1, <2>2, <2>3, <2>4
<1>6. CASE Select
  <2>1. SendsRequest'
    BY <1>6, <1>0 DEF Select, SendsRequest
  <2>2. ReplyComes'
    BY <1>6, <1>0 DEF LiveServerKept, Select, ReplyComes
  <2>3. RefusalCounted'
    BY <1>6, <1>0 DEF Select, RefusalCounted
  <2>4. LiveServerKept'
    BY <1>6, <1>0 DEF ReplyComes, RefusalCounted, Select, LiveServerKept
  <2> QED BY <2>1, <2>2, <2>3, <2>4
<1>7. CASE Recv2
  <2>1. SendsRequest'
    BY <1>7, <1>0 DEF Arrived, AtEnd, Expires, TakeInbox, Recv2, SendsRequest
  <2>2. ReplyComes'
    BY <1>7, <1>0 DEF Arrived, AtEnd, Expires, TakeInbox, LiveServerKept, Recv2, ReplyComes
  <2>3. RefusalCounted'
    <3>1. CASE Arrived /\ TakeInbox
      BY <1>7, <1>0, <3>1, ReadNoRefusal DEF Recv2, Missed
    <3>2. CASE (rx' = Empty \/ UNCHANGED rx) /\ UNCHANGED inbox
      BY <1>7, <3>2 DEF Recv2, RefusalCounted, Empty
    <3> QED BY <1>7, <3>1, <3>2 DEF Recv2
  <2>4. LiveServerKept'
    BY <1>7, <1>0 DEF Arrived, AtEnd, Expires, TakeInbox, ReplyComes, RefusalCounted, Recv2, LiveServerKept
  <2> QED BY <2>1, <2>2, <2>3, <2>4
<1>8. CASE Parse2
  <2>1. SendsRequest'
    BY <1>8, <1>0 DEF Parse2, SendsRequest
  <2>2. ReplyComes'
    BY <1>8, <1>0 DEF LiveServerKept, Parse2, ReplyComes
  <2>3. RefusalCounted'
    BY <1>8, <1>0 DEF Parse2, RefusalCounted
  <2>4. LiveServerKept'
    BY <1>8, <1>0 DEF ReplyComes, RefusalCounted, Parse2, LiveServerKept
  <2> QED BY <2>1, <2>2, <2>3, <2>4
<1>9. CASE Announce
  <2>0. CASE Crash
    BY <2>0, CrashLiveInv
  <2> SUFFICES ASSUME ~Crash PROVE LiveInv'
    BY <2>0
  <2>1. SendsRequest'
    BY <1>9, <1>0 DEF Announce, SendsRequest
  <2>2. ReplyComes'
    BY <1>9, <1>0 DEF LiveServerKept, Announce, ReplyComes
  <2>3. RefusalCounted'
    BY <1>9, <1>0 DEF Announce, RefusalCounted
  <2>4. LiveServerKept'
    BY <1>9, <1>0 DEF ReplyComes, RefusalCounted, Announce, LiveServerKept
  <2> QED BY <2>1, <2>2, <2>3, <2>4
<1>10. CASE Answer
  <2>1. SendsRequest'
    BY <1>10, <1>0 DEF Deliver, Answer, SendsRequest
  <2>2. ReplyComes'
    BY <1>10, <1>0 DEF Deliver, LiveServerKept, Answer, ReplyComes
  <2>3. RefusalCounted'
    BY <1>10, <1>0 DEF Deliver, Answer, RefusalCounted
  <2>4. LiveServerKept'
    BY <1>10, <1>0 DEF Deliver, ReplyComes, RefusalCounted, Answer, LiveServerKept
  <2> QED BY <2>1, <2>2, <2>3, <2>4
<1>11. CASE Over
  <2>1. SendsRequest'
    BY <1>11, <1>0 DEF Over, SendsRequest
  <2>2. ReplyComes'
    BY <1>11, <1>0 DEF LiveServerKept, Over, ReplyComes
  <2>3. RefusalCounted'
    BY <1>11, <1>0 DEF Over, RefusalCounted
  <2>4. LiveServerKept'
    BY <1>11, <1>0 DEF ReplyComes, RefusalCounted, Over, LiveServerKept
  <2> QED BY <2>1, <2>2, <2>3, <2>4
<1>12. CASE SsArgs
  <2>1. SendsRequest'
    BY <1>12, <1>0 DEF SsArgs, SendsRequest
  <2>2. ReplyComes'
    BY <1>12, <1>0 DEF LiveServerKept, SsArgs, ReplyComes
  <2>3. RefusalCounted'
    BY <1>12, <1>0 DEF SsArgs, RefusalCounted
  <2>4. LiveServerKept'
    BY <1>12, <1>0 DEF ReplyComes, RefusalCounted, SsArgs, LiveServerKept
  <2> QED BY <2>1, <2>2, <2>3, <2>4
<1>13. CASE SsMissed
  <2>1. SendsRequest'
    BY <1>13, <1>0 DEF SsMissed, SendsRequest
  <2>2. ReplyComes'
    BY <1>13, <1>0 DEF LiveServerKept, SsMissed, ReplyComes
  <2>3. RefusalCounted'
    BY <1>13, <1>0 DEF SsMissed, RefusalCounted
  <2>4. LiveServerKept'
    BY <1>13, <1>0 DEF ReplyComes, RefusalCounted, SsMissed, LiveServerKept
  <2> QED BY <2>1, <2>2, <2>3, <2>4
<1>14. CASE NetworkInitReturns
  <2>1. SendsRequest'
    BY <1>14, <1>0 DEF NetworkInitReturns, SendsRequest
  <2>2. ReplyComes'
    BY <1>14, <1>0 DEF LiveServerKept, NetworkInitReturns, ReplyComes
  <2>3. RefusalCounted'
    BY <1>14, <1>0 DEF NetworkInitReturns, RefusalCounted
  <2>4. LiveServerKept'
    BY <1>14, <1>0 DEF ReplyComes, RefusalCounted, NetworkInitReturns, LiveServerKept
  <2> QED BY <2>1, <2>2, <2>3, <2>4
<1>15. CASE Poll
  <2>1. SendsRequest'
    BY <1>15, <1>0 DEF Poll, SendsRequest
  <2>2. ReplyComes'
    BY <1>15, <1>0 DEF LiveServerKept, Poll, ReplyComes
  <2>3. RefusalCounted'
    BY <1>15, <1>0 DEF Poll, RefusalCounted
  <2>4. LiveServerKept'
    BY <1>15, <1>0 DEF ReplyComes, RefusalCounted, Poll, LiveServerKept
  <2> QED BY <2>1, <2>2, <2>3, <2>4
<1>16. CASE ClearStatus
  <2>1. SendsRequest'
    BY <1>16, <1>0 DEF ClearStatus, SendsRequest
  <2>2. ReplyComes'
    BY <1>16, <1>0 DEF LiveServerKept, ClearStatus, ReplyComes
  <2>3. RefusalCounted'
    BY <1>16, <1>0 DEF ClearStatus, RefusalCounted
  <2>4. LiveServerKept'
    BY <1>16, <1>0 DEF ReplyComes, RefusalCounted, ClearStatus, LiveServerKept
  <2> QED BY <2>1, <2>2, <2>3, <2>4
<1>17. CASE ReadFlags
  <2>1. SendsRequest'
    BY <1>17, <1>0 DEF ReadFlags, SendsRequest
  <2>2. ReplyComes'
    BY <1>17, <1>0 DEF LiveServerKept, ReadFlags, ReplyComes
  <2>3. RefusalCounted'
    BY <1>17, <1>0 DEF ReadFlags, RefusalCounted
  <2>4. LiveServerKept'
    BY <1>17, <1>0 DEF ReplyComes, RefusalCounted, ReadFlags, LiveServerKept
  <2> QED BY <2>1, <2>2, <2>3, <2>4
<1>18. CASE VcrFill
  <2>1. SendsRequest'
    BY <1>18, <1>0 DEF VcrFill, SendsRequest
  <2>2. ReplyComes'
    BY <1>18, <1>0 DEF LiveServerKept, VcrFill, ReplyComes
  <2>3. RefusalCounted'
    BY <1>18, <1>0 DEF VcrFill, RefusalCounted
  <2>4. LiveServerKept'
    BY <1>18, <1>0 DEF ReplyComes, RefusalCounted, VcrFill, LiveServerKept
  <2> QED BY <2>1, <2>2, <2>3, <2>4
<1>19. CASE VcrSend
  <2>1. SendsRequest'
    BY <1>19, <1>0 DEF Deliver, VcrSend, SendsRequest
  <2>2. ReplyComes'
    BY <1>19, <1>0 DEF Deliver, LiveServerKept, VcrSend, ReplyComes
  <2>3. RefusalCounted'
    BY <1>19, <1>0 DEF Deliver, VcrSend, RefusalCounted
  <2>4. LiveServerKept'
    BY <1>19, <1>0 DEF Deliver, ReplyComes, RefusalCounted, VcrSend, LiveServerKept
  <2> QED BY <2>1, <2>2, <2>3, <2>4
<1>20. CASE VcrRecv
  <2>1. SendsRequest'
    BY <1>20, <1>0 DEF Arrived, AtEnd, Expires, TakeInbox, VcrRecv, SendsRequest
  <2>2. ReplyComes'
    BY <1>20, <1>0 DEF Arrived, AtEnd, Expires, TakeInbox, LiveServerKept, VcrRecv, ReplyComes
  <2>3. RefusalCounted'
    <3>1. CASE Arrived /\ TakeInbox
      BY <1>20, <1>0, <3>1, ReadNoRefusal DEF VcrRecv, Missed
    <3>2. CASE (rx' = Empty \/ UNCHANGED rx) /\ UNCHANGED inbox
      BY <1>20, <3>2 DEF VcrRecv, RefusalCounted, Empty
    <3> QED BY <1>20, <3>1, <3>2 DEF VcrRecv
  <2>4. LiveServerKept'
    BY <1>20, <1>0 DEF Arrived, AtEnd, Expires, TakeInbox, ReplyComes, RefusalCounted, VcrRecv, LiveServerKept
  <2> QED BY <2>1, <2>2, <2>3, <2>4
<1>21. CASE VcrCheck
  <2>0. CASE Crash
    BY <2>0, CrashLiveInv
  <2> SUFFICES ASSUME ~Crash PROVE LiveInv'
    BY <2>0
  <2>1. SendsRequest'
    BY <1>21, <1>0 DEF VcrCheck, SendsRequest
  <2>2. ReplyComes'
    BY <1>21, <1>0 DEF LiveServerKept, VcrCheck, ReplyComes
  <2>3. RefusalCounted'
    BY <1>21, <1>0 DEF VcrCheck, RefusalCounted
  <2>4. LiveServerKept'
    BY <1>21, <1>0 DEF ReplyComes, RefusalCounted, VcrCheck, LiveServerKept
  <2> QED BY <2>1, <2>2, <2>3, <2>4
<1>22. CASE JoinSs
  <2>1. SendsRequest'
    BY <1>22, <1>0 DEF JoinSs, SendsRequest
  <2>2. ReplyComes'
    BY <1>22, <1>0 DEF LiveServerKept, JoinSs, ReplyComes
  <2>3. RefusalCounted'
    BY <1>22, <1>0 DEF JoinSs, RefusalCounted
  <2>4. LiveServerKept'
    BY <1>22, <1>0 DEF ReplyComes, RefusalCounted, JoinSs, LiveServerKept
  <2> QED BY <2>1, <2>2, <2>3, <2>4
<1>23. CASE JoinMs
  <2>1. SendsRequest'
    BY <1>23, <1>0 DEF CancelPoints, JoinMs, SendsRequest
  <2>2. ReplyComes'
    BY <1>23, <1>0 DEF CancelPoints, LiveServerKept, JoinMs, ReplyComes
  <2>3. RefusalCounted'
    BY <1>23, <1>0 DEF CancelPoints, JoinMs, RefusalCounted
  <2>4. LiveServerKept'
    BY <1>23, <1>0 DEF CancelPoints, ReplyComes, RefusalCounted, JoinMs, LiveServerKept
  <2> QED BY <2>1, <2>2, <2>3, <2>4
<1>24. CASE Serve
  <2>1. SendsRequest'
    BY <1>24, <1>0 DEF Serve, SendsRequest
  <2>2. ReplyComes'
    BY <1>24, <1>0 DEF LiveServerKept, Serve, ReplyComes
  <2>3. RefusalCounted'
    BY <1>24, <1>0 DEF Serve, RefusalCounted
  <2>4. LiveServerKept'
    BY <1>24, <1>0 DEF ReplyComes, RefusalCounted, Serve, LiveServerKept
  <2> QED BY <2>1, <2>2, <2>3, <2>4
<1>25. CASE Notify
  <2>1. SendsRequest'
    BY <1>25, <1>0 DEF Notify, SendsRequest
  <2>2. ReplyComes'
    BY <1>25, <1>0 DEF LiveServerKept, Notify, ReplyComes
  <2>3. RefusalCounted'
    <3>1. PICK n \in Announces : inbox' = Append(inbox, n)
      BY <1>25 DEF Notify
    <3>2. n \in Notices /\ n # "bad"
      BY <3>1, KeepAliveAssumption DEF KeepAliveAssumption, Notices
    <3>3. UNCHANGED <<refused, rx>>
      BY <1>25 DEF Notify
    <3>4. ASSUME refused = 0, NEW i \in 1 .. Len(inbox') PROVE inbox'[i] # "bad"
      BY <1>0, <3>1, <3>2, <3>4 DEF RefusalCounted
    <3> QED BY <3>3, <3>4 DEF RefusalCounted
  <2>4. LiveServerKept'
    BY <1>25, <1>0 DEF ReplyComes, RefusalCounted, Notify, LiveServerKept
  <2> QED BY <2>1, <2>2, <2>3, <2>4
<1>26. CASE ServerFails
  <2>1. SendsRequest'
    BY <1>26, <1>0 DEF ServerFails, SendsRequest
  <2>2. ReplyComes'
    BY <1>26, <1>0 DEF LiveServerKept, ServerFails, ReplyComes
  <2>3. RefusalCounted'
    BY <1>26, <1>0 DEF ServerFails, RefusalCounted
  <2>4. LiveServerKept'
    BY <1>26, <1>0 DEF ReplyComes, RefusalCounted, ServerFails, LiveServerKept
  <2> QED BY <2>1, <2>2, <2>3, <2>4
<1>27. CASE ManagerFails
  <2>1. SendsRequest'
    BY <1>27, <1>0 DEF ManagerFails, SendsRequest
  <2>2. ReplyComes'
    BY <1>27, <1>0 DEF LiveServerKept, ManagerFails, ReplyComes
  <2>3. RefusalCounted'
    BY <1>27, <1>0 DEF ManagerFails, RefusalCounted
  <2>4. LiveServerKept'
    BY <1>27, <1>0 DEF ReplyComes, RefusalCounted, ManagerFails, LiveServerKept
  <2> QED BY <2>1, <2>2, <2>3, <2>4
<1>28. CASE DeadFrame
  BY <1>28, CrashLiveInv DEF DeadFrame
<1>29. CASE UNCHANGED vars
  BY <1>29 DEF vars, SendsRequest, ReplyComes, RefusalCounted, LiveServerKept
<1>30. CASE Mark
  <2>1. SendsRequest'
    BY <1>30, <1>0 DEF Mark, SendsRequest
  <2>2. ReplyComes'
    BY <1>30, <1>0 DEF LiveServerKept, Mark, ReplyComes
  <2>3. RefusalCounted'
    BY <1>30, <1>0 DEF Mark, RefusalCounted
  <2>4. LiveServerKept'
    BY <1>30, <1>0 DEF ReplyComes, RefusalCounted, Mark, LiveServerKept
  <2> QED BY <2>1, <2>2, <2>3, <2>4
<1> QED
  BY <1>1, <1>2, <1>3, <1>4, <1>5, <1>6, <1>7, <1>8, <1>9, <1>10, <1>11, <1>12, <1>13, <1>14, <1>15, <1>16, <1>17, <1>18, <1>19, <1>20, <1>21, <1>22, <1>23, <1>24, <1>25, <1>26, <1>27, <1>28, <1>29, <1>30 DEF Next, Heartbeat, Player, Servers, Stopped

\* A streaming server that is up is given up only for late replies, replies a
\* trick command read, a refusal, or an error of select, whatever the limit of misses
\* and however many commands and notices there are.
THEOREM LiveServerNotGivenUp == Spec => []LiveServerKept
<1>1. Init => TypeOK /\ LiveInv
  BY InitTypeOK, InitLiveInv
<1>2. (TypeOK /\ LiveInv) /\ [Next]_vars => (TypeOK /\ LiveInv)'
  BY NextTypeOK, NextLiveInv
<1>3. TypeOK /\ LiveInv => LiveServerKept
  BY DEF LiveInv
<1> QED BY <1>1, <1>2, <1>3, PTL DEF Spec

-----------------------------------------------------------------------------
(* Notices *)

\* The places from which a notice can still be acted on: player_status, rx_buffer
\* while the heartbeat is about to look at it, and the socket.
Posted   == status # "none" /\ vpc # "clear"
Read     == mpc \in {"parse", "parse2", "announce"} /\ rx.notice # "none"
Arriving == \E i \in 1 .. Len(inbox) : inbox[i] \in Notices

\* Each of them is paid for by a notice that was sent and not yet acted on.
ActedInv ==
  \E p, r, a \in {0, 1} :
    /\ acted + p + r + a <= announced
    /\ Posted => p = 1
    /\ Read => r = 1
    /\ Arriving => a = 1

LEMMA InitActedInv == Init => ActedInv
<1> SUFFICES ASSUME Init PROVE ActedInv
  OBVIOUS
<1>1. acted + 0 + 0 + 0 <= announced /\ ~Posted /\ ~Read /\ ~Arriving
  BY DEF Init, Posted, Read, Arriving
<1> QED BY <1>1 DEF ActedInv

LEMMA CrashActedInv == TypeOK /\ Crash => ActedInv'
<1> SUFFICES ASSUME TypeOK, Crash PROVE ActedInv'
  OBVIOUS
<1>1. ~Posted' /\ ~Read' /\ ~Arriving'
  BY DEF Crash, Posted, Read, Arriving
<1>2. acted' = 0 /\ announced' \in Nat
  BY DEF Crash, TypeOK, CountTypes, boundVars
<1>3. acted' + 0 + 0 + 0 <= announced'
  BY <1>2
<1> QED BY <1>1, <1>3 DEF ActedInv

\* A step that neither moves a notice on nor acts on one.
LEMMA QuietKeeps ==
  ASSUME ActedInv, UNCHANGED <<acted, announced, inbox>>, Posted' => Posted, Read' => Read
  PROVE  ActedInv'
<1>1. PICK p, r, a \in {0, 1} : /\ acted + p + r + a <= announced
                                /\ Posted => p = 1
                                /\ Read => r = 1
                                /\ Arriving => a = 1
  BY DEF ActedInv
<1>2. Arriving' <=> Arriving
  BY DEF Arriving
<1>3. acted' + p + r + a <= announced'
  BY <1>1
<1> QED BY <1>1, <1>2, <1>3 DEF ActedInv

\* What a read takes in has a notice only if one had arrived.
LEMMA ReadFromSocket ==
  ASSUME TakeInbox
  PROVE  ~Arriving' /\ (Read' => Arriving)
<1>1. ~Arriving'
  BY DEF TakeInbox, Arriving
<1>2. ASSUME ~Arriving PROVE ~Read'
  <2>1. {i \in 1 .. Len(inbox) : inbox[i] \in Notices} = {}
    BY <1>2 DEF Arriving
  <2>2. Received(inbox).notice = "none"
    BY <2>1 DEF Received
  <2> QED BY <2>2 DEF TakeInbox, Read
<1> QED BY <1>1, <1>2

\* A read, by either thread, moves a notice from the socket to rx_buffer or drops it.
LEMMA ReadKeeps ==
  ASSUME TypeOK, ActedInv, UNCHANGED <<acted, announced>>, Posted' => Posted,
         TakeInbox \/ ((Read' => Read) /\ UNCHANGED inbox)
  PROVE  ActedInv'
<1>1. CASE TakeInbox
  <2>1. PICK p, r, a \in {0, 1} : /\ acted + p + r + a <= announced
                                  /\ Posted => p = 1
                                  /\ Read => r = 1
                                  /\ Arriving => a = 1
    BY DEF ActedInv
  <2>2. acted' + p + a + 0 <= announced'
    BY <2>1 DEF TypeOK, CountTypes
  <2> QED BY <1>1, <2>1, <2>2, ReadFromSocket DEF ActedInv
<1>2. CASE (Read' => Read) /\ UNCHANGED inbox
  BY <1>2, QuietKeeps
<1> QED BY <1>1, <1>2

LEMMA NextActedInv == TypeOK /\ ActedInv /\ [Next]_vars => ActedInv'
<1> SUFFICES ASSUME TypeOK, ActedInv, [Next]_vars PROVE ActedInv'
  OBVIOUS
<1>0. acted \in Nat /\ announced \in Nat /\ inbox \in Seq(Replies \union Notices)
  BY DEF TypeOK, CountTypes, SocketTypes
<1> USE DEF beatVars, bufVars, cmdVars, ssVars, netVars, boundVars, histVars
<1>1. CASE MsArgs
  <2>1. UNCHANGED <<acted, announced, inbox>> /\ (Posted' => Posted)
    BY <1>1 DEF MsArgs, Posted
  <2>2. Read' => Read
    BY <1>1 DEF MsArgs, Read
  <2> QED BY <2>1, <2>2, QuietKeeps
<1>2. CASE Fill
  <2>1. UNCHANGED <<acted, announced, inbox>> /\ (Posted' => Posted)
    BY <1>2 DEF Fill, Posted
  <2>2. Read' => Read
    BY <1>2 DEF Fill, Read
  <2> QED BY <2>1, <2>2, QuietKeeps
<1>3. CASE Send
  <2>1. UNCHANGED <<acted, announced, inbox>> /\ (Posted' => Posted)
    BY <1>3 DEF Send, Posted
  <2>2. Read' => Read
    BY <1>3 DEF Send, Read
  <2> QED BY <2>1, <2>2, QuietKeeps
<1>4. CASE Recv
  <2>1. UNCHANGED <<acted, announced>> /\ (Posted' => Posted)
    BY <1>4 DEF Recv, Missed, Posted
  <2>2. TakeInbox \/ (~Read' /\ UNCHANGED inbox)
    BY <1>4 DEF Recv, Missed, Read
  <2> QED BY <2>1, <2>2, ReadKeeps
<1>5. CASE Parse
  <2>1. UNCHANGED <<acted, announced, inbox>> /\ (Posted' => Posted)
    BY <1>5 DEF Parse, Posted
  <2>2. Read' => Read
    BY <1>5 DEF Parse, Read
  <2> QED BY <2>1, <2>2, QuietKeeps
<1>6. CASE Select
  <2>1. UNCHANGED <<acted, announced, inbox>> /\ (Posted' => Posted)
    BY <1>6 DEF Select, Posted
  <2>2. Read' => Read
    BY <1>6 DEF Select, Read
  <2> QED BY <2>1, <2>2, QuietKeeps
<1>7. CASE Recv2
  <2>1. UNCHANGED <<acted, announced>> /\ (Posted' => Posted)
    BY <1>7 DEF Recv2, Missed, Posted
  <2>2. TakeInbox \/ (~Read' /\ UNCHANGED inbox)
    BY <1>7 DEF Recv2, Missed, Read
  <2> QED BY <2>1, <2>2, ReadKeeps
<1>8. CASE Parse2
  <2>1. UNCHANGED <<acted, announced, inbox>> /\ (Posted' => Posted)
    BY <1>8 DEF Parse2, Posted
  <2>2. Read' => Read
    BY <1>8 DEF Parse2, Read
  <2> QED BY <2>1, <2>2, QuietKeeps
<1>9. CASE Announce
  <2>1. CASE Crash
    BY <2>1, CrashActedInv
  <2>2. CASE ~Crash
    <3>1. PICK p, r, a \in {0, 1} : /\ acted + p + r + a <= announced
                                    /\ Posted => p = 1
                                    /\ Read => r = 1
                                    /\ Arriving => a = 1
      BY DEF ActedInv
    <3>2. UNCHANGED <<acted, announced, inbox>> /\ Read /\ ~Read'
      BY <1>9, <2>2 DEF Announce, Read
    <3>3. Arriving' <=> Arriving
      BY <3>2 DEF Arriving
    <3>4. CASE rx.notice = "unknown"
      <4>1. Posted' => Posted
        BY <1>9, <2>2, <3>4 DEF Announce, Posted
      <4> QED BY <3>2, <4>1, QuietKeeps
    <3>5. CASE rx.notice # "unknown"
      <4>1. acted' + 1 + 0 + a <= announced'
        BY <1>0, <3>1, <3>2
      <4> QED BY <3>1, <3>2, <3>3, <4>1 DEF ActedInv
    <3> QED BY <3>4, <3>5
  <2> QED BY <2>1, <2>2
<1>10. CASE Answer
  <2>1. UNCHANGED <<acted, announced, inbox>> /\ (Posted' => Posted)
    BY <1>10 DEF Answer, Posted
  <2>2. Read' => Read
    BY <1>10 DEF Answer, Read
  <2> QED BY <2>1, <2>2, QuietKeeps
<1>11. CASE Over
  <2>1. UNCHANGED <<acted, announced, inbox>> /\ (Posted' => Posted)
    BY <1>11 DEF Over, Posted
  <2>2. Read' => Read
    BY <1>11 DEF Over, Read
  <2> QED BY <2>1, <2>2, QuietKeeps
<1>12. CASE SsArgs
  <2>1. UNCHANGED <<acted, announced, inbox>> /\ (Posted' => Posted)
    BY <1>12 DEF SsArgs, Posted
  <2>2. Read' => Read
    BY <1>12 DEF SsArgs, Read
  <2> QED BY <2>1, <2>2, QuietKeeps
<1>13. CASE SsMissed
  <2>1. UNCHANGED <<acted, announced, inbox>> /\ (Posted' => Posted)
    BY <1>13 DEF SsMissed, Posted
  <2>2. Read' => Read
    BY <1>13 DEF SsMissed, Read
  <2> QED BY <2>1, <2>2, QuietKeeps
<1>14. CASE NetworkInitReturns
  <2>1. UNCHANGED <<acted, announced, inbox>> /\ (Posted' => Posted)
    BY <1>14 DEF NetworkInitReturns, Posted
  <2>2. Read' => Read
    BY <1>14 DEF NetworkInitReturns, Read
  <2> QED BY <2>1, <2>2, QuietKeeps
<1>15. CASE Poll
  <2>1. UNCHANGED <<announced, inbox>> /\ (Read' <=> Read) /\ (Arriving' <=> Arriving)
    BY <1>15 DEF Poll, Read, Arriving
  <2>2. CASE status = "none"
    <3>1. UNCHANGED acted /\ (Posted' => Posted)
      BY <1>15, <2>2 DEF Poll, Posted
    <3> QED BY <2>1, <3>1, QuietKeeps
  <2>3. CASE status # "none"
    <3>1. PICK p, r, a \in {0, 1} : /\ acted + p + r + a <= announced
                                    /\ Posted => p = 1
                                    /\ Read => r = 1
                                    /\ Arriving => a = 1
      BY DEF ActedInv
    <3>2. Posted /\ ~Posted' /\ acted' = acted + 1
      BY <1>15, <2>3 DEF Poll, Posted
    <3>3. acted' + 0 + r + a <= announced'
      BY <1>0, <2>1, <3>1, <3>2
    <3> QED BY <2>1, <3>1, <3>2, <3>3 DEF ActedInv
  <2> QED BY <2>2, <2>3
<1>16. CASE ClearStatus
  <2>1. UNCHANGED <<acted, announced, inbox>> /\ (Posted' => Posted)
    BY <1>16 DEF ClearStatus, Posted
  <2>2. Read' => Read
    BY <1>16 DEF ClearStatus, Read
  <2> QED BY <2>1, <2>2, QuietKeeps
<1>17. CASE ReadFlags
  <2>1. UNCHANGED <<acted, announced, inbox>> /\ (Posted' => Posted)
    BY <1>17 DEF ReadFlags, Posted
  <2>2. Read' => Read
    BY <1>17 DEF ReadFlags, Read
  <2> QED BY <2>1, <2>2, QuietKeeps
<1>18. CASE VcrFill
  <2>1. UNCHANGED <<acted, announced, inbox>> /\ (Posted' => Posted)
    BY <1>18 DEF VcrFill, Posted
  <2>2. Read' => Read
    BY <1>18 DEF VcrFill, Read
  <2> QED BY <2>1, <2>2, QuietKeeps
<1>19. CASE VcrSend
  <2>1. UNCHANGED <<acted, announced, inbox>> /\ (Posted' => Posted)
    BY <1>19 DEF VcrSend, Failed, Succeeded, Posted
  <2>2. Read' => Read
    BY <1>19 DEF VcrSend, Failed, Succeeded, Read
  <2> QED BY <2>1, <2>2, QuietKeeps
<1>20. CASE VcrRecv
  <2>1. UNCHANGED <<acted, announced>> /\ (Posted' => Posted)
    BY <1>20 DEF VcrRecv, Failed, Succeeded, Posted
  <2>2. TakeInbox \/ ((Read' => Read) /\ UNCHANGED inbox)
    BY <1>20 DEF VcrRecv, Failed, Succeeded, Read, Empty
  <2> QED BY <2>1, <2>2, ReadKeeps
<1>21. CASE VcrCheck
  <2>1. CASE Crash
    BY <2>1, CrashActedInv
  <2>2. CASE ~Crash
    <3>1. UNCHANGED <<acted, announced, inbox>> /\ (Posted' => Posted)
      BY <1>21, <2>2 DEF VcrCheck, Failed, Succeeded, Posted
    <3>2. Read' => Read
      BY <1>21, <2>2 DEF VcrCheck, Failed, Succeeded, Read
    <3> QED BY <3>1, <3>2, QuietKeeps
  <2> QED BY <2>1, <2>2
<1>22. CASE JoinSs
  <2>1. UNCHANGED <<acted, announced, inbox>> /\ (Posted' => Posted)
    BY <1>22 DEF JoinSs, Posted
  <2>2. Read' => Read
    BY <1>22 DEF JoinSs, Read
  <2> QED BY <2>1, <2>2, QuietKeeps
<1>23. CASE JoinMs
  <2>1. UNCHANGED <<acted, announced, inbox>> /\ (Posted' => Posted)
    BY <1>23 DEF JoinMs, Posted
  <2>2. Read' => Read
    BY <1>23 DEF JoinMs, Read
  <2> QED BY <2>1, <2>2, QuietKeeps
<1>24. CASE Serve
  <2>1. UNCHANGED <<acted, announced>> /\ (Posted' <=> Posted) /\ (Read' <=> Read)
    BY <1>24 DEF Serve, Posted, Read
  <2>2. PICK m \in Replies : inbox' = Append(inbox, m)
    BY <1>24 DEF Serve, Replies
  <2>3. m \notin Notices
    BY <2>2 DEF Notices, Replies
  <2>4. Arriving' <=> Arriving
    BY <1>0, <2>2, <2>3 DEF Arriving
  <2>5. PICK p, r, a \in {0, 1} : /\ acted + p + r + a <= announced
                                  /\ Posted => p = 1
                                  /\ Read => r = 1
                                  /\ Arriving => a = 1
    BY DEF ActedInv
  <2>6. acted' + p + r + a <= announced'
    BY <2>1, <2>5
  <2> QED BY <2>1, <2>4, <2>5, <2>6 DEF ActedInv
<1>25. CASE Notify
  <2>1. UNCHANGED acted /\ (Posted' <=> Posted) /\ (Read' <=> Read)
    BY <1>25 DEF Notify, Posted, Read
  <2>2. announced' = announced + 1
    BY <1>25 DEF Notify
  <2>3. PICK p, r, a \in {0, 1} : /\ acted + p + r + a <= announced
                                  /\ Posted => p = 1
                                  /\ Read => r = 1
                                  /\ Arriving => a = 1
    BY DEF ActedInv
  <2>4. acted' + p + r + 1 <= announced'
    BY <1>0, <2>1, <2>2, <2>3
  <2> QED BY <2>1, <2>3, <2>4 DEF ActedInv
<1>26. CASE ServerFails
  <2>1. UNCHANGED <<acted, announced, inbox>> /\ (Posted' => Posted)
    BY <1>26 DEF ServerFails, Posted
  <2>2. Read' => Read
    BY <1>26 DEF ServerFails, Read
  <2> QED BY <2>1, <2>2, QuietKeeps
<1>27. CASE ManagerFails
  <2>1. UNCHANGED <<acted, announced, inbox>> /\ (Posted' => Posted)
    BY <1>27 DEF ManagerFails, Posted
  <2>2. Read' => Read
    BY <1>27 DEF ManagerFails, Read
  <2> QED BY <2>1, <2>2, QuietKeeps
<1>28. CASE DeadFrame
  BY <1>28, CrashActedInv DEF DeadFrame
<1>29. CASE UNCHANGED vars
  BY <1>29, QuietKeeps DEF vars, Posted, Read
<1>30. CASE Mark
  <2>1. UNCHANGED <<acted, announced, inbox>> /\ (Posted' => Posted)
    BY <1>30 DEF Mark, Posted
  <2>2. Read' => Read
    BY <1>30 DEF Mark, Read
  <2> QED BY <2>1, <2>2, QuietKeeps
<1> QED
  BY <1>1, <1>2, <1>3, <1>4, <1>5, <1>6, <1>7, <1>8, <1>9, <1>10, <1>11, <1>12, <1>13, <1>14, <1>15,
     <1>16, <1>17, <1>18, <1>19, <1>20, <1>21, <1>22, <1>23, <1>24, <1>25, <1>26, <1>27, <1>28, <1>29, <1>30 DEF Next, Heartbeat, Player, Servers, Stopped

\* No notice is acted on twice, whichever thread reads it and however often
\* rx_buffer is looked at, for any number of notices and commands.
THEOREM NoticeActedOnce == Spec => []ActedOnce
<1>1. Init => TypeOK /\ ActedInv
  BY InitTypeOK, InitActedInv
<1>2. (TypeOK /\ ActedInv) /\ [Next]_vars => (TypeOK /\ ActedInv)'
  BY NextTypeOK, NextActedInv
<1>3. TypeOK /\ ActedInv => ActedOnce
  <2> SUFFICES ASSUME TypeOK, ActedInv PROVE ActedOnce
    OBVIOUS
  <2>1. PICK p, r, a \in {0, 1} : acted + p + r + a <= announced
    BY DEF ActedInv
  <2>2. acted \in Nat /\ announced \in Nat
    BY DEF TypeOK, CountTypes
  <2> QED BY <2>1, <2>2 DEF ActedOnce
<1> QED BY <1>1, <1>2, <1>3, PTL DEF Spec

-----------------------------------------------------------------------------
(* The contract of the two heartbeats *)

\* A thread that runs has lowered its flag and not raised it; one that has ended by
\* itself has raised it, and the flag stays up until it is joined.
MsFlag ==
  /\ mpc \in CancelPoints \union {"parse", "parse2", "announce"} => ~msErr
  /\ mpc = "done" => msErr
SsFlag ==
  /\ sspc = "beat" => ~ssErr
  /\ sspc = "done" => ssErr
FlagInv == MsFlag /\ SsFlag

\* A step as the player that watches the flag sees it.
MsStep == [MsBeat!Next]_<<MsThread, msErr, crashed>>
SsStep == [SsBeat!Next]_<<SsThread, ssErr, crashed>>

LEMMA InitFlag == Init => FlagInv /\ MsBeat!Init /\ SsBeat!Init
BY DEF Init, FlagInv, MsFlag, SsFlag, MsBeat!Init, SsBeat!Init, MsThread, SsThread, CancelPoints

LEMMA CrashFlag ==
  ASSUME ~crashed, Crash
  PROVE  FlagInv' /\ MsStep /\ SsStep
BY DEF Crash, FlagInv, MsFlag, SsFlag, CancelPoints, MsStep, SsStep, MsBeat!Next, SsBeat!Next,
       MsBeat!Death, SsBeat!Death

\* What touches neither a thread nor its flag is no step of the contract.
LEMMA MsUntouched ==
  ASSUME MsFlag, UNCHANGED <<mpc, msErr, crashed>>
  PROVE  MsFlag' /\ MsStep
BY DEF MsFlag, CancelPoints, MsStep, MsThread

LEMMA SsUntouched ==
  ASSUME SsFlag, UNCHANGED <<sspc, ssErr, crashed>>
  PROVE  SsFlag' /\ SsStep
BY DEF SsFlag, SsStep, SsThread

\* The streaming heartbeat: each step of its thread.
LEMMA HeartbeatFlag ==
  ASSUME TypeOK, FlagInv, ~crashed, Heartbeat
  PROVE  FlagInv' /\ MsStep /\ SsStep
<1> USE DEF beatVars, bufVars, cmdVars, ssVars, netVars, boundVars, histVars
<1>1. CASE Announce /\ rx.notice = "none"
  BY <1>1, CrashFlag DEF Announce
<1>2. CASE ~(Announce /\ rx.notice = "none")
  <2>1. UNCHANGED <<sspc, ssErr, crashed>>
    BY <1>2 DEF Heartbeat, MsArgs, Fill, Send, Recv, Missed, Parse, Select, Recv2, Parse2, Announce,
                Answer, Over
  <2>2. SsFlag' /\ SsStep
    BY <2>1, SsUntouched DEF FlagInv
  <2>3. MsFlag' /\ MsStep
    <3> USE DEF MsFlag, CancelPoints, MsStep, MsThread, MsBeat!Next, MsBeat!Alive
    <3>1. CASE MsArgs
      BY <2>1, <3>1 DEF MsArgs, MsBeat!Start
    <3>2. CASE Recv
      <4>1. CASE Missed
        <5>1. mpc = "recv" /\ ~msErr
          BY <3>2 DEF Recv, FlagInv
        <5>2. CASE miss + 1 = MissMax
          BY <2>1, <4>1, <5>1, <5>2 DEF Missed, MsBeat!Fail
        <5>3. CASE miss + 1 # MissMax
          <6>1. mpc' = "fill" /\ msErr' = (FALSE \/ msErr)
            BY <4>1, <5>3 DEF Missed
          <6>2. msErr' = msErr
            BY <5>1, <6>1 DEF TypeOK, FlagTypes
          <6> QED BY <2>1, <5>1, <6>1, <6>2
        <5> QED BY <5>2, <5>3
      <4>2. CASE ~Missed
        BY <2>1, <3>2, <4>2 DEF Recv, FlagInv
      <4> QED BY <4>1, <4>2
    <3>3. CASE Over
      <4>1. mpc = "over" /\ mpc' = "done" /\ msErr'
        BY <3>3 DEF Over
      <4>2. CASE msErr
        BY <2>1, <4>1, <4>2 DEF TypeOK, FlagTypes, Over
      <4>3. CASE ~msErr
        BY <2>1, <4>1, <4>3 DEF MsBeat!Fail
      <4> QED BY <4>2, <4>3
    <3>4. CASE Fill \/ Send \/ Select \/ Recv2 \/ Parse2 \/ Answer
      BY <2>1, <3>4 DEF Fill, Send, Select, Recv2, Parse2, Answer, FlagInv
    <3>5. CASE Parse
      BY <2>1, <3>5 DEF Parse, FlagInv
    <3>6. CASE Announce
      BY <1>2, <2>1, <3>6 DEF Announce, FlagInv
    <3> QED BY <3>1, <3>2, <3>3, <3>4, <3>5, <3>6 DEF Heartbeat
  <2> QED BY <2>2, <2>3 DEF FlagInv
<1> QED BY <1>1, <1>2

LEMMA NextFlag ==
  ASSUME TypeOK, FlagInv, [Next]_vars
  PROVE  FlagInv' /\ MsStep /\ SsStep
<1> USE DEF beatVars, bufVars, cmdVars, ssVars, netVars, boundVars, histVars
<1>1. CASE ~crashed /\ Heartbeat
  BY <1>1, HeartbeatFlag
<1>2. CASE ~crashed /\ (SsArgs \/ SsMissed)
  <2>1. UNCHANGED <<mpc, msErr, crashed>>
    BY <1>2 DEF SsArgs, SsMissed
  <2>2. SsFlag' /\ SsStep
    <3> USE DEF SsFlag, SsStep, SsThread, SsBeat!Next, SsBeat!Alive
    <3>1. CASE SsArgs
      BY <1>2, <2>1, <3>1 DEF SsArgs, SsBeat!Start
    <3>2. CASE SsMissed
      <4>1. sspc = "beat" /\ ~ssErr
        BY <3>2 DEF SsMissed, FlagInv
      <4>2. CASE ssMiss + 1 = MissMax
        <5>1. sspc' = "done" /\ ssErr'
          BY <3>2, <4>2 DEF SsMissed
        <5> QED BY <1>2, <2>1, <4>1, <5>1 DEF SsBeat!Fail
      <4>3. CASE ssMiss + 1 # MissMax
        <5>1. sspc' = "beat" /\ ssErr' = (FALSE \/ ssErr)
          BY <3>2, <4>3 DEF SsMissed
        <5>2. ssErr' = ssErr
          BY <4>1, <5>1 DEF TypeOK, FlagTypes
        <5> QED BY <2>1, <4>1, <5>1, <5>2
      <4> QED BY <4>2, <4>3
    <3> QED BY <1>2, <3>1, <3>2
  <2> QED BY <2>1, <2>2, MsUntouched DEF FlagInv
<1>3. CASE ~crashed /\ Player
  <2>1. CASE VcrCheck /\ rx = Empty
    BY <1>3, <2>1, CrashFlag DEF VcrCheck
  <2>2. CASE JoinSs
    <3>1. UNCHANGED <<mpc, msErr, crashed>>
      BY <2>2 DEF JoinSs
    <3>2. SsFlag' /\ SsStep
      BY <1>3, <2>2 DEF JoinSs, SsFlag, SsStep, SsThread, SsBeat!Next, SsBeat!Alive, SsBeat!End
    <3> QED BY <3>1, <3>2, MsUntouched DEF FlagInv
  <2>3. CASE JoinMs
    <3>1. UNCHANGED <<sspc, ssErr, crashed>>
      BY <2>3 DEF JoinMs
    <3>2. MsFlag' /\ MsStep
      BY <1>3, <2>3
         DEF JoinMs, CancelPoints, MsFlag, MsStep, MsThread, MsBeat!Next, MsBeat!Alive, MsBeat!End
    <3> QED BY <3>1, <3>2, SsUntouched DEF FlagInv
  <2>4. CASE ~(VcrCheck /\ rx = Empty) /\ ~JoinSs /\ ~JoinMs
    <3>1. UNCHANGED <<mpc, msErr, sspc, ssErr, crashed>>
      BY <1>3, <2>4
         DEF Player, NetworkInitReturns, Poll, ClearStatus, Mark, ReadFlags, VcrFill, VcrSend, VcrRecv, VcrCheck
    <3> QED BY <3>1, MsUntouched, SsUntouched DEF FlagInv
  <2> QED BY <2>1, <2>2, <2>3, <2>4
<1>4. CASE (~crashed /\ Servers) \/ UNCHANGED vars
  <2>1. UNCHANGED <<mpc, msErr, sspc, ssErr, crashed>>
    BY <1>4 DEF Servers, Serve, Notify, ServerFails, ManagerFails, vars
  <2> QED BY <2>1, MsUntouched, SsUntouched DEF FlagInv
<1>5. CASE ~crashed /\ DeadFrame
  BY <1>5, CrashFlag DEF DeadFrame
<1> QED BY <1>1, <1>2, <1>3, <1>4, <1>5 DEF Next, Stopped

\* Both keep-alive threads implement HeartbeatContract, whatever the servers and the
\* trick commands do: the loss of a connection is told once and stays told until the
\* player has joined the thread.
THEOREM StreamingHeartbeatKeeps == Spec => MsKeepsContract
<1>1. TypeOK /\ FlagInv /\ [Next]_vars => FlagInv' /\ [MsBeat!Next]_<<MsThread, msErr, crashed>>
  BY NextFlag DEF MsStep
<1>2. Init => FlagInv /\ MsBeat!Init
  BY InitFlag
<1> QED BY <1>1, <1>2, SessionTypeCorrect, PTL DEF Spec, MsKeepsContract, MsBeat!Spec

\* The same of the heartbeat of the session manager.
THEOREM SessionHeartbeatKeeps == Spec => SsKeepsContract
<1>1. TypeOK /\ FlagInv /\ [Next]_vars => FlagInv' /\ [SsBeat!Next]_<<SsThread, ssErr, crashed>>
  BY NextFlag DEF SsStep
<1>2. Init => FlagInv /\ SsBeat!Init
  BY InitFlag
<1> QED BY <1>1, <1>2, SessionTypeCorrect, PTL DEF Spec, SsKeepsContract, SsBeat!Spec

=============================================================================
