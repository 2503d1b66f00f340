---------------------------- MODULE MCDescription ----------------------------
(***************************************************************************)
(* Descriptions for TLC: channels, films and shifted programmes, whole ones  *)
(* and for every early return of the parsers one that takes it.  A second   *)
(* has four milliseconds.                                                    *)
(***************************************************************************)
EXTENDS Description

Medium(n, from, to, l, r) ==
  [NoText EXCEPT !.id = n, !.mediaUrl = TRUE, !.startTime = from, !.endTime = to,
                 !.licence = l, !.rate = r]
Channel(n, user, url) == [NoText EXCEPT !.id = n, !.userChannel = user, !.channelUrl = url]

SampleTexts ==
  {Channel(1, "given", "given"), Channel(2, "empty", "given"), Channel(3, "given", "none"),
   Medium(4, Absent, 50, 8, 3), Medium(5, Absent, 60, 9, Absent), Medium(6, Absent, 70, Absent, 2),
   Medium(7, Absent, Absent, 7, 2), Medium(8, 30, 0, Absent, Absent), Medium(9, 40, 3, 6, 5),
   Medium(10, 20, 45, 5, 5), Medium(11, 60, Absent, 5, 5)}

SomePts == {0, 30, 31}
SomeMoves == {-3, 0, 4, 12}

\* A programme shifted in time, with a start and an end.
ShiftedTexts == {Medium(10, 20, 45, 5, 5)}

=============================================================================
