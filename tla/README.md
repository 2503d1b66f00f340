# Verification of SNmediaplayer

SNmediaplayer is the media player library of a set-top box (HiSilicon Hi3716): it plays live
television, video on demand and time-shifted television that a cable head end delivers, under the
control of web pages.  This directory holds TLA+ models of it, TLC configurations that check the
models on small instances, and TLAPS proofs of what holds for every instance.  Paths are relative to
`src/snmediaplayer/`; line numbers are those of the repository's files.

## 1. The system

| component | state | operations | interacts with |
|---|---|---|---|
| `SNmediaplayer` (facade) | a static table of two players, the instance number, copies of the volume and mute settings, the channel list | everything a page may call | makes, calls and deletes `StreamMediaPlayer` objects |
| `StreamMediaPlayer` (player) | `mediaplayer_thread`, `stype`, `setup_type`, `if_sm_setup`, trick flags, `playerstate`, volume; a System V message queue; two `RTSPClient_prv` objects | `joinChannel`, `setSingleMedia`, `playFromStart`, `playByTime`, `pause`, `fastForward`, `fastRewind`, `resume`, `stop`, `leaveChannel`, destructor | creates and joins the player thread, sends it messages |
| player thread (`main_stream_player`, `main_vod_player`) | its place in the code, retry counters | `Network_Init`, tune, search, decode, the poll of the main loop, four ways out | takes messages; drives both RTSP clients and the decoder; calls the page back |
| `RTSPClient_prv` | socket, buffers, session ids, `player_status`, `if_keep_alive_error`, miss counters, two thread ids | SETUP, PLAY, PAUSE, TEARDOWN, GET_PARAMETER; begin and end of the keep-alive threads | session manager (ss) and streaming server (ms) |
| keep-alive threads | miss counters | heartbeat loops; the ms one also receives ANNOUNCE | write flags the player thread polls |
| `tsplayer` (receiver) | `g_TunerFreq`, `g_pProgTbl`, `g_isScramble`, `g_phKey`, decoder handles, all global | init, tune, search, play, trick play, resume, stop, close | called by the player thread and the constructor and destructor |
| descriptions (`getchannelurlfromjson`, `getmediaurlfromjson`) | `real_json_str`, `setup_type`, `media_start_time`, `media_stop_time`, the clients' content, licence, rate | parse | called by the page's operations, read by the player thread |
| DRM licence, cable gateway | the licence file; replies in the IPC channel | `parse_cw_from_license`; `request_to_open_channel`, `request_to_close_channel` | called by the player thread; by constructor and destructor |
| `common_setting` | volume and mute in `setting.xml` | read, write | facade |

What is hard about it: there is no mutex in the whole library.  The page's thread and the player
thread share the fields of the player; the player thread and two heartbeat threads share the fields,
the socket and the buffers of the RTSP clients; the queue is shared by whoever knows its key; every
wait is a poll or a `pthread_join`; every exit of the player thread lists by hand what it gives back.
There are no tests.

What makes each component correct:

* player: one player thread at a time; a stop that returns and that gives everything back; no message
  of an earlier life acted on; no decoder left running;
* sessions: one session at a time, a heartbeat only inside it, TEARDOWN after it;
* heartbeats: a dead server is noticed, a live one is not given up, an announcement is acted on;
* trick modes: what the page is told agrees with what the server plays, the last call decides, sound and
  picture come back;
* facade: a player is deleted only after its thread has ended, the channel that is asked for is joined,
  the volume keeps its scale, stopping one player does not stop another;
* receiver: the program table is there when it is read, the tuner is where a thread believes it to be,
  descrambler, licence file and gateway tunnel are given back;
* descriptions: session manager, server and descrambler get what the description says, and nothing that
  is left from the one before.

PROJECT.json lists the hazards at their lines, with the properties that watch them.

## 2. The modules

`StreamPlayer` is the core.  It models one player: the page's thread, one operation at a time; the
player threads it creates in its life; the queue; the session at the session manager; and the
beginning, failing and ending of the two heartbeat threads.

| state of the model | code |
|---|---|
| `cpc`, `op`, `jt` | where the caller is in a public operation; the thread `pthread_join` waits for |
| `queue` | the System V queue; each message carries the number of the last thread created when it was sent (a history variable, read by no action) |
| `tid`, `created` | `mediaplayer_thread`; how many threads `pthread_create` has made |
| `pc[g]`, `kind[g]`, `ctx`, `tries` | the place of player thread `g` in its main function, which of the two it runs, where `Network_Init` returns to, the running retry counter |
| `stype`, `setup`, `if_sm_setup`, `trick` | the fields of the same names (`setup`: SDV, or any unicast `setup_type`; `trick`: `pause_into_tvs == PAUSE_TRIG` or `backward_into_tvs`) |
| `status` | `player_status` of the streaming client |
| `clients` | the two `RTSPClient_prv` objects: allocated or deleted |
| `held`, `leaked` | the server's view: a session the client can still tear down; a session whose id it has overwritten |
| `ss`, `ms`, `ssErr`, `msErr`, `orphan`, `staleId` | keep-alive threads, their error flags, threads whose id was overwritten; `ss_keep_alive_id` still names a thread that was joined (`pthread_cancel` of a dead thread may fail, and the id then stays) |
| `decoder`, `crashed` | the decoder runs; the process died of undefined behaviour |

Every read and write of a shared field by the caller and by the player thread is a step of its own;
steps that touch nothing shared are merged.  A retry loop is a counter; a message is its command.
`PlayerRecvStopKey` takes whatever message is first, as the code does.  The player thread's four early
exits are `FailBeats`, `FailTeardown`, `ClearId`, `Callback`; the cleanup label is `CleanupBeats`,
`CleanupTeardown`, `ReleaseClients`, `StopDecoder`, `Callback`, `ClearId`.

Undefined behaviour is a choice: using a deleted client, joining thread 0 and joining a keep-alive
thread that was never created, or a second time, either do what the memory still allows, or end the process (`Die`,
`ReadJoinTarget`).  Uninitialised fields start with any value: the constant `Dirty` names those that
do (all six in the disciplined runs, among them the two marks `pause_into_tvs` and `backward_into_tvs`; two in
`PlayerAll`, where the others would multiply the states by sixteen and add no behaviour that the environment does not already produce).

Assumed: `pthread_create` stores the id before the new thread runs; the arguments handed to the
keep-alive threads can still be read (`KeepAlive` drops this); the page's callback only notes the event.

`SessionContract` is the abstract specification of what a player promises the session manager: SETUP
only without a session, heartbeat only within one, TEARDOWN only after the heartbeat has stopped.
`StreamPlayer` implements it under the mapping `open <- held \/ leaked`, `beating <- Beating(ss)`.

`HeartbeatContract` is the seam between `StreamPlayer` and `KeepAlive`: one keep-alive thread, its error flag,
and the process.  A thread is created only when there is none, lowers the flag when it first runs,
raises it when it gives up, and from then on the flag stays until another thread runs.  Both modules
implement it, for either heartbeat: `KeepAlive` with the loops that decide when to give up (`MsThread` and
`SsThread` map the places in their code to the states of the contract), `StreamPlayer` with the calls that
create and join the threads.

`KeepAlive` looks into one session: the two keep-alive threads, and the player thread that sends trick
commands through the socket and buffers the streaming heartbeat uses.

| state of the model | code |
|---|---|
| `mpc`, `miss`, `msErr` | the place of `ms_keep_alive_thread` in `rtspGETPARAMETER_notime`, `ms_keep_alive_miss_cnt`, its `if_keep_alive_error` |
| `sspc`, `ssMiss`, `ssErr` | the same for `ss_keep_alive_thread`, on its own connection |
| `tx`, `rx` | `tx_buffer`: does it hold something that wants a reply; `rx_buffer`: the message at its front and the first `notice:` in it, which is all the parsers look at |
| `wire`, `inbox` | requests on their way to the server; messages the client's socket holds, all of which one `readv` returns |
| `vpc`, `todo`, `vtry`, `quit`, `begun` | the player thread: its place, the requests of the command at hand, the attempt, QUIT, whether the first PLAY succeeded |
| `status` | `player_status` |
| `broken` | history: `select` returned an error, at which the heartbeat gives up |
| `excuse`, `acted`, `refused` | history: causes of a miss since the last answer, notices acted on, refusals |

Filling a buffer and sending it, and reading into a buffer and parsing it, are separate steps, so a
thread may send what the other wrote and parse what the other read.  The trick commands are the
sequences of requests `process_unicast_msg` sends, each request tried twice; `player_status` is read,
acted on and cleared in three steps.  The marks of a TVS medium may replace the command that was taken (`Mark`).  A cancelled thread ends at its next call into the system.  The
threads' arguments lie in the stack frame of `Network_Init`: a read after it has returned may end the
process (`DeadFrame`).  External are the servers: they answer in order, may refuse, be late, fall silent
or close, and send notices once the medium plays.  Assumed: a message arrives whole, an ANNOUNCE has a
`notice:` line, the host ignores SIGPIPE; no reply carries `position`, for nothing asks for it
(`rtspGETPARAMETER_gettime` has no caller).

`Vcr` looks into one medium that plays: the page's trick modes and one round of `process_tvod_msg` after
the other.

| state of the model | code |
|---|---|
| `cpc`, `last` | where the page is in `pause`, `fastForward`, `fastRewind`, `resume`; the operation called last (history) |
| `queue`, `ack` | the message queue; `trick_ok_flag`, which the page polls and which it clears after sending |
| `pauseInto`, `backInto` | `pause_into_tvs`, `backward_into_tvs`, each tested, set and consumed in steps of its own |
| `playspeed`, `volume` | the fields the page writes and the thread reads (`real_volume` and `volumesize`) |
| `playerstate`, `mspeed` | what `getPlaybackMode` tells the page |
| `tpc`, `cmd`, `reqs`, `attempt` | the player thread: its place in the round, the command in hand, the requests it sends, which try |
| `server`, `sound`, `decode` | what the streaming server was asked to play and the scale it was sent (its size, and how many minus signs stand before it), the sound output, the decode mode |
| `status`, `lost` | `player_status` of the client, a heartbeat's error flag |
| `known`, `replaced`, `dropped` | history: `playerstate` comes from a trick command; a flag replaced a command; the full queue refused a message |

`Receive`, `Notice`, `PauseFlag`, `PauseOthers`, `BackFlag`, `Dispatch`, `Request`, `Finish` or
`PlaySound`, `PlayState`, and `Restart` are the sections of `process_unicast_msg` in its order.  The page's
wait for `trick_ok_flag` ends with the flag, or by its timeout while the thread is busy with the server
or has nothing to do.  `playFromStart` on a running medium sends SEEK, which no handler takes.  `Scale` is what
`rtsp_forward` and `rtsp_backward` print: `%f` puts a minus sign before a negative speed, `rtsp_backward` one
more before any; `Told` is what `getPlaybackMode` says, with the speeds it knows (`Shown`).

`Facade` holds the page objects (`page`), the static table (`slot`), and what all players share: the queue
(`queue`, `qid`, `made`), `setting.xml` (`xmlVolume`, `xmlMute`) and the channel lists (`infos`, `ids`).
Of a player thread it keeps that it begins (and empties the queue), polls, and ends.  It ends in two ways:
`EndsAlone`, whose callback comes before the id is cleared, and `GivesUp`, the exits of a medium that cannot be
set up, which clear the id and then call back.  Such a thread is still there (`leaving` if an operation is
already joining it, `late` otherwise), but an operation that comes now finds no id to join; the destructor
leaves it without its player (`astray`) until `LastCallback`.  A poll that takes QUIT ends the thread, or loses
the QUIT to a begin-of-stream notice or a mark (`missed`).  An operation that
joins a thread blocks all pages (`waiting`), for they run in one thread.  History: `stopped` (who ended by
whose QUIT), `joined`, `released`, and in `sound` whose message set the volume.

`Receiver` holds what exists once under two players: tuner (`tunerFreq`, `tuned`), program table
(`table`: the frequency it was read from, 0 for `HI_NULL`), descrambler (`isScramble`, `key`, `keys`),
`licence` file (who wrote it and what the DRM module said of it), decoder (`ready`), gateway (`asked`, `replies`, `tunnel`).  A thread goes through
`Net`, `Tune`, `Search`, `Licence`, `Start`, `Loop`, `Clean`, `Halt`; `Make`, `Initialise`, `Destroy`,
`GiveTunnelBack` are constructor and destructor.  `Initialise` includes the scan for the service group, which leaves the one
tuner on any frequency or unlocked, and the constructor's way out when `setting.xml` cannot be read (then
`opened`, the code's `status_decoder`, stays down and the destructor closes nothing).  The gateway may refuse to
open the tunnel.  A NULL program table ends the process.  `user` is a
history variable: who touched a thing last.  The invariants say what a player may rely on as long as that
was itself; the code has no lock that would make it so.

`Description` follows a description through the fields: `text`, `setupType`, `start`, `stop` of the player
and `session` of the client, to `setup`, `play` and `key`, the last SETUP, PLAY and licence that were sent.
A description is a record that says which of its fields are there; the parsers' early returns are the
conditions under which a field is written.  `given` remembers whether it was accepted.  `picture` is the
decoder: time stamp of its first picture, distance since; `firstPts`, `lastPts` what `update_play_pts`
makes of it.  A film's thread that ends through the cleanup deletes both clients (`clients`); the next medium goes on
using them, and from some moment on their memory may be another's (`Overwritten`), after which the fields of
`session` hold anything.

`MCStreamPlayer`, `MCKeepAlive`, `MCVcr`, `MCFacade`, `MCReceiver` and `MCDescription` give the constants
their values; the modules named `...Proofs` hold the theorems.  The modules meet at these places:
`StreamPlayer` is the frame (threads, sessions, exits); `KeepAlive` looks into its heartbeats, `Vcr` its main
loop, `Description` its `Network_Init`, `Receiver` its tune, search and decode steps; `Facade` is above it.
Each keeps of its neighbours only what it must know, and says in its comments which module has the rest.

## 3. The runs

| run | asks | instance |
|---|---|---|
| `PlayerAll` | `TypeOK`, `OneActive`, `NoStaleMessage`, `DecoderOwned`, `QuitHeeded` | any operation at any time, all failures; 2 threads, 3 calls, queue of 2, 2 tries |
| `PlayerSessions` | `ExitReleasesAll`, the refinements `KeepsContract` and `BeatsKeepContract` | disciplined page, all six dirty fields, 4 calls |
| `PlayerLive` | `QuitHonoured`, `HeartbeatLossEndsPlayer` under `FairSpec` | live television |
| `KeepAlive` | `TypeOK`, `LiveServerKept`, `ActedOnce`, the refinement `MsKeepsContract` | one trick command, one notice, one refusal, one late reply, limit of 2 misses; the server may fall silent or close, `select` may fail |
| `KeepAliveLive` | `LossNoticed` under `FairSpec`, the refinement `SsKeepsContract` | both servers may fail, one trick command |
| `Vcr` | `TypeOK`, `ModeAgrees`, `PlaysNormally`, `LastCommandWins` | 3 calls, queue of 2, 2 forward speeds and -2, volumes in and out of range, both kinds of medium, 1 failure or notice |
| `Facade` | `TypeOK`, `NoOrphanThread`, `QueueHeld`, `JoinsAsked`, `SoundScale`, `FullscreenAgrees`, and `StopReturns` under `FairSpec` | one object, both slots, 6 calls, 3 modes, 2 channels, an unreadable `setting.xml` |
| `Receiver` | `TypeOK`, `TableThere`, `TunedRight`, `KeyDropped`, `LicenceSpent`, `TunnelFollows`, `RepliesInStep` | 2 players, 2 frequencies and one outside the band, 5 kinds of medium, 2 searches, 4 calls, 1 failure |
| `Description` | `TypeOK`, `SetupAsksForGiven`, `LicenceOfMedium`, `PlaysFromStart`, `PositionTold` | 11 descriptions, 2 media, 2 refusals or redirects, 3 looks at the picture |
| `StopSwallowed` | violates `QuitHonoured` | vod with announcements |
| `ClientsDeleted` | violates `TwoClients` | two media on one player |
| `OtherPlayerStops` | violates `StopsOnlyItself` | two objects with a player each |

Three more configurations are not among the runs of PROJECT.json and are started by hand, each to see TLC
violate what a header or a message of the code says (section 5): `RewindScale.cfg` (of `MCVcr`, `RewindTold`:
a rewind at one of the speeds the headers allow), `LicenceLeft.cfg` (of `MCReceiver`, `LicenceRemoved`: one
player, one clear film) and `TvodPosition.cfg` (of `MCDescription`, `TvodTold`: one programme shifted in
time, one call).

Bounds.  `MaxThreads = 2` is enough for everything that passes from one life of the player to the
next (ids, flags, messages, sessions, clients): a thread sees only what the one before it left.
`MaxCalls` allows a start, an operation and a stop, or two starts with a stop between.  The code tries
the network and the search more often than twice (`ESTABLISH_TIMES`, `SETUP_TIMES`,
`MAX_SEARCH_RETRY_TIMES`); two tries are the first, the repeated and the last.  `QueueCap = 2` lets the
queue be empty, shared by two messages, and full.

In `KeepAlive` the limit is 2 misses instead of 3: one can be a late reply and the other a reply a trick
command read, so every mix of causes occurs.  One notice is enough for it to be parsed twice, one command
(with the first PLAY, two) to race with the heartbeat at each of its steps.

In `Vcr` three calls are a trick mode, one that meets it half-way, and one after it.  `QueueCap = 2`:
three calls may find the queue full, and `DSP_MsgSend` then drops the message without a word to the page.  A
dropped command cannot win and a dropped volume is not heard, so `ModeAgrees`, `PlaysNormally` and
`LastCommandWins` speak of a queue that took every message (`dropped` is FALSE); `TypeOK` of any.
`MaxVolume = 2` has a volume below and one above.  In `Facade` six calls are two players made, a
release, a new player and two operations on what is left; one object is enough for the passing run,
since it may bind itself to either slot, and the theorems hold for any number.  In `Receiver` four calls are
two players made and two media, or one player made, used, destroyed and made again.  In `Description` two
media are enough for fields that one leaves to the next; the clock has 32 ticks, 4 of them
a second, so that the wrap is reached in three looks, the first of which may find the picture moved already; for each early return of the parsers one description
takes it.

Restrictions.  The disciplined page (`Disciplined`) starts a medium only after it has stopped the last
one, and does not call `playFromStart` (section 5 says why).  Its environment has no SETUP reply that
the client cannot read and no failing `ms_keep_alive_begin`: on both the code returns with the session
open (hazards of PROJECT.json).  The liveness run leaves out redirects, which `Network_Init` follows
without a bound.

Fairness.  `FairSpec` lets the scheduler run every thread that can take a step: the inside of an
operation the page has called, the player thread, the start of a keep-alive thread.  Calls by the page,
failures, announcements and losses are never assumed to happen.

For `KeepAlive` it also lets a read that nothing answers time out, and a server that is up answer in the end (its lateness is bounded by
`MaxLate`).  For `Facade` it lets a thread that runs poll, and `pthread_join` return when its thread has
ended; nothing is assumed of the other player, which is why `StopReturns` speaks of a stop that no other
thread can disturb, and of one whose QUIT no notice or mark replaced.

Deadlock is checked in `KeepAlive` (only an ended player or a dead process may stop) and in `Vcr` (only a
player that has ended with its page out of every call).  It is not checked where the bounds stop the page
or the process may have died: `StreamPlayer`, in which a caller may also wait in its join for ever
(section 5), `Facade`, `Receiver` and `Description`.

## 4. The proofs

`StreamPlayerProofs` proves, for every value of the constants that satisfies `BoundsAssumption`:

* `TypeCorrect`: `Spec => []TypeOK`.  `TypeOK` alone is not inductive: `CreateThread` needs room for one
  more thread, so the invariant carries `StartRoom` (a caller about to start a thread has seen
  `created < MaxThreads`).
* `OneActiveThread`: `Spec => []OneActive`.  The strengthening (`JoinsLast`, `OneInv`) says that a caller
  in its join waits for the thread created last, and that an id of 0 means that no thread is active.
* `NoMessageCrosses`: `Spec => []NoStaleMessage`, from `OneInv` and the step that empties the queue.
* `DecoderHasOwner`: `Spec => []DecoderOwned`, with `DecInv`, which says where in its code a thread must
  be while the decoder plays.
* `NoQuitTakenInVain`: `Spec => QuitHeeded`, an action property.  `PlayerQuit` goes through the five places
  that read the queue and what each does with a QUIT; `OneInv`, `AfterworkKeeps` and `SendGrows` say that no other
  thread, no thread on its last step and no caller takes one.  Excepted is what the code replaces (`MayReplace`; section 5).

`KeepAliveProofs` proves, under `KeepAliveAssumption`:

* `SessionTypeCorrect`: `Spec => []TypeOK`, which includes that no counter passes its limit.  It is
  inductive because a thread that has reached the limit has left its loop.  `Least` and `ReceivedType`
  say that the first notice of what was read exists and is a notice.
* `LiveServerNotGivenUp`: `Spec => []LiveServerKept`.  `LiveInv` adds that the heartbeat is sent from a
  buffer that holds a request (`SendsRequest`: only this thread writes anything else), that a heartbeat
  waiting for its reply has one on the way, or at hand, or an excuse in reserve (`ReplyComes`), and that
  a refusal at hand was counted (`RefusalCounted`).
* `NoticeActedOnce`: `Spec => []ActedOnce`.  `ActedInv` counts the places from which a notice can still be
  acted on (the socket, `rx_buffer` while the heartbeat is about to look at it, `player_status`): each is
  paid for by a notice that was sent and not yet acted on.
* `StreamingHeartbeatKeeps`, `SessionHeartbeatKeeps`: `Spec => MsKeepsContract`, `Spec => SsKeepsContract`.  `FlagInv`
  says that the flag is down while the thread runs and up once it has given up.

`SessionProofs` goes on from `StreamPlayerProofs` for a page that plays one medium after the other
(`OneMediumAtATime`: it stops a medium before it starts the next, calls neither `playFromStart` nor `playByTime`,
and descriptions, accepted replies and the memory for the second heartbeat are there; without it the
leaks of section 5 and of the hazards occur):

* `EveryExitReleases`: `Spec => []ExitReleasesAll`, for every failing step but those the assumption excludes.  `SessInv` says for every place in a thread's code which
  of session, session heartbeat and stream heartbeat there are (`Stage`), that `if_sm_setup` is set
  while one is held, that the kind of the thread agrees with `setup_type`, which decides what it releases
  (`Source`), and that no URLCHANGE is on its way.
* `ContractKept`: `Spec => KeepsContract`, the refinement of `SessionContract`, from the same invariant: one
  step per action shows it to be a step of the contract or a stutter (`ContractStep`).
* `HeartbeatsByContract`: `Spec => BeatsKeepContract`, the refinement of `HeartbeatContract` by both heartbeats, for
  which `SessInv` supplies that there is no thread at each place that creates one.

`FacadeProofs`, under `FacadeAssumption`, for any set of objects, modes, areas and channels:

* `TypeCorrect` and `ThreadsKeepPlayers` are proved together, for the type of a message that a thread takes
  depends on its player being there.  `ThreadsKeepPlayers` says that a player is deleted only when no thread sets up,
  plays or is being joined on it; it does not speak of a thread that has cleared its id for the last
  callback, which the destructor leaves behind (section 5).
* `QueueKept` and `SoundAsAsked` share `QueueInv`: ids are given in order (`IdsGiven`), and a volume message
  in the queue comes from a player that has one (`FromPlayers`).
* `FullscreenRight` is inductive with the types.  `JoinsWhatIsAsked` adds that the two lists are equal
  (`Joined`); `Least` and `FirstFinds` say that the first entry with a number exists and has that number.

`ReceiverProofs`, under `ReceiverAssumption`, for any players, line-up and media:

* `TypeCorrect` carries `TriesLeft` (a thread that searches has a try left) and `PlayerAbsent` (a player
  that is being made is not there).
* `TableIsThere`, `SkipsOnlyWhatIsTuned`: one step per action says which of them write the table or the
  tuner, and that they then note themselves as its user; making a player is one of them, for it scans and
  initialises the tuner.
* `NoKeyLeft` from `KeyInv`: where in its code a thread must be while `g_isScramble` is set by it.
  `LicenceIsSpent` from `LicenceInv`: while a file accepted as that of a scrambled film is there, its writer is between the
  licence and the cleanup, with `scramble = "yes"`.
* `TunnelFollowsPlayers` from `TunnelInv`: the last request on its way, or the tunnel when there is none, is
  what the state of the player that asked last wants, unless it was refused.  `RepliesCounted` is inductive with the types.

`DescriptionProofs`, under `DescriptionAssumption`, for any set of descriptions:

* `TypeCorrect` with `AttemptLeft`.
* `SetupIsWhatWasGiven`, `LicenceIsOfMedium`, `PlaysFromItsStart` from `AskedInv`: the fields agree with the
  text that was accepted (`FieldsOfChannel`, `FieldsOfMedium`), the client has its times before it sends
  SETUP (`HandedOver`), and what was sent is what they say (`SentAsAsked`).  What they say of the session client
  holds while it `Answers`, that is, until the memory of a deleted one is written over; where PLAY starts
  is a field of the player and holds in any case.
* `PositionIsTold`, of films, from `Followed`: `play_last_pts` is the first time stamp plus the distance played, modulo
  the clock.  `ModUnique`, `ModAdd`, `ModDistance` are the arithmetic, `NearMove` says that a move within
  `MaxOffset` is accepted in both directions.

`VcrProofs`, under `VcrAssumption`, for any speeds, volumes and number of calls:

* `TypeCorrect`: the queue within its limit, the sound within its range, and a thread that sends requests has
  a trick command in hand.
* `ModeIsTrue`, `LastOneWins` and `NormalAgain`, for any capacity of the queue: a message that did not fit is
  seen in `dropped`, which no step takes back (`DropStays`), and what is not dropped is at the end of the queue
  (`PostAppends`).
* `ModeIsTrue` claims the mode, and the scale that was sent in normal play, in a pause and in a fast forward at
  a speed that can be told; of a rewind the size of the scale, not the sign (section 5).  It follows from `ModeInv`: what the server was asked for, and will be, at each place of the thread
  (`Settled`, `Sending`, `Playing`).
* `LastOneWins` from `LastInv`, which follows the last command: its marks (`Marks`, `MarksMeet`), the command in
  hand (`Hand`) and its way through the queue (`OnItsWay`).
* `NormalAgain`: `Spec => []PlaysNormally`.  `SoundInv` says that the sound is the volume set last, or a volume
  message waits (`Sounds`), or a command is in hand that leaves PLAYING or gives it back (`Due`: at the
  test for a pause only if the one failure has been spent on the notice that brought it); `PictureInv` that
  without a failure the same holds of the decoder's I frames.

Frame lemmas (`PlayerKeeps`, `PlayerTakes`, `StepKeeps`, `Setters`, ...) are proved once and cited by each
invariant.  Every invariant and every action property of a passing run, and every refinement, has a
theorem.  Only model-checked is liveness, which like ENABLED is out of the prover's reach: `QuitHonoured`,
`HeartbeatLossEndsPlayer`, `LossNoticed`, `StopReturns`.  The proofs of `KeepAlive` and of `StreamPlayer` meet in
`HeartbeatContract`, but that the two compose, so that `LossNoticed` of the one and `HeartbeatLossEndsPlayer`
of the other give one statement, is read off by hand: each speaks of its own instance of the contract.

## 5. Where the code does not do what it says

Three disagreements have a run that TLC violates (PROJECT.json, findings):

* a begin of stream announced by the server replaces the QUIT of stop (`StopSwallowed`);
* a vod thread deletes both RTSP clients, which the next medium or the destructor uses (`ClientsDeleted`);
* all players read one queue, so stopping one may end the other (`OtherPlayerStops`).

Three more have a configuration of their own:

* `StreamMediaPlayer.h:116` and `RealizeSNmediaplayer.h:271` give the speed of a rewind as -2 to -32, and
  `rtsp_backward` puts a minus sign before it (`RTSPClient_prv.cpp:964`), so the server is sent `--2`.  At a positive
  speed the request is right, and the page is told -32x whatever the speed (`StreamMediaPlayer.cpp:609`).
  `RewindScale.cfg`: a rewind at -2, two minus signs sent, and the page told -2x.
* `parse_cw_from_license` prints "remove vod license file" (`StreamMediaPlayer.cpp:1764`) and removes nothing; the
  cleanup removes the file only when the result was `VOD_SCRAMBLE` (line 2061).  The file of a film that is
  clear, or that the DRM module refused after the file was written, stays.  `LicenceLeft.cfg`: a clear film
  played to its end, and its file still there.
* `StreamMediaPlayer.h:148` promises the absolute time for a programme shifted in time; `getCurrentPlayTime`
  tells the seconds since the first picture for every medium (line 593).  `TvodPosition.cfg`: a programme with
  a start, its first picture, and the page told 0.

The models contain these too; the properties above are stated so that they hold beside them, and a property
that forbids one of them is violated within a few steps:

* `leaveChannel` right after `joinChannel` blocks for good: the new thread's `ClearDummyKey` throws the QUIT
  away (`StreamMediaPlayer.cpp:1560`).
* `playFromStart` on a running player sets `if_sm_setup = 0` (line 299); the stop after it sends no TEARDOWN.
* `if_keep_alive_error` is cleared by the new heartbeat thread only (`RTSPClient_prv.cpp:1049`); a main loop
  that is quicker reads the flag of the session before, and quits.
* An end of stream behind the reply to a heartbeat, or read by a trick command, is never looked at
  (`RTSPClient_prv.cpp:665`, `1018`).
* A rewind's mark, set after its message, may replace the PLAY of the resume that follows
  (`StreamMediaPlayer.cpp:395`, `1267`; `LastCommandWins` excepts it with `replaced`).
* `playFromStart` on a running medium sends SEEK, which nobody handles, and sets `playerstate` to PREINIT, in
  which a resume sends nothing (line 304; `ModeAgrees` excepts it with `known`).
* PLAY sets `trick_ok_flag` before `playspeed = 1` (lines 1358 to 1361): a `fastForward` in between plays
  at speed 1, for which `getPlaybackMode` says 32x, as it does for every speed that is not a power of two up to
  32.  `ModeAgrees` claims the scale of a fast forward at the speeds that can be told.
* The exits of a medium that cannot be set up clear `mediaplayer_thread` before their last callback (lines 1569,
  1601, 1633); a destructor in between deletes the object under them.  `NoOrphanThread` excepts these threads.
* The mark of a pause or a rewind replaces a QUIT as a begin of stream does (lines 1250 to 1271);
  `StopReturns` excepts both with `missed`.
* The constructor scans for the service group (line 874) with the tuner another player may be using, and its
  `cur_freq` then names a frequency the tuner has left; `TunedRight` excepts it.
* A gateway that refuses the tunnel is not heard (line 113); `TunnelFollows` speaks of players not refused.
* `setting.xml` that cannot be read leaves the decoder open for good: the destructor looks at
  `status_decoder`, which was not set (lines 864, 906).
* `releaseNativePlayer` ignores its argument and `initMediaPlayer` and `releaseMediaPlayer` do not look whether the
  number is one of a slot (`SNmediaplayer.cpp:77`, `97`, `106`); `Facade` passes numbers of slots.
* Two failures leave normal play without sound: a notice whose PLAY the mark of a pause replaces, and the
  decoder refusing that pause.
* A frequency outside the band connects to the one before (`tsplay/tsplayer.c:309`); `TunedRight` speaks of
  frequencies inside it.
* Two players share `g_pProgTbl`, `g_phKey` and the close of the decoder; one that searches or stops between
  the other's search and `DSP_DVBplay` makes it read through `HI_NULL` (`tsplay/tsplayer.c:374`).
* `setSingleMedia`, `playFromStart` and `playByTime` play what the fields hold when the description is
  refused (lines 310, 335, 504); `playByTime` does not use its time.
* The position is a difference of 32-bit numbers: rewinding before the first picture that was seen wraps it, and
  a first time stamp of 0 is not taken (lines 452, 593); `PositionTold` excepts both.

## 6. Plan

1. `StreamPlayer`, `SessionContract`, `StreamPlayerProofs`, `SessionProofs`: done.
2. `KeepAlive`, `KeepAliveProofs`: done.
3. `Vcr`, `Facade`, `Receiver`, `Description` with their runs and proofs: done.
4. `HeartbeatContract`, the seam of `StreamPlayer` and `KeepAlive`, with its proofs: done.
5. Left: `Receiver` and `Vcr` composed with `StreamPlayer` in one instance, which
   is beyond what TLC explores in minutes.

## 7. Not modelled

* The text of requests, replies and descriptions, CSeq numbers, logging: which fields are there is modelled, not
  how they are written.
* The calls into the HiSilicon SDK whose result nothing reads (codec registration, window and output
  formats in `tsplay/tsplayer.c`), and coordinates: a display area is a part of the screen or all of it.
* The calls into the DRM client library within `parse_cw_from_license`; their outcome is a choice.
* `rtsp_jump`, `reConnection`, `rtspGETPARAMETER_gettime`, `get_response_timeout`, `playFromStart`'s seek: code without
  a caller, or empty.
* The headers `commonplayer.h`, `msg.h`, `ntp_interface.h` and those under `include/`: declarations, no
  code of this repository behind them.
* The files under `not_used/`: earlier clients and readers that the Makefile does not build.
