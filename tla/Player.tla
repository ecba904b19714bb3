------------------------------- MODULE Player -------------------------------
(***************************************************************************)
(* The radio player: the request queue, the loop task that serves it, the  *)
(* delayed save of the volume, smartstart, and what the rest of the        *)
(* firmware does to them (web and MQTT commands, Wi-Fi events, the source  *)
(* button, the TDA configuration screen).                                  *)
(*                                                                         *)
(* The loop task is the only consumer of the queue.  One pass of loop() is *)
(* receive -> (stopping | prepare -> connect) -> audio -> timer (-> saved) *)
(* -> controls -> receive; other tasks run between any two of these.       *)
(* The build modelled is the one myoptions.h configures: no SD card, so    *)
(* changeMode runs in the loop task only.                                  *)
(***************************************************************************)
EXTENDS Integers, Sequences

CONSTANTS
  Tasks,      \* the tasks that send commands: AsyncTCP, DspTask, MQTT, telnet
  Scenarios,  \* the sets of commands they may send: a behaviour keeps to one
  QueueLen,   \* length of playerQueue
  Stations,   \* the longest playlist
  Word,       \* number of values of a uint16_t station number
  Byte,       \* number of values of a uint8_t volume
  Loudest,    \* the loudest volume "vol" stores, 100
  SlowPasses  \* any pass of loop() may take over 3 s, not only one that connects

WifiTask == "wifi"      \* the event task that runs the Wi-Fi callbacks

ASSUME PlayerAssumption ==
  /\ WifiTask \notin Tasks
  /\ QueueLen \in Nat \ {0}
  /\ Byte \in Nat \ {0} /\ Loudest \in 0..(Byte - 1)
  /\ Stations \in Nat /\ Word \in Nat /\ Word > Stations + 1
  /\ SlowPasses \in BOOLEAN

Station == 0..(Word - 1)
Volume == 0..(Byte - 1)
Mode == {"WEB", "BT", "TV"}
Payload == Station \cup Volume
Request == [type : {"PLAY", "REPLAY", "STOP", "VOL"}, payload : Payload]

\* PR_PLAY with a negative payload, which leaves lastStation alone, is REPLAY.
Play(n) == [type |-> "PLAY", payload |-> n]
Replay(n) == [type |-> "REPLAY", payload |-> n]
Stop == [type |-> "STOP", payload |-> 0]
Vol(v) == [type |-> "VOL", payload |-> v]
Nothing == [type |-> "NONE", payload |-> 0]

\* smartstart: 0, 1, 2, and 3 for every other byte telnet may store.
Smart == 0..3

\* Half of a command: the volume stored and not yet sent, smartstart chosen and not yet
\* stored.
Arming(v) == [type |-> "ARM", payload |-> v]
Choosing(n) == [type |-> "CHOOSE", payload |-> n]
Half == [type : {"ARM"}, payload : Volume] \cup [type : {"CHOOSE"}, payload : Smart]

VARIABLES
  pc,              \* where the loop task is
  queue,           \* playerQueue
  pend,            \* what each other task is half way through, or is sending
  running,         \* Audio::isRunning()
  status,          \* _status
  station,         \* the argument of _play
  stations,        \* the lines of the WEB list
  last,            \* store.lastStation ("web") and store.lastSdStation ("sd")
  mode,            \* store.play_mode
  lockOutput, smartstart,
  volume, saved,   \* store.volume and the copy in EEPROM
  volTimer, volDue,\* _volTimer; more than 3000 ms have passed since _volTicks
  wifi,            \* beginReconnect, and the callback that is changing it
  lostPlaying,
  commands,        \* the scenario
  cfg,             \* prevCfgActive: the TDA screen has taken the display over
  refused,         \* history: the last PLAY found no playlist and gave up
  lockedStop,      \* history: the last stop happened under lockOutput
  stopLost,        \* history: a change of source found the queue full
  byHand,          \* history: a command was the last to store smartstart
  rearmed,         \* history: the save timer was armed while its save was written
  missed           \* history: since the last save a VOL request was served with no
                   \* timer armed, or an armed timer was cleared

audio == <<running, status, station>>
volumes == <<volume, saved, volTimer, volDue, rearmed, missed>>
network == <<wifi, lostPlaying>>
session == <<cfg, commands>>
history == <<refused, lockedStop, stopLost, byHand>>
vars == <<pc, queue, pend, audio, stations, last, mode, lockOutput, smartstart,
          volumes, network, session, history>>

Senders == Tasks \cup {WifiTask}

Init ==
  /\ pc = "receive" /\ queue = <<>>
  /\ pend = [t \in Senders |-> Nothing]
  /\ running = FALSE /\ status = "STOPPED" /\ station = 0
  /\ stations \in 0..Stations
  /\ last \in [{"web", "sd"} -> 0..Stations]
  /\ stations > 0 => last["web"] \in 1..stations      \* initPlaylistMode
  /\ mode = "WEB"
  /\ lockOutput = FALSE                     \* the end of setup()
  /\ smartstart \in 0..2 /\ byHand = FALSE
  /\ commands \in Scenarios
  /\ volume \in Volume /\ saved = volume
  /\ "volume" \notin commands => volume = 0  \* nobody sets it: any value will do
  /\ volTimer = FALSE /\ volDue = TRUE /\ rearmed = FALSE /\ missed = FALSE
  /\ wifi = "up" /\ lostPlaying = FALSE
  /\ cfg = FALSE
  /\ refused = FALSE /\ stopLost = FALSE
  /\ lockedStop = (smartstart = 1)          \* silenced by the loss of power

-----------------------------------------------------------------------------
(* Faulty variants of the operators below, each the form a plausible bug would give it. *)

ForgetNothing ==
  /\ UNCHANGED <<smartstart, byHand>>
  /\ lockedStop' = lockOutput

StopOnlyInStatus == UNCHANGED running

EndSeenBeforeLoop == ~running /\ status = "PLAYING"

WriteUnforced == UNCHANGED saved

LeaveArmed == UNCHANGED volTimer

KeepLock == UNCHANGED lockOutput

-----------------------------------------------------------------------------
(* Helpers *)

\* The station counter that lastStation() reads and writes in the current mode.
Slot == IF mode = "WEB" THEN "web" ELSE "sd"
LastStation == last[Slot]
SetLastStation(n) == last' = [last EXCEPT ![Slot] = n]

\* Outside WEB the list is the one of the SD card, which this build does not have.
PlaylistLength == IF mode = "WEB" THEN stations ELSE 0

\* The station prev() and next() move to, in uint16_t arithmetic.
Previous == IF LastStation = 1 THEN PlaylistLength ELSE (LastStation - 1) % Word
Following == IF LastStation = PlaylistLength THEN 1 ELSE (LastStation + 1) % Word

\* The number loadStation stores, and the line it reads: for 0 the seek fails and
\* the first line is read.
Listed(n) == IF n > PlaylistLength THEN 1 ELSE n
Opened(n) == IF n = 0 THEN 1 ELSE Listed(n)

\* sendCommand from the loop task: nobody else can make room, so the wait of
\* one second always ends in a lost request when the queue is full.
Post(r) == queue' = IF Len(queue) < QueueLen THEN Append(queue, r) ELSE queue

StopQueued == \E i \in 1..Len(queue) : queue[i].type = "STOP"
VolUnderWay ==
  \/ \E i \in 1..Len(queue) : queue[i].type = "VOL"
  \/ \E t \in Senders : pend[t].type = "VOL"

\* stopInfo unless the output is locked, at the end of _stop.
ForgetPlaying ==
  /\ smartstart' = IF lockOutput THEN smartstart ELSE 0
  /\ byHand' = (byHand /\ lockOutput)
  /\ lockedStop' = lockOutput

\* prepareForPlaying and configPostPlaying: 2 is kept, it means switched off.
Remember(n) ==
  /\ smartstart' = IF smartstart = 2 THEN 2 ELSE n
  /\ byHand' = (byHand /\ smartstart = 2)
ForgetOld == Remember(0)
RememberPlaying == Remember(1)

\* stopSong() of the audio library.
StopSong == running' = FALSE

\* Seen after Audio::loop has run.
SongEnded == ~running' /\ status = "PLAYING"

\* saveVolume() forces the write: store.volume already holds the value.
WriteVolume == saved' = volume

DisarmVolume == volTimer' = FALSE

\* setVol arms the save timer, also one whose save is being written.
ArmTimer == volTimer' = TRUE /\ volDue' = FALSE /\ rearmed' = (pc = "saved")

Unlock == lockOutput' = FALSE

-----------------------------------------------------------------------------
(* The loop task *)

\* _stop() up to its delay of 200 ms: the status changes and the song is stopped.
ServeStop ==
  /\ Head(queue).type = "STOP"
  /\ StopSong /\ status' = "STOPPED"
  /\ refused' = FALSE /\ stopLost' = FALSE
  /\ pc' = "stopping"
  /\ UNCHANGED <<station, last, smartstart, volumes, lockedStop, byHand>>

\* PR_PLAY up to the start of prepareForPlaying: the old song is still heard.
ServePlay ==
  /\ Head(queue).type \in {"PLAY", "REPLAY"}
  /\ IF Head(queue).type = "PLAY" /\ Head(queue).payload > 0
       THEN SetLastStation(Head(queue).payload)
       ELSE UNCHANGED last
  /\ station' = Head(queue).payload
  /\ status' = "STOPPED"
  /\ pc' = "prepare"
  /\ UNCHANGED <<running, smartstart, volumes, history>>

ServeVol ==
  /\ Head(queue).type = "VOL"
  /\ volume' = Head(queue).payload
  /\ missed' = ~volTimer
  /\ pc' = "audio"
  /\ UNCHANGED <<audio, last, smartstart, saved, volTimer, volDue, rearmed, history>>

\* One request per pass.
Receive ==
  /\ pc = "receive" /\ queue # <<>>
  /\ ServeStop \/ ServePlay \/ ServeVol
  /\ queue' = Tail(queue)
  /\ UNCHANGED <<pend, stations, mode, lockOutput, network, session>>

ReceiveNone ==
  /\ pc = "receive" /\ queue = <<>>
  /\ pc' = "audio"
  /\ UNCHANGED <<queue, pend, audio, stations, last, mode, lockOutput, smartstart,
                 volumes, network, session, history>>

\* The rest of _stop: lockOutput is read after the delay.
FinishStop ==
  /\ pc = "stopping"
  /\ ForgetPlaying
  /\ pc' = "audio"
  /\ UNCHANGED <<queue, pend, audio, stations, last, mode, lockOutput, volumes, network,
                 session, refused, stopLost>>

\* prepareForPlaying finds no list, as always outside WEB: _play returns at once.
Refuse ==
  /\ pc = "prepare" /\ PlaylistLength = 0
  /\ refused' = TRUE
  /\ pc' = "audio"
  /\ UNCHANGED <<queue, pend, audio, stations, last, mode, lockOutput, smartstart,
                 volumes, network, session, lockedStop, stopLost, byHand>>

\* prepareForPlaying, then connecttohost closes the old song.
Prepare ==
  /\ pc = "prepare" /\ PlaylistLength > 0
  /\ SetLastStation(Listed(station))
  /\ station' = Opened(station)
  /\ ForgetOld
  /\ mode' = "WEB"
  /\ running' = FALSE /\ stopLost' = FALSE /\ refused' = FALSE
  /\ pc' = "connect"
  /\ UNCHANGED <<queue, pend, status, stations, lockOutput, volumes, network, session,
                 lockedStop>>

\* connecttohost succeeds: configPostPlaying remembers that the radio plays.
Connect ==
  /\ pc = "connect" /\ mode = "WEB"
  /\ running' = TRUE /\ status' = "PLAYING"
  /\ RememberPlaying
  /\ lockedStop' = FALSE
  /\ pc' = "audio"
  /\ UNCHANGED <<queue, pend, station, stations, last, mode, lockOutput, volumes,
                 network, session, refused, stopLost>>

\* connecttohost fails: _stop(true).
FailConnect ==
  /\ pc = "connect"
  /\ status' = "STOPPED"
  /\ ForgetPlaying
  /\ pc' = "audio"
  /\ UNCHANGED <<queue, pend, running, station, stations, last, mode, lockOutput,
                 volumes, network, session, refused, stopLost>>

\* Audio::loop; a song found to have ended is stopped in the same pass.
AudioLoop ==
  /\ pc = "audio"
  /\ running' \in {running, FALSE}
  /\ IF SongEnded
       THEN status' = "STOPPED" /\ ForgetPlaying
       ELSE UNCHANGED <<status, smartstart, lockedStop, byHand>>
  /\ stopLost' = (stopLost /\ running')
  /\ pc' = "timer"
  /\ UNCHANGED <<queue, pend, station, stations, last, mode, lockOutput, volumes,
                 network, session, refused>>

SaveDue == volTimer /\ volDue

\* saveVolume(), a write to flash; the timer is cleared only after it.
SaveVolume ==
  /\ pc = "timer" /\ SaveDue
  /\ WriteVolume
  /\ rearmed' = FALSE /\ missed' = FALSE
  /\ pc' = "saved"
  /\ UNCHANGED <<queue, pend, audio, stations, last, mode, lockOutput, smartstart,
                 volume, volTimer, volDue, network, session, history>>

SaveNotDue ==
  /\ pc = "timer" /\ ~SaveDue
  /\ pc' = "controls"
  /\ UNCHANGED <<queue, pend, audio, stations, last, mode, lockOutput, smartstart,
                 volumes, network, session, history>>

ClearTimer ==
  /\ pc = "saved"
  /\ DisarmVolume
  /\ missed' = (missed \/ rearmed)
  /\ pc' = "controls"
  /\ UNCHANGED <<queue, pend, audio, stations, last, mode, lockOutput, smartstart,
                 volume, saved, volDue, rearmed, network, session, history>>

-----------------------------------------------------------------------------
(* Commands: the request r a command makes, and what it writes before sending it. *)

AskPlain(r) ==
  /\ \/ "stop" \in commands /\ r = Stop
     \/ "start" \in commands /\ r = Play(LastStation)
     \/ "toggle" \in commands /\ r = IF status = "PLAYING" THEN Stop ELSE Play(LastStation)
     \/ "select" \in commands /\ \E n \in 0..PlaylistLength : r = Play(n) /\ (n = 0 => PlaylistLength = 0)
     \/ "replay" \in commands /\ running /\ r = Replay(LastStation)
  /\ UNCHANGED <<last, volumes>>

AskStep(r) ==
  \E n \in Station :
    /\ \/ "prev" \in commands /\ n = Previous
       \/ "next" \in commands /\ n = Following
    /\ r = Play(n)
    /\ SetLastStation(n)
    /\ UNCHANGED volumes

\* setVol: the slider, the encoder, telnet, the TDA screen when it saves.
AskVolume(r) ==
  /\ "volume" \in commands
  /\ \E v \in Volume : r = Vol(v)
  /\ ArmTimer
  /\ UNCHANGED <<volume, saved, missed, last>>

Asks(r) == AskPlain(r) \/ AskStep(r) \/ AskVolume(r)

-----------------------------------------------------------------------------
(* The rest of loop(), in the loop task *)

NoEvent ==
  /\ pc = "controls"
  /\ pc' = "receive"
  /\ UNCHANGED <<queue, pend, audio, stations, last, mode, lockOutput, smartstart,
                 volumes, network, session, history>>

\* A button, the encoder or telnet.
LoopCommand ==
  /\ pc = "controls"
  /\ \E r \in Request : Asks(r) /\ Post(r)
  /\ pc' = "receive"
  /\ UNCHANGED <<pend, audio, stations, mode, lockOutput, smartstart, network, session,
                 history>>

NextMode == CASE mode = "WEB" -> "BT" [] mode = "BT" -> "TV" [] OTHER -> "WEB"

\* changeMode: the wait for the player to stop runs in the task that would stop it.
ChangeMode ==
  /\ pc = "controls" /\ "mode" \in commands
  /\ mode' = NextMode
  /\ IF running
       THEN Post(Stop) /\ stopLost' = (Len(queue) = QueueLen)
       ELSE UNCHANGED <<queue, stopLost>>
  /\ pc' = "receive"
  /\ UNCHANGED <<pend, audio, stations, last, lockOutput, smartstart, volumes, network,
                 session, refused, lockedStop, byHand>>

EnterConfig ==
  /\ pc = "controls" /\ "config" \in commands /\ ~cfg
  /\ Post(Stop)
  /\ lockOutput' = TRUE /\ cfg' = TRUE
  /\ pc' = "receive"
  /\ UNCHANGED <<pend, audio, stations, last, mode, smartstart, volumes, network,
                 commands, history>>

ExitConfig ==
  /\ pc = "controls" /\ cfg
  /\ Unlock /\ cfg' = FALSE
  /\ pc' = "receive"
  /\ UNCHANGED <<queue, pend, audio, stations, last, mode, smartstart, volumes, network,
                 commands, history>>

\* smartstart(n) over telnet, served by the loop task: any byte is stored as it comes.
TelnetSmartstart ==
  /\ pc = "controls" /\ "smartstart" \in commands
  /\ smartstart' \in Smart /\ byHand' = TRUE
  /\ pc' = "receive"
  /\ UNCHANGED <<queue, pend, audio, stations, last, mode, lockOutput, volumes, network,
                 session, refused, lockedStop, stopLost>>

Loop ==
  \/ Receive \/ ReceiveNone \/ FinishStop \/ Refuse \/ Prepare \/ Connect \/ FailConnect \/ AudioLoop
  \/ SaveVolume \/ SaveNotDue \/ ClearTimer
  \/ NoEvent \/ LoopCommand \/ ChangeMode \/ EnterConfig \/ ExitConfig \/ TelnetSmartstart

-----------------------------------------------------------------------------
(* The other tasks *)

Idle(t) == pend[t] = Nothing

Issue(t) ==
  /\ Idle(t)
  /\ \E r \in Request : Asks(r) /\ pend' = [pend EXCEPT ![t] = r]
  /\ UNCHANGED <<pc, queue, audio, stations, mode, lockOutput, smartstart, network, session,
                 history>>

\* "vol" stores the volume itself, cut to 0..Loudest ...
Cut(v) == IF v < 0 THEN 0 ELSE IF v > Loudest THEN Loudest ELSE v

StoreVolume(t) ==
  /\ Idle(t) /\ "volume" \in commands
  /\ \E v \in (-Byte)..(2 * Byte) :
       /\ volume' = Cut(v)
       /\ pend' = [pend EXCEPT ![t] = Arming(v % Byte)]
  /\ UNCHANGED <<pc, queue, audio, stations, last, mode, lockOutput, smartstart, saved,
                 volTimer, volDue, rearmed, missed, network, session, history>>

\* ... and then calls setVol with the lowest byte of what it was given.
Arm(t) ==
  /\ pend[t].type = "ARM"
  /\ ArmTimer
  /\ pend' = [pend EXCEPT ![t] = Vol(pend[t].payload)]
  /\ UNCHANGED <<pc, queue, audio, stations, last, mode, lockOutput, smartstart, volume,
                 saved, missed, network, session, history>>

\* The "smartstart" command looks at the player ...
ChooseSmartstart(t) ==
  /\ Idle(t) /\ "smartstart" \in commands
  /\ \E n \in {2, IF running THEN 1 ELSE 0} : pend' = [pend EXCEPT ![t] = Choosing(n)]
  /\ UNCHANGED <<pc, queue, audio, stations, last, mode, lockOutput, smartstart, volumes,
                 network, session, history>>

\* ... and stores its choice afterwards.
StoreSmartstart(t) ==
  /\ pend[t].type = "CHOOSE"
  /\ smartstart' = pend[t].payload /\ byHand' = TRUE
  /\ pend' = [pend EXCEPT ![t] = Nothing]
  /\ UNCHANGED <<pc, queue, audio, stations, last, mode, lockOutput, volumes, network,
                 session, refused, lockedStop, stopLost>>

Sending(t) == pend[t] \in Request

\* xQueueSend finds room ...
Deliver(t) ==
  /\ Sending(t) /\ Len(queue) < QueueLen
  /\ queue' = Append(queue, pend[t])
  /\ pend' = [pend EXCEPT ![t] = Nothing]
  /\ UNCHANGED <<pc, audio, stations, last, mode, lockOutput, smartstart, volumes,
                 network, session, history>>

\* ... or gives up after PLQ_SEND_DELAY.
Discard(t) ==
  /\ Sending(t) /\ Len(queue) = QueueLen
  /\ pend' = [pend EXCEPT ![t] = Nothing]
  /\ UNCHANGED <<pc, queue, audio, stations, last, mode, lockOutput, smartstart, volumes,
                 network, session, history>>

\* An upload removes the playlist with its first block and indexes the new one at the end.
Upload ==
  /\ "upload" \in commands
  /\ stations' \in 0..Stations
  /\ UNCHANGED <<pc, queue, pend, audio, last, mode, lockOutput, smartstart, volumes,
                 network, session, history>>

\* "clearspiffs": the index is removed, and with it the length of the list; the source
\* becomes WEB without changeMode.
ClearSpiffs ==
  /\ "upload" \in commands
  /\ stations' = 0 /\ mode' = "WEB"
  /\ UNCHANGED <<pc, queue, pend, audio, last, lockOutput, smartstart, volumes, network,
                 session, history>>

\* millis() passes _volTicks + 3000.
VolElapses ==
  /\ ~volDue /\ volDue' = TRUE
  /\ SlowPasses \/ pc = "connect" \/ ~VolUnderWay
  /\ UNCHANGED <<pc, queue, pend, audio, stations, last, mode, lockOutput, smartstart,
                 volume, saved, volTimer, rearmed, missed, network, session, history>>

\* WiFiLostConnection: a playing radio is locked and stopped ...
LoseWifi ==
  /\ "wifi" \in commands /\ wifi = "up" /\ Idle(WifiTask)
  /\ lostPlaying' = running
  /\ IF running
       THEN /\ lockOutput' = TRUE
            /\ pend' = [pend EXCEPT ![WifiTask] = Stop]
            /\ wifi' = "losing"
       ELSE wifi' = "down" /\ UNCHANGED <<lockOutput, pend>>
  /\ UNCHANGED <<pc, queue, audio, stations, last, mode, smartstart, volumes, session,
                 history>>

\* ... and beginReconnect is set once sendCommand has returned.
BeginReconnect ==
  /\ wifi = "losing" /\ Idle(WifiTask)
  /\ wifi' = "down"
  /\ UNCHANGED <<pc, queue, pend, audio, stations, last, mode, lockOutput, smartstart,
                 volumes, lostPlaying, session, history>>

\* WiFiReconnected: the lock is released whoever holds it.
Reconnect ==
  /\ wifi = "down"
  /\ wifi' = "up"
  /\ Unlock
  /\ pend' = IF lostPlaying THEN [pend EXCEPT ![WifiTask] = Play(LastStation)] ELSE pend
  /\ UNCHANGED <<pc, queue, audio, stations, last, mode, smartstart, volumes, lostPlaying,
                 session, history>>

Next ==
  \/ Loop
  \/ \E t \in Tasks : Issue(t) \/ StoreVolume(t) \/ Arm(t)
  \/ \E t \in Tasks : ChooseSmartstart(t) \/ StoreSmartstart(t)
  \/ \E t \in Senders : Deliver(t) \/ Discard(t)
  \/ Upload \/ ClearSpiffs \/ VolElapses
  \/ LoseWifi \/ BeginReconnect \/ Reconnect

Spec == Init /\ [][Next]_vars

\* The loop task is never starved, a command is carried out to its end, a blocked sender
\* is woken by room or by its timeout, and time passes.
FairSpec ==
  /\ Spec
  /\ WF_vars(Loop) /\ WF_vars(VolElapses) /\ WF_vars(BeginReconnect)
  /\ \A t \in Senders : WF_vars(Arm(t) \/ StoreSmartstart(t) \/ Deliver(t) \/ Discard(t))

-----------------------------------------------------------------------------
(* Properties *)

Pending == Request \cup Half \cup {Nothing}

FlagsOK ==
  /\ running \in BOOLEAN /\ lockOutput \in BOOLEAN
  /\ volTimer \in BOOLEAN /\ volDue \in BOOLEAN
  /\ rearmed \in BOOLEAN /\ missed \in BOOLEAN /\ byHand \in BOOLEAN
  /\ lostPlaying \in BOOLEAN /\ cfg \in BOOLEAN
  /\ refused \in BOOLEAN /\ lockedStop \in BOOLEAN /\ stopLost \in BOOLEAN

DataOK ==
  /\ pc \in {"receive", "stopping", "prepare", "connect", "audio", "timer", "saved", "controls"}
  /\ queue \in Seq(Request) /\ Len(queue) <= QueueLen
  /\ pend \in [Senders -> Pending]
  /\ status \in {"PLAYING", "STOPPED"}
  /\ station \in Payload /\ stations \in 0..Stations
  /\ last \in [{"web", "sd"} -> Payload]
  /\ mode \in Mode
  /\ smartstart \in Smart
  /\ volume \in Payload /\ saved \in Payload
  /\ wifi \in {"up", "losing", "down"}

\* Every variable keeps its type and the queue its length, whatever the order of
\* commands, Wi-Fi events and passes of loop() (player.cpp, network.cpp).
TypeOK == FlagsOK /\ DataOK

\* But for the preparation of a PLAY, the status the firmware reports and the audio
\* decoder agree: what plays is PLAYING, and what is STOPPED is silent, unless the
\* last PLAY found no playlist and returned with the old song running.
StatusTellsAudio == pc # "prepare" => (running <=> status = "PLAYING") \/ refused

\* Outside WEB mode the radio is heard only while a PR_STOP is on its way to the
\* player, or after changeMode found the queue full and lost it.
SilentOutsideWeb == running /\ mode # "WEB" => StopQueued \/ stopLost

\* lockOutput, which hides metadata and keeps smartstart, never outlives its
\* reasons: the configuration screen, or a connection lost while playing.
LockHasReason == lockOutput => cfg \/ wifi = "losing" \/ (wifi = "down" /\ lostPlaying)

\* smartstart = 1, unless a command stored it since the player last did, says that the
\* radio plays or was silenced by something other than the user (a lost connection, the
\* configuration screen): every end of a song, a failed connect included, clears it.
SmartstartTruthful ==
  pc \notin {"prepare", "stopping"} /\ smartstart = 1 =>
    status = "PLAYING" \/ lockedStop \/ refused \/ byHand

\* A volume in use that EEPROM does not hold is about to be saved: the timer is armed, or
\* a "vol" command is about to arm it.  There are two ways out, both recorded in missed:
\* a PR_VOL served after its save, and a timer armed while the save was being written.
UnsavedHasReason ==
  saved # volume => volTimer \/ missed \/ \E t \in Senders : pend[t].type = "ARM"

\* A change of source silences the radio, however the queue stands, unless the
\* request was lost: changeMode waits for it in the very task that serves it.
SwitchSilences == (mode # "WEB" /\ running) ~> (stopLost \/ mode = "WEB" \/ ~running)

\* Once the volume is left alone the save timer runs out for good, and EEPROM holds
\* the volume in use unless its request came late or its timer was cleared by the save
\* before it.
VolumeSettles == <>[]volDue => <>[](~volTimer /\ (saved = volume \/ missed))

\* "Always stop the player when switching sources" (changeMode).
StopsOnSwitch == running /\ mode # "WEB" => StopQueued
=============================================================================
