# A verification project for yoRadio-PMW

yoRadio-PMW is the firmware of an internet radio on an ESP32: it plays web streams, shows what a
Bluetooth module says about a phone, switches sources through a TDA7719 sound processor, and is
operated by buttons, encoders, a web page, telnet and MQTT. Several FreeRTOS tasks share queues,
flags, files and settings, mostly without locks. The modules here model the parts where the order
of their steps matters, TLC checks them on small instances, and TLAPS proves the safety properties
for every value of the constants.

The reference is the code in `src/`, in the build `src/myoptions.h` configures: an ST7796 display,
a Bluetooth module and one auxiliary input (`SRC_BT`, `SRC_AUX1`), no SD card (`USE_SD` is not
defined), no MQTT options file, no touch screen or infrared, no OTA. `NetServer::loop()` runs in
DspTask. Paths below are relative to `src/src/`.

## 1. Inventory

### The tasks

| task | what it runs |
|---|---|
| loop (Arduino, core 1) | `loop()` in main.cpp: `timekeeper.loop1()`, UART and ACK timeout and heartbeat of Bluetooth, `player.loop()` and in it `Audio::loop()`, telnet, `loopControls()`, MQTT |
| DspTask (core 0) | `display.loop()`, `netserver.loop()`, `timekeeper.loop0()` |
| AsyncTCP | every HTTP and WebSocket handler |
| audio task | `playAudioData`: decodes what waits in the input buffer |
| Wi-Fi event task | `WiFiLostConnection`, `WiFiReconnected` |
| syncTask | one time synchronisation, then it ends |

They meet in three queues (`playerQueue`, `displayQueue` of 5, `nsQueue` of 20), in one mutex
(`btMetaMutex`), in the audio engine's ring buffer, and in plain variables (`config.store`, `lockOutput`, `importRequest`, ...).

### The components

| component | state | operations | hard because | correct when |
|---|---|---|---|---|
| Bluetooth link (`bluetooth_uart.cpp`, main.cpp, controls.cpp) | `btMeta`: connected, playing, awaitingAck, expectedPlaying, ackDeadline, ackRetries; lastSeen, probe | lines from the UART, `bt_process_timeouts`, `bt_heartbeat_check`, the centre click, PAUSE from `changeMode` | clicks, mode changes, repetitions and reports cross on the UART; answers come late or never; timeouts race answers | a request has a timer, ends, is repeated a bounded number of times; a phone is dropped only after real silence; belief and phone agree when nothing is lost |
| Player (`player.cpp`, config.cpp, network.cpp) | `playerQueue`, `_status`, `isRunning()`, `lockOutput`, smartstart, volume and its timer, mode, last stations | `player.loop()`, commands, `changeMode`, Wi-Fi callbacks, take-over by the configuration screen | commands arrive while a connect blocks for seconds, and write settings of their own before or after they send; queues fill; one lock bit has three owners | status and decoder agree; a change of source silences; smartstart and the saved volume tell the truth |
| TDA7719 screen (`tda_config_ui.cpp`, controls.cpp) | state machine, staged settings, `/data/tda7719.bin`, edge detector, knob turns | enter, scroll, edit, save, leave, inactivity | the screen, the controls and two other dialogs take the display from one another; a save is several file operations | no turn or click reaches what it was not meant for; the file is never a torn one; the chip gets what the flash holds |
| Uploads and import (`netserver.cpp`, config.cpp) | playlist, networks, temporary file, index, `importRequest`, `nsQueue` | upload blocks, import, index, queue service | a file goes through three tasks and two queues; two tasks run the same import | the index belongs to the list; a list without an index gets one; what was accepted is installed |
| Audio input buffer (`audioI2S/Audio.cpp` 60-390) | two pointers, full and empty flags, spaces | ask for room, commit, ask for bytes, release, reset | the loop task fills it while the audio task decodes in place; `reset()` takes no mutex; a reserve behind the end is copied to the front | bytes come out once each, in order; nobody writes over a block being decoded |
| Web streams (`audioI2S/Audio.cpp` `processWebStream`, `getChunkSize`, `readMetadata`) | chunk size, metadata count, half-read markers | one call for every pass of `loop()` | chunk sizes, titles and their marks may be split between any two calls; servers promise chunks and send none | the buffer gets the audio bytes in order and nothing else; titles are whole |
| Page downloads (`netserver.cpp` 140-200) | shared path buffer, display lock | chunked responses | the display is locked until the end of a file that may never be read | the display is unlocked again |
| Display task (`display.cpp`) | mode, queue, `_locked`, pages | requests, mode changes, lock | requests dropped while the network is down or the queue is full | the screen asked for last is shown |
| Time keeper (`timekeeper.cpp`) | return timer, one delayed action, `busy`, `forceTimeSync` | second ticks, delayed actions, synchronisation | 8-bit seconds, one slot, flags shared by tasks | an action asked for happens, when asked for |
| Network (`network.cpp`) | status, known networks, beginReconnect, lostPlaying | connect, lose, reconnect, access point | callbacks in their own task | the radio resumes what it played |
| Controls (`controls.cpp`) | encoder and button states, station cursor | clicks, turns, long presses | what an input means depends on the screen | inputs act on what is shown |
| Commands, telnet, MQTT | - | one setting or request each | run in four tasks | - |
| Configuration store (`config.cpp`) | `config.store`, its EEPROM image | `saveValue`, load, reset | written by all tasks without a lock | RAM and EEPROM agree |
| TDA7719 driver | registers | I2C writes | - | - |
| Drivers, widgets, vendored libraries, web pages | - | - | - | not modelled |

`ConfigUi` (`config_ui.cpp`) and `parseBTMessage` (main.cpp) are dead code: the first is entered at
boot and left again before `loop()` runs, the second is never called.

How the components call one another: commands and controls post to `playerQueue` and call
`changeMode`; `changeMode` stops the player, pauses the phone, empties `nsQueue` and
`displayQueue`; the player posts to both; the configuration screen stops the player, sets
`lockOutput` and draws in DspTask; Wi-Fi callbacks set the same lock and post to both queues;
an upload replaces the list the player reads; a download locks the display; the display sets
timers in the time keeper, which posts back to it; `Audio::loop` takes a stream apart and fills the
buffer the audio task empties.

The hazards, each at its line, are in PROJECT.json.

## 2. The modules

| module | models | extends |
|---|---|---|
| `BtLink` | the Bluetooth link | |
| `CommandExchange` | what the link promises of one PLAY/PAUSE request | |
| `Player` | player, source changes, Wi-Fi callbacks, smartstart, volume | |
| `TdaConfig` | the configuration screen, its file, the display it shares | |
| `WebImport` | uploads, import, index | |
| `ByteFifo` | what the ring buffer promises: a queue of bytes | |
| `AudioBuffer` | class AudioBuffer, the loop task that fills it and the audio task that empties it | |
| `StreamGrammar` | what a well-formed web stream is: audio, titles, chunks (outside the radio) | |
| `HttpStream` | how a connection's bytes are taken apart | `StreamGrammar` |
| `TimeKeeper` | return timer, delayed action | |
| `PageDownload` | downloads of files and the lock they put on the display | |
| `DspTask` | the display's queue and modes, composed with the two above and the loop task's inputs | `TimeKeeper`, `PageDownload` |
| `MC...` | instances for TLC | the module each names |
| `...Proofs` | theorems | the module each names, TLAPS |

Each module begins with the variables and their source names, then `Init`, faulty variants (used
only to show that each property can fail; no action refers to them), helpers, the actions in the
order of the code, `Next`, `Spec`, `FairSpec` and the properties. Variables marked *history* record
what happened for the properties and influence no action.

### BtLink

The loop task goes `rx -> ack -> beat -> controls` (`pc`), as `loop()` does. A step is a stretch of
code between two points another task can observe: a line handled under the mutex, the ACK timeout,
the heartbeat, and the two halves of the centre click, which reads `btMeta` under the mutex,
releases it, prints, and takes it again (`click` holds its locals in between). `changeMode` is a step of the
loop task's controls: without `USE_SD` the CHANGEMODE request and the mode command of the web are compiled
out, and only the source button calls it. The command clearspiffs, in the web's task, stores the mode WEB
at any moment and pauses nothing (`ClearSpiffs`). Deadlines are the time left; `Tick` lets time pass between
any two steps. The UART is a pair of bounded sequences; the module and the phone
answer, forget, or start by themselves (`Spontaneous`). `inSync` is the history of losses.
`CommandExchange` is the abstract exchange: ask, repeat at most `MaxTries` times,
end. `BtLink` implements it with `pending <- awaitingAck`, `want <- expectedPlaying`,
`tries <- ackRetries`; its fairness (a request ends) is implied by the link's.

### Player

One pass of the loop task is `receive -> (stopping | prepare -> connect) -> audio -> timer (-> saved) ->
controls`. `_stop` is two steps, because it waits 200 ms before it looks at `lockOutput` (`FinishStop`). `_play` is three steps because it notifies and blocks: the status says STOPPED before
the playlist is read (`ServePlay`), the old song stops when the new one is opened (`Prepare`), and
the result is known seconds later (`Connect`, `FailConnect`). A playlist that is missing makes it
return early (`Refuse`), and so does any PLAY served outside WEB, because `playlistLength()` then
looks for the list of the SD card. Other tasks send with a timeout (`pend`, `Deliver`, `Discard`);
the loop task, the only one that empties the queue, cannot wait for itself (`Post`). A command is
an action that makes a request and writes what the code writes before it sends (`AskStep` writes
lastStation, `AskVolume` arms the timer). A command that reads or writes before another write is cut there,
and `pend` holds what it has in hand: "vol" stores the volume (`StoreVolume`, clamped by `Cut`), and arms the timer
and sends the unclamped byte later (`Arm`); "smartstart" looks at the player (`ChooseSmartstart`) and stores later
(`StoreSmartstart`); smartstart(%d) of telnet stores any byte at once (`TelnetSmartstart`). A behaviour keeps to one set of commands (`commands`, chosen in `Init` from `Scenarios`).
`SlowPasses` says whether any pass may outlast the 3 s of the volume timer or only one that
connects; the run allows any. Shuffling, which prev and next do on the SD card only, is left out.

History variables: `refused` (the last PLAY found no list), `lockedStop` (the last stop happened
under `lockOutput`, so smartstart was kept), `stopLost` (a change of source found the queue full),
`byHand` (a command was the last to store smartstart), `rearmed` (the save timer was armed while its save was
being written), `missed` (since the last save a volume request was served with no timer armed, or a timer so
armed was cleared).

### TdaConfig

One pass is `poll -> hook -> src -> take -> enc -> btn`; a confirmed save adds `open -> write ->
remove -> rename -> apply`, each of which may fail and between which the device may restart. Time is counted in
units of which a pass takes at most `MaxPass`; ages stop counting at `Timeout + 1` and
`LongQuiet`, beyond which no guard or property tells them apart. The display task takes requests
from a bounded queue (`Show`) and ignores a change of mode while the network is down. `Levels` are
the volumes set elsewhere: one value, 87 where the volume is of no interest, since a save sets just
that. `MayLose` and `MayRestart` switch Wi-Fi losses and restarts on in the runs that ask about
them. The display modes VOL, NUMBERS, SCREENSAVER and UPDATING behave to this screen as PLAYER
does and are left out.

### WebImport

A file is the upload it comes from and whether it is whole (`Content`), or `Absent`. An upload goes
`new (-> first) -> tmp -> closed -> accepted`; the first block of a list is three steps, since it removes the
list (`FirstBlock`), then the index (`DropIndex`), then opens the temporary file (`FirstListBlock`), and a restart
or another task may come after each; `list` and `gone` are the states of an upload whose open file
got another name or none. The handlers of AsyncTCP run one at a time; `dsp` and `loop` run
`NetServer::loop` from `idle` over `check` to the import and back. The slot `importRequest` is read
before an import and cleared after it, as in the code. Indexing is split where it opens the list (`ListOpen`, which
remembers it in `opened`), opens the index and closes it, so a removal, a second indexer or a restart can come in between.
clearspiffs removes the index, keeps its list and posts nothing (`ClearSpiffs`); `writes` tells
who has the file open under its name. The kinds of upload are `csv`, `json`, `bad` (neither),
`wifi` (a list of networks, installed by a restart) and `board` (`/webboard`, which writes the list in place).
History: `crossed` (an upload or import began beside another), `spoilt` (the index or its list had
another writer while it was made, or a restart cut it short or fell between the removal of the list and of the index),
`noticeLost` (PLAYLISTSAVED was lost to a full queue or to changeMode, or was served outside WEB, or clearspiffs removed
the index, or the device came up without reaching setup's indexing).

### AudioBuffer

The buffer's pointers are offsets; its memory holds the number of each byte of a play, so order can
be told. `size_t` differences that would be negative are taken for what they are in C++, numbers
larger than any bound (`AtMost`). The loop task goes `fill -> read -> commit` (the socket writes
between the call that gives the room and the one that commits), with `reset` where
`connecttohost` or the end of a file empties the buffer in two unprotected halves; the audio task
goes `ask -> decode -> check -> advance`, because `bytesWasRead` first checks and then moves. A chunk of no
bytes ends a stream (`LastChunk`): what is left is then decoded whatever its size (`LastFrames`), but a stream that ended
before its first block was used is limited to `0 - m_audioDataReadPtr`, no byte at all (`ToDecode`). A decoder given no
byte is taken to use none. The
mutex guards each call and no more. `spoiled` records what breaks the order and is the code's own
doing: the reader rewinding over an empty buffer, a reset between two halves of a call, and a file
that counts bytes as played that `bytesWasRead` refused. `ByteFifo` is the abstract queue;
`ImplementsFifo` maps the numbers of bytes put and taken and the block handed out to it.

### HttpStream

A response is a sequence of symbols, each with what the server meant by it (`StreamGrammar`); the
reader's actions look at what a byte is only where the code does. One call of `processWebStream` is
`pass -> (line, last) -> fill`; `getChunkSize` and `readMetadata` give up wherever the bytes run out
and go on in the next call from what they remembered (`oneByteOfTwo`, `skipCRLF`, `pos_ml`).
`Init` leaves the parser in any state a former connection may have left it in. A body without the
chunks its header promised is `FallBack`; the loss of a running stream is `StreamLost`, after which
`reconnected` excludes the order properties, since the reader goes on in the middle (see 4).

### TimeKeeper, PageDownload, DspTask

`TimeKeeper` and `PageDownload` speak of their own variables, `DspTask` adds the queue and says who
calls what. In `TimeKeeper` a delay is counted in seconds to go; `waitAndDo` stores the time and the
callback in two steps; its parameter counts modulo `Byte`. The return timer may fall due at any
time after it was set: how long it waits is of no interest, that the list comes back is.
`PageDownload` keeps the one path buffer for all downloads; a part is any number of bytes the
connection has room for, and what is left of a file is a `size_t` (`Word`). `DspTask` has the loop
task's inputs (a turn of the knob in the list and outside it, a click, a long press, a button held
down), which put one or two requests; a request the loop task sends waits until there is room or
200 ms are over (`Put`, `PutLost`); DspTask cannot wait for itself (`Loop0`). `controlsEvent` asks
twice for the mode, and DspTask may change it in between (`ControlsEvent`, `LookAgain`): both a request for the volume and a
turn in the list may come of one turn of the knob. A button held down asks twice before that (`Hold`, `LookHeld`, `TurnHeld`). The modes are player, list and volume. The history variable
`dropped` says that a request the return depends on was lost. A `Scenario` says what takes part in
a behaviour: two browsers and a file being replaced, a user beside one browser, or delayed actions.

## 3. The runs

| run | instance | shows |
|---|---|---|
| `BtLink_link` | timeouts of one tick, one line and two commands in flight | a request and its timer, a probe and its deadline (LinkInv); at most 1 + MAX_ACK_RETRIES commands per request (SendBudget); while nothing was lost belief and phone agree (PlayingAgrees) and what a request waits for is under way (AnswerUnderWay); a drop only after a whole silence (QuietBeforeDrop); refinement of CommandExchange with its liveness; SilenceNoticed |
| `BtLink_leave` | one line and one command in flight | **violated**: leaving Bluetooth mode does not always pause the phone |
| `Player_play` | four scenarios: start, stop, mode, config, wifi; toggle, select, replay, prev, next, upload and clearspiffs, mode; toggle, smartstart, wifi; start and volume; queue of 1 | StatusTellsAudio, SilentOutsideWeb, LockHasReason; smartstart is 1 only for a radio that plays or was silenced by something other than the user, or by a command's own hand (SmartstartTruthful); a volume EEPROM does not hold has its save coming, but for the two ways recorded in `missed` (UnsavedHasReason); a change of source silences (SwitchSilences); the volume set is saved (VolumeSettles) |
| `Player_switch` | the first scenario, queue of 1 | **violated**: a change of source does not always stop the player |
| `TdaConfig_save` | one item of two values, restarts | FileOldOrNew, ChipFollowsFlash |
| `TdaConfig_edit` | two items, Wi-Fi losses, fairness | EditsShown, SaveNeedsTurn, TurnBelongs; the display is given back (GivenBack) |
| `TdaConfig_atomic` | restarts | **violated**: a save is not atomic |
| `TdaConfig_idle` | passes of one unit, timeout of 2 | **violated**: inactivity does not close the screen |
| `WebImport_files` | two uploads of the pairs csv+json, csv+wifi, json+board, queue of 1, restarts | the index belongs to the list (IndexMatches); a list without an index has somebody who will make it (NoticePending); what was accepted for import stays whole until it is installed (AcceptedKept) and is installed (AcceptedInstalled) |
| `AudioBuffer_play` | 4 bytes and a reserve of 2, calls of at most 2, plays of 9 bytes, stream and file | nobody reads or writes behind the end, not even across a reset (NoOverrun); the bytes that wait are in order (UnreadInOrder); the block being decoded is left alone (BlockIntact); refinement of ByteFifo; never do both tasks wait for one another (NobodyWaits); a play goes on (PlaysOn) |
| `HttpStream_play` | 4 bytes of audio, a title after every 2, titles of 0 or 2 bytes, every cut into chunks, or none, or none though promised; 5 bytes may wait | types; the audio arrives in order (InOrder), titles are whole (TitlesWhole), no counter runs out beside bytes that are here (NeverStarved), everything is read (AllRead) |
| `DspTask_screen` | the three scenarios: 2 browsers, 2 files of at most 2 bytes; 2 inputs; delays of 1 to 3 minutes of 3 seconds, a byte of 8; queue of 2 | when the display is locked (LockedForDownload); a download alone is its file (PagesWhole); nothing before its time unless the delay did not fit (OnTime); while the list or the volume is shown and nothing was dropped, something that ends it is on its way (ReturnPending), and it is left again (ScreenReturns) |

Why the bounds are enough. Queues of 1 and 2 are full and empty as often as can be: what matters is
that a request finds no room, or one before it. One other task suffices where a second one could
only post another request of the same kind; where two do different things (the two
servers of the import) there are two. Timeouts of 1 tick still separate *not yet*, *now* and
*past*. One item of two values distinguishes the old, the new and the default settings; two items
are needed, and enough, for an index to be wrong. Two uploads are enough for one to overtake
another; the order in which they begin is open, so one of each pair of kinds covers both; a file in neither format needs no pair of
its own, since what arrives in part may turn out to be one. A ring of 4 and a
reserve of 2 is the smallest in which the reader can be in the reserve, at its end, at the seam and
elsewhere, and 9 bytes go round more than twice. Metadata comes in units of 2 bytes, not 16, so
that a title can be split at all places; a stream of two blocks has a title before, between and after audio; bodies
without titles are cut at every subset of places, bodies with titles at every single place. A
display queue of 2 holds the clock's request and one other. With minutes of 3 seconds and a byte of
8, delays of 1 and 2 minutes fit and one of 3 does not, as 4 and 5 minutes in the code. A list is
empty or has one station in `Player`, with `Word = 3` so that the 16-bit step below 1 wraps to a
number beyond the list; a volume is 0 or 1 there, set from any number below, in and above that range.

Fairness. `Loop`/`LoopTask`: `loop()` is called for ever and its calls return. `Show` and
`Serve("dsp")`: DspTask loops with a delay. `DropIndex`,
`FirstListBlock`: a handler of AsyncTCP runs to its end. `Deliver \/ Discard`: `xQueueSend` ends by room or
timeout. `Tick` and `VolElapses`: millis() advances. `Begin`: setup() ends. `SF(RxDrained)` in
`BtLink`: at 115200 baud the UART cannot outrun the loop for ever. `Arm \/ StoreSmartstart`: a
command half way through goes on. `AudioBuffer`: both tasks are scheduled, a server sends while there is room, and a decoder
given a block uses some of it again and again. `HttpStream`: `loop()` is called for ever, the buffer
has room again and again (strong fairness, since it may fill up in between), and a server that
does not close sends on. `DspTask`: DspTask and the loop task are scheduled, a send ends within
200 ms, and `loop1` looks at its timers in every pass; nothing makes a download end or a request
for sleep come. Beyond that nothing is assumed of users, browsers, the network, the module or the phone.

Every passing run's property has a mutant: a faulty variant in the module, the form a plausible bug
would give one mapped definition, under which TLC finds the property violated.

## 4. Findings

- **`changeMode` can lose its PR_STOP** (config.cpp:355, `Player_switch`). It runs in the task that
  empties `playerQueue`: with a full queue it waits one second for room that cannot come and the
  radio plays on, though config.cpp:349 says the player is always stopped.
- **Leaving Bluetooth mode may not pause** (config.cpp:332, `BtLink_leave`). While a PLAY is
  awaited PAUSE is not sent; the phone plays on.
- **Saving is not atomic** (tda_config_ui.cpp:132, `TdaConfig_atomic`). The old file is removed before the
  new one is renamed, and the loader never looks at the temporary one; the comment at line 38 says
  saved atomically.
- **Inactivity does not close the screen** (tda_config_ui.cpp:585, `TdaConfig_idle`). The pass
  renews the time stamp it tests.

Also reached in the models, but contradicting no text: a Wi-Fi reconnect releases the lock of the
configuration screen (network.cpp:28); the first block of any upload but `tempwifi.csv` deletes the
old list; a notice lost or served outside WEB leaves a list without stations until the next boot;
a PLAY outside WEB is refused; a volume stored by "vol" while the loop task is saving is lost to EEPROM when the timer it
armed is cleared behind the save and its PR_VOL finds the queue full (commandhandler.cpp:100, player.cpp:319); telnet stores
smartstart 1 for a silent radio (telnet.cpp:360), and so does the web when the song ends between its look and its write
(commandhandler.cpp:395); a restart between the removal of list and index leaves an index without a list
(netserver.cpp:779), and so does a list replaced while indexPlaylist is between its two opens an index of another list (config.cpp:1177);
clearspiffs leaves a list without an index until the next boot (commandhandler.cpp:118); every save of the screen sets the volume to 87 (tda_config_ui.cpp:445).
- Display: a missing file, or a browser that goes away, leaves the display locked until some later
  download reaches its end (netserver.cpp:158-167; `stranded`). A lost request for the main screen
  leaves the list or the volume on it until the next input, because the timer is cleared first
  (timekeeper.cpp:160). Two downloads at a time get bytes of one another's files (netserver.cpp:192).
- Time keeper: telnet answers "sleep for %d minutes after %d minutes" (telnet.cpp:505), but delays
  above four minutes come early (timekeeper.cpp:172), 64 minutes at once.
- Audio engine: after "Stream lost" the request is sent again without `m_f_firstCall` (Audio.cpp:8705),
  so the reader goes on in the middle of a chunk; a web file of at most two blocks never starts (5241);
  a skip of ID3 data larger than the block is refused by the buffer but counted (5672); mutexes are
  taken with a timeout of 0.3 s whose result is ignored (3954, 5617); a stream that ends while a
  title is due is never reconnected (5087).

Weak places no property is about, because no text says what should hold or because it lies outside
the models: `millis()` compared without regard to its wrap (main.cpp:336); quick volume steps
computed from a volume not yet served (player.cpp:487); a stream found dead before the Wi-Fi event,
which then is not resumed (network.cpp:59); smartstart 2 overwritten by a stop (player.cpp:98);
other display requests while the configuration screen is open (controls.cpp:711); unsaved edits kept
for the next save (tda_config_ui.cpp:403); networks removed before their successors are renamed
(config.cpp:1415); text buffers of the web server shared by three tasks (netserver.cpp:246);
`busy` and `forceTimeSync` shared with the synchronisation task (timekeeper.cpp:136);
loadStation beside the writers of list and index (config.cpp:1220).

## 5. The proofs

The assumptions are those the modules name (`BtAssumption`, `PlayerAssumption`, `TdaAssumption`,
`ImportAssumption`, `BufferAssumption`, `GrammarAssumption`, `StreamAssumption`,
`TimeAssumption`, `PageAssumption`, `DspAssumption`): lengths and times are naturals, queues hold at least one request, the special
values differ from the ordinary ones. The theorems hold for any number of tasks or uploads, any
set of commands, any lengths and timeouts.

- `BtLinkProofs`: types, then `LinkInv` = DeadlineArmed, ProbeArmed, SendAccount. The first two tie
  the flags to their deadlines. SendAccount counts the commands written: one and as many as there
  were repetitions, also while a click is between its two halves and the number it will store is in its locals. SendBudget and QuietBeforeDrop follow,
  and `SafeExchange` maps each step to one of `CommandExchange` or a stutter. `Agreement`: while
  nothing was lost, the last report on its way to the firmware is what the phone does, and with no
  report and no order under way the firmware knows it already. `UartSteps` reduces each action
  to what it does to the two directions of the UART; PlayingAgrees follows for any length of them.
  `Answered` says that the command a request waits for, or the report of it, is in one of the two
  directions, and so is that of a click between its two halves; AnswerUnderWay is its first half.
  Whatever clicks, resends and a mode change do to one another, a timeout never runs for an
  answer that was never asked for.
- `PlayerProofs`: types, then `Safe`: `PassInv` (inside a pass, a song being prepared is STOPPED
  and one being opened is silent in WEB) with StatusTellsAudio, LockHasReason, SmartstartTruthful
  and UnsavedHasReason. `OnlyLateOrCleared` turns the last round: in a behaviour in which no volume request is served with
  no timer armed and no timer armed during a save is cleared, a volume EEPROM does not hold always has its save coming,
  so there is no third way to lose one. SilentOutsideWeb needs more: a PR_STOP stays in the queue until it is served, shown
  with lemmas about Append and Tail. `OnlyFullQueueLoses` turns the finding of `Player_switch` round: in
  a behaviour in which changeMode never finds the queue full while the radio plays, StopsOnSwitch holds.
- `TdaConfigProofs`: types in three parts; `SaveInv` says what the two files hold at each point of a
  save and gives FileOldOrNew and ChipFollowsFlash; `TurnInv` relates the edge detector, the
  state and the turns left over, and gives EditsShown, SaveNeedsTurn and TurnBelongs. Two theorems are
  about the violated runs. `OnlyCutsLose`: without a restart and a failed rename a save is atomic but
  for the moment between removal and rename, so there is no third way to lose the settings.
  `NeverClosesItself`: while Wi-Fi stays up (`~MayLose`) and no pass outlasts the timeout, `PollTimeout`
  never happens at all, since the screen is made young again in each pass (`Young`).
- `WebImportProofs`: types, then `Calm`: while nothing has crossed there is at most one upload under way or
  one import, never both, so renaming the temporary file moves no open upload. With it IndexMatches
  and NoticePending are inductive; the latter follows the notice from the import through the queue.
  AcceptedKept needs to know that each step of an import succeeds, although the code looks at no
  result: `ImportKept` says what list, temporary file and slot hold at each point of it, the old list
  being gone from an upload's first block to the rename.
- `AudioBufferProofs`: types, then `SoundInv`: Geometry (how the pointers and the two flags tell
  empty from full), Contents (which byte is at each address where the reader may meet it, in the
  reserve and in its copy), RoomKept and Arrived (the room a call gave stays free until the commit), BlockKept and
  FileKept. UnreadInOrder and BlockIntact follow, and each step is one of `ByteFifo` or a stutter
  (ImplementsFifo), for every size of the ring. NoOverrun has an invariant of its own, `RingInv`,
  since it must hold after a reset has spoilt the rest: the pointers stay in the ring, a writer
  before the reader is not in the reserve, and so no room or block a call gives leads out of the buffer.
  NobodyWaits compares what the two tasks are given: where there is no room for the writer there is a
  block for the reader (`BlockOrRoom`), and before the decoder has started (`NotStarted`) the reader
  stands at the front and is not in the way. Its exceptions are named: a buffer spoilt by a reset,
  a writer at the very end of an empty ring (`Stranded`), a file too short to start.
- `HttpStreamProofs`: types, then FlagsKept, PlaceKept, FrameKept, RawKept and TitleKept, which tie
  the parser's counters to the place it has reached in the response. What holds of a whole run of
  audio or title bytes is proved by a least counterexample (`NatLeast`, `Steps`), since the
  library's induction schemes cannot be used. InOrder and TitlesWhole hold for every well-formed
  response and every split of it. NeverStarved needs no knowledge of the response, and so holds after
  a lost stream as well: `CountersLeft` says that a title begun has bytes left, that the limit which
  replaces a missing chunk size is not 0, and that a call which finds bytes has some of a chunk.
- `DspTaskProofs`: every step of `DspTask` is one of `TimeKeeper` and one of `PageDownload`, or
  leaves them alone (`Parts`), so their invariants are proved of these steps only. Types;
  LockedForDownload; PagesWhole from DownloadKept (a download alone has its own path in the buffer
  and is not beyond its file); OnTime from TimeKept, which says what holds between the two assignments of waitAndDo.
  `ReturnKept` gives ReturnPending: at any moment in which the list or the volume is shown, the timer
  runs or a request that ends it is with the loop task or in the queue; `VolumeFollowed` says that a
  request for the volume has its second part behind it, and `OneAtATime` what the loop task may hold.
  `PartsImplemented` states that `DspTask` implements the specifications of both its parts.

TypeOK is proved in all seven modules and checked by TLC in the run of `HttpStream` only, where it
says that unsigned counters never go below zero.

Only model-checked: the liveness properties (SilenceNoticed, SwitchSilences, VolumeSettles,
GivenBack, AcceptedInstalled, PlaysOn, AllRead, ScreenReturns, the fairness of CommandExchange),
which need ENABLED. What they rest on besides fairness, that nothing waits for what nobody will
bring, is proved for most: SilentOutsideWeb for SwitchSilences, UnsavedHasReason for VolumeSettles,
AcceptedKept for AcceptedInstalled, NobodyWaits for PlaysOn, NeverStarved for AllRead, ReturnPending
for ScreenReturns, AnswerUnderWay for the end of an exchange. Every invariant and every
action property of a passing run is proved. What the recursive definitions of `MCHttpStream` compute is
checked only by use: TLC evaluates `WellFormed` on each response they build.

## 6. What is left out, and the plan

Left out: drivers, widgets, vendored libraries (the decoders among them), dead code, the branches
this build does not compile, parsing and formatting, and the contents of shared text buffers. Of the
audio engine: files, HLS and transport streams, playlists, TLS and speech. Of the
time keeper: the synchronisation task, the screensaver's counters, a sleep without delay. Of the
display: the modes beyond player, list and volume, boot, and all drawing; `DIRECT_CHANNEL_CHANGE` is off.

The order of work was: the link (most interleaved), the player (the core), the screen (crash
safety), the uploads (three tasks and the flash), the audio engine's buffer and its stream reader,
the display task with its timers and lock. What would come next:

1. `BtMutex`: the mutex of `btMeta` with its timeouts and the nested take of TITLE, as the reason
   why `BtLink` may treat a section as atomic, or not.
2. `Store`: EEPROM writes of several tasks, loadStation beside the writers of list and index.
3. The network: the search over the known networks, the synchronisation task and its flags.
