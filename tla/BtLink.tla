------------------------------- MODULE BtLink -------------------------------
(***************************************************************************)
(* The Bluetooth metadata link: btMeta, the UART lines that feed it, the   *)
(* PLAY/PAUSE request with its acknowledgement timeout, and the heartbeat  *)
(* with its STATUS probe.                                                  *)
(*                                                                         *)
(* One Arduino loop task drains the UART, checks the ACK timeout, runs the *)
(* heartbeat and polls the controls, always in that order.  The controls   *)
(* also run Config::changeMode: the build has no USE_SD, so nothing else   *)
(* calls it.  Every step below is one stretch of code between two points   *)
(* at which the module, the clock or a web client can be seen.  Deadlines  *)
(* are kept as the time left until millis() passes them; Off stands for    *)
(* the value 0 the code gives an unset deadline.                           *)
(***************************************************************************)
EXTENDS Integers, Sequences

CONSTANTS
  Spontaneous,       \* the lines the module may send unasked
  AckTimeout,        \* bt_ack_timeout_ms, in ticks
  HeartbeatTimeout,  \* bt_heartbeat_timeout_ms, in ticks
  RxLen,             \* lines the UART receive buffer holds
  TxLen              \* commands on their way to the module

Line == {"CONNECTED", "STATUS", "DISCONNECTED", "META", "MAC", "PLAYING", "STOPPED"}
Command == {"PLAY", "PAUSE", "STATUS"}

ASSUME BtAssumption ==
  /\ Spontaneous \subseteq Line
  /\ AckTimeout \in Nat /\ HeartbeatTimeout \in Nat
  /\ RxLen \in Nat /\ TxLen \in Nat

MaxAckRetries == 2
Off == -1
NoLocals == [play |-> FALSE, retries |-> 0]

VARIABLES
  connected, playing,        \* btMeta: the phone as the firmware believes it
  awaitingAck, expectedPlaying, ackRetries,
  ackLeft,                   \* ackDeadline - millis(), or Off
  silence,                   \* millis() - lastSeen, up to the largest value told apart
  probeSent, probeLeft,      \* the STATUS probe and its deadline
  inBt,                      \* config.getMode() = PM_BLUETOOTH
  pc,                        \* where the loop task is
  click,                     \* the locals of a BT centre click: what to ask, retries to store
  rx, tx,                    \* the UART, towards the firmware and towards the module
  phonePlaying,              \* what the phone really does
  inSync,                    \* no line or command lost, no heartbeat drop so far
  sent                       \* PLAY/PAUSE written since the last request ended

request == <<awaitingAck, expectedPlaying, ackRetries, ackLeft>>
probe   == <<probeSent, probeLeft>>
uart    == <<rx, tx, phonePlaying, inSync>>
vars == <<connected, playing, request, silence, probe, inBt, pc, click,
          uart, sent>>

MaxSilence == HeartbeatTimeout + AckTimeout + 1

Init ==
  /\ connected = FALSE /\ playing = FALSE
  /\ awaitingAck = FALSE /\ expectedPlaying = FALSE
  /\ ackRetries = 0 /\ ackLeft = Off
  /\ silence = 0 /\ probeSent = FALSE /\ probeLeft = Off
  /\ inBt = FALSE           \* setup() forces PM_WEB
  /\ pc = "rx" /\ click = NoLocals
  /\ rx = <<>> /\ tx = <<>> /\ phonePlaying = FALSE /\ inSync = TRUE
  /\ sent = 0

-----------------------------------------------------------------------------
(* Faulty variants of the operators below, each the form a plausible bug would give it. *)

KeepProbe == UNCHANGED probe

ArmProbeWithoutDeadline == probeSent' = TRUE /\ probeLeft' = Off

AwaitAfresh(play, retries) ==
  /\ awaitingAck' = TRUE
  /\ expectedPlaying' = play
  /\ ackRetries' = 0
  /\ ackLeft' = AckTimeout

AwaitWithoutDeadline(play, retries) ==
  /\ awaitingAck' = TRUE
  /\ expectedPlaying' = play
  /\ ackRetries' = retries
  /\ UNCHANGED ackLeft

AwaitAsBefore(play, retries) ==
  /\ awaitingAck' = TRUE
  /\ ackRetries' = retries
  /\ ackLeft' = AckTimeout
  /\ UNCHANGED expectedPlaying

AckExpiredIfConnected == connected /\ awaitingAck /\ ackLeft = 0

PlayingUnlessAwaited(line) ==
  IF awaitingAck \/ line \notin {"PLAYING", "STOPPED"} THEN playing ELSE line = "PLAYING"

-----------------------------------------------------------------------------
(* Helpers *)

\* btSerial.println(c): what the module has no room for is lost.
Write(c) ==
  /\ tx' = IF Len(tx) < TxLen THEN Append(tx, c) ELSE tx
  /\ inSync' = (inSync /\ Len(tx) < TxLen)
  /\ UNCHANGED <<rx, phonePlaying>>

PlayCommand(play) == IF play THEN "PLAY" ELSE "PAUSE"

\* The PLAY/PAUSE flags as they are stored after a command was written.
Await(play, retries) ==
  /\ awaitingAck' = TRUE
  /\ expectedPlaying' = play
  /\ ackRetries' = retries
  /\ ackLeft' = AckTimeout

ClearAck ==
  /\ awaitingAck' = FALSE
  /\ ackLeft' = Off
  /\ ackRetries' = 0
  /\ sent' = 0
  /\ UNCHANGED expectedPlaying

ClearProbe == probeSent' = FALSE /\ probeLeft' = Off

ArmProbe == probeSent' = TRUE /\ probeLeft' = AckTimeout

RetriesLeft == ackRetries < MaxAckRetries

-----------------------------------------------------------------------------
(* The loop task *)

\* What a line says of the link and of the playback.
ConnectedAfter(line) ==
  CASE line \in {"CONNECTED", "STATUS", "META"} -> TRUE
    [] line = "DISCONNECTED" -> FALSE
    [] OTHER -> connected

PlayingAfter(line) ==
  IF line \in {"PLAYING", "STOPPED"} THEN line = "PLAYING" ELSE playing

\* bluetooth_handle_line on the next line of the buffer.
HandleLine ==
  /\ pc = "rx" /\ rx # <<>>
  /\ rx' = Tail(rx)
  /\ silence' = 0
  /\ ClearProbe
  /\ LET line == Head(rx) IN
     /\ connected' = ConnectedAfter(line)
     /\ playing' = PlayingAfter(line)
     /\ IF /\ line \in {"PLAYING", "STOPPED"}
           /\ awaitingAck /\ expectedPlaying = (line = "PLAYING")
        THEN ClearAck
        ELSE UNCHANGED <<request, sent>>
  /\ UNCHANGED <<inBt, pc, click, tx, phonePlaying, inSync>>

\* while (btSerial.available()) ends.
RxDrained ==
  /\ pc = "rx" /\ rx = <<>>
  /\ pc' = "ack"
  /\ UNCHANGED <<connected, playing, request, silence, probe, inBt, click, uart, sent>>

AckExpired == awaitingAck /\ ackLeft = 0

ResendExpected ==
  /\ pc = "ack" /\ AckExpired /\ RetriesLeft
  /\ Write(PlayCommand(expectedPlaying))
  /\ Await(expectedPlaying, ackRetries + 1)
  /\ sent' = sent + 1
  /\ pc' = "beat"
  /\ UNCHANGED <<connected, playing, silence, probe, inBt, click>>

GiveUp ==
  /\ pc = "ack" /\ AckExpired /\ ~RetriesLeft
  /\ ClearAck
  /\ pc' = "beat"
  /\ UNCHANGED <<connected, playing, silence, probe, inBt, click, uart>>

AckNotDue ==
  /\ pc = "ack" /\ ~AckExpired
  /\ pc' = "beat"
  /\ UNCHANGED <<connected, playing, request, silence, probe, inBt, click, uart, sent>>

\* Only a phone that should be talking is suspected.
Suspect == /\ connected /\ silence > HeartbeatTimeout
           /\ awaitingAck \/ playing

SendProbe ==
  /\ pc = "beat" /\ Suspect /\ ~probeSent
  /\ Write("STATUS")
  /\ ArmProbe
  /\ pc' = "controls"
  /\ UNCHANGED <<connected, playing, request, silence, inBt, click, sent>>

Drop ==
  /\ pc = "beat" /\ Suspect /\ probeSent /\ probeLeft = 0
  /\ connected' = FALSE /\ playing' = FALSE
  /\ awaitingAck' = FALSE /\ ackLeft' = Off
  /\ ClearProbe
  /\ inSync' = FALSE /\ sent' = 0
  /\ pc' = "controls"
  /\ UNCHANGED <<expectedPlaying, ackRetries, silence, inBt, click,
                 rx, tx, phonePlaying>>

BeatNotDue ==
  /\ pc = "beat"
  /\ ~Suspect \/ (probeSent /\ probeLeft # 0)
  /\ pc' = "controls"
  /\ UNCHANGED <<connected, playing, request, silence, probe, inBt, click, uart, sent>>

\* onBtnClick(EVT_BTNCENTER) in PLAYER, up to the release of the mutex.
ClickRead ==
  /\ pc = "controls" /\ inBt /\ connected
  /\ \E play \in BOOLEAN \ {playing} :
     \/ /\ ~awaitingAck
        /\ click' = [play |-> play, retries |-> 0]
     \/ /\ awaitingAck /\ expectedPlaying # play /\ RetriesLeft
        /\ click' = [play |-> play, retries |-> ackRetries + 1]
  /\ pc' = "print"
  /\ UNCHANGED <<connected, playing, request, silence, probe, inBt, uart, sent>>

\* A click that sends nothing, or no click at all.
NoClick ==
  /\ pc = "controls"
  /\ pc' = "rx"
  /\ UNCHANGED <<connected, playing, request, silence, probe, inBt, click, uart, sent>>

ClickPrint ==
  /\ pc = "print"
  /\ Write(PlayCommand(click.play))
  /\ sent' = sent + 1
  /\ pc' = "set"
  /\ UNCHANGED <<connected, playing, request, silence, probe, inBt, click>>

ClickSet ==
  /\ pc = "set"
  /\ playing' = click.play
  /\ Await(click.play, click.retries)
  /\ click' = NoLocals /\ pc' = "rx"
  /\ UNCHANGED <<connected, silence, probe, inBt, uart, sent>>

(* Config::changeMode, run by the source button *)

EnterBt ==
  /\ pc = "controls" /\ ~inBt
  /\ inBt' = TRUE
  /\ pc' = "rx"
  /\ UNCHANGED <<connected, playing, request, silence, probe, click, uart, sent>>

\* play_mode leaves PM_BLUETOOTH and btMeta.connected is read.
LeaveBt ==
  /\ pc = "controls" /\ inBt
  /\ inBt' = FALSE
  /\ pc' = IF connected THEN "pause" ELSE "rx"
  /\ UNCHANGED <<connected, playing, request, silence, probe, click, uart, sent>>

\* Under the mutex: PAUSE, unless an ACK is already pending.
PauseOnLeave ==
  /\ pc = "pause"
  /\ pc' = "rx"
  /\ IF awaitingAck
     THEN UNCHANGED <<request, uart, sent>>
     ELSE /\ Write("PAUSE")
          /\ Await(FALSE, 0)
          /\ sent' = sent + 1
  /\ UNCHANGED <<connected, playing, silence, probe, inBt, click>>

ChangeMode == EnterBt \/ LeaveBt \/ PauseOnLeave

Loop == HandleLine \/ RxDrained \/ ResendExpected \/ GiveUp \/ AckNotDue
        \/ SendProbe \/ Drop \/ BeatNotDue
        \/ ClickRead \/ NoClick \/ ClickPrint \/ ClickSet \/ ChangeMode

-----------------------------------------------------------------------------
(* The web server's task *)

\* The clearspiffs command sets play_mode to PM_WEB whatever the link is doing.
ClearSpiffs ==
  /\ inBt
  /\ inBt' = FALSE
  /\ UNCHANGED <<connected, playing, request, silence, probe, pc, click, uart, sent>>

-----------------------------------------------------------------------------
(* The module and the phone (external), and time *)

Receive(line) ==
  /\ rx' = IF Len(rx) < RxLen THEN Append(rx, line) ELSE rx
  /\ inSync' = (inSync /\ Len(rx) < RxLen)

firmware == <<connected, playing, request, silence, probe, inBt, pc, click, sent>>

\* The phone obeys a command and the module reports it.
PhoneObeys ==
  /\ tx # <<>>
  /\ tx' = Tail(tx)
  /\ phonePlaying' = CASE Head(tx) = "PLAY"  -> TRUE
                       [] Head(tx) = "PAUSE" -> FALSE
                       [] OTHER -> phonePlaying
  /\ Receive(CASE Head(tx) = "PLAY"  -> "PLAYING"
               [] Head(tx) = "PAUSE" -> "STOPPED"
               [] OTHER -> "STATUS")
  /\ UNCHANGED firmware

CommandLost ==
  /\ tx # <<>>
  /\ tx' = Tail(tx)
  /\ inSync' = FALSE
  /\ UNCHANGED <<firmware, rx, phonePlaying>>

\* The phone's user starts or stops the music, the phone comes, goes or names a track.
PhoneSays(line) ==
  /\ Receive(line)
  /\ phonePlaying' = CASE line = "PLAYING" -> TRUE
                       [] line = "STOPPED" -> FALSE
                       [] OTHER -> phonePlaying
  /\ UNCHANGED <<firmware, tx>>

Dec(left) == IF left > 0 THEN left - 1 ELSE left

Tick ==
  /\ ackLeft' = Dec(ackLeft)
  /\ probeLeft' = Dec(probeLeft)
  /\ silence' = IF silence < MaxSilence THEN silence + 1 ELSE silence
  /\ UNCHANGED <<connected, playing, awaitingAck, expectedPlaying, ackRetries, probeSent,
                 inBt, pc, click, uart, sent>>

Next ==
  \/ Loop
  \/ ClearSpiffs
  \/ PhoneObeys \/ CommandLost \/ \E line \in Spontaneous : PhoneSays(line)
  \/ Tick

Spec == Init /\ [][Next]_vars

\* The scheduler keeps running the loop task and time keeps passing; the UART at 115200
\* baud cannot refill the buffer faster than loop drains it, hence the strong fairness.
FairSpec == /\ Spec
            /\ WF_vars(Loop) /\ SF_vars(RxDrained)
            /\ WF_vars(Tick)

-----------------------------------------------------------------------------
(* Properties *)

Left == {Off} \cup 0..AckTimeout

FlagsOK ==
  /\ connected \in BOOLEAN /\ playing \in BOOLEAN
  /\ awaitingAck \in BOOLEAN /\ expectedPlaying \in BOOLEAN /\ probeSent \in BOOLEAN
  /\ inBt \in BOOLEAN /\ phonePlaying \in BOOLEAN /\ inSync \in BOOLEAN

DataOK ==
  /\ ackRetries \in 0..MaxAckRetries /\ sent \in Nat
  /\ ackLeft \in Left /\ probeLeft \in Left /\ silence \in 0..MaxSilence
  /\ pc \in {"rx", "ack", "beat", "controls", "print", "set", "pause"}
  /\ click \in [play : BOOLEAN, retries : 0..MaxAckRetries]
  /\ rx \in Seq(Line) /\ tx \in Seq(Command)

\* The module has still to be told, or has still to report, what is asked for.
ReportOf(play) == IF play THEN "PLAYING" ELSE "STOPPED"
UnderWay(play) ==
  \/ \E i \in 1..Len(tx) : tx[i] = PlayCommand(play)
  \/ \E i \in 1..Len(rx) : rx[i] = ReportOf(play)

\* The type invariant of the Bluetooth link.
TypeOK == FlagsOK /\ DataOK

\* A request that waits always has a deadline, and only such a request has one: an ACK, a
\* resend, giving up and the heartbeat's drop never part the flag from its timer.
DeadlineArmed == awaitingAck <=> ackLeft # Off

\* A probe that is out has a deadline, and what is left of it and the silence so far add up to
\* the full wait: nothing the module said since the probe was sent is forgotten.
ProbeArmed ==
  /\ probeSent <=> probeLeft # Off
  /\ probeSent => silence + probeLeft >= MaxSilence

\* Commands are accounted for by the request that waits and by the click being carried out:
\* the first one and its repetitions, whoever asked for them.
SendAccount ==
  /\ pc = "set" => sent = 1 + click.retries
  /\ pc # "set" => sent = IF awaitingAck THEN 1 + ackRetries ELSE 0
  /\ pc \in {"print", "set"} => click.retries = IF awaitingAck THEN ackRetries + 1 ELSE 0

\* The inductive invariant behind the safety of the link.
LinkInv == DeadlineArmed /\ ProbeArmed /\ SendAccount

\* One PLAY/PAUSE exchange writes at most 1 + MAX_ACK_RETRIES commands, although the timeout
\* and the user's clicks both repeat it.
SendBudget == awaitingAck => sent <= MaxAckRetries + 1

\* The heartbeat declares a phone lost only after a whole heartbeat period of silence and,
\* after that, a whole ACK period in which the probe of that same silence stayed unanswered.
QuietBeforeDrop ==
  [][(pc = "beat" /\ connected /\ ~connected') => silence = MaxSilence]_vars

\* As long as nothing was lost, once both directions of the UART are empty the firmware believes
\* what the phone does: an optimistic update, a late answer to an earlier command and a change
\* made on the phone itself never leave btMeta.playing wrong.
PlayingAgrees == (inSync /\ rx = <<>> /\ tx = <<>>) => playing = phonePlaying

\* As long as nothing was lost, a request that waits for its acknowledgement has it under
\* way: the command still on its way to the module or the report on its way back.  However
\* clicks, resends and a mode change overlap, nobody waits for what was never asked.
AnswerUnderWay == inSync /\ awaitingAck => UnderWay(expectedPlaying)

\* A phone that has fallen silent for good does not stay connected and playing (or awaited).
SilenceNoticed ==
  <>[](rx = <<>>) => []<>~(connected /\ (playing \/ awaitingAck))

\* The link implements the abstract exchange: one request at a time, a bounded number of
\* repetitions shared by the timeout and the user's clicks, and an end to each request.
Exchange == INSTANCE CommandExchange
              WITH MaxTries <- MaxAckRetries, pending <- awaitingAck, want <- expectedPlaying,
                   tries <- IF awaitingAck THEN ackRetries ELSE 0
ImplementsExchange == Exchange!Spec

\* config.cpp:322 says that leaving Bluetooth mode tells the device to pause: once changeMode has
\* released the mutex, the command that is awaited is PAUSE.
LeavingPauses == [][pc = "pause" /\ pc' = "rx" => awaitingAck' /\ ~expectedPlaying']_vars
=============================================================================
