---------------------------- MODULE PlayerProofs ----------------------------
(***************************************************************************)
(* Proofs about Player: its types, and the safety invariants the runs      *)
(* check, for any number of tasks, any set of commands, any queue length   *)
(* and any playlist.                                                       *)
(***************************************************************************)
EXTENDS Player, SequenceTheorems, TLAPS

\* A "vol" command has stored its volume and not yet armed the timer.
ArmComing == \E t \in Senders : pend[t].type = "ARM"

\* What is known inside a pass: a song being stopped, prepared or opened is STOPPED, its
\* source is WEB, and the copy just written to EEPROM is still the volume in use, or a
\* "vol" has changed it and arms, or is to arm, the timer again.
PassInv ==
  /\ pc = "prepare" => status = "STOPPED"
  /\ pc = "connect" => status = "STOPPED" /\ ~running /\ mode = "WEB"
  /\ pc = "stopping" => status = "STOPPED" /\ ~running
  /\ pc = "saved" /\ saved # volume => rearmed \/ ArmComing
  /\ wifi = "losing" => lostPlaying
  /\ pend[WifiTask].type # "ARM"

\* The inductive invariant: the safety properties lean on PassInv and on the types.
Safe ==
  /\ PassInv
  /\ StatusTellsAudio
  /\ LockHasReason
  /\ SmartstartTruthful
  /\ UnsavedHasReason

-----------------------------------------------------------------------------
(* Lemmas *)

\* The requests the commands and callbacks make are requests.
LEMMA RequestTypes ==
  /\ Stop \in Request
  /\ \A n \in Payload : Play(n) \in Request /\ Replay(n) \in Request /\ Vol(n) \in Request
  /\ Volume \subseteq Payload
BY PlayerAssumption DEF PlayerAssumption, Stop, Play, Replay, Vol, Request, Payload, Station,
  Volume

\* Posting keeps the queue a queue of at most QueueLen requests.
LEMMA PostType ==
  ASSUME TypeOK, NEW r \in Request, Post(r)
  PROVE  queue' \in Seq(Request) /\ Len(queue') <= QueueLen
BY PlayerAssumption DEF PlayerAssumption, TypeOK, DataOK, Post

\* A command makes a request and leaves every variable it may write well typed.
LEMMA AsksType ==
  ASSUME TypeOK, NEW r \in Request, Asks(r)
  PROVE  /\ last' \in [{"web", "sd"} -> Payload]
         /\ volume' = volume /\ saved' = saved /\ missed' = missed
         /\ volTimer' \in BOOLEAN /\ volDue' \in BOOLEAN /\ rearmed' \in BOOLEAN
<1>1. CASE AskPlain(r)
  BY <1>1, Zenon DEF AskPlain, volumes, TypeOK, FlagsOK, DataOK
<1>2. CASE AskStep(r)
  <2>1. PICK n \in Station : SetLastStation(n) /\ UNCHANGED volumes
    BY <1>2 DEF AskStep
  <2>2. n \in Payload /\ Slot \in {"web", "sd"}
    BY DEF Payload, Slot
  <2>3. last' \in [{"web", "sd"} -> Payload]
    BY <2>1, <2>2 DEF SetLastStation, TypeOK, DataOK
  <2> QED
    BY <2>1, <2>3, Zenon DEF volumes, TypeOK, FlagsOK
<1>3. CASE AskVolume(r)
  BY <1>3, Zenon DEF AskVolume, ArmTimer, TypeOK, DataOK
<1> QED
  BY <1>1, <1>2, <1>3 DEF Asks

-----------------------------------------------------------------------------
(* Type correctness *)

LEMMA InitType == Init => TypeOK
<1> SUFFICES ASSUME Init PROVE TypeOK
  OBVIOUS
<1>1. FlagsOK
  BY Zenon DEF Init, FlagsOK
<1>2. DataOK
  BY PlayerAssumption DEF PlayerAssumption, Init, DataOK, Payload, Station, Volume, Mode,
    Pending, Senders, Smart
<1> QED
  BY <1>1, <1>2 DEF TypeOK

\* The loop task keeps the flags Boolean.
LEMMA LoopFlags == TypeOK /\ Loop => FlagsOK'
<1> SUFFICES ASSUME TypeOK, Loop PROVE FlagsOK'
  OBVIOUS
<1> USE DEF TypeOK, FlagsOK
<1>1. CASE Receive
  <2>1. CASE ServeStop
    BY <1>1, <2>1, Zenon DEF Receive, ServeStop, StopSong, audio, volumes, network, session, history
  <2>2. CASE ServePlay
    BY <1>1, <2>2, Zenon DEF Receive, ServePlay, audio, volumes, network, session, history
  <2>3. CASE ServeVol
    BY <1>1, <2>3, Zenon DEF Receive, ServeVol, audio, volumes, network, session, history
  <2> QED
    BY <1>1, <2>1, <2>2, <2>3 DEF Receive
<1>2. CASE ReceiveNone
  BY <1>2, Zenon DEF ReceiveNone, audio, volumes, network, session, history
<1>3. CASE Refuse
  BY <1>3, Zenon DEF Refuse, audio, volumes, network, session, history
<1>4. CASE Prepare
  BY <1>4, Zenon DEF Prepare, ForgetOld, Remember, audio, volumes, network, session, history
<1>5. CASE Connect
  BY <1>5, Zenon DEF Connect, RememberPlaying, Remember, audio, volumes, network, session, history
<1>6. CASE FailConnect
  BY <1>6, Zenon DEF FailConnect, ForgetPlaying, audio, volumes, network, session, history
<1>7. CASE AudioLoop
  BY <1>7, Zenon DEF AudioLoop, ForgetPlaying, audio, volumes, network, session, history
<1>8. CASE SaveVolume
  BY <1>8, Zenon DEF SaveVolume, WriteVolume, audio, volumes, network, session, history
<1>9. CASE SaveNotDue
  BY <1>9, Zenon DEF SaveNotDue, audio, volumes, network, session, history
<1>10. CASE ClearTimer
  BY <1>10, Zenon DEF ClearTimer, DisarmVolume, audio, volumes, network, session, history
<1>11. CASE NoEvent
  BY <1>11, Zenon DEF NoEvent, audio, volumes, network, session, history
<1>12. CASE LoopCommand
  BY <1>12, AsksType, Zenon DEF LoopCommand, audio, volumes, network, session, history
<1>13. CASE ChangeMode
  BY <1>13, Zenon DEF ChangeMode, audio, volumes, network, session, history
<1>14. CASE EnterConfig
  BY <1>14, Zenon DEF EnterConfig, audio, volumes, network, session, history
<1>15. CASE ExitConfig
  BY <1>15, Zenon DEF ExitConfig, Unlock, audio, volumes, network, session, history
<1>16. CASE FinishStop
  BY <1>16, Zenon DEF FinishStop, ForgetPlaying, audio, volumes, network, session, history
<1>17. CASE TelnetSmartstart
  BY <1>17, Zenon DEF TelnetSmartstart, audio, volumes, network, session, history
<1> QED
  BY <1>1, <1>2, <1>3, <1>4, <1>5, <1>6, <1>7, <1>8, <1>9, <1>10, <1>11, <1>12, <1>13, <1>14, <1>15,
     <1>16, <1>17 DEF Loop

\* The loop task keeps the rest of the state well typed.
LEMMA LoopData == TypeOK /\ Loop => DataOK'
<1> SUFFICES ASSUME TypeOK, Loop PROVE DataOK'
  OBVIOUS
<1> USE RequestTypes, PlayerAssumption DEF TypeOK, DataOK, PlayerAssumption
<1>1. CASE Receive
  <2>0. /\ queue \in Seq(Request) /\ queue # <<>> /\ queue' = Tail(queue)
        /\ Len(queue) <= QueueLen
    BY <1>1 DEF Receive
  <2>1. /\ queue' \in Seq(Request) /\ Len(queue') <= QueueLen
        /\ Head(queue) \in Request /\ Head(queue).payload \in Payload
    <3>1. Head(queue) \in Request /\ queue' \in Seq(Request) /\ Len(queue') = Len(queue) - 1
      BY <2>0, HeadTailProperties
    <3> QED
      BY <2>0, <3>1, LenProperties DEF Request
  <2>2. CASE ServeStop
    BY <1>1, <2>1, <2>2 DEF Receive, ServeStop, audio, volumes, network, session, history
  <2>3. CASE ServePlay
    <3>1. last' \in [{"web", "sd"} -> Payload]
      BY <2>1, <2>3 DEF ServePlay, SetLastStation, Slot
    <3> QED
      BY <1>1, <2>1, <2>3, <3>1 DEF Receive, ServePlay, audio, volumes, network, session, history
  <2>4. CASE ServeVol
    BY <1>1, <2>1, <2>4 DEF Receive, ServeVol, audio, volumes, network, session, history
  <2> QED
    BY <1>1, <2>2, <2>3, <2>4 DEF Receive
<1>2. CASE ReceiveNone
  BY <1>2 DEF ReceiveNone, audio, volumes, network, session, history
<1>3. CASE Refuse
  BY <1>3 DEF Refuse, audio, volumes, network, session, history
<1>4. CASE Prepare
  <2>1. Listed(station) \in Payload /\ Opened(station) \in Payload
    BY <1>4 DEF Listed, Opened, Payload, Station, Volume
  <2>2. last' \in [{"web", "sd"} -> Payload]
    BY <1>4, <2>1 DEF Prepare, SetLastStation, Slot
  <2> QED
    BY <1>4, <2>1, <2>2 DEF Prepare, ForgetOld, Remember, Mode, Smart, audio, volumes, network, session, history
<1>5. CASE Connect
  BY <1>5 DEF Connect, RememberPlaying, Remember, Smart, audio, volumes, network, session, history
<1>6. CASE FailConnect
  BY <1>6 DEF FailConnect, ForgetPlaying, Smart, audio, volumes, network, session, history
<1>7. CASE AudioLoop
  BY <1>7 DEF AudioLoop, ForgetPlaying, Smart, audio, volumes, network, session, history
<1>8. CASE SaveVolume
  BY <1>8 DEF SaveVolume, WriteVolume, audio, volumes, network, session, history
<1>9. CASE SaveNotDue
  BY <1>9 DEF SaveNotDue, audio, volumes, network, session, history
<1>10. CASE ClearTimer
  BY <1>10 DEF ClearTimer, audio, volumes, network, session, history
<1>11. CASE NoEvent
  BY <1>11 DEF NoEvent, audio, volumes, network, session, history
<1>12. CASE LoopCommand
  <2>1. PICK r \in Request : Asks(r) /\ Post(r)
    BY <1>12 DEF LoopCommand
  <2>2. queue' \in Seq(Request) /\ Len(queue') <= QueueLen
    BY <2>1, PostType
  <2>3. /\ last' \in [{"web", "sd"} -> Payload]
        /\ volume' = volume /\ saved' = saved
    BY <2>1, AsksType
  <2> QED
    BY <1>12, <2>2, <2>3 DEF LoopCommand, audio, volumes, network, session, history
<1>13. CASE ChangeMode
  <2>1. queue' \in Seq(Request) /\ Len(queue') <= QueueLen
    BY <1>13, PostType DEF ChangeMode
  <2> QED
    BY <1>13, <2>1 DEF ChangeMode, NextMode, Mode, audio, volumes, network, session, history
<1>14. CASE EnterConfig
  <2>1. queue' \in Seq(Request) /\ Len(queue') <= QueueLen
    BY <1>14, PostType DEF EnterConfig
  <2> QED
    BY <1>14, <2>1 DEF EnterConfig, audio, volumes, network, session, history
<1>15. CASE ExitConfig
  BY <1>15 DEF ExitConfig, audio, volumes, network, session, history
<1>16. CASE FinishStop
  BY <1>16 DEF FinishStop, ForgetPlaying, Smart, audio, volumes, network, session, history
<1>17. CASE TelnetSmartstart
  BY <1>17 DEF TelnetSmartstart, audio, volumes, network, session, history
<1> QED
  BY <1>1, <1>2, <1>3, <1>4, <1>5, <1>6, <1>7, <1>8, <1>9, <1>10, <1>11, <1>12, <1>13, <1>14, <1>15,
     <1>16, <1>17 DEF Loop

\* What the other tasks do.
OtherTasks ==
  \/ \E t \in Tasks : Issue(t) \/ StoreVolume(t) \/ Arm(t)
  \/ \E t \in Tasks : ChooseSmartstart(t) \/ StoreSmartstart(t)
  \/ \E t \in Senders : Deliver(t) \/ Discard(t)
  \/ Upload \/ ClearSpiffs \/ VolElapses
  \/ LoseWifi \/ BeginReconnect \/ Reconnect

\* They keep the flags Boolean too ...
LEMMA OthersFlags == TypeOK /\ OtherTasks => FlagsOK'
<1> SUFFICES ASSUME TypeOK, OtherTasks PROVE FlagsOK'
  OBVIOUS
<1> USE DEF TypeOK, FlagsOK
<1>1. ASSUME NEW t \in Tasks, Issue(t) PROVE FlagsOK'
  BY <1>1, AsksType, Zenon DEF Issue, audio, volumes, network, session, history
<1>2. ASSUME NEW t \in Senders, Deliver(t) PROVE FlagsOK'
  BY <1>2, Zenon DEF Deliver, audio, volumes, network, session, history
<1>3. ASSUME NEW t \in Senders, Discard(t) PROVE FlagsOK'
  BY <1>3, Zenon DEF Discard, audio, volumes, network, session, history
<1>4. ASSUME NEW t \in Tasks, StoreVolume(t) PROVE FlagsOK'
  BY <1>4, Zenon DEF StoreVolume, audio, network, session, history
<1>10. ASSUME NEW t \in Tasks, Arm(t) PROVE FlagsOK'
  BY <1>10, Zenon DEF Arm, ArmTimer, audio, network, session, history
<1>11. ASSUME NEW t \in Tasks, ChooseSmartstart(t) PROVE FlagsOK'
  BY <1>11, Zenon DEF ChooseSmartstart, audio, volumes, network, session, history
<1>12. ASSUME NEW t \in Tasks, StoreSmartstart(t) PROVE FlagsOK'
  BY <1>12, Zenon DEF StoreSmartstart, audio, volumes, network, session
<1>5. CASE Upload
  BY <1>5, Zenon DEF Upload, audio, volumes, network, session, history
<1>13. CASE ClearSpiffs
  BY <1>13, Zenon DEF ClearSpiffs, audio, volumes, network, session, history
<1>6. CASE VolElapses
  BY <1>6, Zenon DEF VolElapses, audio, volumes, network, session, history
<1>7. CASE LoseWifi
  BY <1>7, Zenon DEF LoseWifi, audio, volumes, network, session, history
<1>8. CASE BeginReconnect
  BY <1>8, Zenon DEF BeginReconnect, audio, volumes, network, session, history
<1>9. CASE Reconnect
  BY <1>9, Zenon DEF Reconnect, Unlock, audio, volumes, network, session, history
<1> QED
  BY <1>1, <1>2, <1>3, <1>4, <1>5, <1>6, <1>7, <1>8, <1>9, <1>10, <1>11, <1>12, <1>13 DEF OtherTasks

\* ... and the rest of the state well typed.
LEMMA OthersData == TypeOK /\ OtherTasks => DataOK'
<1> SUFFICES ASSUME TypeOK, OtherTasks PROVE DataOK'
  OBVIOUS
<1> USE RequestTypes, PlayerAssumption DEF TypeOK, DataOK, PlayerAssumption, Pending
<1>1. ASSUME NEW t \in Tasks, Issue(t) PROVE DataOK'
  <2>1. PICK r \in Request : Asks(r) /\ pend' = [pend EXCEPT ![t] = r]
    BY <1>1 DEF Issue
  <2>2. /\ last' \in [{"web", "sd"} -> Payload]
        /\ volume' = volume /\ saved' = saved
    BY <2>1, AsksType
  <2>3. pend' \in [Senders -> Pending]
    BY <2>1
  <2> QED
    BY <1>1, <2>2, <2>3 DEF Issue, audio, network, session, history
<1>2. ASSUME NEW t \in Senders, Deliver(t) PROVE DataOK'
  <2>1. pend[t] \in Request /\ Len(queue) < QueueLen
    BY <1>2 DEF Deliver, Sending
  <2>2. queue' \in Seq(Request) /\ Len(queue') <= QueueLen
    BY <1>2, <2>1 DEF Deliver
  <2> QED
    BY <1>2, <2>2 DEF Deliver, audio, volumes, network, session, history
<1>3. ASSUME NEW t \in Senders, Discard(t) PROVE DataOK'
  BY <1>3 DEF Discard, audio, volumes, network, session, history
<1>4. ASSUME NEW t \in Tasks, StoreVolume(t) PROVE DataOK'
  <2>1. PICK v \in (-Byte)..(2 * Byte) : /\ volume' = Cut(v)
                                       /\ pend' = [pend EXCEPT ![t] = Arming(v % Byte)]
    BY <1>4 DEF StoreVolume
  <2>2. volume' \in Payload
    BY <2>1 DEF Cut, Volume
  <2>3. v % Byte \in Volume
    BY <2>1 DEF Volume
  <2>4. pend' \in [Senders -> Pending]
    BY <2>1, <2>3 DEF Arming, Half
  <2> QED
    BY <1>4, <2>2, <2>4 DEF StoreVolume, audio, network, session, history
<1>10. ASSUME NEW t \in Tasks, Arm(t) PROVE DataOK'
  <2>1. pend[t].payload \in Volume
    BY <1>10 DEF Arm, Half, Request, Nothing, Senders
  <2>2. pend' \in [Senders -> Pending]
    BY <1>10, <2>1 DEF Arm
  <2> QED
    BY <1>10, <2>2 DEF Arm, audio, network, session, history
<1>11. ASSUME NEW t \in Tasks, ChooseSmartstart(t) PROVE DataOK'
  <2>1. PICK n \in {2, IF running THEN 1 ELSE 0} : pend' = [pend EXCEPT ![t] = Choosing(n)]
    BY <1>11 DEF ChooseSmartstart
  <2>2. n \in Smart
    BY <2>1 DEF Smart
  <2>3. pend' \in [Senders -> Pending]
    BY <2>1, <2>2 DEF Choosing, Half
  <2> QED
    BY <1>11, <2>3 DEF ChooseSmartstart, audio, volumes, network, session, history
<1>12. ASSUME NEW t \in Tasks, StoreSmartstart(t) PROVE DataOK'
  <2>1. pend[t].payload \in Smart
    BY <1>12 DEF StoreSmartstart, Half, Request, Nothing, Senders
  <2> QED
    BY <1>12, <2>1 DEF StoreSmartstart, audio, volumes, network, session
<1>5. CASE Upload \/ ClearSpiffs
  BY <1>5 DEF Upload, ClearSpiffs, Mode, audio, volumes, network, session, history
<1>6. CASE VolElapses
  BY <1>6 DEF VolElapses, audio, volumes, network, session, history
<1>7. CASE LoseWifi
  BY <1>7 DEF LoseWifi, audio, volumes, network, session, history
<1>8. CASE BeginReconnect
  BY <1>8 DEF BeginReconnect, audio, volumes, network, session, history
<1>9. CASE Reconnect
  <2>1. LastStation \in Payload
    BY DEF LastStation, Slot
  <2>2. pend' \in [Senders -> Pending]
    BY <1>9, <2>1 DEF Reconnect
  <2> QED
    BY <1>9, <2>2 DEF Reconnect, audio, volumes, network, session, history
<1> QED
  BY <1>1, <1>2, <1>3, <1>4, <1>5, <1>6, <1>7, <1>8, <1>9, <1>10, <1>11, <1>12 DEF OtherTasks

\* TypeOK holds always: playerQueue stays within its length and no interleaving of
\* loop(), the commands and the Wi-Fi callbacks leaves a variable outside its type.
THEOREM TypeCorrect == Spec => []TypeOK
<1>1. TypeOK /\ [Next]_vars => TypeOK'
  <2> SUFFICES ASSUME TypeOK, [Next]_vars PROVE TypeOK'
    OBVIOUS
  <2>1. CASE Loop
    BY <2>1, LoopFlags, LoopData DEF TypeOK
  <2>2. CASE OtherTasks
    BY <2>2, OthersFlags, OthersData DEF TypeOK
  <2>3. CASE UNCHANGED vars
    BY <2>3 DEF vars, audio, volumes, network, session, history, TypeOK, FlagsOK, DataOK
  <2> QED
    BY <2>1, <2>2, <2>3 DEF Next, OtherTasks
<1> QED
  BY InitType, <1>1, PTL DEF Spec

-----------------------------------------------------------------------------
(* The safety invariants of the player *)

LEMMA InitSafe == Init => Safe
<1> SUFFICES ASSUME Init PROVE Safe
  OBVIOUS
<1>1. pend[WifiTask].type # "ARM"
  BY DEF Init, Senders, Nothing
<1>2. pc = "receive" /\ wifi = "up" /\ ~running /\ status = "STOPPED" /\ lockOutput = FALSE
  BY Zenon DEF Init
<1>3. smartstart = 1 => lockedStop
  BY Zenon DEF Init
<1>4. saved = volume
  BY Zenon DEF Init
<1> QED
  BY <1>1, <1>2, <1>3, <1>4
  DEF Safe, PassInv, StatusTellsAudio, LockHasReason, SmartstartTruthful, UnsavedHasReason

\* Asking for something touches no volume in use and may only arm the save timer.
LEMMA AsksSafe ==
  ASSUME NEW r, Asks(r)
  PROVE  /\ volume' = volume /\ saved' = saved /\ missed' = missed
         /\ volTimer => volTimer'
         /\ pc = "saved" => rearmed' \/ rearmed' = rearmed
<1>1. CASE AskPlain(r)
  BY <1>1, Zenon DEF AskPlain, volumes
<1>2. CASE AskStep(r)
  BY <1>2 DEF AskStep, volumes
<1>3. CASE AskVolume(r)
  BY <1>3, Zenon DEF AskVolume, ArmTimer
<1> QED
  BY <1>1, <1>2, <1>3 DEF Asks

\* One step of the loop task keeps Safe.
LEMMA LoopSafe == TypeOK /\ Safe /\ Loop => Safe'
<1> SUFFICES ASSUME TypeOK, Safe, Loop PROVE Safe'
  OBVIOUS
<1> USE DEF Safe, PassInv, StatusTellsAudio, LockHasReason, SmartstartTruthful, UnsavedHasReason,
            ArmComing, audio, volumes, network, session, history
<1>1. CASE Receive
  <2>1. CASE ServeStop
    BY <1>1, <2>1 DEF Receive, ServeStop, StopSong
  <2>2. CASE ServePlay
    BY <1>1, <2>2 DEF Receive, ServePlay
  <2>3. CASE ServeVol
    BY <1>1, <2>3 DEF Receive, ServeVol
  <2> QED
    BY <1>1, <2>1, <2>2, <2>3 DEF Receive
<1>2. CASE ReceiveNone
  BY <1>2 DEF ReceiveNone
<1>3. CASE Refuse
  BY <1>3 DEF Refuse
<1>4. CASE Prepare
  BY <1>4 DEF Prepare, ForgetOld, Remember
<1>5. CASE Connect
  BY <1>5 DEF Connect, RememberPlaying, Remember
<1>6. CASE FailConnect
  BY <1>6 DEF FailConnect, ForgetPlaying
<1>7. CASE AudioLoop
  <2>1. running' => running
    BY <1>7, Zenon DEF AudioLoop
  <2>2. /\ pc = "audio" /\ pc' = "timer"
        /\ UNCHANGED <<pend, lockOutput, volumes, network, session, refused>>
    BY <1>7 DEF AudioLoop
  <2>3. CASE SongEnded
    <3>1. ~running' /\ status' = "STOPPED"
      BY <1>7, <2>3, Zenon DEF AudioLoop, SongEnded
    <3>2. smartstart' = 1 => lockedStop'
      BY <1>7, <2>3 DEF AudioLoop, ForgetPlaying
    <3> QED
      BY <2>2, <3>1, <3>2
  <2>4. CASE ~SongEnded
    <3>1. UNCHANGED <<status, smartstart, lockedStop, byHand>>
      BY <1>7, <2>4, Zenon DEF AudioLoop
    <3>2. (running' <=> status' = "PLAYING") \/ refused'
      BY <2>1, <2>2, <2>4, <3>1 DEF SongEnded
    <3> QED
      BY <2>2, <3>1, <3>2
  <2> QED
    BY <2>3, <2>4
<1>8. CASE SaveVolume
  BY <1>8 DEF SaveVolume, WriteVolume
<1>9. CASE SaveNotDue
  BY <1>9 DEF SaveNotDue
<1>10. CASE ClearTimer
  BY <1>10 DEF ClearTimer, DisarmVolume
<1>11. CASE NoEvent
  BY <1>11 DEF NoEvent
<1>12. CASE LoopCommand
  BY <1>12, AsksSafe DEF LoopCommand
<1>13. CASE ChangeMode
  BY <1>13 DEF ChangeMode
<1>14. CASE EnterConfig
  BY <1>14 DEF EnterConfig
<1>15. CASE ExitConfig
  BY <1>15 DEF ExitConfig, Unlock
<1>16. CASE FinishStop
  BY <1>16 DEF FinishStop, ForgetPlaying
<1>17. CASE TelnetSmartstart
  BY <1>17 DEF TelnetSmartstart
<1> QED
  BY <1>1, <1>2, <1>3, <1>4, <1>5, <1>6, <1>7, <1>8, <1>9, <1>10, <1>11, <1>12, <1>13, <1>14, <1>15,
     <1>16, <1>17 DEF Loop

\* So does one step of the other tasks.
LEMMA OthersSafe == TypeOK /\ Safe /\ OtherTasks => Safe'
<1> SUFFICES ASSUME TypeOK, Safe, OtherTasks PROVE Safe'
  OBVIOUS
<1> USE DEF Safe, PassInv, StatusTellsAudio, LockHasReason, SmartstartTruthful, UnsavedHasReason,
            ArmComing, audio, volumes, network, session, history
<1>1. ASSUME NEW t \in Tasks, Issue(t) PROVE Safe'
  <2>1. PICK r \in Request : Asks(r) /\ pend' = [pend EXCEPT ![t] = r]
    BY <1>1 DEF Issue
  <2>2. ArmComing => ArmComing'
    BY <1>1, <2>1 DEF Issue, Idle, Nothing, TypeOK, DataOK
  <2>3. pend'[WifiTask].type # "ARM"
    BY <2>1, PlayerAssumption DEF PlayerAssumption, TypeOK, DataOK, Senders
  <2> QED
    BY <1>1, <2>1, <2>2, <2>3, AsksSafe DEF Issue
<1>2. ASSUME NEW t \in Senders, Deliver(t) \/ Discard(t) PROVE Safe'
  <2>1. ArmComing => ArmComing'
    BY <1>2 DEF Deliver, Discard, Sending, Request, TypeOK, DataOK
  <2>2. pend'[WifiTask].type # "ARM"
    BY <1>2 DEF Deliver, Discard, Nothing, TypeOK, DataOK, Senders
  <2> QED
    BY <1>2, <2>1, <2>2 DEF Deliver, Discard
<1>3. ASSUME NEW t \in Tasks, StoreVolume(t) PROVE Safe'
  <2>1. ArmComing'
    BY <1>3 DEF StoreVolume, Arming, Senders, TypeOK, DataOK
  <2>2. pend'[WifiTask].type # "ARM"
    BY <1>3, PlayerAssumption DEF PlayerAssumption, StoreVolume, TypeOK, DataOK, Senders
  <2> QED
    BY <1>3, <2>1, <2>2 DEF StoreVolume
<1>4. ASSUME NEW t \in Tasks, Arm(t) PROVE Safe'
  <2>1. pend'[WifiTask].type # "ARM"
    BY <1>4, PlayerAssumption DEF PlayerAssumption, Arm, TypeOK, DataOK, Senders
  <2> QED
    BY <1>4, <2>1 DEF Arm, ArmTimer
<1>5. ASSUME NEW t \in Tasks, ChooseSmartstart(t) \/ StoreSmartstart(t) PROVE Safe'
  <2>1. ArmComing => ArmComing'
    BY <1>5 DEF ChooseSmartstart, StoreSmartstart, Idle, Nothing, TypeOK, DataOK
  <2>2. pend'[WifiTask].type # "ARM"
    BY <1>5, PlayerAssumption DEF PlayerAssumption, ChooseSmartstart, StoreSmartstart, TypeOK,
      DataOK, Senders
  <2> QED
    BY <1>5, <2>1, <2>2 DEF ChooseSmartstart, StoreSmartstart
<1>6. CASE Upload \/ ClearSpiffs \/ VolElapses
  BY <1>6 DEF Upload, ClearSpiffs, VolElapses
<1>7. CASE LoseWifi \/ BeginReconnect \/ Reconnect
  <2>1. ArmComing => ArmComing'
    BY <1>7 DEF LoseWifi, BeginReconnect, Reconnect, TypeOK, DataOK
  <2>2. pend'[WifiTask].type # "ARM"
    BY <1>7 DEF LoseWifi, BeginReconnect, Reconnect, TypeOK, DataOK, Senders, Stop, Play
  <2> QED
    BY <1>7, <2>1, <2>2 DEF LoseWifi, BeginReconnect, Reconnect, Unlock
<1> QED
  BY <1>1, <1>2, <1>3, <1>4, <1>5, <1>6, <1>7 DEF OtherTasks

LEMMA SafeAlways == Spec => []Safe
<1>1. TypeOK /\ Safe /\ [Next]_vars => Safe'
  <2> SUFFICES ASSUME TypeOK, Safe, [Next]_vars PROVE Safe'
    OBVIOUS
  <2>1. CASE UNCHANGED vars
    BY <2>1 DEF vars, audio, volumes, network, session, history, Safe, PassInv, StatusTellsAudio,
      LockHasReason, SmartstartTruthful, UnsavedHasReason, ArmComing
  <2> QED
    BY <2>1, LoopSafe, OthersSafe DEF Next, OtherTasks
<1> QED
  BY InitSafe, TypeCorrect, <1>1, PTL DEF Spec

\* The reported status tells whether the decoder runs, except while a PLAY is being
\* prepared and after one that found no playlist.
THEOREM StatusTellsAudioHolds == Spec => []StatusTellsAudio
<1>1. Safe => StatusTellsAudio
  BY DEF Safe
<1> QED
  BY SafeAlways, <1>1, PTL

\* lockOutput never outlives the configuration screen and the lost connection.
THEOREM LockHasReasonHolds == Spec => []LockHasReason
<1>1. Safe => LockHasReason
  BY DEF Safe
<1> QED
  BY SafeAlways, <1>1, PTL

\* smartstart = 1 only while the radio plays, was not stopped by the user, or was stored by
\* a command (telnet may store it while stopped, the web after a look that is out of date).
THEOREM SmartstartTruthfulHolds == Spec => []SmartstartTruthful
<1>1. Safe => SmartstartTruthful
  BY DEF Safe
<1> QED
  BY SafeAlways, <1>1, PTL

\* The volume in EEPROM falls behind only while a save is due to come, after a request served
\* behind its save, and after a timer cleared that was armed during the save.
THEOREM UnsavedHasReasonHolds == Spec => []UnsavedHasReason
<1>1. Safe => UnsavedHasReason
  BY DEF Safe
<1> QED
  BY SafeAlways, <1>1, PTL

-----------------------------------------------------------------------------
(* A change of source silences the radio *)

\* A waiting PR_STOP stays in the queue until it is the one served.
LEMMA TailKeepsStop ==
  ASSUME TypeOK, queue # <<>>, queue' = Tail(queue), Head(queue).type # "STOP", StopQueued
  PROVE  StopQueued'
<1>1. queue \in Seq(Request)
  BY DEF TypeOK, DataOK
<1>2. PICK i \in 1..Len(queue) : queue[i].type = "STOP"
  BY DEF StopQueued
<1>3. i # 1
  BY <1>1, <1>2
<1>4. /\ Len(queue') = Len(queue) - 1
      /\ \A k \in 1..Len(queue') : queue'[k] = queue[k + 1]
  BY <1>1, HeadTailProperties
<1>5. i - 1 \in 1..Len(queue') /\ queue'[i - 1].type = "STOP"
  BY <1>1, <1>2, <1>3, <1>4, LenProperties
<1> QED
  BY <1>5 DEF StopQueued

\* Requests are added behind it.
LEMMA AppendKeepsStop ==
  ASSUME TypeOK, NEW r \in Request, queue' = Append(queue, r), StopQueued
  PROVE  StopQueued'
<1>1. queue \in Seq(Request)
  BY DEF TypeOK, DataOK
<1>2. PICK i \in 1..Len(queue) : queue[i].type = "STOP"
  BY DEF StopQueued
<1>3. i \in 1..Len(queue') /\ queue'[i] = queue[i]
  BY <1>1, <1>2
<1> QED
  BY <1>2, <1>3 DEF StopQueued

LEMMA PostKeepsStop ==
  ASSUME TypeOK, NEW r \in Request, Post(r), StopQueued
  PROVE  StopQueued'
<1>1. CASE Len(queue) < QueueLen
  BY <1>1, AppendKeepsStop DEF Post
<1>2. CASE ~(Len(queue) < QueueLen)
  BY <1>2 DEF Post, StopQueued
<1> QED
  BY <1>1, <1>2

\* A posted PR_STOP is in the queue unless the queue was full.
LEMMA PostStop ==
  ASSUME TypeOK, Post(Stop), Len(queue) # QueueLen
  PROVE  StopQueued'
<1>1. queue \in Seq(Request) /\ Len(queue) <= QueueLen
  BY DEF TypeOK, DataOK
<1>2. queue' = Append(queue, Stop)
  BY <1>1, PlayerAssumption DEF Post, PlayerAssumption
<1>3. /\ Len(queue') \in 1..Len(queue')
      /\ queue'[Len(queue')] = Stop
  BY <1>1, <1>2, RequestTypes
<1> QED
  BY <1>3 DEF StopQueued, Stop

LEMMA LoopSilent == TypeOK /\ Safe /\ SilentOutsideWeb /\ Loop => SilentOutsideWeb'
<1> SUFFICES ASSUME TypeOK, Safe, SilentOutsideWeb, Loop, running', mode' # "WEB"
             PROVE  StopQueued' \/ stopLost'
  BY DEF SilentOutsideWeb
<1> USE DEF SilentOutsideWeb, audio, history
<1>1. CASE Receive
  <2>1. CASE ServeStop
    BY <2>1 DEF ServeStop, StopSong
  <2>2. CASE ServePlay \/ ServeVol
    <3>1. running /\ mode # "WEB" /\ stopLost' = stopLost /\ Head(queue).type # "STOP"
      BY <1>1, <2>2 DEF Receive, ServePlay, ServeVol
    <3> QED
      BY <1>1, <3>1, TailKeepsStop DEF Receive
  <2> QED
    BY <1>1, <2>1, <2>2 DEF Receive
<1>2. CASE Prepare
  BY <1>2 DEF Prepare
<1>3. CASE Connect \/ FailConnect
  BY <1>3 DEF Connect, FailConnect, Safe, PassInv
<1>4. CASE AudioLoop
  <2>1. running
    BY <1>4, Zenon DEF AudioLoop
  <2>2. stopLost => stopLost'
    BY <1>4 DEF AudioLoop
  <2> QED
    BY <1>4, <2>1, <2>2 DEF AudioLoop, StopQueued
<1>5. CASE LoopCommand
  <2>1. PICK r \in Request : Asks(r) /\ Post(r)
    BY <1>5 DEF LoopCommand
  <2>2. running /\ mode # "WEB" /\ stopLost' = stopLost
    BY <1>5 DEF LoopCommand
  <2> QED
    BY <2>1, <2>2, PostKeepsStop
<1>6. CASE ChangeMode
  <2>1. Post(Stop) /\ stopLost' = (Len(queue) = QueueLen)
    BY <1>6 DEF ChangeMode
  <2> QED
    BY <2>1, PostStop
<1>7. CASE EnterConfig
  <2>1. running /\ mode # "WEB" /\ stopLost' = stopLost /\ Post(Stop)
    BY <1>7 DEF EnterConfig
  <2> QED
    BY <2>1, RequestTypes, PostKeepsStop
<1>8. CASE \/ ReceiveNone \/ FinishStop \/ Refuse \/ SaveVolume \/ SaveNotDue \/ ClearTimer
           \/ NoEvent \/ ExitConfig \/ TelnetSmartstart
  BY <1>8 DEF ReceiveNone, FinishStop, Refuse, SaveVolume, SaveNotDue, ClearTimer, NoEvent,
    ExitConfig, TelnetSmartstart, StopQueued
<1> QED
  BY <1>1, <1>2, <1>3, <1>4, <1>5, <1>6, <1>7, <1>8 DEF Loop

LEMMA OthersSilent == TypeOK /\ SilentOutsideWeb /\ OtherTasks => SilentOutsideWeb'
<1> SUFFICES ASSUME TypeOK, SilentOutsideWeb, OtherTasks, running', mode' # "WEB"
             PROVE  StopQueued' \/ stopLost'
  BY DEF SilentOutsideWeb
<1> USE DEF SilentOutsideWeb, audio, history
<1>1. ASSUME NEW t \in Senders, Deliver(t) PROVE StopQueued' \/ stopLost'
  <2>1. pend[t] \in Request /\ queue' = Append(queue, pend[t])
    BY <1>1 DEF Deliver, Sending
  <2>2. running /\ mode # "WEB" /\ stopLost' = stopLost
    BY <1>1 DEF Deliver
  <2> QED
    BY <2>1, <2>2, AppendKeepsStop
<1>2. ASSUME \/ \E t \in Tasks : Issue(t) \/ StoreVolume(t) \/ Arm(t)
             \/ \E t \in Tasks : ChooseSmartstart(t) \/ StoreSmartstart(t)
             \/ \E t \in Senders : Discard(t)
             \/ Upload \/ ClearSpiffs \/ VolElapses
             \/ LoseWifi \/ BeginReconnect \/ Reconnect
      PROVE  StopQueued' \/ stopLost'
  BY <1>2 DEF Issue, StoreVolume, Arm, ChooseSmartstart, StoreSmartstart, Discard, Upload,
    ClearSpiffs, VolElapses, LoseWifi, BeginReconnect, Reconnect, StopQueued
<1> QED
  BY <1>1, <1>2 DEF OtherTasks

\* Outside WEB mode the radio is heard only while a PR_STOP waits in the queue, or
\* after changeMode found the queue full: nothing else can keep it alive.
THEOREM SilentOutsideWebHolds == Spec => []SilentOutsideWeb
<1>1. Init => SilentOutsideWeb
  BY DEF Init, SilentOutsideWeb
<1>2. TypeOK /\ Safe /\ SilentOutsideWeb /\ [Next]_vars => SilentOutsideWeb'
  <2> SUFFICES ASSUME TypeOK, Safe, SilentOutsideWeb, [Next]_vars PROVE SilentOutsideWeb'
    OBVIOUS
  <2>1. CASE UNCHANGED vars
    BY <2>1 DEF vars, audio, history, SilentOutsideWeb, StopQueued
  <2> QED
    BY <2>1, LoopSilent, OthersSilent DEF Next, OtherTasks
<1> QED
  BY <1>1, <1>2, TypeCorrect, SafeAlways, PTL DEF Spec
-----------------------------------------------------------------------------
(* When a volume is lost to EEPROM: the two ways out of UnsavedHasReason    *)
(* are the only ones.                                                      *)

\* A PR_VOL is served with no timer armed, or the timer that is cleared after a save was
\* armed while the save was being written.
LateVolume == pc = "receive" /\ ServeVol /\ ~volTimer
ClearedTimer == ClearTimer /\ rearmed

NoneMissed == missed = FALSE

LEMMA MissedOnlyThere ==
  TypeOK /\ NoneMissed /\ [Next /\ ~LateVolume /\ ~ClearedTimer]_vars => NoneMissed'
<1> SUFFICES ASSUME TypeOK, missed = FALSE, [Next /\ ~LateVolume /\ ~ClearedTimer]_vars
             PROVE  missed' = FALSE
  BY DEF NoneMissed
<1> USE DEF volumes
<1>1. CASE Receive /\ ~LateVolume
  BY <1>1, Zenon DEF Receive, ServeStop, ServePlay, ServeVol, LateVolume
<1>2. CASE \/ ReceiveNone \/ FinishStop \/ Refuse \/ Prepare \/ Connect \/ FailConnect \/ AudioLoop
           \/ SaveVolume \/ SaveNotDue
  BY <1>2, Zenon DEF ReceiveNone, FinishStop, Refuse, Prepare, Connect, FailConnect, AudioLoop,
    SaveVolume, SaveNotDue
<1>3. CASE ClearTimer /\ ~ClearedTimer
  BY <1>3 DEF ClearTimer, ClearedTimer, TypeOK, FlagsOK
<1>4. CASE LoopCommand
  BY <1>4, AsksSafe DEF LoopCommand
<1>5. CASE \/ NoEvent \/ ChangeMode \/ EnterConfig \/ ExitConfig \/ TelnetSmartstart
  BY <1>5, Zenon DEF NoEvent, ChangeMode, EnterConfig, ExitConfig, TelnetSmartstart
<1>6. ASSUME NEW t \in Tasks, Issue(t) PROVE missed' = FALSE
  BY <1>6, AsksSafe DEF Issue
<1>7. CASE OtherTasks /\ ~\E t \in Tasks : Issue(t)
  BY <1>7, Zenon DEF OtherTasks, StoreVolume, Arm, ChooseSmartstart, StoreSmartstart,
    Deliver, Discard, Upload, ClearSpiffs, VolElapses, LoseWifi, BeginReconnect, Reconnect
<1>8. CASE UNCHANGED vars
  BY <1>8, Zenon DEF vars
<1> QED
  BY <1>1, <1>2, <1>3, <1>4, <1>5, <1>6, <1>7, <1>8 DEF Next, Loop, OtherTasks

\* As long as no PR_VOL is served behind its save and no timer armed during a save is
\* cleared, a volume that EEPROM does not hold always has its save coming.
SaveComing == saved # volume => volTimer \/ ArmComing

THEOREM OnlyLateOrCleared ==
  Init /\ [][Next /\ ~LateVolume /\ ~ClearedTimer]_vars => []SaveComing
<1>1. Init => NoneMissed
  BY DEF Init, NoneMissed
<1>2. Init /\ [][Next /\ ~LateVolume /\ ~ClearedTimer]_vars => Spec
  <2>1. [Next /\ ~LateVolume /\ ~ClearedTimer]_vars => [Next]_vars OBVIOUS
  <2> QED BY <2>1, PTL DEF Spec
<1>3. UnsavedHasReason /\ NoneMissed => SaveComing
  BY DEF NoneMissed, UnsavedHasReason, SaveComing, ArmComing
<1> QED
  BY <1>1, <1>2, <1>3, MissedOnlyThere, TypeCorrect, UnsavedHasReasonHolds, PTL

-----------------------------------------------------------------------------
(* When a change of source does stop the player.  StopsOnSwitch is         *)
(* violated; a full queue is the only reason.                              *)

FullSwitch == ChangeMode /\ running /\ Len(queue) = QueueLen

NoneLost == stopLost = FALSE

LEMMA StopPosted == NoneLost /\ [Next /\ ~FullSwitch]_vars => NoneLost'
<1> SUFFICES ASSUME stopLost = FALSE, [Next /\ ~FullSwitch]_vars PROVE stopLost' = FALSE
  BY DEF NoneLost
<1> USE DEF history
<1>1. CASE \/ Receive \/ ReceiveNone \/ FinishStop \/ Refuse \/ Prepare \/ Connect \/ FailConnect
           \/ AudioLoop
  BY <1>1, Zenon DEF Receive, ServeStop, ServePlay, ServeVol, ReceiveNone, FinishStop, Refuse,
    Prepare, Connect, FailConnect, AudioLoop
<1>2. CASE \/ SaveVolume \/ SaveNotDue \/ ClearTimer \/ NoEvent \/ LoopCommand \/ EnterConfig
           \/ ExitConfig \/ TelnetSmartstart
  BY <1>2, Zenon DEF SaveVolume, SaveNotDue, ClearTimer, NoEvent, LoopCommand, EnterConfig,
    ExitConfig, TelnetSmartstart
<1>3. CASE ChangeMode /\ ~FullSwitch
  BY <1>3 DEF ChangeMode, FullSwitch
<1>4. CASE OtherTasks
  BY <1>4, Zenon DEF OtherTasks, Issue, StoreVolume, Arm, ChooseSmartstart, StoreSmartstart,
    Deliver, Discard, Upload, ClearSpiffs, VolElapses, LoseWifi, BeginReconnect, Reconnect
<1>5. CASE UNCHANGED vars BY <1>5, Zenon DEF vars
<1> QED
  BY <1>1, <1>2, <1>3, <1>4, <1>5 DEF Next, Loop, OtherTasks

\* As long as changeMode never finds the queue full while the radio plays, a change of
\* source always leaves a PR_STOP that will silence it.
THEOREM OnlyFullQueueLoses == Init /\ [][Next /\ ~FullSwitch]_vars => []StopsOnSwitch
<1>1. Init => NoneLost
  BY DEF Init, NoneLost
<1>2. Init /\ [][Next /\ ~FullSwitch]_vars => Spec
  <2>1. [Next /\ ~FullSwitch]_vars => [Next]_vars OBVIOUS
  <2> QED BY <2>1, PTL DEF Spec
<1>3. SilentOutsideWeb /\ NoneLost => StopsOnSwitch
  BY DEF NoneLost, SilentOutsideWeb, StopsOnSwitch
<1> QED BY <1>1, <1>2, <1>3, StopPosted, SilentOutsideWebHolds, PTL
=============================================================================
