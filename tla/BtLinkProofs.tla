---------------------------- MODULE BtLinkProofs ----------------------------
(***************************************************************************)
(* Theorems about the Bluetooth link, for every value of its constants.    *)
(* The flags are left to Zenon and the rest of the state to SMT.           *)
(***************************************************************************)
EXTENDS BtLink, TLAPS

-----------------------------------------------------------------------------
(* Type correctness *)

LEMMA InitTypeOK == Init => TypeOK
<1>1. Init => FlagsOK
  BY Zenon DEF Init, FlagsOK
<1>2. Init => DataOK
  BY BtAssumption DEF BtAssumption, Init, DataOK, NoLocals, Left, MaxAckRetries, MaxSilence
<1>3. QED
  BY <1>1, <1>2 DEF TypeOK

\* The loop task keeps the flags Boolean.
LEMMA LoopFlags == TypeOK /\ Loop => FlagsOK'
<1> SUFFICES ASSUME TypeOK, Loop PROVE FlagsOK'
  OBVIOUS
<1> USE DEF TypeOK, FlagsOK
<1>1. CASE HandleLine
  <2>1. ConnectedAfter(Head(rx)) \in BOOLEAN /\ PlayingAfter(Head(rx)) \in BOOLEAN
    BY DEF ConnectedAfter, PlayingAfter
  <2>2. QED
    BY <1>1, <2>1, Zenon DEF HandleLine, ClearProbe, ClearAck, request
<1>2. CASE RxDrained
  BY <1>2, Zenon DEF RxDrained, request, probe, uart
<1>3. CASE ResendExpected
  BY <1>3, Zenon DEF ResendExpected, Write, Await, probe
<1>4. CASE GiveUp
  BY <1>4, Zenon DEF GiveUp, ClearAck, probe, uart
<1>5. CASE AckNotDue
  BY <1>5, Zenon DEF AckNotDue, request, probe, uart
<1>6. CASE SendProbe
  BY <1>6, Zenon DEF SendProbe, Write, ArmProbe, request
<1>7. CASE Drop
  BY <1>7, Zenon DEF Drop, ClearProbe
<1>8. CASE BeatNotDue
  BY <1>8, Zenon DEF BeatNotDue, request, probe, uart
<1>9. CASE ClickRead
  BY <1>9, Zenon DEF ClickRead, request, probe, uart
<1>10. CASE NoClick
  BY <1>10, Zenon DEF NoClick, request, probe, uart
<1>11. CASE ClickPrint
  BY <1>11, Zenon DEF ClickPrint, Write, request, probe
<1>12. CASE ClickSet
  <2>1. click.play \in BOOLEAN
    BY DEF DataOK
  <2>2. QED
    BY <1>12, <2>1, Zenon DEF ClickSet, Await, probe, uart
<1>13. CASE ChangeMode
  <2>1. CASE EnterBt
    BY <2>1, Zenon DEF EnterBt, request, probe, uart
  <2>2. CASE LeaveBt
    BY <2>2, Zenon DEF LeaveBt, request, probe, uart
  <2>3. CASE PauseOnLeave
    BY <2>3, Zenon DEF PauseOnLeave, Write, Await, request, probe, uart
  <2>4. QED
    BY <1>13, <2>1, <2>2, <2>3 DEF ChangeMode
<1>14. QED
  BY <1>1, <1>2, <1>3, <1>4, <1>5, <1>6, <1>7, <1>8, <1>9, <1>10, <1>11, <1>12, <1>13 DEF Loop

\* So do the web client, the module and the clock.
LEMMA OthersFlags ==
  ASSUME TypeOK,
         \/ ClearSpiffs
         \/ PhoneObeys \/ CommandLost \/ \E line \in Spontaneous : PhoneSays(line)
         \/ Tick
  PROVE  FlagsOK'
<1> USE DEF TypeOK, FlagsOK
<1>1. CASE ClearSpiffs
  BY <1>1, Zenon DEF ClearSpiffs, request, probe, uart
<1>2. CASE PhoneObeys
  BY <1>2, Zenon DEF PhoneObeys, Receive, firmware, request, probe
<1>3. CASE CommandLost
  BY <1>3, Zenon DEF CommandLost, firmware, request, probe
<1>4. ASSUME NEW line \in Spontaneous, PhoneSays(line) PROVE FlagsOK'
  BY <1>4, Zenon DEF PhoneSays, Receive, firmware, request, probe
<1>5. CASE Tick
  BY <1>5, Zenon DEF Tick, uart
<1>6. QED
  BY <1>1, <1>2, <1>3, <1>4, <1>5

\* What the UART carries stays a sequence of commands one way and of lines the other.
LEMMA WriteTyped ==
  ASSUME DataOK, NEW c \in Command, Write(c)
  PROVE  tx' \in Seq(Command) /\ rx' \in Seq(Line)
BY DEF DataOK, Write

LEMMA ReceiveTyped ==
  ASSUME DataOK, NEW line \in Line, Receive(line)
  PROVE  rx' \in Seq(Line)
BY DEF DataOK, Receive

LEMMA PlayCommandTyped == \A play \in BOOLEAN : PlayCommand(play) \in Command
BY DEF PlayCommand, Command

\* The loop task keeps counters, timers, queues and program counter in their ranges.
LEMMA LoopData == TypeOK /\ Loop => DataOK'
<1> SUFFICES ASSUME TypeOK, Loop PROVE DataOK'
  OBVIOUS
<1> USE BtAssumption DEF BtAssumption, DataOK, Left, MaxAckRetries, MaxSilence
<1>0. DataOK /\ expectedPlaying \in BOOLEAN
  BY DEF TypeOK, FlagsOK
<1>1. CASE HandleLine
  <2>1. Tail(rx) \in Seq(Line)
    BY <1>0, <1>1 DEF HandleLine
  <2>2. QED
    BY <1>0, <1>1, <2>1 DEF HandleLine, ClearProbe, ClearAck, request
<1>2. CASE RxDrained
  BY <1>0, <1>2 DEF RxDrained, request, probe, uart
<1>3. CASE ResendExpected
  <2>1. tx' \in Seq(Command) /\ rx' \in Seq(Line)
    BY <1>0, <1>3, WriteTyped, PlayCommandTyped DEF ResendExpected
  <2>2. QED
    BY <1>0, <1>3, <2>1 DEF ResendExpected, RetriesLeft, Await, probe
<1>4. CASE GiveUp
  BY <1>0, <1>4 DEF GiveUp, ClearAck, probe, uart
<1>5. CASE AckNotDue
  BY <1>0, <1>5 DEF AckNotDue, request, probe, uart
<1>6. CASE SendProbe
  <2>1. tx' \in Seq(Command) /\ rx' \in Seq(Line)
    BY <1>0, <1>6, WriteTyped DEF SendProbe, Command
  <2>2. QED
    BY <1>0, <1>6, <2>1 DEF SendProbe, ArmProbe, request
<1>7. CASE Drop
  BY <1>0, <1>7 DEF Drop, ClearProbe
<1>8. CASE BeatNotDue
  BY <1>0, <1>8 DEF BeatNotDue, request, probe, uart
<1>9. CASE ClickRead
  <2>1. PICK play \in BOOLEAN :
          \/ click' = [play |-> play, retries |-> 0]
          \/ RetriesLeft /\ click' = [play |-> play, retries |-> ackRetries + 1]
    BY <1>9, Zenon DEF ClickRead
  <2>2. click' \in [play : BOOLEAN, retries : 0..MaxAckRetries]
    BY <1>0, <2>1 DEF RetriesLeft
  <2>3. QED
    BY <1>0, <1>9, <2>2 DEF ClickRead, request, probe, uart
<1>10. CASE NoClick
  BY <1>0, <1>10 DEF NoClick, request, probe, uart
<1>11. CASE ClickPrint
  <2>1. tx' \in Seq(Command) /\ rx' \in Seq(Line)
    BY <1>0, <1>11, WriteTyped, PlayCommandTyped DEF ClickPrint
  <2>2. QED
    BY <1>0, <1>11, <2>1 DEF ClickPrint, request, probe
<1>12. CASE ClickSet
  BY <1>0, <1>12 DEF ClickSet, NoLocals, Await, probe, uart
<1>13. CASE ChangeMode
  <2>1. CASE EnterBt
    BY <1>0, <2>1 DEF EnterBt, request, probe, uart
  <2>2. CASE LeaveBt
    BY <1>0, <2>2 DEF LeaveBt, request, probe, uart
  <2>3. CASE PauseOnLeave
    <3>1. tx' \in Seq(Command) /\ rx' \in Seq(Line)
      BY <1>0, <2>3, WriteTyped DEF PauseOnLeave, Command, uart
    <3>2. QED
      BY <1>0, <2>3, <3>1 DEF PauseOnLeave, Await, request, probe
  <2>4. QED
    BY <1>13, <2>1, <2>2, <2>3 DEF ChangeMode
<1>14. QED
  BY <1>1, <1>2, <1>3, <1>4, <1>5, <1>6, <1>7, <1>8, <1>9, <1>10, <1>11, <1>12, <1>13 DEF Loop

\* So do the web client, the module and the clock.
LEMMA OthersData ==
  ASSUME TypeOK,
         \/ ClearSpiffs
         \/ PhoneObeys \/ CommandLost \/ \E line \in Spontaneous : PhoneSays(line)
         \/ Tick
  PROVE  DataOK'
<1> USE BtAssumption DEF BtAssumption, DataOK, Left, MaxAckRetries, MaxSilence
<1>0. DataOK
  BY DEF TypeOK
<1>1. CASE ClearSpiffs
  BY <1>0, <1>1 DEF ClearSpiffs, request, probe, uart
<1>2. CASE PhoneObeys
  <2>1. Tail(tx) \in Seq(Command)
    BY <1>0, <1>2 DEF PhoneObeys
  <2>2. rx' \in Seq(Line)
    BY <1>0, <1>2, ReceiveTyped DEF PhoneObeys, Line
  <2>3. QED
    BY <1>0, <1>2, <2>1, <2>2 DEF PhoneObeys, firmware, request, probe
<1>3. CASE CommandLost
  <2>1. Tail(tx) \in Seq(Command)
    BY <1>0, <1>3 DEF CommandLost
  <2>2. QED
    BY <1>0, <1>3, <2>1 DEF CommandLost, firmware, request, probe
<1>4. ASSUME NEW line \in Spontaneous, PhoneSays(line) PROVE DataOK'
  <2>1. rx' \in Seq(Line)
    BY <1>0, <1>4, ReceiveTyped DEF PhoneSays
  <2>2. QED
    BY <1>0, <1>4, <2>1 DEF PhoneSays, firmware, request, probe
<1>5. CASE Tick
  BY <1>0, <1>5 DEF Tick, Dec, uart, Off
<1>6. QED
  BY <1>1, <1>2, <1>3, <1>4, <1>5

LEMMA NextTypeOK == TypeOK /\ [Next]_vars => TypeOK'
<1> SUFFICES ASSUME TypeOK, [Next]_vars PROVE TypeOK'
  OBVIOUS
<1>1. CASE Loop
  BY <1>1, LoopFlags, LoopData DEF TypeOK
<1>2. CASE \/ ClearSpiffs
           \/ PhoneObeys \/ CommandLost \/ \E line \in Spontaneous : PhoneSays(line)
           \/ Tick
  BY <1>2, OthersFlags, OthersData DEF TypeOK
<1>3. CASE UNCHANGED vars
  BY <1>3 DEF vars, request, probe, uart, TypeOK, FlagsOK, DataOK
<1>4. QED
  BY <1>1, <1>2, <1>3 DEF Next

\* Every variable of the link keeps its type.
THEOREM TypeCorrect == Spec => []TypeOK
<1>1. QED
  BY InitTypeOK, NextTypeOK, PTL DEF Spec

-----------------------------------------------------------------------------
(* The inductive invariant: deadlines, probe and command account *)

LEMMA InitLinkInv == Init => LinkInv
BY DEF Init, NoLocals, LinkInv, DeadlineArmed, ProbeArmed, SendAccount

LEMMA NextLinkInv == TypeOK /\ LinkInv /\ [Next]_vars => LinkInv'
<1> SUFFICES ASSUME TypeOK, LinkInv, [Next]_vars PROVE LinkInv'
  OBVIOUS
<1> USE BtAssumption DEF BtAssumption, LinkInv, DeadlineArmed, ProbeArmed, SendAccount,
                         Off, MaxAckRetries, MaxSilence
<1>0. DataOK /\ FlagsOK
  BY DEF TypeOK
<1> USE <1>0 DEF DataOK, FlagsOK, Left
<1>1. CASE HandleLine
  BY <1>1 DEF HandleLine, ClearProbe, ClearAck, request
<1>2. CASE RxDrained
  BY <1>2 DEF RxDrained, request, probe
<1>3. CASE ResendExpected
  BY <1>3 DEF ResendExpected, AckExpired, Await, probe
<1>4. CASE GiveUp
  BY <1>4 DEF GiveUp, ClearAck, probe
<1>5. CASE AckNotDue
  BY <1>5 DEF AckNotDue, request, probe
<1>6. CASE SendProbe
  BY <1>6 DEF SendProbe, Suspect, ArmProbe, request
<1>7. CASE Drop
  BY <1>7 DEF Drop, ClearProbe
<1>8. CASE BeatNotDue
  BY <1>8 DEF BeatNotDue, request, probe
<1>9. CASE ClickRead
  BY <1>9 DEF ClickRead, request, probe
<1>10. CASE NoClick
  BY <1>10 DEF NoClick, request, probe
<1>11. CASE ClickPrint
  <2>1. sent + 1 = 1 + click.retries
    BY <1>11 DEF ClickPrint
  <2>2. sent' = 1 + click.retries /\ pc' = "set" /\ UNCHANGED <<click, request, probe, silence>>
    BY <1>11, <2>1 DEF ClickPrint
  <2>3. SendAccount'
    BY <1>11, <2>2 DEF ClickPrint, request
  <2>4. QED
    BY <2>2, <2>3 DEF request, probe
<1>12. CASE ClickSet
  <2>1. /\ awaitingAck' = TRUE /\ ackRetries' = click.retries /\ ackLeft' = AckTimeout
        /\ pc' = "rx" /\ sent' = sent /\ UNCHANGED <<probe, silence>>
    BY <1>12 DEF ClickSet, Await
  <2>2. sent = 1 + click.retries
    BY <1>12 DEF ClickSet
  <2>3. SendAccount'
    BY <2>1, <2>2
  <2>4. QED
    BY <2>1, <2>3 DEF probe
<1>13. CASE EnterBt \/ LeaveBt \/ ClearSpiffs
  BY <1>13 DEF EnterBt, LeaveBt, ClearSpiffs, request, probe
<1>14. CASE PauseOnLeave
  BY <1>14 DEF PauseOnLeave, Await, request, probe
<1>15. CASE PhoneObeys
  BY <1>15 DEF PhoneObeys, firmware, request, probe
<1>16. CASE CommandLost
  BY <1>16 DEF CommandLost, firmware, request, probe
<1>17. ASSUME NEW line \in Spontaneous, PhoneSays(line) PROVE LinkInv'
  BY <1>17 DEF PhoneSays, firmware, request, probe
<1>18. CASE Tick
  <2>1. SendAccount'
    BY <1>18 DEF Tick
  <2>2. DeadlineArmed' /\ ProbeArmed'
    BY <1>18 DEF Tick, Dec
  <2>3. QED
    BY <2>1, <2>2
<1>19. CASE UNCHANGED vars
  BY <1>19 DEF vars, request, probe
<1>20. QED
  BY <1>1, <1>2, <1>3, <1>4, <1>5, <1>6, <1>7, <1>8, <1>9, <1>10, <1>11, <1>12, <1>13,
     <1>14, <1>15, <1>16, <1>17, <1>18, <1>19 DEF Next, Loop, ChangeMode

\* LinkInv holds throughout: a request waits exactly while its deadline is armed, a probe that
\* is out remembers all the silence since it was sent, and every command written is accounted for.
THEOREM LinkInvariant == Spec => []LinkInv
<1>1. QED
  BY InitTypeOK, NextTypeOK, InitLinkInv, NextLinkInv, PTL DEF Spec

\* However clicks, timeouts and mode changes follow each other, one exchange writes at most
\* 1 + MAX_ACK_RETRIES commands.
THEOREM SendBudgetHolds == Spec => []SendBudget
<1>1. TypeOK /\ LinkInv => SendBudget
  BY DEF TypeOK, FlagsOK, DataOK, LinkInv, SendAccount, SendBudget, MaxAckRetries
<1>2. QED
  BY <1>1, TypeCorrect, LinkInvariant, PTL

\* The heartbeat never drops a phone before the full heartbeat period and the full probe wait.
THEOREM QuietBeforeDropHolds == Spec => QuietBeforeDrop
<1>1. TypeOK /\ LinkInv /\ [Next]_vars
        => [(pc = "beat" /\ connected /\ ~connected') => silence = MaxSilence]_vars
  <2> SUFFICES ASSUME TypeOK, LinkInv, Next, pc = "beat", connected, ~connected'
               PROVE  silence = MaxSilence
    BY DEF vars
  <2>1. CASE Drop
    BY <2>1, BtAssumption
    DEF BtAssumption, Drop, TypeOK, DataOK, LinkInv, ProbeArmed, MaxSilence
  <2>2. CASE Loop /\ ~Drop
    BY <2>2 DEF Loop, HandleLine, RxDrained, ResendExpected, GiveUp, AckNotDue, SendProbe,
                BeatNotDue, ClickRead, NoClick, ClickPrint, ClickSet,
                ChangeMode, EnterBt, LeaveBt, PauseOnLeave
  <2>3. CASE ~Loop
    BY <2>3 DEF Next, ClearSpiffs, PhoneObeys, CommandLost, PhoneSays, Tick, firmware
  <2>4. QED
    BY <2>1, <2>2, <2>3
<1>2. QED
  BY <1>1, TypeCorrect, LinkInvariant, PTL DEF Spec, QuietBeforeDrop

-----------------------------------------------------------------------------
(* Refinement: the link implements the safety part of CommandExchange *)

LEMMA NextExchange == TypeOK /\ LinkInv /\ [Next]_vars => [Exchange!Next]_Exchange!vars
<1> SUFFICES ASSUME TypeOK, LinkInv, Next, ~UNCHANGED Exchange!vars
             PROVE  Exchange!Next
  BY DEF vars, request, Exchange!vars
<1> USE DEF Exchange!vars
<1>1. CASE HandleLine
  BY <1>1 DEF HandleLine, ClearAck, request, Exchange!Next, Exchange!End
<1>2. CASE ResendExpected
  BY <1>2 DEF TypeOK, FlagsOK, ResendExpected, AckExpired, RetriesLeft, Await,
              Exchange!Next, Exchange!Repeat
<1>3. CASE GiveUp
  BY <1>3 DEF GiveUp, AckExpired, ClearAck, Exchange!Next, Exchange!End
<1>4. CASE Drop
  <2>1. awaitingAck' = FALSE /\ expectedPlaying' = expectedPlaying
    BY <1>4 DEF Drop
  <2>2. CASE awaitingAck
    BY <2>1, <2>2 DEF Exchange!Next, Exchange!End
  <2>3. CASE ~awaitingAck
    <3>1. awaitingAck' = awaitingAck
      BY <2>1, <2>3 DEF TypeOK, FlagsOK
    <3>2. QED
      BY <2>1, <2>3, <3>1
  <2>4. QED
    BY <2>2, <2>3
<1>5. CASE ClickSet
  <2> DEFINE play == click.play
  <2>1. play \in BOOLEAN /\ click.retries \in 0..MaxAckRetries /\ ackRetries \in 0..MaxAckRetries
    BY DEF TypeOK, DataOK
  <2>2. awaitingAck' = TRUE /\ expectedPlaying' = play /\ ackRetries' = click.retries
    BY <1>5 DEF ClickSet, Await
  <2> HIDE DEF play
  <2>3. CASE ~awaitingAck
    <3>1. click.retries = 0
      BY <1>5, <2>3 DEF ClickSet, LinkInv, SendAccount
    <3>2. Exchange!Ask(play)
      BY <2>2, <2>3, <3>1 DEF Exchange!Ask
    <3>3. QED
      BY <2>1, <3>2 DEF Exchange!Next
  <2>4. CASE awaitingAck /\ click.retries = ackRetries + 1
    <3>1. awaitingAck' = awaitingAck
      BY <2>2, <2>4 DEF TypeOK, FlagsOK
    <3>2. Exchange!Repeat(play)
      BY <2>1, <2>2, <2>4, <3>1 DEF Exchange!Repeat, MaxAckRetries
    <3>3. QED
      BY <2>1, <3>2 DEF Exchange!Next
  <2>5. QED
    BY <1>5, <2>3, <2>4 DEF ClickSet, LinkInv, SendAccount
<1>6. CASE PauseOnLeave
  BY <1>6 DEF PauseOnLeave, Await, request, Exchange!Next, Exchange!Ask
<1>7. ASSUME UNCHANGED <<awaitingAck, expectedPlaying, ackRetries>> PROVE FALSE
  BY <1>7
<1>8. CASE RxDrained \/ AckNotDue \/ BeatNotDue \/ NoClick
  BY <1>7, <1>8 DEF RxDrained, AckNotDue, BeatNotDue, NoClick, request
<1>9. CASE SendProbe \/ ClickRead \/ ClickPrint
  BY <1>7, <1>9 DEF SendProbe, ClickRead, ClickPrint, request
<1>10. CASE EnterBt \/ LeaveBt \/ ClearSpiffs
  BY <1>7, <1>10 DEF EnterBt, LeaveBt, ClearSpiffs, request
<1>11. CASE PhoneObeys \/ CommandLost \/ \E line \in Spontaneous : PhoneSays(line)
  BY <1>7, <1>11 DEF PhoneObeys, CommandLost, PhoneSays, firmware, request
<1>12. CASE Tick
  BY <1>7, <1>12 DEF Tick
<1>13. QED
  BY <1>1, <1>2, <1>3, <1>4, <1>5, <1>6, <1>8, <1>9, <1>10, <1>11, <1>12
  DEF Next, Loop, ChangeMode

\* Every behaviour of the link is one of the abstract exchange: one request at a time, repeated
\* at most MAX_ACK_RETRIES times by timeout and user together.
THEOREM SafeExchange == Spec => Exchange!SafeSpec
<1>1. Init => Exchange!Init
  BY DEF Init, Exchange!Init
<1>2. QED
  BY <1>1, NextExchange, TypeCorrect, LinkInvariant, PTL DEF Spec, Exchange!SafeSpec
-----------------------------------------------------------------------------
(* Belief and phone *)

Report == {"PLAYING", "STOPPED"}
Order == {"PLAY", "PAUSE"}

Silent == (\A i \in 1..Len(rx) : rx[i] \notin Report) /\ (\A i \in 1..Len(tx) : tx[i] \notin Order)

\* The last report on its way to the firmware is what the phone does ...
LastReport ==
  \A i \in 1..Len(rx) :
    rx[i] \in Report /\ (\A j \in (i + 1)..Len(rx) : rx[j] \notin Report)
      => phonePlaying = (rx[i] = "PLAYING")

\* ... and with no report and no order under way the firmware knows it already.  A
\* click that has written its order and not stored it has one of them under way.
Agreement == inSync => LastReport /\ (Silent => pc # "set" /\ playing = phonePlaying)

\* What a step in which nothing is lost does to the two directions of the UART.
Apart == UNCHANGED <<rx, tx, playing, phonePlaying>> /\ (pc' = "set" => pc = "set")

Ordered ==
  /\ UNCHANGED <<rx, playing, phonePlaying>>
  /\ \E c \in Command : tx' = Append(tx, c) /\ (c \in Order \/ (c = "STATUS" /\ pc' # "set"))

Handled ==
  /\ rx # <<>> /\ rx' = Tail(rx) /\ playing' = PlayingAfter(Head(rx))
  /\ pc = "rx" /\ UNCHANGED <<tx, phonePlaying, pc>>

Obeyed ==
  /\ tx # <<>> /\ tx' = Tail(tx) /\ UNCHANGED <<playing, pc>>
  /\ \E line \in Line :
       /\ rx' = Append(rx, line)
       /\ IF Head(tx) \in Order
          THEN line = ReportOf(Head(tx) = "PLAY") /\ phonePlaying' = (line = "PLAYING")
          ELSE line \notin Report /\ UNCHANGED phonePlaying

Reported ==
  /\ UNCHANGED <<tx, playing, pc>>
  /\ \E line \in Line :
       /\ rx' = Append(rx, line)
       /\ IF line \in Report THEN phonePlaying' = (line = "PLAYING") ELSE UNCHANGED phonePlaying

Stored == pc = "set" /\ pc' = "rx" /\ UNCHANGED <<rx, tx, phonePlaying>>

LEMMA UartSteps ==
  ASSUME TypeOK, [Next]_vars, inSync'
  PROVE  inSync /\ (Apart \/ Ordered \/ Handled \/ Obeyed \/ Reported \/ Stored)
<1> USE DEF Order, Report
<1>1. CASE RxDrained \/ AckNotDue \/ BeatNotDue \/ ClickRead \/ NoClick
  BY <1>1 DEF RxDrained, AckNotDue, BeatNotDue, ClickRead, NoClick, uart, Apart
<1>2. CASE GiveUp
  BY <1>2 DEF GiveUp, uart, Apart
<1>3. CASE HandleLine
  BY <1>3 DEF HandleLine, Handled
<1>4. ASSUME NEW c \in Command, Write(c)
      PROVE  inSync /\ tx' = Append(tx, c) /\ UNCHANGED <<rx, phonePlaying>>
  BY <1>4 DEF Write
<1>5. \A play \in BOOLEAN : PlayCommand(play) \in Command /\ PlayCommand(play) \in Order
  BY DEF PlayCommand, Command
<1>6. CASE ResendExpected
  <2>1. expectedPlaying \in BOOLEAN BY DEF TypeOK, FlagsOK
  <2>2. QED
    BY <1>4, <1>5, <1>6, <2>1 DEF ResendExpected, Ordered
<1>7. CASE SendProbe
  BY <1>4, <1>7 DEF SendProbe, Ordered, Command
<1>8. CASE ClickPrint
  <2>1. click.play \in BOOLEAN BY DEF TypeOK, DataOK
  <2>2. QED
    BY <1>4, <1>5, <1>8, <2>1 DEF ClickPrint, Ordered
<1>9. CASE Drop
  BY <1>9 DEF Drop
<1>10. CASE ClickSet
  BY <1>10 DEF ClickSet, uart, Stored
<1>11. CASE ChangeMode \/ ClearSpiffs
  <2>1. CASE EnterBt \/ LeaveBt \/ ClearSpiffs
    BY <2>1 DEF EnterBt, LeaveBt, ClearSpiffs, uart, Apart
  <2>2. CASE PauseOnLeave /\ awaitingAck
    BY <2>2 DEF PauseOnLeave, uart, Apart
  <2>3. CASE PauseOnLeave /\ ~awaitingAck
    BY <1>4, <2>3 DEF PauseOnLeave, Ordered, Command
  <2>4. QED
    BY <1>11, <2>1, <2>2, <2>3 DEF ChangeMode
<1>12. CASE PhoneObeys
  <2> inSync /\ tx # <<>> /\ tx' = Tail(tx) /\ UNCHANGED <<playing, pc>>
    BY Zenon, <1>12 DEF PhoneObeys, Receive, firmware
  <2>1. Head(tx) \in Command
    <3>1. tx \in Seq(Command)
      BY DEF TypeOK, DataOK
    <3>2. QED
      BY <3>1
  <2>2. CASE Head(tx) = "PLAY"
    BY <1>12, <2>1, <2>2 DEF PhoneObeys, Receive, Obeyed, Line, ReportOf
  <2>3. CASE Head(tx) = "PAUSE"
    BY <1>12, <2>1, <2>3 DEF PhoneObeys, Receive, Obeyed, Line, ReportOf
  <2>4. CASE Head(tx) = "STATUS"
    BY <1>12, <2>1, <2>4 DEF PhoneObeys, Receive, Obeyed, Line
  <2>5. QED
    BY <2>1, <2>2, <2>3, <2>4 DEF Command
<1>13. CASE CommandLost
  BY <1>13 DEF CommandLost
<1>14. ASSUME NEW line \in Spontaneous, PhoneSays(line)
       PROVE  inSync /\ Reported
  BY <1>14, BtAssumption DEF PhoneSays, Receive, firmware, Reported, BtAssumption
<1>15. CASE Tick
  BY <1>15 DEF Tick, uart, Apart
<1>16. CASE UNCHANGED vars
  BY <1>16 DEF vars, uart, Apart
<1>17. QED
  BY <1>1, <1>2, <1>3, <1>6, <1>7, <1>8, <1>9, <1>10, <1>11, <1>12, <1>13, <1>14, <1>15, <1>16
  DEF Next, Loop

\* A line behind the others is the last report, or leaves the last report as it was.
LEMMA ReportBehind ==
  ASSUME TypeOK, LastReport, NEW line \in Line, rx' = Append(rx, line),
         IF line \in Report THEN phonePlaying' = (line = "PLAYING") ELSE UNCHANGED phonePlaying
  PROVE  LastReport'
<1>1. rx \in Seq(Line)
  BY DEF TypeOK, DataOK
<1>2. Len(rx') = Len(rx) + 1 /\ rx'[Len(rx) + 1] = line
      /\ (\A i \in 1..Len(rx) : rx'[i] = rx[i]) /\ Len(rx) \in Nat
  BY <1>1
<1>3. ASSUME NEW i \in 1..Len(rx'), rx'[i] \in Report,
             \A j \in (i + 1)..Len(rx') : rx'[j] \notin Report
      PROVE  phonePlaying' = (rx'[i] = "PLAYING")
  <2>1. CASE i = Len(rx) + 1
    BY <1>2, <1>3, <2>1
  <2>2. CASE i # Len(rx) + 1
    <3>1. i \in 1..Len(rx) /\ Len(rx) + 1 \in (i + 1)..Len(rx') /\ line \notin Report
      BY <1>2, <1>3, <2>2
    <3>2. \A j \in (i + 1)..Len(rx) : rx[j] \notin Report
      BY <1>2, <1>3, <3>1
    <3>3. QED
      BY <1>2, <1>3, <3>1, <3>2 DEF LastReport
  <2>3. QED
    BY <2>1, <2>2
<1>4. QED
  BY <1>3 DEF LastReport

LEMMA HandledAgrees ==
  ASSUME TypeOK, LastReport, Silent => playing = phonePlaying, Handled
  PROVE  LastReport' /\ (Silent' => playing' = phonePlaying')
<1>1. rx \in Seq(Line) /\ rx # <<>> /\ Len(rx) \in Nat /\ Len(rx) > 0
  BY DEF TypeOK, DataOK, Handled
<1>2. Len(rx') = Len(rx) - 1 /\ (\A i \in 1..Len(rx') : rx'[i] = rx[i + 1])
      /\ Head(rx) = rx[1]
  BY <1>1 DEF Handled
<1>3. LastReport'
  <2>1. ASSUME NEW i \in 1..Len(rx'), rx'[i] \in Report,
               \A j \in (i + 1)..Len(rx') : rx'[j] \notin Report
        PROVE  phonePlaying = (rx'[i] = "PLAYING")
    <3>1. i + 1 \in 1..Len(rx) /\ rx[i + 1] = rx'[i]
      BY <1>1, <1>2
    <3>2. ASSUME NEW j \in ((i + 1) + 1)..Len(rx)
          PROVE  rx[j] \notin Report
      <4>1. j - 1 \in (i + 1)..Len(rx') /\ j - 1 \in 1..Len(rx') /\ (j - 1) + 1 = j
        BY <1>1, <1>2
      <4>2. rx'[j - 1] = rx[j]
        BY <1>2, <4>1
      <4>3. QED
        BY <2>1, <4>1, <4>2
    <3>3. QED
      BY <2>1, <3>1, <3>2 DEF LastReport
  <2>2. QED
    BY <2>1 DEF LastReport, Handled
<1>4. ASSUME Silent' PROVE playing' = phonePlaying'
  <2>1. \A j \in 2..Len(rx) : rx[j] \notin Report
    <3>1. ASSUME NEW j \in 2..Len(rx) PROVE rx[j] \notin Report
      <4>1. j - 1 \in 1..Len(rx') /\ (j - 1) + 1 = j
        BY <1>1, <1>2
      <4>2. rx'[j - 1] = rx[j]
        BY <1>2, <4>1
      <4>3. QED
        BY <1>4, <4>1, <4>2 DEF Silent
    <3>2. QED
      BY <3>1
  <2>2. CASE rx[1] \in Report
    <3>1. phonePlaying = (rx[1] = "PLAYING")
      BY <1>1, <2>1, <2>2 DEF LastReport
    <3>2. playing' = (rx[1] = "PLAYING")
      BY <1>2, <2>2 DEF Handled, PlayingAfter, Report
    <3>3. QED
      BY <3>1, <3>2 DEF Handled
  <2>3. CASE rx[1] \notin Report
    <3>1. \A i \in 1..Len(rx) : rx[i] \notin Report
      BY <1>1, <2>1, <2>3
    <3>2. Silent
      BY <1>4, <3>1 DEF Silent, Handled
    <3>3. playing' = playing
      BY <1>2, <2>3 DEF Handled, PlayingAfter, Report
    <3>4. QED
      BY <3>2, <3>3 DEF Handled
  <2>4. QED
    BY <2>2, <2>3
<1>5. QED
  BY <1>3, <1>4

LEMMA AgreementStep == TypeOK /\ Agreement /\ [Next]_vars => Agreement'
<1> SUFFICES ASSUME TypeOK, Agreement, [Next]_vars, inSync'
             PROVE  LastReport' /\ (Silent' => pc' # "set" /\ playing' = phonePlaying')
  BY DEF Agreement
<1>1. LastReport /\ (Silent => pc # "set" /\ playing = phonePlaying)
  BY UartSteps DEF Agreement
<1>2. rx \in Seq(Line) /\ tx \in Seq(Command) /\ Len(rx) \in Nat /\ Len(tx) \in Nat
  BY DEF TypeOK, DataOK
<1>3. CASE Apart
  BY <1>1, <1>3 DEF Apart, LastReport, Silent
<1>4. CASE Ordered
  <2>1. PICK c \in Command : tx' = Append(tx, c) /\ (c \in Order \/ (c = "STATUS" /\ pc' # "set"))
    BY <1>4 DEF Ordered
  <2>2. Len(tx') = Len(tx) + 1 /\ tx'[Len(tx) + 1] = c
        /\ (\A i \in 1..Len(tx) : tx'[i] = tx[i])
    BY <1>2, <2>1
  <2>3. Silent' => Silent /\ c \notin Order
    BY <1>2, <1>4, <2>2 DEF Silent, Ordered
  <2>4. LastReport'
    BY <1>1, <1>4 DEF LastReport, Ordered
  <2>5. QED
    BY <1>1, <1>4, <2>1, <2>3, <2>4 DEF Ordered
<1>5. CASE Handled
  BY <1>1, <1>5, HandledAgrees DEF Handled
<1>6. CASE Obeyed
  <2>1. PICK line \in Line :
          /\ rx' = Append(rx, line)
          /\ IF Head(tx) \in Order
             THEN line \in Report /\ phonePlaying' = (line = "PLAYING")
             ELSE line \notin Report /\ UNCHANGED phonePlaying
    BY <1>6 DEF Obeyed, ReportOf, Report
  <2>2. LastReport'
    BY <1>1, <2>1, ReportBehind
  <2>3. Len(rx') = Len(rx) + 1 /\ rx'[Len(rx) + 1] = line
        /\ (\A i \in 1..Len(rx) : rx'[i] = rx[i])
    BY <1>2, <2>1
  <2>4. tx # <<>> /\ Len(tx') = Len(tx) - 1 /\ Head(tx) = tx[1]
        /\ (\A i \in 1..Len(tx') : tx'[i] = tx[i + 1])
    BY <1>2, <1>6 DEF Obeyed
  <2>5. ASSUME Silent' PROVE Silent /\ Head(tx) \notin Order
    <3>1. line \notin Report
      BY <1>2, <2>3, <2>5 DEF Silent
    <3>2. Head(tx) \notin Order
      BY <2>1, <3>1
    <3>3. ASSUME NEW i \in 1..Len(tx) PROVE tx[i] \notin Order
      <4>1. CASE i = 1
        BY <2>4, <3>2, <4>1
      <4>2. CASE i # 1
        <5>1. i - 1 \in 1..Len(tx') /\ (i - 1) + 1 = i
          BY <1>2, <2>4, <4>2
        <5>2. tx'[i - 1] = tx[i]
          BY <2>4, <5>1
        <5>3. QED
          BY <2>5, <5>1, <5>2 DEF Silent
      <4>3. QED
        BY <4>1, <4>2
    <3>4. \A i \in 1..Len(rx) : rx[i] \notin Report
      BY <1>2, <2>3, <2>5 DEF Silent
    <3>5. QED
      BY <3>2, <3>3, <3>4 DEF Silent
  <2>6. QED
    BY <1>1, <1>6, <2>1, <2>2, <2>5 DEF Obeyed
<1>7. CASE Reported
  <2>1. PICK line \in Line :
          /\ rx' = Append(rx, line)
          /\ IF line \in Report THEN phonePlaying' = (line = "PLAYING") ELSE UNCHANGED phonePlaying
    BY <1>7 DEF Reported
  <2>2. LastReport'
    BY <1>1, <2>1, ReportBehind
  <2>3. Len(rx') = Len(rx) + 1 /\ rx'[Len(rx) + 1] = line
        /\ (\A i \in 1..Len(rx) : rx'[i] = rx[i])
    BY <1>2, <2>1
  <2>4. Silent' => Silent /\ line \notin Report
    BY <1>2, <1>7, <2>3 DEF Silent, Reported
  <2>5. QED
    BY <1>1, <1>7, <2>1, <2>2, <2>4 DEF Reported
<1>8. CASE Stored
  <2>1. ~Silent /\ ~Silent'
    BY <1>1, <1>8 DEF Stored, Silent
  <2>2. LastReport'
    BY <1>1, <1>8 DEF LastReport, Stored
  <2>3. QED
    BY <2>1, <2>2
<1>9. QED
  BY UartSteps, <1>3, <1>4, <1>5, <1>6, <1>7, <1>8

\* While nothing is lost the firmware believes what the phone does as soon as the UART is
\* empty, however long its two directions are and whoever started or stopped the music.
THEOREM PlayingAgreesHolds == Spec => []PlayingAgrees
<1>1. Init => Agreement
  <2> SUFFICES ASSUME Init PROVE Agreement
    OBVIOUS
  <2>1. pc = "rx" /\ playing = phonePlaying
    BY Zenon DEF Init
  <2>2. rx = <<>>
    BY DEF Init
  <2>3. 1..Len(rx) = {}
    BY <2>2
  <2>4. QED
    BY <2>1, <2>3 DEF Agreement, LastReport
<1>2. Agreement => PlayingAgrees
  BY DEF Agreement, Silent, PlayingAgrees
<1>3. QED
  BY <1>1, <1>2, AgreementStep, TypeCorrect, PTL DEF Spec

-----------------------------------------------------------------------------
(* What is waited for is under way *)

\* The click that has written its order and not stored it has it under way too.
Answered ==
  inSync => /\ awaitingAck => UnderWay(expectedPlaying)
            /\ pc = "set" => UnderWay(click.play)

\* What steps that lose nothing do to an order or report under way: a line that is
\* handled takes its own report away, and nothing else does.
LEMMA StaysUnderWay ==
  ASSUME TypeOK, [Next]_vars, inSync', NEW play \in BOOLEAN, UnderWay(play)
  PROVE  UnderWay(play)' \/ (Handled /\ Head(rx) = ReportOf(play))
<1>1. rx \in Seq(Line) /\ tx \in Seq(Command) /\ Len(rx) \in Nat /\ Len(tx) \in Nat
  BY DEF TypeOK, DataOK
<1>2. CASE Apart \/ Stored BY <1>2 DEF Apart, Stored, UnderWay
<1>3. CASE Ordered
  <2>1. PICK c \in Command : tx' = Append(tx, c) BY <1>3 DEF Ordered
  <2>2. Len(tx') = Len(tx) + 1 /\ (\A i \in 1..Len(tx) : tx'[i] = tx[i]) BY <1>1, <2>1
  <2> QED BY <1>1, <1>3, <2>2 DEF Ordered, UnderWay
<1>4. CASE Reported
  <2>1. PICK line \in Line : rx' = Append(rx, line) BY <1>4 DEF Reported
  <2>2. Len(rx') = Len(rx) + 1 /\ (\A i \in 1..Len(rx) : rx'[i] = rx[i]) BY <1>1, <2>1
  <2> QED BY <1>1, <1>4, <2>2 DEF Reported, UnderWay
<1>5. CASE Handled /\ Head(rx) # ReportOf(play)
  <2>1. /\ rx # <<>> /\ Head(rx) = rx[1] /\ Len(rx') = Len(rx) - 1 /\ tx' = tx
        /\ \A i \in 1..Len(rx') : rx'[i] = rx[i + 1]
    BY <1>1, <1>5 DEF Handled
  <2>2. ASSUME NEW i \in 1..Len(rx), rx[i] = ReportOf(play) PROVE UnderWay(play)'
    <3>1. i # 1 BY <2>1, <2>2, <1>5
    <3>2. i - 1 \in 1..Len(rx') /\ (i - 1) + 1 = i BY <1>1, <2>1, <3>1
    <3>3. rx'[i - 1] = ReportOf(play) BY <2>1, <2>2, <3>2
    <3> QED BY <3>2, <3>3 DEF UnderWay, ReportOf
  <2> QED BY <2>1, <2>2 DEF UnderWay, PlayCommand
<1>6. CASE Obeyed
  <2>1. /\ tx # <<>> /\ Head(tx) = tx[1] /\ Len(tx') = Len(tx) - 1
        /\ \A i \in 1..Len(tx') : tx'[i] = tx[i + 1]
    BY <1>1, <1>6 DEF Obeyed
  <2>2. PICK line \in Line :
          /\ rx' = Append(rx, line)
          /\ Head(tx) \in Order => line = ReportOf(Head(tx) = "PLAY")
    BY <1>6 DEF Obeyed
  <2>3. /\ Len(rx') = Len(rx) + 1 /\ rx'[Len(rx) + 1] = line
        /\ \A i \in 1..Len(rx) : rx'[i] = rx[i]
    BY <1>1, <2>2
  <2>4. ASSUME NEW i \in 1..Len(tx), tx[i] = PlayCommand(play) PROVE UnderWay(play)'
    <3>1. CASE i = 1
      <4>1. line = ReportOf(play)
        BY <2>1, <2>2, <2>4, <3>1 DEF PlayCommand, ReportOf, Order
      <4>2. Len(rx) + 1 \in 1..Len(rx') BY <1>1, <2>3
      <4> QED BY <2>3, <4>1, <4>2 DEF UnderWay, ReportOf
    <3>2. CASE i # 1
      <4>1. i - 1 \in 1..Len(tx') /\ (i - 1) + 1 = i BY <1>1, <2>1, <3>2
      <4>2. tx'[i - 1] = PlayCommand(play) BY <2>1, <2>4, <4>1
      <4> QED BY <4>1, <4>2 DEF UnderWay, PlayCommand
    <3> QED BY <3>1, <3>2
  <2>5. ASSUME NEW i \in 1..Len(rx), rx[i] = ReportOf(play) PROVE UnderWay(play)'
    <3>1. i \in 1..Len(rx') /\ rx'[i] = ReportOf(play) BY <1>1, <2>3, <2>5
    <3> QED BY <3>1 DEF UnderWay, ReportOf
  <2> QED BY <2>4, <2>5 DEF UnderWay
<1> QED BY UartSteps, <1>2, <1>3, <1>4, <1>5, <1>6

\* A command that is written is under way.
LEMMA WrittenUnderWay ==
  ASSUME TypeOK, NEW play \in BOOLEAN, Write(PlayCommand(play)), inSync'
  PROVE  UnderWay(play)'
<1>1. tx \in Seq(Command) /\ Len(tx) \in Nat /\ PlayCommand(play) \in Command
  BY PlayCommandTyped DEF TypeOK, DataOK
<1>2. tx' = Append(tx, PlayCommand(play)) BY DEF Write
<1>3. Len(tx) + 1 \in 1..Len(tx') /\ tx'[Len(tx) + 1] = PlayCommand(play) BY <1>1, <1>2
<1> QED BY <1>3 DEF UnderWay, PlayCommand

LEMMA AnsweredStep == TypeOK /\ Answered /\ [Next]_vars => Answered'
<1> SUFFICES ASSUME TypeOK, Answered, [Next]_vars, inSync'
             PROVE  /\ awaitingAck' => UnderWay(expectedPlaying)'
                    /\ pc' = "set" => UnderWay(click.play)'
  BY DEF Answered
<1>1. expectedPlaying \in BOOLEAN /\ click.play \in BOOLEAN BY DEF TypeOK, FlagsOK, DataOK
<1>2. (awaitingAck => UnderWay(expectedPlaying)) /\ (pc = "set" => UnderWay(click.play))
  BY UartSteps DEF Answered
<1>3. ASSUME NEW play \in BOOLEAN, UnderWay(play)
      PROVE  UnderWay(play)' \/ (pc = "rx" /\ Head(rx) = ReportOf(play))
  BY <1>3, StaysUnderWay DEF Handled
<1>4. rx \in Seq(Line) BY DEF TypeOK, DataOK
<1>5. ASSUME rx' = rx \/ (\E line \in Line : rx' = Append(rx, line)),
             NEW play \in BOOLEAN, UnderWay(play)
      PROVE  UnderWay(play)'
  <2>1. ~(rx # <<>> /\ rx' = Tail(rx)) BY <1>4, <1>5
  <2> QED BY <2>1, <1>5, StaysUnderWay DEF Handled
<1>6. ASSUME rx' = rx, awaitingAck' => awaitingAck, UNCHANGED <<expectedPlaying, click>>,
             pc' = "set" => pc = "set"
      PROVE  (awaitingAck' => UnderWay(expectedPlaying)') /\ (pc' = "set" => UnderWay(click.play)')
  <2>1. awaitingAck => UnderWay(expectedPlaying)' BY <1>1, <1>2, <1>5, <1>6
  <2>2. pc = "set" => UnderWay(click.play)' BY <1>1, <1>2, <1>5, <1>6
  <2>3. expectedPlaying' = expectedPlaying /\ click'.play = click.play BY <1>6
  <2> QED BY <2>1, <2>2, <2>3, <1>6 DEF UnderWay
<1>7. CASE HandleLine
  <2>1. /\ pc = "rx" /\ pc' = "rx" /\ UNCHANGED expectedPlaying
        /\ awaitingAck' => awaitingAck /\ Head(rx) # ReportOf(expectedPlaying)
    BY <1>1, <1>7 DEF HandleLine, ClearAck, request, ReportOf
  <2>2. awaitingAck' => UnderWay(expectedPlaying)'
    BY <2>1, <1>1, <1>2, <1>3 DEF UnderWay
  <2> QED BY <2>1, <2>2
<1>8. CASE RxDrained \/ AckNotDue \/ BeatNotDue \/ GiveUp \/ SendProbe \/ NoClick
  BY <1>6, <1>8
  DEF RxDrained, AckNotDue, BeatNotDue, GiveUp, SendProbe, NoClick, ClearAck, Write, uart, request
<1>9. CASE ClickRead
  <2>1. rx' = rx /\ UNCHANGED request /\ pc' = "print" BY <1>9 DEF ClickRead, uart
  <2>2. awaitingAck => UnderWay(expectedPlaying)' BY <1>1, <1>2, <1>5, <2>1 DEF request
  <2> QED BY <2>1, <2>2 DEF request
<1>10. CASE ResendExpected
  <2>1. expectedPlaying' = expectedPlaying /\ pc' = "beat" /\ Write(PlayCommand(expectedPlaying))
    BY <1>10 DEF ResendExpected, Await
  <2>2. UnderWay(expectedPlaying)' BY <1>1, <2>1, WrittenUnderWay DEF UnderWay
  <2> QED BY <2>1, <2>2
<1>11. CASE Drop BY <1>11 DEF Drop
<1>12. CASE ClickPrint
  <2>1. /\ rx' = rx /\ UNCHANGED <<request, click>> /\ Write(PlayCommand(click.play))
    BY <1>12 DEF ClickPrint, Write
  <2>2. UnderWay(click.play)' BY <1>1, <2>1, WrittenUnderWay DEF UnderWay
  <2>3. awaitingAck => UnderWay(expectedPlaying)' BY <1>1, <1>2, <1>5, <2>1 DEF request
  <2> QED BY <2>1, <2>2, <2>3 DEF request
<1>13. CASE ClickSet
  <2>1. UNCHANGED <<rx, tx>> /\ expectedPlaying' = click.play /\ pc = "set" /\ pc' = "rx"
    BY <1>13 DEF ClickSet, Await, uart
  <2> QED BY <1>2, <2>1 DEF UnderWay
<1>14. CASE ChangeMode \/ ClearSpiffs
  <2>1. CASE EnterBt \/ LeaveBt \/ ClearSpiffs \/ (PauseOnLeave /\ awaitingAck)
    BY <1>6, <2>1 DEF EnterBt, LeaveBt, ClearSpiffs, PauseOnLeave, uart, request
  <2>2. CASE PauseOnLeave /\ ~awaitingAck
    <3>1. rx' = rx /\ pc' = "rx" /\ expectedPlaying' = FALSE /\ Write(PlayCommand(FALSE))
      BY <2>2 DEF PauseOnLeave, Await, Write, PlayCommand
    <3>2. UnderWay(expectedPlaying)' BY <3>1, WrittenUnderWay DEF UnderWay
    <3> QED BY <3>1, <3>2
  <2> QED BY <1>14, <2>1, <2>2 DEF ChangeMode
<1>15. ASSUME NEW line \in Line, Receive(line), UNCHANGED firmware
       PROVE  (awaitingAck' => UnderWay(expectedPlaying)') /\ (pc' = "set" => UnderWay(click.play)')
  <2>1. /\ rx' = Append(rx, line)
        /\ UNCHANGED <<awaitingAck, expectedPlaying, click, pc>>
    BY <1>15 DEF Receive, firmware, request
  <2>2. awaitingAck => UnderWay(expectedPlaying)' BY <1>1, <1>2, <1>5, <2>1
  <2>3. pc = "set" => UnderWay(click.play)' BY <1>1, <1>2, <1>5, <2>1
  <2> QED BY <2>1, <2>2, <2>3
<1>16. CASE PhoneObeys BY <1>15, <1>16 DEF PhoneObeys, Line
<1>17. CASE CommandLost BY <1>17 DEF CommandLost
<1>18. ASSUME NEW line \in Spontaneous, PhoneSays(line)
       PROVE  (awaitingAck' => UnderWay(expectedPlaying)') /\ (pc' = "set" => UnderWay(click.play)')
  BY <1>15, <1>18, BtAssumption DEF PhoneSays, BtAssumption
<1>19. CASE Tick
  <2>1. UNCHANGED <<rx, awaitingAck, expectedPlaying, click, pc>> BY <1>19 DEF Tick, uart
  <2> QED BY <1>6, <2>1
<1>20. CASE UNCHANGED vars
  <2>1. UNCHANGED <<rx, awaitingAck, expectedPlaying, click, pc>>
    BY <1>20 DEF vars, uart, request
  <2> QED BY <1>6, <2>1
<1> QED
  BY <1>7, <1>8, <1>9, <1>10, <1>11, <1>12, <1>13, <1>14, <1>16, <1>17, <1>18, <1>19, <1>20 DEF Next, Loop

\* While nothing is lost, what a request waits for is on its way, however clicks, resends
\* and a mode change overlap and however long the UART is.
THEOREM AnswerComes == Spec => []AnswerUnderWay
<1>1. Init => Answered BY DEF Init, Answered
<1>2. Answered => AnswerUnderWay BY DEF Answered, AnswerUnderWay
<1> QED BY <1>1, <1>2, AnsweredStep, TypeCorrect, PTL DEF Spec
=============================================================================
