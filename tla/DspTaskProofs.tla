--------------------------- MODULE DspTaskProofs ---------------------------
(***************************************************************************)
(* Proofs about the screen, its timers and the downloads, for any number   *)
(* of clients and files, any queue and any length of a minute: types, when *)
(* the display is locked, what a download delivers, and that the delayed   *)
(* action keeps its time.  Every step of DspTask is a step of TimeKeeper   *)
(* and one of PageDownload, or leaves their variables alone; the           *)
(* invariants are proved of those.                                         *)
(***************************************************************************)
EXTENDS DspTask, TLAPS

TimerStep ==
  \/ UNCHANGED timers
  \/ back' \in BOOLEAN /\ UNCHANGED <<returning, delayed, down>>
  \/ ReturnDue \/ Return
  \/ AskSleep \/ SetCallback \/ Second \/ DoAfterWait

ClientStep(c) ==
  \/ \E p \in Pages : Request(c, p)
  \/ NoFile(c) \/ End(c) \/ (\E n \in 1..MaxIndex : Part(c, n)) \/ GoAway(c)

PageStep ==
  \/ UNCHANGED pages
  \/ \E c \in Clients : ClientStep(c)
  \/ \E p \in Pages : Rewrite(p)

\* What is waited for, unless a delay did not fit: a time behind which no wish of
\* what will be called lies.  While waitAndDo is between its two assignments the
\* action is still the old one and the time already that of sleep.
TimeKept ==
  ~wrapped =>
    /\ ~early
    /\ asking => doIn > 0 /\ wanted["sleep"] = doIn
    /\ ~asking /\ doIn # Off => callback \in Actions /\ wanted[callback] <= doIn

\* A download that is alone: its file is the one in the buffer, its bytes are the
\* first of that file.
DownloadKept(c) ==
  page[c] # None /\ alone[c] =>
    /\ path = page[c] /\ good[c]
    /\ index[c] <= (IF size[path] = Missing THEN 0 ELSE size[path])

PagesKept == ~wrong /\ \A c \in Clients : DownloadKept(c)

-----------------------------------------------------------------------------
(* Numbers *)

LEMMA Remainder ==
  ASSUME NEW x \in Nat, NEW n \in Nat \ {0}
  PROVE  x % n \in 0..(n - 1) /\ (x < n => x % n = x)
OBVIOUS

LEMMA Product ==
  ASSUME NEW m \in Nat \ {0}, NEW n \in Nat \ {0}
  PROVE  m * n \in Nat /\ m * n > 0
OBVIOUS

\* A delay that fits is the delay asked for.
LEMMA SecondsFit ==
  ASSUME NEW m \in Delays
  PROVE  /\ m * Minute \in Nat /\ m * Minute > 0
         /\ Seconds(m) \in 0..(Byte - 1)
         /\ m * Minute < Byte => Seconds(m) = m * Minute
<1>1. m \in Nat \ {0} /\ Minute \in Nat \ {0} /\ Byte \in Nat \ {0}
  BY TimeAssumption
<1>2. m * Minute \in Nat /\ m * Minute > 0
  BY <1>1, Product
<1> QED
  BY <1>1, <1>2, Remainder DEF Seconds

-----------------------------------------------------------------------------
(* Steps of the parts *)

LEMMA Parts ==
  ASSUME TypeOK, [Next]_vars
  PROVE  TimerStep /\ PageStep
<1>1. CASE LoopTask
  BY <1>1 DEF LoopTask, Pass, Put, PutLost, LookAgain, ResetQueue, LookHeld, TurnHeld,
     ControlsEvent, PlayerVol, Loop1Due, Loop1Return, TimerStep, PageStep, timers, returnTimer
<1>2. CASE Inputs
  BY <1>2 DEF Inputs, Turn, Choose, LongPress, Hold, TimerStep, PageStep
<1>3. CASE Loop1Delayed
  BY <1>3 DEF Loop1Delayed, TimerStep, PageStep
<1>4. CASE Loop0
  BY <1>4 DEF Loop0, TimerStep, PageStep
<1>5. CASE Show
  <2>1. UNCHANGED <<returning, delayed, down, pages>>
    BY <1>5 DEF Show
  <2>2. back' \in {back, TRUE}
    BY <1>5 DEF Show, SwichMode, DrawPlaylist, Volume, WaitAndReturnPlayer
  <2> QED
    BY <2>1, <2>2 DEF TimerStep, PageStep, TypeOK, TimersTypeOK
<1>6. CASE Sleeper
  BY <1>6 DEF Sleeper, TimerStep, PageStep
<1>7. CASE Download
  <2>1. scenario.readers \subseteq Clients
    BY DEF TypeOK, ScenarioSet
  <2> QED
    BY <1>7, <2>1 DEF Download, TimerStep, PageStep, ClientStep
<1>8. CASE Write
  BY <1>8 DEF Write, TimerStep, PageStep
<1>9. CASE UNCHANGED vars
  BY <1>9 DEF vars, TimerStep, PageStep
<1> QED
  BY <1>1, <1>2, <1>3, <1>4, <1>5, <1>6, <1>7, <1>8, <1>9 DEF Next

LEMMA TimerTypes ==
  ASSUME TimersTypeOK, TimerStep
  PROVE  TimersTypeOK'
<1> USE DEF TimersTypeOK, Off
<1>1. CASE UNCHANGED timers
  BY <1>1 DEF timers, returnTimer, delayed
<1>2. CASE back' \in BOOLEAN /\ UNCHANGED <<returning, delayed, down>>
  BY <1>2 DEF delayed
<1>3. CASE ReturnDue \/ Return
  BY <1>3 DEF ReturnDue, Return, delayed
<1>4. CASE AskSleep
  <2>1. PICK m \in Delays : WaitAndDo(m, "sleep")
    BY <1>4 DEF AskSleep
  <2>2. doIn' \in 0..(Byte - 1) /\ wanted' \in [Actions -> Nat] /\ wrapped' \in BOOLEAN
    BY <2>1, SecondsFit DEF WaitAndDo, Actions
  <2> QED
    BY <1>4, <2>2 DEF AskSleep, returnTimer
<1>5. CASE SetCallback
  BY <1>5 DEF SetCallback, returnTimer, Actions
<1>6. CASE Second
  <2>1. doIn' \in 0..(Byte - 1)
    BY <1>6, TimeAssumption DEF Second
  <2>2. wanted' \in [Actions -> Nat]
    BY <1>6 DEF Second, Less
  <2> QED
    BY <1>6, <2>1, <2>2 DEF Second, returnTimer
<1>7. CASE DoAfterWait
  BY <1>7 DEF DoAfterWait, returnTimer
<1> QED
  BY <1>1, <1>2, <1>3, <1>4, <1>5, <1>6, <1>7 DEF TimerStep

LEMMA PageTypes ==
  ASSUME PagesTypeOK, PageStep
  PROVE  PagesTypeOK'
<1> USE DEF PagesTypeOK
<1>1. CASE UNCHANGED pages
  BY <1>1 DEF pages
<1>2. ASSUME NEW c \in Clients, ClientStep(c)
      PROVE  PagesTypeOK'
  <2> USE PageAssumption
  <2>1. ASSUME NEW p \in Pages, Request(c, p)
        PROVE  PagesTypeOK'
    BY <2>1 DEF Request
  <2>2. CASE NoFile(c)
    BY <2>2 DEF NoFile, Leave
  <2>3. CASE End(c)
    <3>1. Leave(c) /\ locked' = FALSE /\ stranded' = FALSE
      BY <2>3 DEF End, Unlock
    <3>2. 0 \in 0..MaxIndex
      OBVIOUS
    <3> QED
      BY <3>1, <3>2 DEF Leave
  <2>4. ASSUME NEW n \in 1..MaxIndex, Part(c, n)
        PROVE  PagesTypeOK'
    BY <2>4 DEF Part
  <2>5. CASE GoAway(c)
    BY <2>5 DEF GoAway
  <2> QED
    BY <1>2, <2>1, <2>2, <2>3, <2>4, <2>5 DEF ClientStep
<1>3. ASSUME NEW p \in Pages, Rewrite(p)
      PROVE  PagesTypeOK'
  BY <1>3 DEF Rewrite
<1> QED
  BY <1>1, <1>2, <1>3 DEF PageStep

-----------------------------------------------------------------------------
(* Types *)

\* A device that starts on its network, and one that starts as an access point.
NoDelay ==
  /\ doIn = Off /\ callback = "none" /\ wrapped = FALSE
  /\ wanted = [a \in Actions |-> 0]

Restart(m) ==
  /\ doIn = Seconds(m) /\ callback = "reboot" /\ wrapped = (m * Minute >= Byte)
  /\ wanted = [a \in Actions |-> IF a = "reboot" THEN m * Minute ELSE 0]

LEMMA InitTimers ==
  ASSUME Init
  PROVE  /\ back = FALSE /\ returning = FALSE /\ early = FALSE /\ down = FALSE
         /\ asking = FALSE
         /\ NoDelay \/ \E m \in Delays : Restart(m)
BY DEF Init, TimersInit, NoDelay, Restart

LEMMA InitTypes == Init => TypeOK
<1> SUFFICES ASSUME Init PROVE TypeOK
  OBVIOUS
<1>1. TimersTypeOK
  <2>1. CASE NoDelay
    BY <2>1, InitTimers DEF NoDelay, TimersTypeOK, Actions
  <2>2. ASSUME NEW m \in Delays, Restart(m)
        PROVE  TimersTypeOK
    BY <2>2, InitTimers, SecondsFit DEF Restart, TimersTypeOK, Actions
  <2> QED
    BY <2>1, <2>2, InitTimers
<1>2. PagesTypeOK
  <2>1. 0 \in 0..MaxIndex
    BY PageAssumption
  <2> QED
    BY <2>1 DEF Init, PagesInit, PagesTypeOK
<1>3. queue \in Seq(Requests) /\ Len(queue) <= DspLen /\ todo \in Seq(Requests)
  BY DspAssumption DEF Init
<1> QED
  BY <1>1, <1>2, <1>3, DspAssumption DEF Init, TypeOK, Modes, Lists

LEMMA Short ==
  \A a, b \in Requests :
    /\ <<>> \in Seq(Requests) /\ <<a>> \in Seq(Requests)
    /\ <<a, b>> \in Seq(Requests)
OBVIOUS

LEMMA Named ==
  /\ Modes \subseteq Requests
  /\ {"PLAYER", "STATIONS", "VOL", "CLOCK", "DRAW", "DRAWVOL", "CLOSE"} \subseteq Requests
BY DEF Requests, Modes

\* The queue and the requests that wait for it, in every step.
LEMMA QueueTypes ==
  ASSUME TypeOK, [Next]_vars
  PROVE  /\ queue' \in Seq(Requests) /\ Len(queue') <= DspLen
         /\ todo' \in Seq(Requests)
<1> USE DspAssumption DEF TypeOK
<1>1. CASE Put
  BY <1>1 DEF Put
<1>2. CASE PutLost
  BY <1>2 DEF PutLost, screen
<1>3. CASE LookAgain \/ LookHeld \/ Loop1Due
  BY <1>3 DEF LookAgain, LookHeld, Loop1Due, screen, loopTask
<1>4. CASE ResetQueue
  <2>1. queue' = <<>> /\ todo' \in {<<"DRAW">>, <<>>}
    BY <1>4 DEF ResetQueue
  <2>2. <<"DRAW">> \in Seq(Requests) /\ <<>> \in Seq(Requests)
    BY Short, Named
  <2>3. Len(<<>>) <= DspLen
    OBVIOUS
  <2> QED
    BY <2>1, <2>2, <2>3
<1>5. CASE PlayerVol \/ Loop1Return
  <2>1. todo' \in {<<"DRAWVOL">>, <<"PLAYER">>} /\ UNCHANGED queue
    BY <1>5 DEF PlayerVol, Loop1Return, screen
  <2> QED
    BY <2>1, Short, Named
<1>6. CASE Inputs \/ TurnHeld
  <2>1. /\ UNCHANGED queue
        /\ todo' \in {todo, <<"VOL">>, <<"PLAYER", "CLOSE">>, <<"STATIONS">>, <<"PLAYER">>}
    BY <1>6 DEF Inputs, Turn, ControlsEvent, Choose, LongPress, Hold, TurnHeld, screen
  <2>2. /\ <<"VOL">> \in Seq(Requests) /\ <<"PLAYER", "CLOSE">> \in Seq(Requests)
        /\ <<"STATIONS">> \in Seq(Requests) /\ <<"PLAYER">> \in Seq(Requests)
    BY Short, Named
  <2> QED
    BY <2>1, <2>2
<1>7. CASE Loop0
  BY <1>7 DEF Loop0, loopTask, Requests
<1>8. CASE Show
  BY <1>8 DEF Show, loopTask
<1>9. CASE Loop1Delayed \/ Sleeper \/ Download \/ Write \/ UNCHANGED vars
  BY <1>9 DEF Loop1Delayed, Sleeper, Download, Write, vars, screen, loopTask
<1> QED
  BY <1>1, <1>2, <1>3, <1>4, <1>5, <1>6, <1>7, <1>8, <1>9 DEF Next, LoopTask, Pass

LEMMA ScreenTypes ==
  ASSUME TypeOK, [Next]_vars
  PROVE  /\ scenario' \in ScenarioSet /\ mode' \in Modes
         /\ list' \in Lists
         /\ drawVol' \in BOOLEAN /\ dropped' \in BOOLEAN
<1> USE DEF TypeOK, Lists
<1>1. CASE LoopTask
  BY <1>1 DEF LoopTask, Pass, Put, PutLost, LookAgain, ResetQueue, LookHeld, TurnHeld,
     ControlsEvent, PlayerVol, Loop1Due, Loop1Return, screen, loopTask
<1>2. CASE Inputs
  <2>1. Input
    BY <1>2 DEF Inputs, Turn, Choose, LongPress, Hold
  <2>2. scenario' \in ScenarioSet
    BY <2>1 DEF Input, ScenarioSet
  <2> QED
    BY <1>2, <2>2 DEF Inputs, Turn, ControlsEvent, Choose, LongPress, Hold, screen
<1>3. CASE Show
  <2>1. mode' \in Modes /\ dropped' \in BOOLEAN
    BY <1>3 DEF Show, SwichMode
  <2> QED
    BY <1>3, <2>1 DEF Show, loopTask
<1>4. CASE Loop0 \/ Loop1Delayed \/ Sleeper \/ Download \/ Write \/ UNCHANGED vars
  BY <1>4 DEF Loop0, Loop1Delayed, Sleeper, Download, Write, vars, screen, loopTask
<1> QED
  BY <1>1, <1>2, <1>3, <1>4 DEF Next

LEMMA NextTypes ==
  ASSUME TypeOK, [Next]_vars
  PROVE  TypeOK'
BY Parts, TimerTypes, PageTypes, QueueTypes, ScreenTypes DEF TypeOK

\* Every variable keeps its type: the delay stays in a byte, a download within the
\* bound, and displayQueue never holds more than it has room for.
THEOREM TypeCorrect == Spec => []TypeOK
<1>1. Init => TypeOK
  BY InitTypes
<1>2. TypeOK /\ [Next]_vars => TypeOK'
  BY NextTypes
<1> QED
  BY <1>1, <1>2, PTL DEF Spec

-----------------------------------------------------------------------------
(* The lock *)

LEMMA LockStep ==
  ASSUME PagesTypeOK, LockedForDownload, PageStep
  PROVE  LockedForDownload'
<1> USE PageAssumption DEF LockedForDownload, PagesTypeOK
<1>1. CASE UNCHANGED pages
  BY <1>1 DEF pages
<1>2. ASSUME NEW c \in Clients, NEW p \in Pages, Request(c, p)
      PROVE  LockedForDownload'
  BY <1>2 DEF Request
<1>3. ASSUME NEW c \in Clients, NoFile(c) \/ GoAway(c)
      PROVE  LockedForDownload'
  BY <1>3 DEF NoFile, GoAway
<1>4. ASSUME NEW c \in Clients, End(c)
      PROVE  LockedForDownload'
  BY <1>4 DEF End, Unlock
<1>5. ASSUME NEW c \in Clients, NEW n \in 1..MaxIndex, Part(c, n)
      PROVE  LockedForDownload'
  BY <1>5 DEF Part
<1>6. ASSUME NEW p \in Pages, Rewrite(p)
      PROVE  LockedForDownload'
  BY <1>6 DEF Rewrite
<1> QED
  BY <1>1, <1>2, <1>3, <1>4, <1>5, <1>6 DEF PageStep, ClientStep

\* The display is locked for a download under way, or behind one that did not end
\* as chunkedHtmlPageCallback expects, however many browsers ask for files.
THEOREM LockCorrect == Spec => []LockedForDownload
<1>1. Init => LockedForDownload
  BY DEF Init, PagesInit, LockedForDownload
<1>2. TypeOK /\ LockedForDownload /\ [Next]_vars => LockedForDownload'
  BY Parts, LockStep DEF TypeOK
<1> QED
  BY <1>1, <1>2, TypeCorrect, PTL DEF Spec

-----------------------------------------------------------------------------
(* Downloads *)

LEMMA DownloadsStep ==
  ASSUME PagesTypeOK, PagesKept, PageStep
  PROVE  PagesKept'
<1> USE PageAssumption DEF PagesKept, DownloadKept, PagesTypeOK
<1>1. CASE UNCHANGED pages
  BY <1>1 DEF pages
<1>2. ASSUME NEW c \in Clients, NEW p \in Pages, Request(c, p)
      PROVE  PagesKept'
  <2>1. ASSUME NEW d \in Clients, d # c, page'[d] # None, alone'[d]
        PROVE  alone[d] /\ page[d] = p /\ page'[d] = p /\ path = p
    BY <1>2, <2>1 DEF Request
  <2> QED
    BY <1>2, <2>1 DEF Request, Missing
<1>3. ASSUME NEW c \in Clients, NoFile(c) \/ End(c)
      PROVE  PagesKept'
  <2>1. page[c] # None /\ Leave(c)
    BY <1>3 DEF NoFile, End
  <2>2. alone[c] => Delivered(c)
    <3> SUFFICES ASSUME alone[c] PROVE Delivered(c)
      OBVIOUS
    <3>1. path = page[c] /\ good[c] /\ path \in Pages
      BY <2>1
    <3>2. CASE NoFile(c)
      BY <3>1, <3>2 DEF NoFile, Delivered
    <3>3. CASE End(c)
      <4>1. size[path] # Missing /\ NeedRead(c) = 0 /\ index[c] <= size[path]
        BY <3>1, <3>3, <2>1 DEF End, AtEnd
      <4>2. index[c] = size[path]
        BY <4>1, <3>1 DEF NeedRead, Missing
      <4> QED
        BY <3>1, <4>1, <4>2 DEF Delivered
    <3> QED
      BY <1>3, <3>2, <3>3
  <2> QED
    BY <2>1, <2>2 DEF Leave
<1>4. ASSUME NEW c \in Clients, NEW n \in 1..MaxIndex, Part(c, n)
      PROVE  PagesKept'
  <2>1. alone[c] => index[c] + n <= size[path] /\ path = page[c]
    BY <1>4 DEF Part, NeedRead, Missing
  <2> QED
    BY <1>4, <2>1 DEF Part
<1>5. ASSUME NEW c \in Clients, GoAway(c)
      PROVE  PagesKept'
  BY <1>5 DEF GoAway
<1>6. ASSUME NEW p \in Pages, Rewrite(p)
      PROVE  PagesKept'
  <2>1. ASSUME NEW d \in Clients, page'[d] # None, alone'[d]
        PROVE  alone[d] /\ path # p
    BY <1>6, <2>1 DEF Rewrite
  <2> QED
    BY <1>6, <2>1 DEF Rewrite
<1> QED
  BY <1>1, <1>2, <1>3, <1>4, <1>5, <1>6 DEF PageStep, ClientStep

\* A browser that is the only one to ask for files, or asks for the same as the
\* others, gets its file from the shared buffer whole, in whatever parts.
THEOREM PagesCorrect == Spec => []PagesWhole
<1>1. Init => PagesKept
  BY DEF Init, PagesInit, PagesKept, DownloadKept
<1>2. TypeOK /\ PagesKept /\ [Next]_vars => PagesKept'
  BY Parts, DownloadsStep DEF TypeOK
<1>3. PagesKept => PagesWhole
  BY DEF PagesKept, PagesWhole
<1> QED
  BY <1>1, <1>2, <1>3, TypeCorrect, PTL DEF Spec

-----------------------------------------------------------------------------
(* The delayed action *)

LEMMA TimeStep ==
  ASSUME TimersTypeOK, TimeKept, TimerStep
  PROVE  TimeKept'
<1> USE DEF TimersTypeOK, TimeKept, Off
<1>1. CASE UNCHANGED timers
  BY <1>1 DEF timers, delayed
<1>2. CASE back' \in BOOLEAN /\ UNCHANGED <<returning, delayed, down>>
  BY <1>2 DEF delayed
<1>3. CASE ReturnDue \/ Return
  BY <1>3 DEF ReturnDue, Return, delayed
<1>4. CASE AskSleep
  <2>1. PICK m \in Delays : WaitAndDo(m, "sleep")
    BY <1>4 DEF AskSleep
  <2>2. wanted'["sleep"] = m * Minute /\ early' = early /\ asking'
    BY <1>4, <2>1 DEF AskSleep, WaitAndDo, Actions
  <2>3. ~wrapped' => ~wrapped /\ ~(m * Minute >= Byte)
    BY <2>1 DEF WaitAndDo
  <2>4. ~(m * Minute >= Byte) => doIn' = m * Minute /\ doIn' > 0
    <3>1. doIn' = Seconds(m)
      BY <2>1 DEF WaitAndDo
    <3> HIDE DEF TimersTypeOK, TimeKept
    <3> QED
      BY <3>1, SecondsFit, TimeAssumption
  <2> QED
    BY <2>2, <2>3, <2>4
<1>5. CASE SetCallback
  BY <1>5 DEF SetCallback, Actions
<1>6. CASE Second
  <2>1. \A a \in Actions : wanted[a] <= doIn => wanted'[a] <= doIn'
    BY <1>6 DEF Second, Less
  <2> QED
    BY <1>6, <2>1 DEF Second
<1>7. CASE DoAfterWait
  BY <1>7 DEF DoAfterWait, Due, Actions
<1> QED
  BY <1>1, <1>2, <1>3, <1>4, <1>5, <1>6, <1>7 DEF TimerStep

\* However the requests for sleep and the seconds interleave, also between the two
\* assignments of waitAndDo, the action that is called has waited its time, if
\* every delay fitted into the byte.
THEOREM OnTimeCorrect == Spec => []OnTime
<1>1. Init => TimeKept
  <2> SUFFICES ASSUME Init PROVE TimeKept
    OBVIOUS
  <2>1. CASE NoDelay
    BY <2>1, InitTimers DEF NoDelay, TimeKept
  <2>2. ASSUME NEW m \in Delays, Restart(m)
        PROVE  TimeKept
    <3>1. callback = "reboot" /\ wanted["reboot"] = m * Minute /\ doIn = Seconds(m)
      BY <2>2 DEF Restart, Actions
    <3>2. ~wrapped => doIn = m * Minute
      <4>1. ~wrapped => ~(m * Minute >= Byte)
        BY <2>2 DEF Restart
      <4>2. ~(m * Minute >= Byte) => Seconds(m) = m * Minute
        BY SecondsFit, TimeAssumption
      <4> QED
        BY <3>1, <4>1, <4>2
    <3>3. wanted["reboot"] <= doIn \/ wrapped
      BY <3>1, <3>2, SecondsFit
    <3> QED
      BY <3>1, <3>3, InitTimers DEF TimeKept, Actions
  <2> QED
    BY <2>1, <2>2, InitTimers
<1>2. TypeOK /\ TimeKept /\ [Next]_vars => TimeKept'
  BY Parts, TimeStep DEF TypeOK
<1>3. TimersTypeOK /\ TimeKept => OnTime
  BY DEF TimeKept, OnTime, TimersTypeOK
<1> QED
  BY <1>1, <1>2, <1>3, TypeCorrect, PTL DEF Spec, TypeOK

-----------------------------------------------------------------------------
(* The return to the main screen *)

Items(s) == {s[i] : i \in DOMAIN s}

\* A request to show the volume is followed by one that starts the timer.  Until the
\* loop task has put it into the queue the player's queue still holds PR_VOL.
VolumeFollowed ==
  ~dropped =>
    /\ "VOL" \in Items(todo) => drawVol
    /\ \A i \in DOMAIN queue : queue[i] = "VOL" =>
         \/ drawVol \/ Items(todo) \cap Returning # {}
         \/ \E j \in DOMAIN queue : j > i /\ queue[j] \in Returning

\* The loop task does one thing after the other, and overwrites no request it has
\* still to put into the queue.
OneAtATime ==
  /\ returning => todo = <<>> /\ list = "no"
  /\ list \in {"found", "turn"} => todo = <<>>

ReturnKept == ReturnPending /\ VolumeFollowed /\ OneAtATime

LEMMA ItemsAppend ==
  ASSUME NEW s \in Seq(Requests), NEW r \in Requests
  PROVE  Items(Append(s, r)) = Items(s) \cup {r}
<1> DEFINE t == Append(s, r)
<1>1. /\ DOMAIN s = 1..Len(s) /\ DOMAIN t = 1..(Len(s) + 1)
      /\ t[Len(s) + 1] = r /\ \A i \in 1..Len(s) : t[i] = s[i]
      /\ Len(s) \in Nat
  OBVIOUS
<1> HIDE DEF t
<1>2. Items(t) = Items(s) \cup {r}
  BY <1>1 DEF Items
<1> QED
  BY <1>2 DEF t

LEMMA ItemsTail ==
  ASSUME NEW s \in Seq(Requests), s # <<>>
  PROVE  /\ Head(s) = s[1] /\ Head(s) \in Requests
         /\ Tail(s) \in Seq(Requests) /\ Len(Tail(s)) = Len(s) - 1 /\ Len(s) \in Nat \ {0}
         /\ \A i \in DOMAIN Tail(s) : i + 1 \in DOMAIN s /\ Tail(s)[i] = s[i + 1]
         /\ \A i \in DOMAIN s : i > 1 => i - 1 \in DOMAIN Tail(s) /\ Tail(s)[i - 1] = s[i]
         /\ Items(s) = {Head(s)} \cup Items(Tail(s))
<1> DEFINE t == Tail(s)
<1>1. /\ Head(s) = s[1] /\ Head(s) \in Requests
      /\ t \in Seq(Requests) /\ Len(t) = Len(s) - 1 /\ Len(s) \in Nat \ {0}
      /\ DOMAIN s = 1..Len(s) /\ DOMAIN t = 1..(Len(s) - 1)
      /\ \A i \in 1..(Len(s) - 1) : t[i] = s[i + 1]
  OBVIOUS
<1> HIDE DEF t
<1>2. \A i \in DOMAIN s : i > 1 => i - 1 \in DOMAIN t /\ t[i - 1] = s[i]
  BY <1>1
<1>3. \A i \in DOMAIN t : i + 1 \in DOMAIN s /\ t[i] = s[i + 1]
  BY <1>1
<1>4. Items(s) = {Head(s)} \cup Items(t)
  <2>1. ASSUME NEW i \in DOMAIN s
        PROVE  s[i] = Head(s) \/ \E j \in DOMAIN t : t[j] = s[i]
    BY <1>1, <1>2
  <2>2. 1 \in DOMAIN s /\ s[1] = Head(s)
    BY <1>1
  <2> QED
    BY <1>3, <2>1, <2>2 DEF Items
<1> QED
  BY <1>1, <1>2, <1>3, <1>4 DEF t

LEMMA ItemsShort ==
  /\ Items(<<>>) = {}
  /\ \A a : Items(<<a>>) = {a}
  /\ \A a, b : Items(<<a, b>>) = {a, b}
BY DEF Items

\* The part of the screen and the loop task that a step may leave alone.
Waiting == <<queue, mode, todo, list, drawVol, dropped, back, returning>>

LEMMA WaitingSame ==
  ASSUME ReturnKept, UNCHANGED Waiting
  PROVE  ReturnKept'
BY DEF Waiting, ReturnKept, ReturnPending, VolumeFollowed, OneAtATime, OnTheWay, Items

\* Requests move from the loop task into the queue, and none gets lost on the way.
LEMMA PutKeeps ==
  ASSUME TypeOK, ReturnKept, Put
  PROVE  ReturnKept'
<1> DEFINE r == Head(todo)
<1>1. /\ queue' = Append(queue, r) /\ todo' = Tail(todo) /\ todo # <<>>
      /\ UNCHANGED <<mode, list, drawVol, dropped, back, returning>>
  BY DEF Put, timers, returnTimer
<1>2. queue \in Seq(Requests) /\ todo \in Seq(Requests)
  BY DEF TypeOK
<1>3. r \in Requests /\ Items(todo) = {r} \cup Items(todo')
  BY <1>1, <1>2, ItemsTail
<1>4. Items(queue') = Items(queue) \cup {r}
  BY <1>1, <1>2, <1>3, ItemsAppend
<1>5. OnTheWay' = OnTheWay
  BY <1>3, <1>4 DEF OnTheWay, Items
<1>6. ReturnPending'
  BY <1>1, <1>5 DEF ReturnKept, ReturnPending
<1>7. VolumeFollowed'
  <2>1. /\ DOMAIN queue = 1..Len(queue) /\ DOMAIN queue' = 1..(Len(queue) + 1)
        /\ queue'[Len(queue) + 1] = r /\ \A i \in 1..Len(queue) : queue'[i] = queue[i]
        /\ Len(queue) \in Nat
    BY <1>1, <1>2, <1>3
  <2> SUFFICES ASSUME ~dropped' PROVE VolumeFollowed'
    BY DEF VolumeFollowed
  <2>2. "VOL" \in Items(todo) => drawVol
    BY <1>1 DEF ReturnKept, VolumeFollowed
  <2>3. ASSUME NEW i \in DOMAIN queue', queue'[i] = "VOL", ~drawVol
        PROVE  \/ Items(todo') \cap Returning # {}
               \/ \E j \in DOMAIN queue' : j > i /\ queue'[j] \in Returning
    <3>1. r # "VOL"
      BY <1>3, <2>2, <2>3
    <3>2. i \in DOMAIN queue /\ queue[i] = "VOL"
      BY <2>1, <2>3, <3>1
    <3>3. CASE \E j \in DOMAIN queue : j > i /\ queue[j] \in Returning
      BY <2>1, <3>3
    <3>4. CASE Items(todo) \cap Returning # {}
      <4>1. CASE r \in Returning
        BY <2>1, <3>2, <4>1
      <4> QED
        BY <1>3, <3>4, <4>1
    <3> QED
      BY <1>1, <2>3, <3>2, <3>3, <3>4 DEF ReturnKept, VolumeFollowed
  <2> QED
    BY <1>1, <1>3, <2>2, <2>3 DEF VolumeFollowed
<1>8. OneAtATime'
  BY <1>1 DEF ReturnKept, OneAtATime
<1> QED
  BY <1>6, <1>7, <1>8 DEF ReturnKept

\* A request that matters and finds no room is remembered as lost.
LEMMA PutLostKeeps ==
  ASSUME TypeOK, ReturnKept, PutLost
  PROVE  ReturnKept'
<1> DEFINE r == Head(todo)
<1>1. /\ todo' = Tail(todo) /\ todo # <<>> /\ dropped' = (dropped \/ r \in Returning)
      /\ UNCHANGED <<queue, mode, list, drawVol, back, returning>>
  BY DEF PutLost, timers, returnTimer, screen
<1>2. Items(todo) = {r} \cup Items(todo')
  BY <1>1, ItemsTail DEF TypeOK
<1>3. ReturnPending'
  BY <1>1, <1>2 DEF ReturnKept, ReturnPending, OnTheWay, Items, Returning
<1>4. VolumeFollowed'
  BY <1>1, <1>2 DEF ReturnKept, VolumeFollowed
<1>5. OneAtATime'
  BY <1>1 DEF ReturnKept, OneAtATime
<1> QED
  BY <1>3, <1>4, <1>5 DEF ReturnKept

\* The clock's own request, behind all others.
LEMMA ClockKeeps ==
  ASSUME TypeOK, ReturnKept, Loop0
  PROVE  ReturnKept'
<1>1. /\ queue' = Append(queue, "CLOCK")
      /\ UNCHANGED <<mode, todo, list, drawVol, dropped, back, returning>>
  BY DEF Loop0, timers, returnTimer, loopTask
<1>2. Items(queue') = Items(queue) \cup {"CLOCK"}
  BY <1>1, ItemsAppend, Named DEF TypeOK
<1>3. ReturnPending'
  BY <1>1, <1>2 DEF ReturnKept, ReturnPending, OnTheWay, Items
<1>4. /\ DOMAIN queue = 1..Len(queue) /\ DOMAIN queue' = 1..(Len(queue) + 1)
      /\ queue'[Len(queue) + 1] = "CLOCK" /\ \A i \in 1..Len(queue) : queue'[i] = queue[i]
      /\ Len(queue) \in Nat
  BY <1>1 DEF TypeOK
<1>5. VolumeFollowed'
  BY <1>1, <1>4 DEF ReturnKept, VolumeFollowed
<1>6. OneAtATime'
  BY <1>1 DEF ReturnKept, OneAtATime
<1> QED
  BY <1>3, <1>5, <1>6 DEF ReturnKept

\* The knob empties the queue: what was in it is drawn again, or was lost.
LEMMA ResetKeeps ==
  ASSUME TypeOK, ReturnKept, ResetQueue
  PROVE  ReturnKept'
<1>1. /\ list = "found" /\ list' = "no" /\ queue' = <<>>
      /\ UNCHANGED <<mode, drawVol, back, returning>>
  BY DEF ResetQueue, timers, returnTimer
<1>2. todo = <<>> /\ ~returning
  BY <1>1 DEF ReturnKept, OneAtATime
<1>3. CASE todo' = <<"DRAW">>
  <2>1. "DRAW" \in OnTheWay' /\ "VOL" \notin Items(todo')
    BY <1>3, ItemsShort DEF OnTheWay, Items
  <2> QED
    BY <1>1, <1>2, <2>1 DEF ReturnKept, ReturnPending, VolumeFollowed, OneAtATime
<1>4. CASE /\ todo' = <<>>
           /\ dropped' = (dropped \/ \E i \in DOMAIN queue : queue[i] \in Returning)
  <2>1. Items(todo') = {} /\ Items(todo) = {}
    BY <1>2, <1>4, ItemsShort
  <2>2. ReturnPending'
    BY <1>1, <1>4, <2>1 DEF ReturnKept, ReturnPending, OnTheWay, Items, Returning
  <2> QED
    BY <1>1, <1>2, <1>4, <2>1, <2>2 DEF ReturnKept, VolumeFollowed, OneAtATime
<1> QED
  BY <1>3, <1>4 DEF ResetQueue

\* A user at the knob or the button: the loop task has nothing else to send, so no
\* request of its own is overwritten; the volume is in the player's queue, or lost.
LEMMA InputKeeps ==
  ASSUME TypeOK, ReturnKept, Inputs \/ TurnHeld
  PROVE  ReturnKept'
<1>1. todo = <<>> /\ ~returning /\ UNCHANGED <<queue, mode, back, returning>>
  BY DEF Inputs, Turn, Choose, LongPress, Hold, Input, Free, TurnHeld, ReturnKept,
     OneAtATime, timers, returnTimer, screen
<1>2. Items(todo) = {}
  BY <1>1, ItemsShort
<1>3. /\ todo' \in {<<>>, <<"VOL">>, <<"PLAYER", "CLOSE">>, <<"STATIONS">>, <<"PLAYER">>}
      /\ todo' = <<"VOL">> => drawVol' \/ dropped'
      /\ list' \notin {"found", "turn"}
      /\ drawVol => drawVol'
      /\ dropped => dropped'
  BY <1>1 DEF Inputs, Turn, ControlsEvent, Choose, LongPress, Hold, Input, Free, TurnHeld
<1>4. "VOL" \in Items(todo') => todo' = <<"VOL">>
  BY <1>3, ItemsShort
<1>5. ReturnPending'
  BY <1>1, <1>2, <1>3 DEF ReturnKept, ReturnPending, OnTheWay, Items
<1>6. VolumeFollowed'
  BY <1>1, <1>2, <1>3, <1>4 DEF ReturnKept, VolumeFollowed
<1>7. OneAtATime'
  BY <1>1, <1>3 DEF OneAtATime
<1> QED
  BY <1>5, <1>6, <1>7 DEF ReturnKept

\* What the loop task does on its own account.
LEMMA LoopKeeps ==
  ASSUME TypeOK, ReturnKept, LookAgain \/ LookHeld \/ PlayerVol \/ Loop1Due \/ Loop1Return
  PROVE  ReturnKept'
<1>1. CASE LookAgain \/ LookHeld
  BY <1>1 DEF LookAgain, LookHeld, screen, timers, returnTimer, ReturnKept, ReturnPending,
     VolumeFollowed, OneAtATime, OnTheWay, Items
<1>2. CASE PlayerVol
  <2>1. /\ todo' = <<"DRAWVOL">> /\ todo = <<>> /\ ~returning /\ list = "no"
        /\ UNCHANGED <<queue, mode, list, dropped, back, returning>>
    BY <1>2 DEF PlayerVol, Free, screen, timers, returnTimer
  <2>2. Items(todo') = {"DRAWVOL"} /\ Items(todo) = {}
    BY <2>1, ItemsShort
  <2>3. ReturnPending'
    BY <2>1, <2>2 DEF ReturnKept, ReturnPending, OnTheWay, Items
  <2>4. VolumeFollowed'
    BY <2>1, <2>2 DEF VolumeFollowed, Returning
  <2> QED
    BY <2>1, <2>3, <2>4 DEF ReturnKept, OneAtATime
<1>3. CASE Loop1Due
  <2>1. todo = <<>> /\ list = "no" /\ UNCHANGED <<queue, mode, todo, list, drawVol, dropped, back>>
    BY <1>3 DEF Loop1Due, Free, ReturnDue, screen, loopTask
  <2> QED
    BY <2>1 DEF ReturnKept, ReturnPending, VolumeFollowed, OneAtATime, OnTheWay, Items
<1>4. CASE Loop1Return
  <2>1. /\ todo = <<>> /\ list = "no" /\ todo' = <<"PLAYER">> /\ ~returning'
        /\ UNCHANGED <<queue, mode, list, drawVol, dropped>>
    BY <1>4 DEF Loop1Return, Return, screen, ReturnKept, OneAtATime
  <2>2. Items(todo') = {"PLAYER"}
    BY <2>1, ItemsShort
  <2>3. ReturnPending'
    BY <2>2 DEF ReturnPending, OnTheWay, Items
  <2>4. VolumeFollowed'
    BY <2>1, <2>2 DEF VolumeFollowed, Returning
  <2> QED
    BY <2>1, <2>3, <2>4 DEF ReturnKept, OneAtATime
<1> QED
  BY <1>1, <1>2, <1>3, <1>4

\* The display shows the request at the head of its queue.
LEMMA ShowKeeps ==
  ASSUME TypeOK, ReturnKept, Show
  PROVE  ReturnKept'
<1> DEFINE r == Head(queue)
<1>1. /\ queue # <<>> /\ queue' = Tail(queue)
      /\ UNCHANGED <<todo, list, drawVol, returning>>
  BY DEF Show, loopTask
<1>2. /\ r = queue[1] /\ r \in Requests
      /\ \A i \in DOMAIN queue' : i + 1 \in DOMAIN queue /\ queue'[i] = queue[i + 1]
      /\ \A i \in DOMAIN queue : i > 1 => i - 1 \in DOMAIN queue' /\ queue'[i - 1] = queue[i]
      /\ Items(queue) = {r} \cup Items(queue')
      /\ DOMAIN queue = 1..Len(queue) /\ Len(queue) \in Nat \ {0}
      /\ queue' \in Seq(Requests)
  BY <1>1, ItemsTail DEF TypeOK
<1>3. DOMAIN queue' \subseteq Nat
  BY <1>2
<1>4. OneAtATime'
  BY <1>1 DEF ReturnKept, OneAtATime
<1>5. ASSUME NEW i \in DOMAIN queue', queue'[i] = "VOL", ~dropped, ~drawVol,
             Items(todo) \cap Returning = {}
      PROVE  \E j \in DOMAIN queue' : j > i /\ queue'[j] \in Returning
  <2>1. i + 1 \in DOMAIN queue /\ queue[i + 1] = "VOL"
    BY <1>2, <1>5
  <2>2. PICK j \in DOMAIN queue : j > i + 1 /\ queue[j] \in Returning
    BY <1>5, <2>1 DEF ReturnKept, VolumeFollowed
  <2>3. j - 1 \in DOMAIN queue' /\ queue'[j - 1] = queue[j] /\ j - 1 > i
    BY <1>2, <1>3, <2>2
  <2> QED
    BY <2>2, <2>3
<1>6. ASSUME dropped' = dropped
      PROVE  VolumeFollowed'
  BY <1>1, <1>5, <1>6 DEF ReturnKept, VolumeFollowed
<1>7. CASE SwichMode(r) /\ r \in Modes
  <2>1. mode' = r /\ dropped' = (dropped /\ ~(r = "PLAYER" /\ Len(queue) = 1 /\ Free /\ ~drawVol))
    BY <1>7 DEF SwichMode
  <2>2. CASE dropped' = dropped
    <3>1. CASE r = "PLAYER"
      BY <1>4, <1>6, <2>1, <2>2, <3>1 DEF ReturnKept, ReturnPending
    <3>2. CASE r = "STATIONS" /\ mode # r
      <4>1. back'
        BY <1>7, <3>2 DEF SwichMode, WaitAndReturnPlayer
      <4> QED
        BY <1>4, <1>6, <2>2, <4>1 DEF ReturnKept, ReturnPending
    <3>3. CASE r = "STATIONS" /\ mode = r
      <4>1. back' = back
        BY <1>7, <3>3 DEF SwichMode
      <4>2. OnTheWay \subseteq {r} \cup OnTheWay'
        BY <1>1, <1>2 DEF OnTheWay, Items
      <4>3. ReturnPending'
        BY <1>1, <2>1, <2>2, <3>3, <4>1, <4>2 DEF ReturnKept, ReturnPending
      <4> QED
        BY <1>4, <1>6, <2>2, <4>3 DEF ReturnKept
    <3>4. CASE r = "VOL"
      <4>1. ASSUME ~dropped, ~drawVol
            PROVE  OnTheWay' \cap Returning # {}
        <5>1. CASE Items(todo) \cap Returning # {}
          BY <1>1, <5>1 DEF OnTheWay, Items
        <5>2. CASE \E j \in DOMAIN queue : j > 1 /\ queue[j] \in Returning
          <6>1. PICK j \in DOMAIN queue : j > 1 /\ queue[j] \in Returning
            BY <5>2
          <6>2. j - 1 \in DOMAIN queue' /\ queue'[j - 1] \in Returning
            BY <1>2, <6>1
          <6> QED
            BY <6>2 DEF OnTheWay
        <5>3. 1 \in DOMAIN queue /\ queue[1] = "VOL"
          BY <1>2, <3>4
        <5> QED
          BY <4>1, <5>1, <5>2, <5>3 DEF ReturnKept, VolumeFollowed
      <4>2. ReturnPending'
        BY <1>1, <2>1, <2>2, <3>4, <4>1 DEF ReturnPending, Returning
      <4> QED
        BY <1>4, <1>6, <2>2, <4>2 DEF ReturnKept
    <3> QED
      BY <1>7, <3>1, <3>2, <3>3, <3>4 DEF Modes
  <2>3. CASE r = "PLAYER" /\ Len(queue) = 1 /\ Free
    <3>1. todo' = <<>> /\ Items(todo') = {}
      BY <1>1, <2>3, ItemsShort DEF Free
    <3>2. DOMAIN queue' = {}
      BY <1>1, <2>3, <1>2 DEF TypeOK
    <3>3. VolumeFollowed' /\ ReturnPending'
      BY <2>1, <2>3, <3>1, <3>2 DEF VolumeFollowed, ReturnPending
    <3> QED
      BY <1>4, <3>3 DEF ReturnKept
  <2>4. CASE dropped /\ dropped'
    BY <2>2, <2>4
  <2> QED
    BY <2>1, <2>2, <2>3, <2>4 DEF TypeOK
<1>8. CASE r = "DRAW" /\ DrawPlaylist /\ UNCHANGED <<mode, dropped>>
  BY <1>4, <1>6, <1>8 DEF DrawPlaylist, WaitAndReturnPlayer, ReturnKept, ReturnPending
<1>9. CASE r = "DRAWVOL" /\ Volume /\ UNCHANGED <<mode, dropped>>
  <2>1. ReturnPending'
    <3>1. CASE mode = "VOL"
      BY <1>9, <3>1 DEF Volume, WaitAndReturnPlayer, ReturnPending
    <3>2. CASE mode # "VOL"
      <4>1. OnTheWay \subseteq {r} \cup OnTheWay'
        BY <1>1, <1>2 DEF OnTheWay, Items
      <4> QED
        BY <1>1, <1>9, <3>2, <4>1 DEF Volume, ReturnKept, ReturnPending
    <3> QED
      BY <3>1, <3>2
  <2> QED
    BY <1>4, <1>6, <1>9, <2>1 DEF ReturnKept
<1>10. CASE r \in {"CLOCK", "CLOSE"} /\ UNCHANGED <<back, mode, dropped>>
  <2>1. OnTheWay \subseteq {r} \cup OnTheWay'
    BY <1>1, <1>2 DEF OnTheWay, Items
  <2>2. ReturnPending'
    BY <1>1, <1>10, <2>1 DEF ReturnKept, ReturnPending
  <2> QED
    BY <1>4, <1>6, <1>10, <2>2 DEF ReturnKept
<1> QED
  BY <1>7, <1>8, <1>9, <1>10 DEF Show

LEMMA ReturnStep ==
  ASSUME TypeOK, ReturnKept, [Next]_vars
  PROVE  ReturnKept'
<1>1. CASE Loop1Delayed
  BY <1>1, WaitingSame DEF Loop1Delayed, Second, DoAfterWait, returnTimer, screen, loopTask, Waiting
<1>2. CASE Sleeper
  BY <1>2, WaitingSame DEF Sleeper, AskSleep, SetCallback, returnTimer, screen, loopTask, Waiting
<1>3. CASE Download \/ Write \/ UNCHANGED vars
  BY <1>3, WaitingSame DEF Download, Write, vars, timers, returnTimer, screen, loopTask, Waiting
<1> QED
  BY <1>1, <1>2, <1>3, PutKeeps, PutLostKeeps, LoopKeeps, ResetKeeps, InputKeeps, ClockKeeps,
     ShowKeeps DEF Next, LoopTask, Pass

\* Whatever the knob, the button, the player's queue and the display do beside each
\* other, and however short displayQueue is: as long as no request was lost, the
\* list and the volume have a timer that runs or a request that starts it or ends
\* them.
THEOREM ReturnCorrect == Spec => []ReturnPending
<1>1. Init => ReturnKept
  BY ItemsShort DEF Init, TimersInit, ReturnKept, ReturnPending, VolumeFollowed, OneAtATime
<1>2. TypeOK /\ ReturnKept /\ [Next]_vars => ReturnKept'
  BY ReturnStep
<1>3. ReturnKept => ReturnPending
  BY DEF ReturnKept
<1> QED
  BY <1>1, <1>2, <1>3, TypeCorrect, PTL DEF Spec

-----------------------------------------------------------------------------
(* The parts on their own *)

TimersSpec == TimersInit /\ [][TimerStep]_timers
PagesSpec == PagesInit /\ [][PageStep]_pages

\* DspTask implements both of its parts: what the timers do is what TimeKeeper lets
\* them do while the screen sets the return as it likes, what the downloads do is
\* what PageDownload lets them do, whoever takes the step.
THEOREM PartsImplemented == Spec => TimersSpec /\ PagesSpec
<1>1. Init => TimersInit /\ PagesInit
  BY DEF Init
<1>2. TypeOK /\ [Next]_vars => [TimerStep]_timers /\ [PageStep]_pages
  BY Parts
<1> QED
  BY <1>1, <1>2, TypeCorrect, PTL DEF Spec, TimersSpec, PagesSpec
=============================================================================
