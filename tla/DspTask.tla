------------------------------ MODULE DspTask ------------------------------
(***************************************************************************)
(* What DspTask runs, and what it shares with the tasks that ask it for    *)
(* something: displayQueue and the modes of the screen, the clock it sends *)
(* to itself, the return timer of the list of stations and of the volume   *)
(* (TimeKeeper), and the lock that downloads put on the display            *)
(* (PageDownload).  The loop task's sends wait while the queue is full.    *)
(***************************************************************************)
EXTENDS TimeKeeper, PageDownload, Sequences

CONSTANTS
  DspLen,     \* length of displayQueue
  Scenarios   \* [turns, readers, rewrites, sleepers]: what happens in a behaviour

ScenarioSet ==
  [turns : Nat, readers : SUBSET Clients, rewrites : BOOLEAN, sleepers : BOOLEAN]

ASSUME DspAssumption == DspLen \in Nat \ {0} /\ Scenarios \subseteq ScenarioSet

VARIABLES
  scenario,    \* one of them; turns counts down
  queue, mode,    \* displayQueue, Display::_mode
  todo,        \* requests the loop task still has to put into the queue, in order
  list,        \* controlsEvent still has to ask whether the list is shown ("look"), or
               \* has found it and not emptied the queue yet ("found"); so has a button
               \* held down ("held"), or it is about to turn the list it found ("turn")
  drawVol,     \* PR_VOL is in the player's queue
  dropped      \* history: a request that matters to the return was lost since the
               \* main screen was last shown with nothing else to come

screen == <<queue, mode>>
loopTask == <<todo, list, drawVol>>
vars == <<timers, pages, scenario, screen, loopTask, dropped>>

Modes == {"PLAYER", "STATIONS", "VOL"}
Lists == {"no", "look", "found", "held", "turn"}
Requests == Modes \cup {"CLOCK", "DRAW", "DRAWVOL", "CLOSE"}

\* Those that show the main screen or start the return timer.
Returning == {"PLAYER", "DRAW", "DRAWVOL"}

Init ==
  /\ TimersInit /\ PagesInit
  /\ scenario \in Scenarios
  /\ doIn # Off => scenario.sleepers
  /\ queue = <<>> /\ mode = "PLAYER" /\ todo = <<>>
  /\ list = "no" /\ drawVol = FALSE /\ dropped = FALSE

-----------------------------------------------------------------------------
(* The loop task, which is free to look at its inputs when it is not in    *)
(* the middle of something.                                                *)

Free == ~down /\ todo = <<>> /\ list = "no" /\ ~returning

\* putRequest, when there is room ...
Put ==
  /\ ~down /\ todo # <<>> /\ Len(queue) < DspLen
  /\ queue' = Append(queue, Head(todo)) /\ todo' = Tail(todo)
  /\ UNCHANGED <<timers, pages, scenario, mode, list, drawVol, dropped>>

\* ... and when none comes within 200 ms: nobody looks at the result.
PutLost ==
  /\ ~down /\ todo # <<>> /\ Len(queue) = DspLen
  /\ todo' = Tail(todo)
  /\ dropped' = (dropped \/ Head(todo) \in Returning)
  /\ UNCHANGED <<timers, pages, scenario, screen, list, drawVol>>

Input == /\ Free /\ scenario.turns > 0 /\ scenario' = [scenario EXCEPT !.turns = @ - 1]

\* controlsEvent looks at the mode once for the volume, whose PR_VOL may be lost too ...
ControlsEvent ==
  /\ list' = "look"
  /\ \/ /\ mode # "STATIONS" /\ todo' = <<"VOL">>
        /\ \/ drawVol' = TRUE /\ UNCHANGED dropped
           \/ UNCHANGED drawVol /\ dropped' = TRUE
     \/ mode = "STATIONS" /\ UNCHANGED <<todo, drawVol, dropped>>

\* ... and a second time for the list: DspTask may have changed it in between.
LookAgain ==
  /\ ~down /\ todo = <<>> /\ list = "look"
  /\ list' = IF mode = "STATIONS" THEN "found" ELSE "no"
  /\ UNCHANGED <<timers, pages, scenario, screen, todo, drawVol, dropped>>

\* The encoder, or a button of the volume held down.
Turn == Input /\ ControlsEvent /\ UNCHANGED <<timers, pages, screen>>

\* In the list it empties the queue first; an empty list has nothing to draw.
ResetQueue ==
  /\ ~down /\ list = "found" /\ list' = "no" /\ queue' = <<>>
  /\ \/ todo' = <<"DRAW">> /\ UNCHANGED dropped
     \/ /\ todo' = <<>>
        /\ dropped' = (dropped \/ \E i \in DOMAIN queue : queue[i] \in Returning)
  /\ UNCHANGED <<timers, pages, scenario, mode, drawVol>>

\* onBtnClick in the list: the station is chosen.
Choose ==
  /\ Input /\ mode = "STATIONS" /\ todo' = <<"PLAYER", "CLOSE">>
  /\ UNCHANGED <<timers, pages, screen, list, drawVol, dropped>>

\* A button of the list held down: on the main screen the list is asked for, ...
Hold ==
  /\ Input /\ list' = "held"
  /\ todo' = IF mode = "PLAYER" THEN <<"STATIONS">> ELSE todo
  /\ UNCHANGED <<timers, pages, screen, drawVol, dropped>>

\* ... and is turned when it is already there, unless it has gone once more.
LookHeld ==
  /\ ~down /\ todo = <<>> /\ list = "held"
  /\ list' = IF mode = "STATIONS" THEN "turn" ELSE "no"
  /\ UNCHANGED <<timers, pages, scenario, screen, todo, drawVol, dropped>>

TurnHeld ==
  /\ ~down /\ todo = <<>> /\ list = "turn" /\ ControlsEvent
  /\ UNCHANGED <<timers, pages, scenario, screen>>

\* A long press.
LongPress ==
  /\ Input /\ todo' = <<IF mode = "PLAYER" THEN "STATIONS" ELSE "PLAYER">>
  /\ UNCHANGED <<timers, pages, screen, list, drawVol, dropped>>

\* Player::loop takes PR_VOL: setVolume.
PlayerVol ==
  /\ Free /\ drawVol /\ drawVol' = FALSE /\ todo' = <<"DRAWVOL">>
  /\ UNCHANGED <<timers, pages, scenario, screen, list, dropped>>

\* timekeeper.loop1: _returnPlayer.
Loop1Due ==
  /\ Free /\ ReturnDue
  /\ UNCHANGED <<pages, scenario, screen, loopTask, dropped>>

Loop1Return ==
  /\ ~down /\ Return /\ todo' = <<"PLAYER">>
  /\ UNCHANGED <<pages, scenario, screen, list, drawVol, dropped>>

\* _doAfterWait, and the seconds between.
Loop1Delayed ==
  /\ ~down /\ scenario.sleepers /\ (Second \/ (Free /\ DoAfterWait))
  /\ UNCHANGED <<pages, scenario, screen, loopTask, dropped>>

Inputs == Turn \/ Choose \/ LongPress \/ Hold

\* What a pass of loop() goes on with.
Pass == LookAgain \/ ResetQueue \/ LookHeld \/ TurnHeld \/ Loop1Return

LoopTask == Put \/ PutLost \/ Pass \/ PlayerVol \/ Loop1Due

-----------------------------------------------------------------------------
(* DspTask: loop0, then Display::loop.                                     *)

\* _upClock and _upRSSI: DspTask cannot empty the queue while it waits for room in
\* it, so a full queue loses the request.
Loop0 ==
  /\ ~down /\ Len(queue) < DspLen /\ queue' = Append(queue, "CLOCK")
  /\ UNCHANGED <<timers, pages, scenario, mode, loopTask, dropped>>

\* Another mode of the screen; the list starts the timer.
SwichMode(m) ==
  /\ mode' = m
  /\ IF m = "STATIONS" /\ mode # m THEN WaitAndReturnPlayer ELSE UNCHANGED back
  /\ dropped' = (dropped /\ ~(m = "PLAYER" /\ Len(queue) = 1 /\ Free /\ ~drawVol))

\* A faulty variant of Volume, with the parameters of the definition below.
VolumeUntimed == UNCHANGED back

\* _drawPlaylist and _volume start it again.
DrawPlaylist == WaitAndReturnPlayer
Volume == IF mode = "VOL" THEN WaitAndReturnPlayer ELSE UNCHANGED back

Show ==
  /\ ~down /\ ~locked /\ queue # <<>> /\ queue' = Tail(queue)
  /\ LET r == Head(queue) IN
       \/ r \in Modes /\ SwichMode(r)
       \/ r = "DRAW" /\ DrawPlaylist /\ UNCHANGED <<mode, dropped>>
       \/ r = "DRAWVOL" /\ Volume /\ UNCHANGED <<mode, dropped>>
       \/ r \in {"CLOCK", "CLOSE"} /\ UNCHANGED <<back, mode, dropped>>
  /\ UNCHANGED <<returning, delayed, down, pages, scenario, loopTask>>

-----------------------------------------------------------------------------
(* The web server's task *)

Sleeper ==
  /\ ~down /\ scenario.sleepers /\ (AskSleep \/ SetCallback)
  /\ UNCHANGED <<pages, scenario, screen, loopTask, dropped>>

Download ==
  /\ ~down /\ \E c \in scenario.readers :
       \/ \E p \in Pages : Request(c, p)
       \/ NoFile(c) \/ End(c) \/ (\E n \in 1..MaxIndex : Part(c, n)) \/ GoAway(c)
  /\ UNCHANGED <<timers, scenario, screen, loopTask, dropped>>

Write ==
  /\ ~down /\ scenario.rewrites /\ \E p \in Pages : Rewrite(p)
  /\ UNCHANGED <<timers, scenario, screen, loopTask, dropped>>

-----------------------------------------------------------------------------
(* The specification *)

Next ==
  \/ LoopTask \/ Inputs \/ Loop1Delayed
  \/ Loop0 \/ Show
  \/ Sleeper \/ Download \/ Write

Spec == Init /\ [][Next]_vars

\* Both tasks are scheduled; loop1 looks at its timers in every pass of loop().
FairSpec ==
  /\ Spec
  /\ WF_vars(Show) /\ WF_vars(Put \/ PutLost) /\ WF_vars(Pass)
  /\ WF_vars(PlayerVol) /\ WF_vars(Loop1Due)

-----------------------------------------------------------------------------
(* Properties *)

TypeOK ==
  /\ TimersTypeOK /\ PagesTypeOK
  /\ scenario \in ScenarioSet
  /\ queue \in Seq(Requests) /\ Len(queue) <= DspLen /\ mode \in Modes
  /\ todo \in Seq(Requests) /\ list \in Lists
  /\ drawVol \in BOOLEAN /\ dropped \in BOOLEAN

\* The display is locked only while a download is under way, or behind one that a
\* missing file or a client that went away kept from its end.
LockedForDownload == locked => stranded \/ \E c \in Clients : page[c] # None

\* A download that no other file was asked for beside, and whose file nobody wrote
\* to, is the file, whole.
PagesWhole == ~wrong

\* The delayed action happens no earlier than the last that asked for it wanted,
\* unless the delay did not fit into the parameter.
OnTime == early => wrapped

\* The list and the volume never stand on the screen with nothing on its way that
\* ends them: the timer runs, or the loop task or the queue still holds a request
\* that starts it or shows the main screen, unless one was lost.
OnTheWay == {queue[i] : i \in DOMAIN queue} \cup {todo[i] : i \in DOMAIN todo}

ReturnPending ==
  mode # "PLAYER" /\ ~dropped =>
    \/ back \/ OnTheWay \cap {"PLAYER", "DRAW"} # {}
    \/ mode = "VOL" /\ (drawVol \/ "DRAWVOL" \in OnTheWay)

\* The list and the volume are left for the main screen once the user does nothing
\* more, unless a request was lost or the display is locked.
ScreenReturns == []<>(mode = "PLAYER" \/ dropped \/ locked \/ down)
=============================================================================
