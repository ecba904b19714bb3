----------------------------- MODULE TdaConfig -----------------------------
(***************************************************************************)
(* The configuration screen of the TDA7719 sound processor: its state      *)
(* machine, the settings staged in RAM, the file they are saved to, the    *)
(* loop task that drives it, and the display task it shares the screen     *)
(* with.                                                                   *)
(*                                                                         *)
(* One pass of the loop task is poll -> hook -> src -> take -> enc -> btn  *)
(* (loop() and loopControls()); a confirmed save adds open -> write ->     *)
(* remove -> rename -> apply.  The display task, the Wi-Fi callbacks and a *)
(* restart come between any two of these points.                           *)
(***************************************************************************)
EXTENDS Integers, Sequences

CONSTANTS
  Items,      \* number of settings in the list, numbered from 0
  MaxValue,   \* a setting is a number from 0 to MaxValue
  Absent,     \* no file, or no settings given to the chip
  Partial,    \* a file whose writing was cut short
  DspLen,     \* length of displayQueue
  Timeout,    \* TDA_CONFIG_INACTIVITY_MS, in units of time
  MaxPass,    \* the longest pass of loop(), in the same units
  Levels,     \* the volumes the user sets on the main screen
  MayLose,    \* Wi-Fi may be lost
  MayRestart  \* the device may restart

Item == 0..(Items - 1)
Value == 0..MaxValue
Settings == [Item -> Value]

ASSUME TdaAssumption ==
  /\ Items \in Nat \ {0} /\ MaxValue \in Nat /\ DspLen \in Nat \ {0}
  /\ Timeout \in Nat /\ MaxPass \in Nat /\ Levels \subseteq 0..100
  /\ Absent \notin Settings /\ Partial \notin Settings /\ Absent # Partial
  /\ MayLose \in BOOLEAN /\ MayRestart \in BOOLEAN

VARIABLES
  pc, ret,         \* where the loop task is, and where it goes after a save
  state,           \* UIState
  listIndex, editIndex,
  saveSelection,
  staged, stagedLoaded,
  delta,           \* cfg_enc_delta, reduced to its direction
  age,             \* time since lastActivity
  fresh,           \* less than 250 ms since enteredAt
  dirty,
  prev,            \* prevCfgActive
  pend,            \* pendingPlistDraw
  queue, mode,     \* displayQueue and Display::_mode
  back,            \* _returnPlayerTime is set
  lost,            \* beginReconnect
  file, tmp,       \* /data/tda7719.bin and /data/tda7719.tmp
  chip,            \* the settings the chip was last given
  volume,          \* store.volume
  quiet,           \* history: time since the user last did anything
  kept, asked,     \* history: the file when the last save began, what it saves
  turned           \* history: the knob was turned since the question was put

inputs == <<delta, age, fresh, quiet>>
cursor == <<state, listIndex, editIndex, saveSelection, turned>>
work == <<staged, stagedLoaded>>
flash == <<file, tmp, kept, asked>>
sound == <<chip, volume>>
screen == <<queue, mode, back>>
flags == <<dirty, prev, pend>>
vars == <<pc, ret, inputs, cursor, work, flash, sound, screen, flags, lost>>

\* The fields of the list all start at 0 here: mute, balance, gains and filters.
Default == [i \in Item |-> 0]

\* Settings staged.masterVolume is not in the list, so it keeps its default.
masterVolume == -10

\* The volume that stands for a level in dB.
Percent(db) == IF db <= -79 THEN 0 ELSE ((db + 79) * 100) \div 79

Active == state # "IDLE"

Clamp(n, low, high) == IF n < low THEN low ELSE IF n > high THEN high ELSE n

\* A request to the display is dropped when the queue stays full.
Sent(q, r) == IF Len(q) < DspLen THEN Append(q, r) ELSE q

\* What tdaConfigUI_init makes of the file: only a whole one is loaded.
Loaded(f) == IF f \in Settings THEN f ELSE Default

-----------------------------------------------------------------------------
\* Power up; tdaConfigUI_init reads what the flash holds.
Init ==
  /\ file \in Settings \cup {Absent} /\ tmp = Absent
  /\ kept = file /\ asked = file
  /\ chip = Absent /\ volume \in Levels
  /\ pc = "poll" /\ ret = "poll"
  /\ state = "IDLE" /\ listIndex = 0 /\ editIndex = -1
  /\ saveSelection = FALSE /\ turned = FALSE
  /\ staged = Loaded(file) /\ stagedLoaded = (file \in Settings)
  /\ delta = 0 /\ age = 0 /\ fresh = FALSE /\ quiet = 0
  /\ dirty = FALSE /\ prev = FALSE /\ pend = FALSE
  /\ queue = <<>> /\ mode = "PLAYER" /\ back = FALSE /\ lost = FALSE

-----------------------------------------------------------------------------
(* Faulty variants, each a plausible bug in one definition below. *)
ScrollAlways(d) == listIndex' = Clamp(listIndex + d, 0, Items - 1)
KeepAnswer == turned' = FALSE /\ UNCHANGED saveSelection
KeepTurn == UNCHANGED delta
NeverForget == prev' = (prev \/ Active)
ApplyAnyway == chip' = staged
RenameAnyway == pc' = "remove" /\ UNCHANGED <<ret, state, dirty, chip, file, tmp>>

-----------------------------------------------------------------------------
(* loop(): pollInactivity, then the entry of loopControls. *)

\* More than the longest time without the user that any property asks for.
LongQuiet == Timeout + MaxPass + 1

Older(d) == Clamp(age + d, 0, Timeout + 1)

\* A pass took d units; the 250 ms after entering are over at the latest then.
Pass(d) ==
  /\ pc = "poll" /\ pc' = "hook"
  /\ quiet' = Clamp(quiet + d, 0, LongQuiet)
  /\ fresh' \in (IF d = 0 THEN {fresh, FALSE} ELSE {FALSE})
  /\ UNCHANGED <<ret, work, flash, sound, screen, flags, lost, delta, saveSelection, turned>>

PollActive ==
  \E d \in 0..MaxPass :
    /\ ~(Active /\ Older(d) > Timeout)
    /\ Pass(d) /\ age' = Older(d)
    /\ UNCHANGED <<state, listIndex, editIndex>>

\* The edits stay in staged; only the screen is left.
PollTimeout ==
  \E d \in 0..MaxPass :
    /\ Active /\ Older(d) > Timeout
    /\ Pass(d) /\ age' = 0
    /\ state' = "IDLE" /\ listIndex' = 0 /\ editIndex' = -1

\* With the LOST dialog up the controls are not run at all.
ControlsOff ==
  /\ pc = "hook" /\ mode = "LOST" /\ pc' = "poll"
  /\ UNCHANGED <<ret, inputs, cursor, work, flash, sound, screen, flags, lost>>

-----------------------------------------------------------------------------
(* ctrls_on_loop, which sets lastActivity first: its own test of the time  *)
(* that has passed since then is never true.                               *)

\* The first draw of the list, once the display has switched to it.
DrawPending ==
  IF pend /\ mode = "STATIONS"
  THEN pend' = FALSE /\ queue' = Sent(queue, "DRAW")
  ELSE UNCHANGED <<pend, queue>>

Hook(s) ==
  /\ pc = "hook" /\ mode # "LOST" /\ state = s /\ pc' = "src"
  /\ DrawPending
  /\ UNCHANGED <<ret, state, editIndex, stagedLoaded, flash, sound, fresh, quiet, prev, mode, back, lost>>

Consume ==
  /\ delta' = 0 /\ age' = 0
  /\ dirty' = (dirty \/ delta # 0)

HookIdle ==
  /\ Hook("IDLE")
  /\ UNCHANGED <<delta, age, dirty, listIndex, staged, saveSelection, turned>>

Scroll(d) == listIndex' = Clamp(listIndex + d, 0, Items - 1)

HookList ==
  /\ Hook("LIST") /\ Consume
  /\ Scroll(delta)
  /\ UNCHANGED <<staged, saveSelection, turned>>

\* In the editor the cursor of the list stays where it is.
StayInList(d) == UNCHANGED listIndex

HookEdit ==
  /\ Hook("EDIT") /\ Consume
  /\ staged' = [staged EXCEPT ![editIndex] = Clamp(@ + delta, 0, MaxValue)]
  /\ StayInList(delta)
  /\ UNCHANGED <<saveSelection, turned>>

HookSaving ==
  /\ Hook("SAVING") /\ Consume
  /\ saveSelection' = IF delta # 0 THEN ~saveSelection ELSE saveSelection
  /\ UNCHANGED <<listIndex, staged, turned>>

-----------------------------------------------------------------------------
(* Clicks of any button while the screen is open: onBtnClick. *)

\* TAK: tdaConfig_save starts here, and the loop task goes on to next after it.
Confirm(next) ==
  /\ state = "SAVING" /\ saveSelection
  /\ pc' = "open" /\ ret' = next
  /\ kept' = file /\ asked' = staged
  /\ UNCHANGED <<state, editIndex, dirty>>

Decline(next) ==
  /\ state = "SAVING" /\ ~saveSelection
  /\ pc' = next /\ state' = "IDLE" /\ dirty' = TRUE
  /\ UNCHANGED <<ret, editIndex, kept, asked>>

OpenEditor(next) ==
  /\ state = "LIST"
  /\ pc' = next /\ state' = "EDIT" /\ editIndex' = listIndex /\ dirty' = TRUE
  /\ UNCHANGED <<ret, kept, asked>>

CloseEditor(next) ==
  /\ state = "EDIT"
  /\ pc' = next /\ state' = "LIST" /\ editIndex' = -1 /\ dirty' = TRUE
  /\ UNCHANGED <<ret, kept, asked>>

IgnoreClick(next) ==
  pc' = next /\ UNCHANGED <<ret, state, editIndex, kept, asked, dirty>>

Click(next) ==
  /\ Active /\ age' = 0 /\ quiet' = 0
  /\ IF fresh THEN IgnoreClick(next)
     ELSE Confirm(next) \/ Decline(next) \/ OpenEditor(next) \/ CloseEditor(next)
  /\ UNCHANGED <<listIndex, saveSelection, turned, delta, fresh, work, file, tmp,
                 sound, screen, prev, pend, lost>>

-----------------------------------------------------------------------------
(* The source button. *)

\* The question starts with the answer NIE.
AskAgain == saveSelection' = FALSE /\ turned' = FALSE

\* enterConfigMode, after 3 s on the button.
Enter ==
  /\ ~Active
  /\ staged' = (IF stagedLoaded THEN staged ELSE Default)
  /\ state' = "LIST" /\ listIndex' = 0 /\ editIndex' = -1 /\ AskAgain
  /\ fresh' = TRUE

\* tdaConfigUI_exit_save, by the same button.
AskToSave ==
  /\ Active
  /\ state' = "SAVING" /\ AskAgain
  /\ UNCHANGED <<staged, listIndex, editIndex, fresh>>

SrcLong ==
  /\ pc = "src" /\ pc' = "take"
  /\ Enter \/ AskToSave
  /\ dirty' = TRUE /\ age' = 0 /\ quiet' = 0
  /\ UNCHANGED <<ret, stagedLoaded, flash, sound, screen, prev, pend, delta, lost>>

SrcShort == pc = "src" /\ Click("take")

SrcIdle ==
  /\ pc = "src" /\ pc' = "take"
  /\ UNCHANGED <<ret, inputs, cursor, work, flash, sound, screen, flags, lost>>

-----------------------------------------------------------------------------
(* loopControls takes the screen over and gives it back; then it asks for  *)
(* a redraw of what has changed.                                           *)

Redraw(q) == IF dirty THEN Sent(q, "DRAW") ELSE q

\* Turns nobody has read are thrown away when the screen is left.
Drain == delta' = 0

Opens == Active /\ ~prev
Closes == ~Active /\ prev

TakeOver ==
  /\ pc = "take" /\ Opens
  /\ queue' = Redraw(Sent(queue, "STATIONS")) /\ pend' = TRUE
  /\ UNCHANGED delta

GiveBack ==
  /\ pc = "take" /\ Closes
  /\ queue' = Redraw(Sent(queue, "PLAYER")) /\ UNCHANGED pend
  /\ Drain

LeaveAlone ==
  /\ pc = "take" /\ Active = prev
  /\ queue' = Redraw(queue)
  /\ UNCHANGED <<pend, delta>>

Remember == prev' = Active

Take ==
  /\ TakeOver \/ GiveBack \/ LeaveAlone
  /\ pc' = "enc" /\ Remember /\ dirty' = FALSE
  /\ UNCHANGED <<ret, cursor, work, flash, sound, mode, back, age, fresh, quiet, lost>>

-----------------------------------------------------------------------------
(* The knob: encodersLoop, which keeps the turn for the next pass while the *)
(* configuration is open.                                                  *)

Knob ==
  /\ pc = "enc" /\ mode # "LOST" /\ pc' = "btn"
  /\ quiet' = 0
  /\ UNCHANGED <<ret, fresh, state, listIndex, editIndex, saveSelection, work, flash,
                 chip, mode, back, flags, lost>>

KnobConfig ==
  /\ Active /\ Knob
  /\ delta' \in {-1, 1} /\ age' = 0
  /\ turned' = (state = "SAVING" \/ turned)
  /\ UNCHANGED <<queue, volume>>

KnobVolume ==
  /\ ~Active /\ mode # "STATIONS" /\ Knob
  /\ volume' \in Levels
  /\ UNCHANGED <<queue, delta, age, turned>>

\* In the list of stations a turn first empties displayQueue.
KnobList ==
  /\ ~Active /\ mode = "STATIONS" /\ Knob
  /\ queue' \in {<<>>, <<"DRAW">>}
  /\ UNCHANGED <<volume, delta, age, turned>>

KnobIdle ==
  /\ pc = "enc" /\ pc' = "btn"
  /\ UNCHANGED <<ret, inputs, cursor, work, flash, sound, screen, flags, lost>>

(* The button of the knob.  A double click is a click on the source.       *)

BtnClick == pc = "btn" /\ Click("poll")

\* Half a second on it switches the display, also under the configuration.
BtnLong ==
  /\ pc = "btn" /\ pc' = "poll"
  /\ queue' = Sent(queue, IF mode = "PLAYER" THEN "STATIONS" ELSE "PLAYER")
  /\ quiet' = 0
  /\ UNCHANGED <<ret, delta, age, fresh, cursor, work, flash, sound, mode, back, flags, lost>>

BtnIdle ==
  /\ pc = "btn" /\ pc' = "poll"
  /\ UNCHANGED <<ret, inputs, cursor, work, flash, sound, screen, flags, lost>>

-----------------------------------------------------------------------------
(* tdaConfig_save: write the temporary file, remove the old file, rename,   *)
(* and only then tell the chip and the player.  It leaves the screen        *)
(* whether it succeeds or not.                                             *)

Leave == state' = "IDLE" /\ dirty' = TRUE /\ pc' = ret /\ ret' = "poll"

\* What a failed save still does to the chip: nothing.
Untouched == UNCHANGED chip

Fail == Leave /\ Untouched /\ UNCHANGED file

SaveKeeps == UNCHANGED <<inputs, listIndex, editIndex, saveSelection, turned, work,
                         kept, asked, volume, screen, prev, pend, lost>>
SaveGoesOn == UNCHANGED <<ret, state, dirty, chip>>

Open ==
  /\ pc = "open" /\ SaveKeeps
  /\ \/ tmp' = Partial /\ pc' = "write" /\ SaveGoesOn /\ UNCHANGED file
     \/ Fail /\ UNCHANGED tmp

\* A short write ends the save and removes the temporary file.
ShortWrite == Fail /\ tmp' = Absent

Write ==
  /\ pc = "write" /\ SaveKeeps
  /\ \/ tmp' = staged /\ pc' = "remove" /\ SaveGoesOn /\ UNCHANGED file
     \/ ShortWrite

Remove ==
  /\ pc = "remove" /\ SaveKeeps
  /\ file' = Absent /\ pc' = "rename"
  /\ SaveGoesOn /\ UNCHANGED tmp

Rename ==
  /\ pc = "rename" /\ SaveKeeps
  /\ \/ file' = tmp /\ tmp' = Absent /\ pc' = "apply" /\ SaveGoesOn
     \/ Fail /\ UNCHANGED tmp

\* applySettingsToHardware, and the end of the click.
Apply ==
  /\ pc = "apply" /\ Leave
  /\ chip' = staged /\ volume' = Percent(masterVolume)
  /\ UNCHANGED <<inputs, listIndex, editIndex, saveSelection, turned, work, flash,
                 screen, prev, pend, lost>>

-----------------------------------------------------------------------------
(* The display task and its timer. *)

Shown ==
  LET r == Head(queue)
  IN  CASE r = "DRAW" -> back' = TRUE /\ UNCHANGED mode
        [] r # "DRAW" /\ r = mode -> UNCHANGED <<mode, back>>
        [] r # "DRAW" /\ r # mode -> mode' = r /\ back' = (r = "STATIONS" \/ back)

Show ==
  /\ queue # <<>> /\ queue' = Tail(queue) /\ Shown
  /\ UNCHANGED <<pc, ret, inputs, cursor, work, flash, sound, flags, lost>>

\* waitAndReturnPlayer counts 30 s, longer than the inactivity of the screen.
ReturnPlayer ==
  /\ back /\ quiet > Timeout
  /\ back' = FALSE /\ queue' = Sent(queue, "PLAYER")
  /\ UNCHANGED <<pc, ret, inputs, cursor, work, flash, sound, flags, mode, lost>>

(* The Wi-Fi callbacks. *)

WiFiLostConnection ==
  /\ MayLose /\ ~lost
  /\ lost' = TRUE /\ queue' = Sent(queue, "LOST")
  /\ UNCHANGED <<pc, ret, inputs, cursor, work, flash, sound, flags, mode, back>>

WiFiReconnected ==
  /\ lost
  /\ lost' = FALSE /\ queue' = Sent(Sent(queue, "PLAYER"), "PLAYER")
  /\ UNCHANGED <<pc, ret, inputs, cursor, work, flash, sound, flags, mode, back>>

\* A restart keeps the flash and the volume; the chip may lose its power too.
Restart ==
  /\ MayRestart
  /\ UNCHANGED <<flash, volume>> /\ chip' \in {chip, Absent}
  /\ pc' = "poll" /\ ret' = "poll"
  /\ state' = "IDLE" /\ listIndex' = 0 /\ editIndex' = -1
  /\ saveSelection' = FALSE /\ turned' = FALSE
  /\ staged' = Loaded(file) /\ stagedLoaded' = (file \in Settings)
  /\ delta' = 0 /\ age' = 0 /\ fresh' = FALSE /\ quiet' = 0
  /\ dirty' = FALSE /\ prev' = FALSE /\ pend' = FALSE
  /\ queue' = <<>> /\ mode' = "PLAYER" /\ back' = FALSE /\ lost' = FALSE

-----------------------------------------------------------------------------
LoopTask ==
  \/ PollActive \/ PollTimeout \/ ControlsOff
  \/ HookIdle \/ HookList \/ HookEdit \/ HookSaving
  \/ SrcLong \/ SrcShort \/ SrcIdle \/ Take
  \/ KnobConfig \/ KnobVolume \/ KnobList \/ KnobIdle
  \/ BtnClick \/ BtnLong \/ BtnIdle
  \/ Open \/ Write \/ Remove \/ Rename \/ Apply

Next ==
  \/ LoopTask \/ Show \/ ReturnPlayer
  \/ WiFiLostConnection \/ WiFiReconnected \/ Restart

Spec == Init /\ [][Next]_vars

\* The loop task and the display task are always scheduled.
FairSpec == Spec /\ WF_vars(LoopTask) /\ WF_vars(Show)

-----------------------------------------------------------------------------
(* Properties *)

File == Settings \cup {Absent, Partial}
Requests == {"PLAYER", "STATIONS", "LOST", "DRAW"}

FlagsOK ==
  /\ saveSelection \in BOOLEAN /\ turned \in BOOLEAN /\ stagedLoaded \in BOOLEAN
  /\ fresh \in BOOLEAN /\ dirty \in BOOLEAN /\ prev \in BOOLEAN /\ pend \in BOOLEAN
  /\ back \in BOOLEAN /\ lost \in BOOLEAN

CursorOK ==
  /\ pc \in {"poll", "hook", "src", "take", "enc", "btn",
             "open", "write", "remove", "rename", "apply"}
  /\ ret \in {"poll", "take"}
  /\ state \in {"IDLE", "LIST", "EDIT", "SAVING"}
  /\ listIndex \in Item /\ editIndex \in Item \cup {-1}
  /\ delta \in -1..1 /\ age \in 0..(Timeout + 1) /\ quiet \in 0..LongQuiet

FilesOK ==
  /\ staged \in Settings
  /\ file \in File /\ tmp \in File /\ kept \in File /\ asked \in File
  /\ chip \in Settings \cup {Absent} /\ volume \in 0..100

ScreenOK ==
  /\ mode \in {"PLAYER", "STATIONS", "LOST"}
  /\ queue \in Seq(Requests) /\ Len(queue) <= DspLen

\* Every variable has its type, and the display queue never exceeds its length.
TypeOK == FlagsOK /\ CursorOK /\ FilesOK /\ ScreenOK

\* The value a turn of the knob changes is the one the screen shows:
\* getSelectedIndex gives the renderer listIndex, the editor writes editIndex.
EditsShown == state = "EDIT" => editIndex = listIndex

\* Whatever fails or restarts in the middle of a save, the file is whole: what it
\* was before the last save, or what that save was asked to write, if it is there.
FileOldOrNew == file \in {Absent, kept, asked} /\ Partial \notin {kept, asked}

\* The chip is given nothing but what the flash holds by then: a save that failed
\* does not reach it.
ChipFollowsFlash == [][chip' # chip => chip' \in {file, Absent}]_vars

\* A click saves only if the user has turned the knob to TAK since the question
\* was put: no turn made before it, in the list or the editor, answers it.
SaveNeedsTurn == saveSelection => turned

\* Turns left over when the screen closes never reach the next time it opens.
TurnBelongs == ~Active /\ ~prev => delta = 0

\* Once the screen is left, the controls let go of it, unless it opens again or
\* the LOST dialog stops them.
GivenBack == (prev /\ ~Active) ~> (~prev \/ Active \/ mode = "LOST")

\* Claimed, not true: a save is atomic, a settings file once there stays there.
SaveAtomic == file = Absent => kept = Absent

\* Claimed, not true: the screen closes after TDA_CONFIG_INACTIVITY_MS.
\* The last pass may still have used a turn, and so started the time anew.
InactivityExits == Active => quiet <= Timeout + MaxPass
=============================================================================
