-------------------------- MODULE TdaConfigProofs --------------------------
(***************************************************************************)
(* Theorems about the configuration screen, for every value of its         *)
(* constants.  Flags are left to Zenon and the rest of the state to SMT.   *)
(***************************************************************************)
EXTENDS TdaConfig, SequenceTheorems, TLAPS

-----------------------------------------------------------------------------
(* The helpers *)

\* Clamp stays within its bounds.
LEMMA ClampRange ==
  ASSUME NEW n \in Int, NEW low \in Int, NEW high \in Int, low <= high
  PROVE  Clamp(n, low, high) \in low..high
  BY DEF Clamp

\* A request to the display leaves the queue within its length.
LEMMA SentOK ==
  ASSUME NEW q \in Seq(Requests), Len(q) <= DspLen, NEW r \in Requests
  PROVE  Sent(q, r) \in Seq(Requests) /\ Len(Sent(q, r)) <= DspLen
<1>1. Len(q) \in Nat /\ DspLen \in Nat
  BY LenProperties, TdaAssumption DEF TdaAssumption
<1>2. Append(q, r) \in Seq(Requests) /\ Len(Append(q, r)) = Len(q) + 1
  BY AppendProperties
<1>3. QED
  BY <1>1, <1>2 DEF Sent

\* So does a redraw.
LEMMA RedrawOK ==
  ASSUME NEW q \in Seq(Requests), Len(q) <= DspLen
  PROVE  Redraw(q) \in Seq(Requests) /\ Len(Redraw(q)) <= DspLen
  BY SentOK DEF Redraw, Requests

\* What a restart stages is a record of settings.
LEMMA LoadedOK == \A f : Loaded(f) \in Settings
<1>1. Default \in Settings
  BY TdaAssumption DEF TdaAssumption, Default, Settings, Value
<1>2. QED
  BY <1>1 DEF Loaded

-----------------------------------------------------------------------------
(* Type correctness *)

LEMMA InitTypeOK == Init => TypeOK
<1>1. Init => FlagsOK
  <2>1. (file \in Settings) \in BOOLEAN
    OBVIOUS
  <2>2. QED
    BY <2>1, Zenon DEF Init, FlagsOK
<1>2. Init => CursorOK
  BY TdaAssumption DEF TdaAssumption, Init, CursorOK, Item, LongQuiet
<1>3. Init => FilesOK
  BY LoadedOK, TdaAssumption DEF TdaAssumption, Init, FilesOK, File
<1>4. Init => ScreenOK
  BY EmptySeq, TdaAssumption DEF TdaAssumption, Init, ScreenOK
<1>5. QED
  BY <1>1, <1>2, <1>3, <1>4 DEF TypeOK

\* Every step keeps the flags Boolean.
LEMMA FlagsStep == FlagsOK /\ Next => FlagsOK'
<1> SUFFICES ASSUME FlagsOK, Next PROVE FlagsOK'
  OBVIOUS
<1> USE DEF FlagsOK
<1>1. ASSUME NEW d \in 0..MaxPass, Pass(d) PROVE FlagsOK'
  BY <1>1, Zenon DEF Pass, work, flash, sound, screen, flags
<1>2. CASE PollActive \/ PollTimeout
  BY <1>1, <1>2, Zenon DEF PollActive, PollTimeout
<1>3. CASE ControlsOff
  BY <1>3, Zenon DEF ControlsOff, inputs, cursor, work, flash, sound, screen, flags
<1>4. CASE HookIdle \/ HookList \/ HookEdit \/ HookSaving
  <2>1. pend' \in BOOLEAN
    BY <1>4, Zenon DEF HookIdle, HookList, HookEdit, HookSaving, Hook, DrawPending
  <2>2. dirty' \in BOOLEAN
    BY <1>4, Zenon DEF HookIdle, HookList, HookEdit, HookSaving, Consume
  <2>3. saveSelection' \in BOOLEAN /\ turned' \in BOOLEAN
    BY <1>4, Zenon DEF HookIdle, HookList, HookEdit, HookSaving
  <2>4. stagedLoaded' \in BOOLEAN /\ fresh' \in BOOLEAN /\ prev' \in BOOLEAN
        /\ back' \in BOOLEAN /\ lost' \in BOOLEAN
    BY <1>4, Zenon DEF HookIdle, HookList, HookEdit, HookSaving, Hook
  <2>5. QED
    BY <2>1, <2>2, <2>3, <2>4
<1>5. ASSUME NEW next, Click(next) PROVE FlagsOK'
  <2>1. dirty' \in BOOLEAN
    BY <1>5, Zenon DEF Click, IgnoreClick, Confirm, Decline, OpenEditor, CloseEditor
  <2>2. QED
    BY <1>5, <2>1, Zenon DEF Click, work, sound, screen
<1>6. CASE SrcLong
  BY <1>6, Zenon DEF SrcLong, Enter, AskToSave, AskAgain, flash, sound, screen
<1>7. CASE SrcShort \/ BtnClick
  BY <1>5, <1>7, Zenon DEF SrcShort, BtnClick
<1>8. CASE SrcIdle
  BY <1>8, Zenon DEF SrcIdle, inputs, cursor, work, flash, sound, screen, flags
<1>9. CASE Take
  <2>1. Active \in BOOLEAN
    BY DEF Active
  <2>2. pend' \in BOOLEAN /\ prev' \in BOOLEAN
    BY <1>9, <2>1, Zenon DEF Take, TakeOver, GiveBack, LeaveAlone, Remember, Active
  <2>3. QED
    BY <1>9, <2>2, Zenon DEF Take, cursor, work
<1>10. CASE KnobConfig \/ KnobVolume \/ KnobList
  <2>1. turned' \in BOOLEAN
    BY <1>10, Zenon DEF KnobConfig, KnobVolume, KnobList
  <2>2. QED
    BY <1>10, <2>1, Zenon DEF KnobConfig, KnobVolume, KnobList, Knob, work, flash, flags
<1>11. CASE KnobIdle
  BY <1>11, Zenon DEF KnobIdle, inputs, cursor, work, flash, sound, screen, flags
<1>12. CASE BtnLong
  BY <1>12, Zenon DEF BtnLong, cursor, work, flash, sound, flags
<1>13. CASE BtnIdle
  BY <1>13, Zenon DEF BtnIdle, inputs, cursor, work, flash, sound, screen, flags
<1>14. CASE Open \/ Write \/ Remove \/ Rename
  <2>1. dirty' \in BOOLEAN
    BY <1>14, Zenon DEF Open, Write, ShortWrite, Remove, Rename, Fail, Leave, SaveGoesOn
  <2>2. QED
    BY <1>14, <2>1, Zenon DEF Open, Write, Remove, Rename, SaveKeeps, inputs, work, screen
<1>15. CASE Apply
  BY <1>15, Zenon DEF Apply, Leave, inputs, work, flash, screen
<1>16. CASE Show
  <2>1. back' \in BOOLEAN
    <3>1. (Head(queue) = "STATIONS" \/ back) \in BOOLEAN
      OBVIOUS
    <3>2. QED
      BY <1>16, <3>1, Zenon DEF Show, Shown
  <2>2. QED
    BY <1>16, <2>1, Zenon DEF Show, inputs, cursor, work, flash, sound, flags
<1>17. CASE ReturnPlayer
  BY <1>17, Zenon DEF ReturnPlayer, inputs, cursor, work, flash, sound, flags
<1>18. CASE WiFiLostConnection \/ WiFiReconnected
  BY <1>18, Zenon DEF WiFiLostConnection, WiFiReconnected, inputs, cursor, work, flash, sound, flags
<1>19. CASE Restart
  <2>1. (file \in Settings) \in BOOLEAN
    OBVIOUS
  <2>2. QED
    BY <1>19, <2>1, Zenon DEF Restart
<1>20. QED
  BY <1>2, <1>3, <1>4, <1>6, <1>7, <1>8, <1>9, <1>10, <1>11, <1>12, <1>13, <1>14,
     <1>15, <1>16, <1>17, <1>18, <1>19 DEF Next, LoopTask

\* Every step keeps the program counters, the cursors and the times in range.
LEMMA CursorStep == CursorOK /\ Next => CursorOK'
<1> SUFFICES ASSUME CursorOK, Next PROVE CursorOK'
  OBVIOUS
<1>a. Timeout \in Nat /\ MaxPass \in Nat /\ Items \in Nat /\ Items > 0 /\ LongQuiet \in Nat
  BY TdaAssumption DEF TdaAssumption, LongQuiet
<1> USE DEF CursorOK
<1>1. ASSUME NEW d \in 0..MaxPass, Pass(d)
      PROVE  pc' = "hook" /\ ret' = ret /\ delta' = delta /\ quiet' \in 0..LongQuiet
  <2>1. Clamp(quiet + d, 0, LongQuiet) \in 0..LongQuiet
    BY <1>a, ClampRange
  <2>2. QED
    BY <1>1, <2>1 DEF Pass
<1>2. CASE PollActive
  <2>1. PICK d \in 0..MaxPass : Pass(d) /\ age' = Older(d) /\ UNCHANGED <<state, listIndex, editIndex>>
    BY <1>2 DEF PollActive
  <2>2. Older(d) \in 0..(Timeout + 1)
    BY <1>a, ClampRange DEF Older
  <2>3. QED
    BY <1>1, <2>1, <2>2
<1>3. CASE PollTimeout
  <2>1. PICK d \in 0..MaxPass : Pass(d) /\ age' = 0 /\ state' = "IDLE" /\ listIndex' = 0 /\ editIndex' = -1
    BY <1>3 DEF PollTimeout
  <2>2. QED
    BY <1>1, <1>a, <2>1 DEF Item
<1>4. CASE ControlsOff
  BY <1>4 DEF ControlsOff, inputs, cursor
<1>5. CASE HookIdle \/ HookEdit \/ HookSaving
  BY <1>5, <1>a DEF HookIdle, HookEdit, HookSaving, Hook, Consume, StayInList
<1>6. CASE HookList
  <2>1. Clamp(listIndex + delta, 0, Items - 1) \in Item
    BY <1>a, ClampRange DEF Item
  <2>2. QED
    BY <1>6, <1>a, <2>1 DEF HookList, Hook, Consume, Scroll
<1>7. ASSUME NEW next \in {"take", "poll"}, Click(next) PROVE CursorOK'
  <2>1. pc' \in {"take", "poll", "open"} /\ ret' \in {"poll", "take"}
        /\ state' \in {"IDLE", "LIST", "EDIT", "SAVING"} /\ editIndex' \in Item \cup {-1}
    BY <1>7 DEF Click, IgnoreClick, Confirm, Decline, OpenEditor, CloseEditor
  <2>2. QED
    BY <1>7, <1>a, <2>1 DEF Click
<1>8. CASE SrcShort \/ BtnClick
  BY <1>7, <1>8 DEF SrcShort, BtnClick
<1>9. CASE SrcLong
  BY <1>9, <1>a DEF SrcLong, Enter, AskToSave, Item
<1>10. CASE SrcIdle \/ KnobIdle \/ BtnIdle
  BY <1>10 DEF SrcIdle, KnobIdle, BtnIdle, inputs, cursor
<1>11. CASE Take
  <2>1. delta' \in -1..1
    BY <1>11 DEF Take, TakeOver, GiveBack, LeaveAlone, Drain
  <2>2. QED
    BY <1>11, <2>1 DEF Take, cursor
<1>12. CASE KnobConfig \/ KnobVolume \/ KnobList
  BY <1>12, <1>a DEF KnobConfig, KnobVolume, KnobList, Knob
<1>13. CASE BtnLong
  BY <1>13, <1>a DEF BtnLong, cursor
<1>14. CASE Open \/ Write \/ Remove \/ Rename
  BY <1>14 DEF Open, Write, ShortWrite, Remove, Rename, Fail, Leave, SaveGoesOn, SaveKeeps, inputs
<1>15. CASE Apply
  BY <1>15 DEF Apply, Leave, inputs
<1>16. CASE Show \/ ReturnPlayer
  BY <1>16 DEF Show, ReturnPlayer, inputs, cursor
<1>17. CASE WiFiLostConnection \/ WiFiReconnected
  BY <1>17 DEF WiFiLostConnection, WiFiReconnected, inputs, cursor
<1>18. CASE Restart
  BY <1>18, <1>a DEF Restart, Item
<1>19. QED
  BY <1>2, <1>3, <1>4, <1>5, <1>6, <1>8, <1>9, <1>10, <1>11, <1>12, <1>13, <1>14,
     <1>15, <1>16, <1>17, <1>18 DEF Next, LoopTask

\* Every step keeps the display queue within its length.
LEMMA ScreenStep == ScreenOK /\ Next => ScreenOK'
<1> SUFFICES ASSUME ScreenOK, Next PROVE ScreenOK'
  OBVIOUS
<1>a. /\ \A r \in Requests : Sent(queue, r) \in Seq(Requests) /\ Len(Sent(queue, r)) <= DspLen
      /\ {"PLAYER", "STATIONS", "LOST", "DRAW"} \subseteq Requests
  BY SentOK DEF ScreenOK, Requests
<1>b. UNCHANGED <<queue, mode>> => ScreenOK'
  BY DEF ScreenOK
<1>1. CASE PollActive \/ PollTimeout
  BY <1>1, <1>b DEF PollActive, PollTimeout, Pass, screen
<1>2. CASE HookIdle \/ HookList \/ HookEdit \/ HookSaving
  BY <1>2, <1>a DEF ScreenOK, HookIdle, HookList, HookEdit, HookSaving, Hook, DrawPending
<1>3. CASE SrcShort \/ BtnClick
  BY <1>3, <1>b DEF SrcShort, BtnClick, Click, screen
<1>4. CASE ControlsOff \/ SrcIdle \/ SrcLong \/ KnobIdle \/ BtnIdle
  BY <1>4, <1>b DEF ControlsOff, SrcIdle, SrcLong, KnobIdle, BtnIdle, screen
<1>5. CASE Take
  <2>1. mode' = mode
    BY <1>5 DEF Take
  <2>2. queue' \in {Redraw(queue), Redraw(Sent(queue, "STATIONS")), Redraw(Sent(queue, "PLAYER"))}
    BY <1>5 DEF Take, TakeOver, GiveBack, LeaveAlone
  <2>3. queue' \in Seq(Requests) /\ Len(queue') <= DspLen
    BY <1>a, <2>2, RedrawOK DEF ScreenOK
  <2>4. QED
    BY <2>1, <2>3 DEF ScreenOK
<1>6. CASE KnobConfig \/ KnobVolume
  BY <1>6, <1>b DEF KnobConfig, KnobVolume, Knob
<1>7. CASE KnobList
  <2>1. <<>> \in Seq(Requests) /\ <<"DRAW">> \in Seq(Requests) /\ Len(<<>>) = 0 /\ Len(<<"DRAW">>) = 1
    BY DEF Requests
  <2>2. DspLen \in Nat /\ DspLen >= 1
    BY TdaAssumption DEF TdaAssumption
  <2>3. mode' = mode /\ (queue' = <<>> \/ queue' = <<"DRAW">>)
    BY <1>7 DEF KnobList, Knob
  <2>4. queue' \in Seq(Requests)
    BY <2>1, <2>3, Zenon
  <2>5. Len(queue') = 0 \/ Len(queue') = 1
    BY <2>1, <2>3, Zenon
  <2>6. Len(queue') <= DspLen
    BY <2>2, <2>5
  <2>7. QED
    BY <2>3, <2>4, <2>6, Zenon DEF ScreenOK
<1>8. CASE BtnLong
  BY <1>8, <1>a DEF BtnLong, ScreenOK
<1>9. CASE Open \/ Write \/ Remove \/ Rename \/ Apply
  BY <1>9, <1>b DEF Open, Write, Remove, Rename, Apply, SaveKeeps, screen
<1>10. CASE Show
  <2>1. Head(queue) \in Requests /\ Tail(queue) \in Seq(Requests) /\ Len(Tail(queue)) = Len(queue) - 1
    BY <1>10, HeadTailProperties DEF Show, ScreenOK
  <2>2. mode' \in {mode} \cup (Requests \ {"DRAW"})
    BY <1>10, <2>1 DEF Show, Shown
  <2>3. Len(queue) \in Nat /\ DspLen \in Nat
    BY TdaAssumption, LenProperties DEF ScreenOK, TdaAssumption
  <2>4. QED
    BY <1>10, <2>1, <2>2, <2>3 DEF Show, ScreenOK, Requests
<1>11. CASE ReturnPlayer \/ WiFiLostConnection
  BY <1>11, <1>a DEF ReturnPlayer, WiFiLostConnection, ScreenOK
<1>12. CASE WiFiReconnected
  <2>1. Sent(Sent(queue, "PLAYER"), "PLAYER") \in Seq(Requests)
        /\ Len(Sent(Sent(queue, "PLAYER"), "PLAYER")) <= DspLen
    BY <1>a, SentOK
  <2>2. QED
    BY <1>12, <2>1 DEF WiFiReconnected, ScreenOK
<1>13. CASE Restart
  BY <1>13, TdaAssumption, EmptySeq DEF Restart, ScreenOK, TdaAssumption
<1>14. QED
  BY <1>1, <1>2, <1>3, <1>4, <1>5, <1>6, <1>7, <1>8, <1>9, <1>10, <1>11, <1>12, <1>13 DEF Next, LoopTask

\* The editor writes the setting the list points at, and the cursor stays there.
LEMMA EditsStep == EditsShown /\ CursorOK /\ Next => EditsShown'
<1> SUFFICES ASSUME EditsShown, CursorOK, Next PROVE EditsShown'
  OBVIOUS
<1> USE DEF EditsShown
<1>1. CASE PollActive \/ PollTimeout
  BY <1>1 DEF PollActive, PollTimeout
<1>2. CASE HookIdle \/ HookList \/ HookEdit \/ HookSaving
  BY <1>2 DEF HookIdle, HookList, HookEdit, HookSaving, Hook, StayInList
<1>3. CASE SrcShort \/ BtnClick
  BY <1>3 DEF SrcShort, BtnClick, Click, IgnoreClick, Confirm, Decline, OpenEditor, CloseEditor
<1>4. CASE SrcLong
  BY <1>4 DEF SrcLong, Enter, AskToSave
<1>5. CASE ControlsOff \/ SrcIdle \/ Take \/ KnobIdle \/ BtnLong \/ BtnIdle
  BY <1>5 DEF ControlsOff, SrcIdle, Take, KnobIdle, BtnLong, BtnIdle, cursor
<1>6. CASE KnobConfig \/ KnobVolume \/ KnobList
  BY <1>6 DEF KnobConfig, KnobVolume, KnobList, Knob
<1>7. CASE Open \/ Write \/ Remove \/ Rename \/ Apply
  BY <1>7 DEF Open, Write, ShortWrite, Remove, Rename, Apply, Fail, Leave, SaveGoesOn, SaveKeeps
<1>8. CASE Show \/ ReturnPlayer \/ WiFiLostConnection \/ WiFiReconnected
  BY <1>8 DEF Show, ReturnPlayer, WiFiLostConnection, WiFiReconnected, cursor
<1>9. CASE Restart
  BY <1>9 DEF Restart
<1>10. QED
  BY <1>1, <1>2, <1>3, <1>4, <1>5, <1>6, <1>7, <1>8, <1>9 DEF Next, LoopTask

\* Every step leaves settings in RAM, on flash and in the chip.
LEMMA FilesStep == FilesOK /\ CursorOK /\ EditsShown /\ Next => FilesOK'
<1> SUFFICES ASSUME FilesOK, CursorOK, EditsShown, Next PROVE FilesOK'
  OBVIOUS
<1> USE DEF FilesOK
<1>1. CASE PollActive \/ PollTimeout
  BY <1>1 DEF PollActive, PollTimeout, Pass, work, flash, sound
<1>2. CASE HookIdle \/ HookList \/ HookSaving
  BY <1>2 DEF HookIdle, HookList, HookSaving, Hook, flash, sound
<1>3. CASE HookEdit
  <2>1. editIndex \in Item /\ delta \in -1..1
    BY <1>3 DEF HookEdit, Hook, EditsShown, CursorOK
  <2>2. staged[editIndex] \in 0..MaxValue /\ MaxValue \in Nat
    BY <2>1, TdaAssumption DEF Settings, Value, TdaAssumption
  <2>3. staged[editIndex] + delta \in Int /\ 0 <= MaxValue /\ MaxValue \in Int
    BY <2>1, <2>2
  <2>4. Clamp(staged[editIndex] + delta, 0, MaxValue) \in Value
    BY <2>3 DEF Clamp, Value
  <2>5. staged' \in Settings
    BY <1>3, <2>1, <2>4 DEF HookEdit, Settings
  <2>6. QED
    BY <1>3, <2>5 DEF HookEdit, Hook, flash, sound
<1>4. CASE SrcShort \/ BtnClick
  BY <1>4 DEF SrcShort, BtnClick, Click, IgnoreClick, Confirm, Decline, OpenEditor, CloseEditor,
              File, work, sound
<1>5. CASE SrcLong
  <2>1. Default \in Settings
    BY TdaAssumption DEF TdaAssumption, Default, Settings, Value
  <2>2. QED
    BY <1>5, <2>1 DEF SrcLong, Enter, AskToSave, flash, sound
<1>6. CASE ControlsOff \/ SrcIdle \/ Take \/ KnobIdle \/ BtnLong \/ BtnIdle
  BY <1>6 DEF ControlsOff, SrcIdle, Take, KnobIdle, BtnLong, BtnIdle, work, flash, sound
<1>7. CASE KnobConfig \/ KnobList
  BY <1>7 DEF KnobConfig, KnobList, Knob, work, flash
<1>8. CASE KnobVolume
  BY <1>8, TdaAssumption DEF KnobVolume, Knob, work, flash, TdaAssumption
<1>9. CASE Open \/ Write \/ Remove \/ Rename
  BY <1>9 DEF Open, Write, ShortWrite, Remove, Rename, Fail, Untouched, SaveGoesOn, SaveKeeps,
              work, File
<1>10. CASE Apply
  <2>1. Percent(masterVolume) \in 0..100
    BY DEF Percent, masterVolume
  <2>2. QED
    BY <1>10, <2>1 DEF Apply, work, flash
<1>11. CASE Show \/ ReturnPlayer \/ WiFiLostConnection \/ WiFiReconnected
  BY <1>11 DEF Show, ReturnPlayer, WiFiLostConnection, WiFiReconnected, work, flash, sound
<1>12. CASE Restart
  BY <1>12, LoadedOK DEF Restart, flash
<1>13. QED
  BY <1>1, <1>2, <1>3, <1>4, <1>5, <1>6, <1>7, <1>8, <1>9, <1>10, <1>11, <1>12 DEF Next, LoopTask

\* Type correctness needs to know where the editor writes: the two go together.
LEMMA TypedStep == TypeOK /\ EditsShown /\ [Next]_vars => TypeOK' /\ EditsShown'
<1> SUFFICES ASSUME TypeOK, EditsShown, [Next]_vars PROVE TypeOK' /\ EditsShown'
  OBVIOUS
<1>1. CASE Next
  BY <1>1, FlagsStep, CursorStep, FilesStep, ScreenStep, EditsStep DEF TypeOK
<1>2. CASE UNCHANGED vars
  <2> USE <1>2 DEF vars
  <2>1. FlagsOK'
    BY Zenon DEF TypeOK, FlagsOK, inputs, cursor, work, screen, flags
  <2>2. CursorOK' /\ EditsShown'
    BY DEF TypeOK, CursorOK, EditsShown, inputs, cursor
  <2>3. FilesOK' /\ ScreenOK'
    BY DEF TypeOK, FilesOK, ScreenOK, work, flash, sound, screen
  <2>4. QED
    BY <2>1, <2>2, <2>3 DEF TypeOK
<1>3. QED
  BY <1>1, <1>2

\* Every variable keeps its type, and the display queue its length.
THEOREM TypeCorrect == Spec => []TypeOK
<1>1. Init => TypeOK /\ EditsShown
  BY InitTypeOK DEF Init, EditsShown
<1>2. TypeOK /\ EditsShown /\ [Next]_vars => (TypeOK /\ EditsShown)'
  BY TypedStep
<1>3. QED
  BY <1>1, <1>2, PTL DEF Spec

\* The value a turn of the knob changes is always the one the screen shows.
THEOREM EditsShownHolds == Spec => []EditsShown
<1>1. Init => TypeOK /\ EditsShown
  BY InitTypeOK DEF Init, EditsShown
<1>2. TypeOK /\ EditsShown /\ [Next]_vars => (TypeOK /\ EditsShown)'
  BY TypedStep
<1>3. QED
  BY <1>1, <1>2, PTL DEF Spec

-----------------------------------------------------------------------------
(* The files.  FileOldOrNew is not inductive: that a rename leaves a whole  *)
(* file needs to know what the temporary one holds at that point.          *)

SaveInv ==
  /\ FileOldOrNew
  /\ pc \in {"open", "write", "remove"} => file = kept
  /\ pc \in {"open", "write", "remove", "rename", "apply"} => staged = asked
  /\ pc \in {"remove", "rename"} => tmp = asked
  /\ pc = "apply" => file = asked

\* Only the steps of a save write a file, and nothing edits the settings meanwhile.
LEMMA SaveStep == TypeOK /\ SaveInv /\ [Next]_vars => SaveInv'
<1> SUFFICES ASSUME TypeOK, SaveInv, [Next]_vars PROVE SaveInv'
  OBVIOUS
<1> USE DEF SaveInv, FileOldOrNew
<1>a. Absent # Partial /\ Absent \notin Settings /\ Partial \notin Settings
  BY TdaAssumption DEF TdaAssumption
<1>b. staged \in Settings
  BY DEF TypeOK, FilesOK
<1>1. CASE PollActive \/ PollTimeout
  BY <1>1 DEF PollActive, PollTimeout, Pass, work, flash
<1>2. CASE HookIdle \/ HookList \/ HookEdit \/ HookSaving
  BY <1>2 DEF HookIdle, HookList, HookEdit, HookSaving, Hook, flash
<1>3. ASSUME NEW next \in {"take", "poll"}, Click(next) PROVE SaveInv'
  <2>1. file' = file /\ tmp' = tmp /\ staged' = staged
    BY <1>3 DEF Click, work
  <2>2. CASE fresh
    BY <1>3, <2>1, <2>2 DEF Click, IgnoreClick
  <2>3. CASE ~fresh /\ Confirm(next)
    BY <2>1, <2>3, <1>a, <1>b DEF Confirm
  <2>4. CASE ~fresh /\ (Decline(next) \/ OpenEditor(next) \/ CloseEditor(next))
    BY <2>1, <2>4 DEF Decline, OpenEditor, CloseEditor
  <2>5. QED
    BY <1>3, <2>2, <2>3, <2>4 DEF Click
<1>4. CASE SrcShort \/ BtnClick
  BY <1>3, <1>4 DEF SrcShort, BtnClick
<1>5. CASE SrcLong
  BY <1>5 DEF SrcLong, flash
<1>6. CASE ControlsOff \/ SrcIdle \/ Take \/ KnobIdle \/ BtnLong \/ BtnIdle
  BY <1>6 DEF ControlsOff, SrcIdle, Take, KnobIdle, BtnLong, BtnIdle, work, flash
<1>7. CASE KnobConfig \/ KnobVolume \/ KnobList
  BY <1>7 DEF KnobConfig, KnobVolume, KnobList, Knob, work, flash
<1>8. ASSUME Fail, UNCHANGED <<kept, asked>> PROVE SaveInv'
  <2>1. pc' \in {"poll", "take"} /\ file' = file
    BY <1>8 DEF Fail, Leave, TypeOK, CursorOK
  <2>2. QED
    BY <1>8, <2>1
<1>9. CASE Open
  BY <1>8, <1>9 DEF Open, SaveKeeps, SaveGoesOn, work
<1>10. CASE Write
  BY <1>8, <1>10 DEF Write, ShortWrite, SaveKeeps, SaveGoesOn, work
<1>11. CASE Remove
  BY <1>11 DEF Remove, SaveKeeps, SaveGoesOn, work
<1>12. CASE Rename
  BY <1>8, <1>12 DEF Rename, SaveKeeps, SaveGoesOn, work
<1>13. CASE Apply
  BY <1>13 DEF Apply, Leave, work, flash, TypeOK, CursorOK
<1>14. CASE Show \/ ReturnPlayer \/ WiFiLostConnection \/ WiFiReconnected
  BY <1>14 DEF Show, ReturnPlayer, WiFiLostConnection, WiFiReconnected, work, flash
<1>15. CASE Restart
  BY <1>15 DEF Restart, flash
<1>16. CASE UNCHANGED vars
  BY <1>16 DEF vars, work, flash
<1>17. QED
  BY <1>1, <1>2, <1>4, <1>5, <1>6, <1>7, <1>9, <1>10, <1>11, <1>12, <1>13, <1>14,
     <1>15, <1>16 DEF Next, LoopTask

LEMMA InitSaveInv == Init => SaveInv
  BY TdaAssumption DEF TdaAssumption, Init, SaveInv, FileOldOrNew

\* At every moment, in the middle of a save and after any restart or failure, the
\* settings file is absent, what it was before, or what the user asked to save.
THEOREM FileOldOrNewHolds == Spec => []FileOldOrNew
<1>1. Init => SaveInv
  BY InitSaveInv
<1>2. TypeOK /\ SaveInv /\ [Next]_vars => SaveInv'
  BY SaveStep
<1>3. SaveInv => FileOldOrNew
  BY DEF SaveInv
<1>4. QED
  BY <1>1, <1>2, <1>3, TypeCorrect, PTL DEF Spec

\* The chip never gets settings that the flash does not hold.
THEOREM ChipFollowsFlashHolds == Spec => ChipFollowsFlash
<1>1. TypeOK /\ SaveInv /\ [Next]_vars => [chip' # chip => chip' \in {file, Absent}]_vars
  <2> SUFFICES ASSUME SaveInv, Next PROVE chip' \in {chip, file, Absent}
    OBVIOUS
  <2>1. CASE Apply
    BY <2>1 DEF Apply, SaveInv
  <2>2. CASE Restart
    BY <2>2 DEF Restart
  <2>3. CASE Open \/ Write \/ Remove \/ Rename
    BY <2>3 DEF Open, Write, ShortWrite, Remove, Rename, Fail, Untouched, SaveGoesOn
  <2>4. CASE PollActive \/ PollTimeout
    BY <2>4 DEF PollActive, PollTimeout, Pass, sound
  <2>5. CASE HookIdle \/ HookList \/ HookEdit \/ HookSaving
    BY <2>5 DEF HookIdle, HookList, HookEdit, HookSaving, Hook, sound
  <2>6. CASE SrcShort \/ SrcLong \/ SrcIdle \/ BtnClick \/ BtnLong \/ BtnIdle
    BY <2>6 DEF SrcShort, SrcLong, SrcIdle, BtnClick, BtnLong, BtnIdle, Click, sound
  <2>7. CASE ControlsOff \/ Take \/ KnobIdle \/ KnobConfig \/ KnobVolume \/ KnobList
    BY <2>7 DEF ControlsOff, Take, KnobIdle, KnobConfig, KnobVolume, KnobList, Knob, sound
  <2>8. CASE Show \/ ReturnPlayer \/ WiFiLostConnection \/ WiFiReconnected
    BY <2>8 DEF Show, ReturnPlayer, WiFiLostConnection, WiFiReconnected, sound
  <2>9. QED
    BY <2>1, <2>2, <2>3, <2>4, <2>5, <2>6, <2>7, <2>8 DEF Next, LoopTask
<1>2. TypeOK /\ SaveInv /\ [Next]_vars => SaveInv'
  BY SaveStep
<1>3. QED
  BY <1>1, <1>2, InitSaveInv, TypeCorrect, PTL DEF Spec, ChipFollowsFlash

-----------------------------------------------------------------------------
(* The turns of the knob.  A turn is kept from the knob's place in a pass   *)
(* to the hook of a later one; what makes it harmless is where the screen   *)
(* can be opened, closed and asked the question in between.                *)

TurnInv ==
  /\ delta # 0 => prev
  /\ pc = "enc" => prev = Active
  /\ pc = "src" /\ Active => delta = 0
  /\ state = "SAVING" /\ delta # 0 => turned
  /\ SaveNeedsTurn

\* The hook uses a turn up before the source button is read, and the controls
\* throw away what is left when they let go of the screen.
LEMMA TurnStep == TypeOK /\ TurnInv /\ [Next]_vars => TurnInv'
<1> SUFFICES ASSUME TypeOK, TurnInv, [Next]_vars PROVE TurnInv'
  OBVIOUS
<1> USE DEF TurnInv, SaveNeedsTurn, Active
<1>a. /\ prev \in BOOLEAN /\ turned \in BOOLEAN /\ saveSelection \in BOOLEAN
      /\ ret \in {"poll", "take"}
  BY DEF TypeOK, FlagsOK, CursorOK
<1>1. CASE PollActive \/ PollTimeout
  <2>1. /\ delta' = delta /\ prev' = prev /\ turned' = turned /\ saveSelection' = saveSelection
        /\ pc' = "hook"
    BY <1>1 DEF PollActive, PollTimeout, Pass, flags
  <2>2. state' = state \/ state' = "IDLE"
    BY <1>1 DEF PollActive, PollTimeout
  <2>3. QED
    BY <2>1, <2>2
<1>2. CASE HookIdle \/ HookList \/ HookEdit
  BY <1>2, <1>a DEF HookIdle, HookList, HookEdit, Hook, Consume
<1>3. CASE HookSaving
  BY <1>3, <1>a DEF HookSaving, Hook, Consume
<1>4. ASSUME NEW next \in {"take", "poll"}, Click(next) PROVE TurnInv'
  <2>1. delta' = delta /\ prev' = prev /\ turned' = turned /\ saveSelection' = saveSelection
    BY <1>4 DEF Click
  <2>2. state' = state \/ state' # "SAVING"
    BY <1>4 DEF Click, IgnoreClick, Confirm, Decline, OpenEditor, CloseEditor
  <2>3. pc' \in {"take", "poll", "open"}
    BY <1>4 DEF Click, IgnoreClick, Confirm, Decline, OpenEditor, CloseEditor
  <2>4. QED
    BY <2>1, <2>2, <2>3
<1>5. CASE SrcShort \/ BtnClick
  BY <1>4, <1>5 DEF SrcShort, BtnClick
<1>6. CASE SrcLong
  BY <1>6, <1>a DEF SrcLong, Enter, AskToSave, AskAgain
<1>7. CASE Take
  BY <1>7, <1>a DEF Take, TakeOver, GiveBack, LeaveAlone, Remember, Opens, Closes, Drain, cursor
<1>8. CASE KnobConfig
  BY <1>8, <1>a DEF KnobConfig, Knob, flags
<1>9. CASE KnobVolume \/ KnobList
  BY <1>9 DEF KnobVolume, KnobList, Knob, flags
<1>10. CASE ControlsOff \/ SrcIdle \/ KnobIdle \/ BtnLong \/ BtnIdle
  BY <1>10 DEF ControlsOff, SrcIdle, KnobIdle, BtnLong, BtnIdle, inputs, cursor, flags
<1>11. CASE Open \/ Write \/ Remove \/ Rename
  BY <1>11, <1>a DEF Open, Write, ShortWrite, Remove, Rename, Fail, Leave, SaveGoesOn, SaveKeeps, inputs
<1>12. CASE Apply
  BY <1>12, <1>a DEF Apply, Leave, inputs
<1>13. CASE Show \/ ReturnPlayer \/ WiFiLostConnection \/ WiFiReconnected
  BY <1>13 DEF Show, ReturnPlayer, WiFiLostConnection, WiFiReconnected, inputs, cursor, flags
<1>14. CASE Restart
  BY <1>14 DEF Restart
<1>15. CASE UNCHANGED vars
  BY <1>15 DEF vars, inputs, cursor, flags
<1>16. QED
  BY <1>1, <1>2, <1>3, <1>5, <1>6, <1>7, <1>8, <1>9, <1>10, <1>11, <1>12, <1>13, <1>14,
     <1>15 DEF Next, LoopTask

LEMMA TurnInvHolds == Spec => []TurnInv
<1>1. Init => TurnInv
  BY DEF Init, TurnInv, SaveNeedsTurn
<1>2. TypeOK /\ TurnInv /\ [Next]_vars => TurnInv'
  BY TurnStep
<1>3. QED
  BY <1>1, <1>2, TypeCorrect, PTL DEF Spec

\* No save without a turn of the knob to TAK after the question was put.
THEOREM SaveNeedsTurnHolds == Spec => []SaveNeedsTurn
<1>1. TurnInv => SaveNeedsTurn
  BY DEF TurnInv
<1>2. QED
  BY <1>1, TurnInvHolds, PTL

\* No turn is left over when the screen has been given back.
THEOREM TurnBelongsHolds == Spec => []TurnBelongs
<1>1. TurnInv => TurnBelongs
  BY DEF TurnInv, TurnBelongs
<1>2. QED
  BY <1>1, TurnInvHolds, PTL

-----------------------------------------------------------------------------
(* What makes a save lose the settings.  SaveAtomic is violated; these are  *)
(* the only two reasons.                                                   *)

Torn == Restart \/ (Rename /\ UNCHANGED file)

NotLost == file = Absent => kept = Absent \/ pc = "rename"

LEMMA NotLostStep == TypeOK /\ SaveInv /\ NotLost /\ [Next /\ ~Torn]_vars => NotLost'
<1> SUFFICES ASSUME TypeOK, SaveInv, NotLost, [Next /\ ~Torn]_vars PROVE NotLost'
  OBVIOUS
<1> USE DEF NotLost
<1>a. Absent \notin Settings /\ staged \in Settings
  BY TdaAssumption DEF TdaAssumption, TypeOK, FilesOK
<1>1. ASSUME UNCHANGED <<file, kept>>, pc = "rename" => pc' = "rename" PROVE NotLost'
  BY <1>1
<1>2. CASE PollActive \/ PollTimeout \/ ControlsOff
  BY <1>1, <1>2 DEF PollActive, PollTimeout, Pass, ControlsOff, flash
<1>3. CASE HookIdle \/ HookList \/ HookEdit \/ HookSaving
  BY <1>1, <1>3 DEF HookIdle, HookList, HookEdit, HookSaving, Hook, flash
<1>4. CASE SrcLong \/ SrcIdle \/ Take
  <2>1. UNCHANGED flash /\ pc # "rename"
    BY <1>4 DEF SrcLong, SrcIdle, Take, TakeOver, GiveBack, LeaveAlone
  <2> QED BY <1>1, <2>1 DEF flash
<1>5. ASSUME NEW next, Click(next), pc # "rename" PROVE NotLost'
  <2>1. file' = file /\ (kept' = file \/ kept' = kept)
    BY <1>5 DEF Click, IgnoreClick, Confirm, Decline, OpenEditor, CloseEditor
  <2> QED BY <1>5, <2>1
<1>6. CASE SrcShort \/ BtnClick
  BY <1>5, <1>6 DEF SrcShort, BtnClick
<1>7. CASE KnobConfig \/ KnobVolume \/ KnobList \/ KnobIdle
  BY <1>1, <1>7 DEF KnobConfig, KnobVolume, KnobList, Knob, KnobIdle, flash
<1>8. CASE BtnLong \/ BtnIdle
  BY <1>1, <1>8 DEF BtnLong, BtnIdle, flash
<1>9. CASE Open \/ Write
  BY <1>1, <1>9 DEF Open, Write, ShortWrite, Fail, SaveKeeps
<1>10. CASE Remove BY <1>10 DEF Remove
<1>11. CASE Rename /\ ~Torn
  <2>1. ~UNCHANGED file BY <1>11 DEF Torn, Rename
  <2>2. file' = tmp BY <1>11, <2>1 DEF Rename, Fail
  <2>3. tmp = staged BY <1>11 DEF Rename, SaveInv
  <2> QED BY <1>a, <2>2, <2>3
<1>12. CASE Apply BY <1>1, <1>12 DEF Apply, flash
<1>13. CASE Show \/ ReturnPlayer \/ WiFiLostConnection \/ WiFiReconnected
  BY <1>1, <1>13 DEF Show, ReturnPlayer, WiFiLostConnection, WiFiReconnected, flash
<1>14. CASE UNCHANGED vars BY <1>1, <1>14 DEF vars, flash
<1>15. CASE Next /\ ~Torn
  BY <1>2, <1>3, <1>4, <1>6, <1>7, <1>8, <1>9, <1>10, <1>11, <1>12, <1>13, <1>15
  DEF Next, LoopTask, Torn
<1> QED BY <1>14, <1>15

\* Without a restart and a failed rename a save is atomic but for the moment between
\* the removal of the old file and the rename of the new one.
THEOREM OnlyCutsLose ==
  Init /\ [][Next /\ ~Torn]_vars => [](file = Absent => kept = Absent \/ pc = "rename")
<1>1. Init => TypeOK /\ EditsShown /\ SaveInv /\ NotLost
  BY InitTypeOK, InitSaveInv DEF Init, EditsShown, NotLost
<1>2. TypeOK /\ EditsShown /\ SaveInv /\ NotLost /\ [Next /\ ~Torn]_vars
      => (TypeOK /\ EditsShown /\ SaveInv /\ NotLost)'
  BY TypedStep, SaveStep, NotLostStep
<1> QED BY <1>1, <1>2, PTL DEF NotLost

-----------------------------------------------------------------------------
(* Why the screen never closes itself.  InactivityExits is violated, and    *)
(* not by chance: as long as the controls run, each pass makes the screen  *)
(* young again before pollInactivity looks at its age.                     *)

NoLoss == ~lost /\ mode # "LOST" /\ queue \in Seq(Requests \ {"LOST"})

Young == Active => IF pc = "hook" THEN age <= MaxPass ELSE age = 0

\* The display hears of a lost connection from the Wi-Fi callback only.
LEMMA NoLossStep ==
  ASSUME ~MayLose, NoLoss, [Next]_vars
  PROVE  NoLoss'
<1> DEFINE Others == Requests \ {"LOST"}
<1> USE DEF NoLoss
<1>1. \A q \in Seq(Others) : \A r \in Others : Sent(q, r) \in Seq(Others)
  BY DEF Sent
<1>2. \A q \in Seq(Others) : Redraw(q) \in Seq(Others)
  BY <1>1 DEF Redraw, Requests
<1>3. UNCHANGED <<queue, mode, lost>> => NoLoss'
  OBVIOUS
<1>4. "PLAYER" \in Others /\ "STATIONS" \in Others /\ "DRAW" \in Others
  BY DEF Requests
<1>5. CASE PollActive \/ PollTimeout \/ ControlsOff
  BY <1>3, <1>5 DEF PollActive, PollTimeout, Pass, ControlsOff, screen
<1>6. CASE HookIdle \/ HookList \/ HookEdit \/ HookSaving
  <2>1. UNCHANGED <<mode, lost>> /\ (queue' = queue \/ queue' = Sent(queue, "DRAW"))
    BY <1>6 DEF HookIdle, HookList, HookEdit, HookSaving, Hook, DrawPending
  <2> QED BY <1>1, <1>4, <2>1
<1>7. CASE SrcShort \/ SrcLong \/ SrcIdle \/ BtnClick \/ BtnIdle
  BY <1>3, <1>7 DEF SrcShort, SrcLong, SrcIdle, BtnClick, BtnIdle, Click, screen
<1>8. CASE Take
  <2>1. UNCHANGED <<mode, lost>> BY <1>8 DEF Take
  <2>2. queue' \in {Redraw(queue), Redraw(Sent(queue, "STATIONS")), Redraw(Sent(queue, "PLAYER"))}
    BY <1>8 DEF Take, TakeOver, GiveBack, LeaveAlone
  <2>3. queue' \in Seq(Others) BY <1>1, <1>2, <1>4, <2>2
  <2> QED BY <2>1, <2>3
<1>9. CASE KnobConfig \/ KnobVolume \/ KnobIdle
  BY <1>3, <1>9 DEF KnobConfig, KnobVolume, KnobIdle, Knob, screen, flags
<1>10. CASE KnobList
  <2>1. UNCHANGED <<mode, lost>> /\ (queue' = <<>> \/ queue' = <<"DRAW">>)
    BY <1>10 DEF KnobList, Knob
  <2>2. <<>> \in Seq(Others) /\ <<"DRAW">> \in Seq(Others) BY <1>4
  <2>3. queue' \in Seq(Others) BY <2>1, <2>2, Zenon
  <2> QED BY <2>1, <2>3
<1>11. CASE BtnLong
  BY <1>1, <1>4, <1>11 DEF BtnLong
<1>12. CASE Open \/ Write \/ Remove \/ Rename \/ Apply
  BY <1>3, <1>12 DEF Open, Write, Remove, Rename, Apply, SaveKeeps, screen
<1>13. CASE Show
  <2>1. Head(queue) \in Others /\ Tail(queue) \in Seq(Others) BY <1>13 DEF Show
  <2>2. mode' \in {mode} \cup Others BY <1>13, <2>1 DEF Show, Shown
  <2> QED BY <1>13, <2>1, <2>2 DEF Show
<1>14. CASE ReturnPlayer
  BY <1>1, <1>4, <1>14 DEF ReturnPlayer
<1>15. CASE WiFiLostConnection \/ WiFiReconnected
  BY <1>15 DEF WiFiLostConnection, WiFiReconnected
<1>16. CASE Restart BY <1>16 DEF Restart
<1>17. CASE UNCHANGED vars BY <1>3, <1>17 DEF vars, screen
<1> QED
  BY <1>5, <1>6, <1>7, <1>8, <1>9, <1>10, <1>11, <1>12, <1>13, <1>14, <1>15, <1>16, <1>17
  DEF Next, LoopTask

\* No pass is longer than the screen may be left alone.
LEMMA StillYoung ==
  ASSUME MaxPass <= Timeout, TypeOK, Young, pc = "poll", Active, NEW d \in 0..MaxPass
  PROVE  Older(d) <= MaxPass /\ ~(Older(d) > Timeout)
BY TdaAssumption DEF TdaAssumption, Young, Older, Clamp

LEMMA YoungStep ==
  ASSUME MaxPass <= Timeout, TypeOK, NoLoss, Young, [Next]_vars
  PROVE  Young'
<1> USE DEF Young, Active
<1>0. 0 <= MaxPass BY TdaAssumption DEF TdaAssumption
<1>1. CASE PollActive
  BY <1>1, StillYoung DEF PollActive, Pass
<1>2. CASE PollTimeout
  BY <1>2 DEF PollTimeout
<1>3. CASE ControlsOff
  BY <1>3 DEF ControlsOff, NoLoss
<1>4. CASE HookIdle
  BY <1>4 DEF HookIdle, Hook
<1>5. CASE HookList \/ HookEdit \/ HookSaving
  BY <1>5 DEF HookList, HookEdit, HookSaving, Hook, Consume
<1>6. CASE SrcLong
  BY <1>6 DEF SrcLong
<1>7. CASE SrcShort \/ BtnClick
  <2>1. age' = 0 BY <1>7 DEF SrcShort, BtnClick, Click
  <2> QED BY <1>0, <2>1
<1>8. CASE SrcIdle \/ KnobIdle \/ BtnIdle
  BY <1>8 DEF SrcIdle, KnobIdle, BtnIdle, inputs, cursor
<1>9. CASE Take \/ BtnLong
  <2>1. /\ age' = age /\ state' = state
        /\ (pc = "take" /\ pc' = "enc") \/ (pc = "btn" /\ pc' = "poll")
    BY <1>9 DEF Take, TakeOver, GiveBack, LeaveAlone, BtnLong, cursor
  <2> QED BY <2>1
<1>10. CASE KnobConfig \/ KnobVolume \/ KnobList
  BY <1>10 DEF KnobConfig, KnobVolume, KnobList, Knob
<1>11. CASE Open \/ Write \/ Remove \/ Rename
  BY <1>11 DEF Open, Write, ShortWrite, Remove, Rename, Fail, Leave, SaveKeeps, SaveGoesOn, inputs
<1>12. CASE Apply \/ Restart
  BY <1>12 DEF Apply, Leave, Restart
<1>13. CASE Show \/ ReturnPlayer \/ WiFiLostConnection \/ WiFiReconnected
  BY <1>13 DEF Show, ReturnPlayer, WiFiLostConnection, WiFiReconnected, inputs, cursor
<1>14. CASE UNCHANGED vars BY <1>14 DEF vars, inputs, cursor
<1> QED
  BY <1>1, <1>2, <1>3, <1>4, <1>5, <1>6, <1>7, <1>8, <1>9, <1>10, <1>11, <1>12, <1>13, <1>14
  DEF Next, LoopTask

\* While the network stays up, and no pass alone lasts as long as the timeout, the
\* screen is never left because nobody uses it.
THEOREM NeverClosesItself ==
  ASSUME ~MayLose, MaxPass <= Timeout
  PROVE  Spec => [][~PollTimeout]_vars
<1> DEFINE Inv == TypeOK /\ EditsShown /\ NoLoss /\ Young
<1>1. Init => Inv
  <2>1. Init => NoLoss BY DEF Init, NoLoss
  <2>2. Init => Young BY DEF Init, Young, Active
  <2> QED BY <2>1, <2>2, InitTypeOK DEF Init, EditsShown
<1>2. Inv /\ [Next]_vars => Inv'
  BY TypedStep, NoLossStep, YoungStep
<1>3. Inv => ~PollTimeout
  <2> SUFFICES ASSUME Inv, PollTimeout PROVE FALSE
    OBVIOUS
  <2>1. PICK d \in 0..MaxPass : Active /\ Older(d) > Timeout /\ pc = "poll"
    BY DEF PollTimeout, Pass
  <2> QED BY <2>1, StillYoung
<1> QED BY <1>1, <1>2, <1>3, PTL DEF Spec
=============================================================================
