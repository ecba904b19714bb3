----------------------------- MODULE TimeKeeper -----------------------------
(***************************************************************************)
(* The two timers of TimeKeeper: the return to the main screen, and the    *)
(* one delayed action (restart of the access point, sleep).  loop1 looks   *)
(* at them once per second in the loop task; the display task and the web  *)
(* server's task set them.                                                 *)
(*                                                                         *)
(* Actions speak of these variables alone; DspTask composes them.          *)
(***************************************************************************)
EXTENDS Integers

CONSTANTS
  Minute,   \* seconds of a minute
  Byte,     \* one more than the largest uint8_t
  Delays    \* the delays, in minutes, that users ask for

ASSUME TimeAssumption ==
  /\ Minute \in Nat \ {0} /\ Byte \in Nat \ {0} /\ Delays \subseteq Nat \ {0}

VARIABLES
  back,        \* _returnPlayerTime is set
  returning,   \* loop1 has found it due and not cleared it yet
  doIn,        \* _doAfterTime: seconds to go, or Off
  callback,    \* _aftercallback
  asking,      \* waitAndDo has set the time and not the callback yet
  wanted,      \* history: seconds to go of what was asked, for each action
  wrapped,     \* history: a delay did not fit into the uint8_t
  early,       \* history: an action before its time, or none at all, was called
  down         \* the device restarts or sleeps

returnTimer == <<back, returning>>
delayed == <<doIn, callback, asking, wanted, wrapped, early>>
timers == <<returnTimer, delayed, down>>

Off == -1
Actions == {"reboot", "sleep"}

\* waitAndDo(minutes * 60): the parameter is a uint8_t.
Seconds(minutes) == (minutes * Minute) % Byte

WaitAndDo(minutes, action) ==
  /\ doIn' = Seconds(minutes)
  /\ wanted' = [wanted EXCEPT ![action] = minutes * Minute]
  /\ wrapped' = (wrapped \/ minutes * Minute >= Byte)

\* Started on its network, or as an access point, which restarts by itself.
TimersInit ==
  /\ back = FALSE /\ returning = FALSE /\ early = FALSE /\ down = FALSE
  /\ asking = FALSE
  /\ \/ /\ doIn = Off /\ callback = "none" /\ wrapped = FALSE
        /\ wanted = [a \in Actions |-> 0]
     \/ \E m \in Delays :
          /\ doIn = Seconds(m) /\ callback = "reboot" /\ wrapped = (m * Minute >= Byte)
          /\ wanted = [a \in Actions |-> IF a = "reboot" THEN m * Minute ELSE 0]

-----------------------------------------------------------------------------
(* Faulty variants, each a plausible bug in one definition below. *)
DueASecondAhead == doIn \in {0, 1}
ForgetReturn == UNCHANGED back
-----------------------------------------------------------------------------
(* The return to the main screen *)

WaitAndReturnPlayer == back' = TRUE

ReturnDue ==
  /\ back /\ ~returning /\ returning' = TRUE
  /\ UNCHANGED <<back, delayed, down>>

\* The request for the main screen follows in DspTask.
Return ==
  /\ returning /\ returning' = FALSE /\ back' = FALSE
  /\ UNCHANGED <<delayed, down>>

-----------------------------------------------------------------------------
(* The delayed action *)

\* A user asks for sleep, at any time: what waits is replaced, its time first.
AskSleep ==
  /\ ~asking /\ asking' = TRUE
  /\ \E m \in Delays : WaitAndDo(m, "sleep")
  /\ UNCHANGED <<returnTimer, callback, early, down>>

SetCallback ==
  /\ asking /\ asking' = FALSE /\ callback' = "sleep"
  /\ UNCHANGED <<returnTimer, doIn, wanted, wrapped, early, down>>

Less(n) == IF n > 0 THEN n - 1 ELSE n

\* A second passes, which is longer than the two assignments of waitAndDo take.
Second ==
  /\ ~asking /\ doIn > 0 /\ doIn' = doIn - 1
  /\ wanted' = [a \in Actions |-> Less(wanted[a])]
  /\ UNCHANGED <<returnTimer, callback, asking, wrapped, early, down>>

Due == doIn = 0

\* Both actions end with the device off or restarted.
DoAfterWait ==
  /\ Due /\ doIn' = Off /\ down' = TRUE
  /\ early' = (early \/ callback = "none" \/ wanted[callback] > 0)
  /\ UNCHANGED <<returnTimer, callback, asking, wanted, wrapped>>

-----------------------------------------------------------------------------
TimersTypeOK ==
  /\ back \in BOOLEAN /\ returning \in BOOLEAN /\ doIn \in {Off} \cup 0..(Byte - 1)
  /\ callback \in Actions \cup {"none"} /\ asking \in BOOLEAN
  /\ wanted \in [Actions -> Nat] /\ wrapped \in BOOLEAN /\ early \in BOOLEAN
  /\ down \in BOOLEAN
=============================================================================
