---------------------------- MODULE TimerExample ----------------------------
(***************************************************************************)
(* timer_example.c (example 18): a repeating timer of the chip interrupts  *)
(* about every second (602000 periods of 0.6 MHz); its call-back sets      *)
(* timer_expired and counts, and main, when it finds the flag set, shows   *)
(* the count and resets it.                                                *)
(*                                                                         *)
(* Time is in ticks, PERIOD of them between two expiries. The variables    *)
(* are not volatile; the build modelled here reads them in every turn (no  *)
(* optimisation). timer_count is a signed int: its overflow, undefined in  *)
(* C, wraps in this build.                                                 *)
(***************************************************************************)
EXTENDS IrqPort, Integers

CONSTANTS
  PERIOD,    \* ticks between two expiries
  Shows,     \* for each terminal: the ticks snprintf() and the print take, at most
  COUNTMOD   \* timer_count wraps at this value (2^32)

TimerAssumption ==
  /\ PERIOD \in Nat \ {0} /\ Shows \subseteq Nat
  /\ COUNTMOD \in Nat /\ COUNTMOD > 2
  /\ Event = {"SPIRDY", "TIMER0"}

VARIABLES
  pc,            \* where main is
  timer_expired, \* the two shared variables
  timer_count,
  disp,          \* the count in disp_str
  shown,         \* the count on the terminal
  repeats,       \* the last print showed the count shown before
  left,          \* ticks to the next expiry
  on,            \* the timer is enabled
  show,          \* what this terminal takes
  busy           \* ticks main has spent on showing

vars == <<irqVars, pc, timer_expired, timer_count, disp, shown, repeats,
          left, on, show, busy>>
appVars == <<pc, timer_expired, timer_count, disp, shown, repeats, left, on, show, busy>>

Step(from, to) == pc = from /\ ctx = "main" /\ pc' = to
-----------------------------------------------------------------------------
Clear ==
  /\ Step("clear", "install")
  /\ ClearEvents({"SPIRDY"})
  /\ UNCHANGED <<timer_expired, timer_count, disp, shown, repeats, left, on, show, busy>>

Install ==
  /\ Step("install", "start")
  /\ InstallIsr
  /\ UNCHANGED <<timer_expired, timer_count, disp, shown, repeats, left, on, show, busy>>

(* The variables are cleared, and the timer is set and enabled.            *)
Start ==
  /\ Step("start", "test")
  /\ timer_expired' = FALSE /\ timer_count' = 0
  /\ on' = TRUE /\ left' = PERIOD
  /\ UNCHANGED <<irqVars, disp, shown, repeats, show, busy>>

(* The flag is found set ...                                               *)
Test ==
  /\ timer_expired
  /\ Step("test", "format")
  /\ UNCHANGED <<irqVars, timer_expired, timer_count, disp, shown, repeats, left, on, show, busy>>

(* ... snprintf() reads the count ...                                      *)
Format ==
  /\ Step("format", "print")
  /\ disp' = timer_count
  /\ UNCHANGED <<irqVars, timer_expired, timer_count, shown, repeats, left, on, show, busy>>

(* ... which is printed ...                                                *)
Display ==
  /\ Step("print", "reset")
  /\ shown' = disp
  /\ repeats' = (shown = disp)
  /\ UNCHANGED <<irqVars, timer_expired, timer_count, disp, left, on, show, busy>>

(* Mutant of Reset: the flag is never reset.                               *)
ResetNothing ==
  /\ Step("reset", "test")
  /\ busy' = 0
  /\ UNCHANGED <<irqVars, timer_expired, timer_count, disp, shown, repeats, left, on, show>>

(* ... and last the flag is reset.                                         *)
Reset ==
  /\ Step("reset", "test")
  /\ timer_expired' = FALSE
  /\ busy' = 0
  /\ UNCHANGED <<irqVars, timer_count, disp, shown, repeats, left, on, show>>

Main == Clear \/ Install \/ Start \/ Test \/ Format \/ Display \/ Reset
-----------------------------------------------------------------------------
(* Mutant of TimerCb: the flag is not set.                                 *)
TimerCbNoFlag ==
  /\ Handle("TIMER0")
  /\ timer_count' = (timer_count + 1) % COUNTMOD
  /\ UNCHANGED <<pc, timer_expired, disp, shown, repeats, left, on, show, busy>>

(* timer_cb.                                                               *)
TimerCb ==
  /\ Handle("TIMER0")
  /\ timer_expired' = TRUE
  /\ timer_count' = (timer_count + 1) % COUNTMOD
  /\ UNCHANGED <<pc, disp, shown, repeats, left, on, show, busy>>

Isr == \/ (TakeIrq \/ TestLine \/ LeaveIsr) /\ UNCHANGED appVars
       \/ TimerCb

(* The timer expires and starts anew.                                      *)
Expire ==
  /\ on /\ left = 0
  /\ left' = PERIOD
  /\ Raise({"TIMER0"})
  /\ UNCHANGED <<pc, timer_expired, timer_count, disp, shown, repeats, on, show, busy>>

(* A tick passes while main shows the count, or has nothing to do; the     *)
(* interrupt, and what main does besides, takes less than one.             *)
Showing == pc \in {"format", "print", "reset"}

Tick ==
  /\ on /\ left > 0
  /\ ctx = "main" /\ ~latched
  /\ pc = "test" => ~timer_expired
  /\ Showing => busy < show
  /\ left' = left - 1
  /\ busy' = IF Showing THEN busy + 1 ELSE busy
  /\ UNCHANGED <<irqVars, pc, timer_expired, timer_count, disp, shown, repeats, on, show>>

Init ==
  /\ IrqInit({"SPIRDY"})
  /\ pc = "clear"
  /\ timer_expired = FALSE /\ timer_count = 0
  /\ disp = 0 /\ shown = 0 /\ repeats = FALSE
  /\ left = 0 /\ on = FALSE
  /\ show \in Shows /\ busy = 0

Next == Main \/ Isr \/ Expire \/ Tick

Spec == Init /\ [][Next]_vars
-----------------------------------------------------------------------------
TypeOK ==
  /\ IrqTypeOK
  /\ pc \in {"clear", "install", "start", "test", "format", "print", "reset"}
  /\ timer_expired \in BOOLEAN /\ on \in BOOLEAN /\ repeats \in BOOLEAN
  /\ {timer_count, disp, shown} \subseteq 0 .. COUNTMOD - 1
  /\ left \in 0 .. PERIOD /\ show \in Shows /\ busy \in 0 .. show

(* No count is shown twice, however long showing takes: an expiry between  *)
(* the print and the reset of the flag does not make main print what it    *)
(* has printed.                                                            *)
NeverRepeats == ~repeats

(* No count is skipped if showing one takes less than a period: the        *)
(* terminal is at most one expiry behind the chip.                         *)
NoneSkipped ==
  show < PERIOD => (timer_count - shown) % COUNTMOD \in {0, 1}
=============================================================================
