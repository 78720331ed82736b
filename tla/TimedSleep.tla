----------------------------- MODULE TimedSleep -----------------------------
(***************************************************************************)
(* tx_timed_sleep.c (example 1d): send a blink, put the chip to sleep, and *)
(* wait until its own sleep counter has woken it. The chip forgets its     *)
(* configuration when it sleeps; the SPI-ready call-back restores it and   *)
(* then clears "sleeping", which main has set after dwt_entersleep().      *)
(*                                                                         *)
(* Time is in milliseconds. The sleep count is computed as main does, from *)
(* what dwt_calibratesleepcnt() measured. "sleeping" is not volatile; the  *)
(* build modelled here reads it in every turn (no optimisation).           *)
(***************************************************************************)
EXTENDS IrqPort

CONSTANTS
  TX_DELAY_MS,  \* the period of the blinks main aims at
  XTAL_FREQ_HZ, \* the crystal, in hertz
  Calibrations, \* XTAL cycles per cycle of the chip's low-power oscillator
  TX_MS,        \* time a frame takes
  WAKE_MS,      \* time from the end of the sleep to IDLE_RC
  MaxLag        \* time main or a call-back may take for a step

TimedSleepAssumption ==
  /\ TX_DELAY_MS \in Nat /\ TX_DELAY_MS > 10
  /\ XTAL_FREQ_HZ \in Nat /\ XTAL_FREQ_HZ >= 1000
  /\ Calibrations \subseteq Nat \ {0}
  /\ TX_MS \in Nat \ {0} /\ WAKE_MS \in Nat /\ MaxLag \in Nat
  /\ Event = {"SPIRDY"}

VARIABLES
  cal,        \* this chip's calibration
  pc,         \* where main is
  sleeping,   \* the shared flag
  chip,       \* "idle", "tx", "asleep" or "waking" (awake, not in IDLE_RC)
  left,       \* time to the end of chip's state
  sent,       \* TXFRS is up (polled, not in the interrupt mask)
  configured, \* the chip holds the configuration
  lag,        \* time the host has been late with its next step
  since       \* time since the last blink left, capped

vars == <<irqVars, cal, pc, sleeping, chip, left, sent, configured, lag, since>>
appVars == <<cal, pc, sleeping, chip, left, sent, configured, lag, since>>

SLEEP_TIME_MS == TX_DELAY_MS - 10
Cap == 2 * TX_DELAY_MS

(* Mutants of SleepCount: the counter taken for one of single cycles and   *)
(* of 65536; the margin forgotten with a count rounded up.                 *)
SleepCountNone(c) == ((SLEEP_TIME_MS * (XTAL_FREQ_HZ \div c)) \div 1000) \div 65536
SleepCountUp(c) == ((TX_DELAY_MS * (XTAL_FREQ_HZ \div c)) \div 1000) \div 4096 + 1

(* What main writes to the sleep counter, whose unit is 4096 cycles, and   *)
(* the time the chip then sleeps.                                          *)
SleepCount(c) == ((SLEEP_TIME_MS * (XTAL_FREQ_HZ \div c)) \div 1000) \div 4096

SleepMs(count, c) == (count * 4096 * c) \div (XTAL_FREQ_HZ \div 1000)
-----------------------------------------------------------------------------
(* Main is due for its next step: at a point where nothing keeps it        *)
(* waiting. The call-back is due once the chip is in IDLE_RC.              *)
Ready ==
  \/ pc \in {"clear", "install", "configure", "send", "enter", "mark"}
  \/ pc = "poll" /\ sent
  \/ pc = "spin" /\ ~sleeping

InCallBack == ctx = "isr" /\ found # {}
Busy == IF ctx = "main" THEN Ready ELSE chip # "waking"

Step(from, to) == pc = from /\ ctx = "main" /\ pc' = to /\ lag' = 0

(* Mutant of Clear: the event of the reset is left up.                     *)
ClearNothing ==
  /\ Step("clear", "install")
  /\ ClearEvents({})
  /\ UNCHANGED <<cal, sleeping, chip, left, sent, configured, since>>

(* Before the handler is installed the event of the reset is cleared.      *)
Clear ==
  /\ Step("clear", "install")
  /\ ClearEvents({"SPIRDY"})
  /\ UNCHANGED <<cal, sleeping, chip, left, sent, configured, since>>

Install ==
  /\ Step("install", "configure")
  /\ InstallIsr
  /\ UNCHANGED <<cal, sleeping, chip, left, sent, configured, since>>

(* Sleep count, configuration and call-back are set.                       *)
Configure ==
  /\ Step("configure", "send")
  /\ configured' = TRUE
  /\ UNCHANGED <<irqVars, cal, sleeping, chip, left, sent, since>>

Send ==
  /\ Step("send", "poll")
  /\ chip' = "tx" /\ left' = TX_MS
  /\ UNCHANGED <<irqVars, cal, sleeping, sent, configured, since>>

(* waitforsysstatus returns, and the flag is cleared.                      *)
Poll ==
  /\ sent
  /\ Step("poll", "enter")
  /\ sent' = FALSE
  /\ UNCHANGED <<irqVars, cal, sleeping, chip, left, configured, since>>

EnterSleep ==
  /\ Step("enter", "mark")
  /\ chip' = "asleep" /\ left' = SleepMs(SleepCount(cal), cal)
  /\ configured' = FALSE
  /\ UNCHANGED <<irqVars, cal, sleeping, sent, since>>

(* sleeping = 1, after the chip was told to sleep.                         *)
Mark ==
  /\ Step("mark", "spin")
  /\ sleeping' = TRUE
  /\ UNCHANGED <<irqVars, cal, chip, left, sent, configured, since>>

(* The flag is down; the number of the next blink is left out.             *)
Awake ==
  /\ ~sleeping
  /\ Step("spin", "send")
  /\ UNCHANGED <<irqVars, cal, sleeping, chip, left, sent, configured, since>>

Main == Clear \/ Install \/ Configure \/ Send \/ Poll \/ EnterSleep \/ Mark \/ Awake
-----------------------------------------------------------------------------
(* Mutant of SpiReady: the flag only.                                      *)
SpiReadyNoRestore ==
  /\ Handle("SPIRDY")
  /\ chip # "waking"
  /\ sleeping' = FALSE
  /\ lag' = 0
  /\ UNCHANGED <<cal, pc, chip, left, sent, configured, since>>

(* spi_ready_cb waits for IDLE_RC, restores the configuration and tells    *)
(* main.                                                                   *)
SpiReady ==
  /\ Handle("SPIRDY")
  /\ chip # "waking"
  /\ configured' = TRUE
  /\ sleeping' = FALSE
  /\ lag' = 0
  /\ UNCHANGED <<cal, pc, chip, left, sent, since>>

Isr ==
  \/ /\ TakeIrq \/ TestLine \/ LeaveIsr
     /\ lag' = 0
     /\ UNCHANGED <<cal, pc, sleeping, chip, left, sent, configured, since>>
  \/ SpiReady
-----------------------------------------------------------------------------
(* The chip.                                                               *)

(* It works on something that takes time.                                  *)
Timed == chip # "idle"

Sent ==
  /\ chip = "tx" /\ left = 0
  /\ chip' = "idle" /\ sent' = TRUE /\ since' = 0
  /\ UNCHANGED <<irqVars, cal, pc, sleeping, left, configured, lag>>

WakeUp ==
  /\ chip = "asleep" /\ left = 0
  /\ chip' = "waking" /\ left' = WAKE_MS
  /\ Raise({"SPIRDY"})
  /\ UNCHANGED <<cal, pc, sleeping, sent, configured, lag, since>>

IdleRc ==
  /\ chip = "waking" /\ left = 0
  /\ chip' = "idle"
  /\ UNCHANGED <<irqVars, cal, pc, sleeping, left, sent, configured, lag, since>>

(* A millisecond. Entering and leaving the interrupt takes far less.       *)
Tick ==
  /\ Timed => left > 0
  /\ (ctx = "main" /\ ~(enabled /\ latched)) \/ InCallBack
  /\ Busy => lag < MaxLag
  /\ left'  = IF Timed THEN left - 1 ELSE left
  /\ lag'   = IF Busy THEN lag + 1 ELSE 0
  /\ since' = IF since < Cap THEN since + 1 ELSE since
  /\ UNCHANGED <<irqVars, cal, pc, sleeping, chip, sent, configured>>

Init ==
  /\ IrqInit({"SPIRDY"})
  /\ cal \in Calibrations
  /\ pc = "clear"
  /\ sleeping = FALSE
  /\ chip = "idle" /\ left = 0
  /\ sent = FALSE /\ configured = FALSE
  /\ lag = 0 /\ since = 0

Next == Main \/ Isr \/ Sent \/ WakeUp \/ IdleRc \/ Tick

Spec == Init /\ [][Next]_vars

(* Time passes, and MaxLag then forces the host and the chip to act.       *)
FairSpec == Spec /\ WF_vars(Next)
-----------------------------------------------------------------------------
(* lp_osc_freq and sleep_cnt fit their 16 bits, and the count is not 0.    *)
TypeOK ==
  /\ IrqTypeOK
  /\ cal \in Calibrations
  /\ XTAL_FREQ_HZ \div cal < 2^16 /\ SleepCount(cal) \in 1 .. 2^16 - 1
  /\ pc \in {"clear", "install", "configure", "send", "poll", "enter", "mark", "spin"}
  /\ sleeping \in BOOLEAN /\ sent \in BOOLEAN /\ configured \in BOOLEAN
  /\ chip \in {"idle", "tx", "asleep", "waking"}
  /\ left \in Nat /\ lag \in 0 .. MaxLag /\ since \in 0 .. Cap

(* The chip is awake, in IDLE and configured whenever main sends, though   *)
(* it is the call-back that waits for it and restores it.                  *)
SendsConfigured == pc \in {"send", "poll"} => configured /\ chip \in {"idle", "tx"}

(* The flag that main waits on is not set after the wake-up has cleared    *)
(* it: while main spins the chip sleeps or its event is still unhandled.   *)
(* It holds because the shortest sleep is longer than main needs from      *)
(* dwt_entersleep() to "sleeping = 1".                                     *)
WakeUpIsSeen ==
  pc = "spin" /\ sleeping => chip \in {"asleep", "waking"} \/ "SPIRDY" \in status

(* SLEEP_TIME_MS leaves a margin "so that the DW IC has the time to wake   *)
(* up and prepare the next frame": the next blink is out TX_DELAY_MS after *)
(* the last at the latest, for every frequency of the oscillator.          *)
BlinkInTime == since <= TX_DELAY_MS

AlwaysNextBlink == []<>(pc = "send")
=============================================================================
