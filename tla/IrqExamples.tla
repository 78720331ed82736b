---------------------------- MODULE IrqExamples ----------------------------
(***************************************************************************)
(* The examples driven by interrupts, over one processor, one interrupt    *)
(* port and one chip: main.c calls exactly one of them, which never        *)
(* returns. What the examples share is shared here, pc and the state of    *)
(* the chip included; the variables of those that do not run keep their    *)
(* initial values.                                                         *)
(***************************************************************************)
EXTENDS Naturals, FiniteSets

CONSTANTS
  TX_DELAY_MS, XTAL_FREQ_HZ, Calibrations, TX_MS, WAKE_MS, MaxLag, \* example 1d
  Pdoa, Noise,                                                     \* example 2h
  PERIOD, Shows, COUNTMOD,                                         \* example 18
  SEQMOD,                                                          \* examples 2e, 3d
  DFLT_TX_DELAY_MS, RX_TO_TX_DELAY_MS                              \* example 3d

VARIABLES
  app,                                                        \* what main calls
  status, sensing, enabled, latched, isr, ctx, found,         \* IrqPort
  pc, chip, left, shown,
  cal, sleeping, sent, configured, lag, since,                \* TimedSleep
  pdoa_val, last_pdoa_val, cb, rxPdoa,                        \* RxPdoa
  timer_expired, timer_count, disp, repeats, on, show, busy,  \* TimerExample
  dbl, buffer, full, rxSide, hostSide, heard, taken, work,    \* DblBufRx
  tx_delay_ms, seen, seq, timed                               \* TxWaitInt

sleepVars  == <<cal, sleeping, sent, configured, lag, since>>
phaseVars  == <<pdoa_val, last_pdoa_val, cb, rxPdoa>>
timerVars  == <<timer_expired, timer_count, disp, repeats, on, show, busy>>
doubleVars == <<dbl, buffer, full, rxSide, hostSide, heard, taken, work>>
waitVars   == <<tx_delay_ms, seen, seq, timed>>
vars == <<app, status, sensing, enabled, latched, isr, ctx, found, pc, chip, left,
          shown, sleepVars, phaseVars, timerVars, doubleVars, waitVars>>

Sleep  == INSTANCE TimedSleep   WITH Event <- {"SPIRDY"}
Phase  == INSTANCE RxPdoa       WITH Event <- {"SPIRDY", "RXFCG", "RXERR"}
Timer  == INSTANCE TimerExample WITH Event <- {"SPIRDY", "TIMER0"}
Double == INSTANCE DblBufRx     WITH Event <- {"SPIRDY", "RXOK0", "RXOK1"}
Wait   == INSTANCE TxWaitInt    WITH Event <- {"SPIRDY", "TXFRS", "RXFCG", "RXTO", "RXERR"}

ASSUME ExamplesAssumption ==
  /\ Sleep!TimedSleepAssumption
  /\ Phase!RxPdoaAssumption
  /\ Timer!TimerAssumption
  /\ Double!DblBufAssumption
  /\ Wait!TxWaitAssumption

Apps == {"tx_timed_sleep", "simple_rx_pdoa", "timer_example", "double_buffer_rx",
         "tx_wait_resp_int"}
-----------------------------------------------------------------------------
(* Example a runs, and the variables of the others stay.                   *)
Runs(a, others) == app = a /\ UNCHANGED <<app, others>>

SleepRuns  == Runs("tx_timed_sleep",   <<phaseVars, timerVars, doubleVars, waitVars, shown>>)
PhaseRuns  == Runs("simple_rx_pdoa",   <<sleepVars, timerVars, doubleVars, waitVars, left>>)
TimerRuns  == Runs("timer_example",    <<sleepVars, phaseVars, doubleVars, waitVars, chip>>)
DoubleRuns == Runs("double_buffer_rx", <<sleepVars, phaseVars, timerVars, waitVars, left, shown>>)
WaitRuns   == Runs("tx_wait_resp_int", <<sleepVars, phaseVars, timerVars, doubleVars, left, shown>>)

Init ==
  /\ app \in Apps
  /\ Sleep!Init /\ Phase!Init /\ Timer!Init /\ Double!Init /\ Wait!Init

Next ==
  \/ Sleep!Next  /\ SleepRuns
  \/ Phase!Next  /\ PhaseRuns
  \/ Timer!Next  /\ TimerRuns
  \/ Double!Next /\ DoubleRuns
  \/ Wait!Next   /\ WaitRuns

Spec == Init /\ [][Next]_vars

(* The fairness of each example, stated in its module.                     *)
FairSpec ==
  /\ Spec
  /\ WF_vars(Sleep!Next /\ SleepRuns)
  /\ WF_vars(Phase!Isr /\ PhaseRuns) /\ SF_vars(Phase!Main /\ PhaseRuns)
  /\ SF_vars(Phase!LastReturn /\ PhaseRuns) /\ SF_vars(Phase!LastTest /\ PhaseRuns)
  /\ WF_vars(Wait!Main /\ WaitRuns) /\ WF_vars(Wait!Isr /\ WaitRuns)
  /\ WF_vars(Wait!Sent /\ WaitRuns) /\ WF_vars(Wait!Received("RXTO") /\ WaitRuns)
-----------------------------------------------------------------------------
TypeOK ==
  /\ app \in Apps
  /\ app = "tx_timed_sleep"   => Sleep!TypeOK
  /\ app = "simple_rx_pdoa"   => Phase!TypeOK
  /\ app = "timer_example"    => Timer!TypeOK
  /\ app = "double_buffer_rx" => Double!TypeOK
  /\ app = "tx_wait_resp_int" => Wait!TypeOK

(* Example 1d: main sends only on a chip that the call-back has restored.  *)
SendsConfigured == app = "tx_timed_sleep" => Sleep!SendsConfigured

(* Example 1d: the flag main waits on is not set after the wake-up has     *)
(* cleared it.                                                             *)
WakeUpIsSeen == app = "tx_timed_sleep" => Sleep!WakeUpIsSeen

(* Example 1d: the margin in the sleep time keeps the period.              *)
BlinkInTime == app = "tx_timed_sleep" => Sleep!BlinkInTime

(* Examples 1d and 3d: blinks go on for ever.                              *)
AlwaysNextBlink ==
  /\ app = "tx_timed_sleep"   => Sleep!AlwaysNextBlink
  /\ app = "tx_wait_resp_int" => Wait!AlwaysNextBlink

(* Example 2h: quality and value are those of one frame.                   *)
NeverNoise == app = "simple_rx_pdoa" => Phase!NeverNoise

(* Example 2h: a value that stays is shown in the end.                     *)
LastIsShown == app = "simple_rx_pdoa" => Phase!LastIsShown

(* Examples 2h and 2e: the receiver is never left off, nor without a       *)
(* buffer.                                                                 *)
KeepsListening ==
  /\ app = "simple_rx_pdoa"   => Phase!KeepsListening
  /\ app = "double_buffer_rx" => Double!KeepsListening

(* Example 18: a terminal that keeps up shows every count.                 *)
NoneSkipped == app = "timer_example" => Timer!NoneSkipped

(* Example 18: no count is shown twice, however slow the terminal.         *)
NeverRepeats == app = "timer_example" => Timer!NeverRepeats

(* Example 2e: every frame in a buffer is read, once and in order.         *)
NoneLost == app = "double_buffer_rx" => Double!NoneLost

(* Example 3d: process_deca_irq leaves no event of the chip unserved.      *)
EventsServed == app = "tx_wait_resp_int" => Wait!EventsServed

(* Example 3d: main starts a blink only when the one before is over and    *)
(* its end was handled.                                                    *)
StartsIdle == app = "tx_wait_resp_int" => Wait!StartsIdle

(* Example 3d: main's reset of tx_delay_ms wipes out no signal of a        *)
(* call-back.                                                              *)
SignalKept == app = "tx_wait_resp_int" => Wait!SignalKept
=============================================================================
