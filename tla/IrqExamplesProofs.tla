------------------------- MODULE IrqExamplesProofs -------------------------
(***************************************************************************)
(* What the examples driven by interrupts keep on the port, the chip and   *)
(* the processor that they share: for each of them an invariant, over what *)
(* the port gives to all.                                                  *)
(***************************************************************************)
EXTENDS IrqExamples, Integers, TLAPS

(* Example 3d. The interrupt and its handler, before and after the         *)
(* installation.                                                           *)
Setup   == pc \in {"clear", "install"}
AtWait  == pc \in {"load", "test"}
RxEvent == {"RXFCG", "RXTO", "RXERR"}

WaitPort ==
  /\ Setup => chip = "idle" /\ ctx = "main" /\ ~enabled /\ tx_delay_ms = Wait!NoEvent
  /\ Setup => status \subseteq (IF pc = "clear" THEN {"SPIRDY"} ELSE {})
  /\ ~Setup => isr /\ enabled /\ sensing
  /\ found \subseteq status
  /\ ctx = "main" => found = {}

(* One reception, one event: until it is there nothing is signalled, and   *)
(* when it is the chip has stopped.                                        *)
OneEvent ==
  /\ chip # "idle" => AtWait /\ status \cap RxEvent = {} /\ tx_delay_ms = Wait!NoEvent
  /\ status \cap RxEvent # {} => tx_delay_ms = Wait!NoEvent
  /\ \A e, f \in status \cap RxEvent : e = f

(* Once main has seen the signal nothing is left to be handled.            *)
Quiet ==
  /\ AtWait /\ tx_delay_ms # Wait!NoEvent /\ ctx = "main" => status = {}
  /\ pc = "test" /\ seen # Wait!NoEvent => chip = "idle" /\ status = {}
  /\ pc \in {"rest", "reset", "start"} => chip = "idle" /\ status = {}
  /\ pc = "start" => tx_delay_ms = Wait!NoEvent
  /\ pc = "test" /\ seen # Wait!NoEvent => tx_delay_ms # Wait!NoEvent

WaitInv == /\ Wait!TypeOK /\ WaitPort /\ OneEvent /\ Quiet
           /\ Wait!EventsServed /\ Wait!SignalKept

WaitHolds == app = "tx_wait_resp_int" => WaitInv

(* What the call-backs of the receive events signal is never "no event",   *)
(* and the others signal nothing.                                          *)
LEMMA SignalTold ==
  /\ \A e \in RxEvent : Wait!Signal(e) \in Wait!Delays \ {Wait!NoEvent}
  /\ \A e : e \notin RxEvent => Wait!Signal(e) = tx_delay_ms
BY ExamplesAssumption
   DEF ExamplesAssumption, Wait!TxWaitAssumption, RxEvent, Wait!Signal, Wait!Delays,
       Wait!NoEvent, Wait!RX_ERR_TX_DELAY_MS

(* The example starts so.                                                  *)
LEMMA WaitInit == Init => WaitHolds
<1> SUFFICES ASSUME Wait!Init PROVE WaitInv
  BY DEF Init, WaitHolds
<1> USE DEF Wait!Init, Wait!IrqInit, Setup, AtWait
<1>1. Wait!TypeOK
  <2>1. Wait!IrqTypeOK
    BY DEF Wait!IrqTypeOK
  <2>2. seq \in 0 .. SEQMOD - 1
    BY ExamplesAssumption DEF ExamplesAssumption, Wait!TxWaitAssumption
  <2> QED BY <2>1, <2>2 DEF Wait!TypeOK, Wait!Delays
<1>2. WaitPort /\ OneEvent
  BY DEF WaitPort, OneEvent, RxEvent
<1>3. Quiet /\ Wait!EventsServed /\ Wait!SignalKept
  BY DEF Quiet, Wait!EventsServed, Wait!SignalKept
<1> QED BY <1>1, <1>2, <1>3 DEF WaitInv

(* A step of main keeps it.                                                *)
LEMMA WaitMain == WaitInv /\ Wait!Main => WaitInv'
<1> SUFFICES ASSUME WaitInv, Wait!Main PROVE WaitInv'
  OBVIOUS
<1>0. SEQMOD \in Nat \ {0}
  BY ExamplesAssumption DEF ExamplesAssumption, Wait!TxWaitAssumption
<1> USE <1>0 DEF WaitInv, Wait!TypeOK, Wait!IrqTypeOK, WaitPort, OneEvent, Quiet,
                 Wait!EventsServed, Wait!Served, Wait!SignalKept, Setup, AtWait, Wait!Line,
                 RxEvent, Wait!RxEvent
<1>1. CASE Wait!Clear
  BY <1>1 DEF Wait!Clear, Wait!ClearEvents
<1>2. CASE Wait!Install
  BY <1>2 DEF Wait!Install, Wait!InstallIsr, Wait!EnableIrq
<1>3. CASE Wait!Start
  BY <1>3 DEF Wait!Start, Wait!irqVars
<1>4. CASE Wait!Load
  BY <1>4 DEF Wait!Load, Wait!irqVars
<1>5. CASE Wait!Test
  BY <1>5 DEF Wait!Test, Wait!irqVars
<1>6. CASE Wait!Rest
  BY <1>6 DEF Wait!Rest, Wait!irqVars
<1>7. CASE Wait!Reset
  BY <1>7 DEF Wait!Reset, Wait!irqVars, Wait!Delays
<1> QED BY <1>1, <1>2, <1>3, <1>4, <1>5, <1>6, <1>7 DEF Wait!Main

(* A call-back keeps it.                                                   *)
LEMMA WaitCallBack ==
  ASSUME WaitInv, NEW e, Wait!CallBack(e)
  PROVE  WaitInv'
<1> USE DEF WaitInv, Wait!CallBack, Wait!Handle
<1>1. Wait!TypeOK'
  BY SignalTold DEF Wait!TypeOK, Wait!IrqTypeOK
<1>2. WaitPort'
  BY DEF WaitPort, Setup
<1>3. OneEvent'
  BY SignalTold DEF OneEvent, AtWait, WaitPort, Setup, Wait!TypeOK, Wait!IrqTypeOK
<1>4. Quiet'
  BY SignalTold DEF Quiet, AtWait, OneEvent, WaitPort, Wait!TypeOK, Wait!IrqTypeOK
<1>5. Wait!EventsServed' /\ Wait!SignalKept'
  BY SignalTold DEF Wait!EventsServed, Wait!Served, Wait!SignalKept, Wait!Line, RxEvent,
                    Wait!RxEvent
<1> QED BY <1>1, <1>2, <1>3, <1>4, <1>5

(* The rest of the interrupt keeps it.                                     *)
LEMMA WaitIsr == WaitInv /\ Wait!Isr => WaitInv'
<1> SUFFICES ASSUME WaitInv, Wait!Isr PROVE WaitInv'
  OBVIOUS
<1> USE DEF WaitInv, Wait!TypeOK, Wait!IrqTypeOK, WaitPort, OneEvent, Quiet,
            Wait!EventsServed, Wait!Served, Wait!SignalKept, Setup, AtWait, Wait!Line,
            RxEvent, Wait!RxEvent
<1>1. CASE Wait!TakeIrq /\ UNCHANGED <<pc, tx_delay_ms, seen, seq, chip, timed>>
  BY <1>1 DEF Wait!TakeIrq
<1>2. CASE Wait!TestLine /\ UNCHANGED <<pc, tx_delay_ms, seen, seq, chip, timed>>
  BY <1>2 DEF Wait!TestLine
<1>3. CASE Wait!LeaveIsr /\ UNCHANGED <<pc, tx_delay_ms, seen, seq, chip, timed>>
  BY <1>3 DEF Wait!LeaveIsr
<1>4. CASE \E e : Wait!CallBack(e)
  BY <1>4, WaitCallBack
<1> QED BY <1>1, <1>2, <1>3, <1>4 DEF Wait!Isr

(* The chip keeps it.                                                      *)
LEMMA WaitChip ==
  WaitInv /\ (Wait!Sent \/ \E e \in RxEvent : Wait!Received(e)) => WaitInv'
<1> USE DEF WaitInv, Wait!TypeOK, Wait!IrqTypeOK, WaitPort, OneEvent, Quiet,
            Wait!EventsServed, Wait!Served, Wait!SignalKept, Setup, AtWait, Wait!Line,
            RxEvent, Wait!RxEvent, Wait!Raise
<1>1. WaitInv /\ Wait!Sent => WaitInv'
  BY DEF Wait!Sent
<1>2. ASSUME WaitInv, NEW e \in RxEvent, Wait!Received(e) PROVE WaitInv'
  BY <1>2 DEF Wait!Received
<1> QED BY <1>1, <1>2

(* The example's invariant holds whenever main calls it: a step of the     *)
(* composition is one of the example, or leaves its variables alone.       *)
LEMMA WaitInvariance == Spec => []WaitHolds
<1>1. WaitHolds /\ [Next]_vars => WaitHolds'
  <2> SUFFICES ASSUME WaitHolds, [Next]_vars, app' = "tx_wait_resp_int"
               PROVE  WaitInv'
    BY DEF WaitHolds
  <2>1. CASE Next
    <3>1. Wait!Next /\ WaitRuns
      BY <2>1 DEF Next, SleepRuns, PhaseRuns, TimerRuns, DoubleRuns, Runs
    <3> QED
      BY <3>1, WaitMain, WaitIsr, WaitChip
         DEF Wait!Next, Wait!RxEvent, RxEvent, WaitRuns, Runs, WaitHolds
  <2>2. CASE UNCHANGED vars
    BY <2>2 DEF WaitHolds, vars, waitVars, WaitInv, Wait!TypeOK, Wait!IrqTypeOK, WaitPort,
                OneEvent, Quiet, Wait!EventsServed, Wait!Served, Wait!SignalKept, Setup,
                AtWait, Wait!Line
  <2> QED BY <2>1, <2>2
<1> QED BY WaitInit, <1>1, PTL DEF Spec

(* process_deca_irq leaves no event without the driver's handler.          *)
THEOREM AllEventsServed == Spec => []EventsServed
<1>1. WaitHolds => EventsServed
  BY DEF WaitHolds, WaitInv, EventsServed
<1> QED BY <1>1, WaitInvariance, PTL

(* A blink starts only when the one before is over and handled.            *)
THEOREM AlwaysStartsIdle == Spec => []StartsIdle
<1>1. WaitHolds => StartsIdle
  BY DEF WaitHolds, WaitInv, StartsIdle, Quiet, Wait!StartsIdle, Wait!Line
<1> QED BY <1>1, WaitInvariance, PTL

(* Main's reset of tx_delay_ms wipes out no signal.                        *)
THEOREM SignalAlwaysKept == Spec => []SignalKept
<1>1. WaitHolds => SignalKept
  BY DEF WaitHolds, WaitInv, SignalKept
<1> QED BY <1>1, WaitInvariance, PTL
-----------------------------------------------------------------------------
(* What examples 1d, 2h and 2e have in common: until the handler is there  *)
(* only the event of the reset is up; afterwards no edge is consumed       *)
(* without the line being looked at.                                       *)
Port ==
  /\ latched \in BOOLEAN
  /\ Setup => ctx = "main" /\ ~enabled
  /\ pc = "clear" => status \subseteq {"SPIRDY"}
  /\ pc = "install" => status = {}
  /\ ~Setup => isr /\ enabled /\ sensing /\ (status # {} => latched \/ ctx # "main")
  /\ found \subseteq status /\ (ctx = "main" => found = {})

(* The events that end a reception, at most one of which is up. Once main  *)
(* is in its loop, and no call-back is at work, one is or the chip         *)
(* receives.                                                               *)
RxEnd == {"RXFCG", "RXERR"}

Reception(loop, atWork) ==
  /\ ~(Setup \/ loop) => chip = "idle" /\ ctx = "main" /\ status = {} /\ ~latched
  /\ Setup => chip = "idle"
  /\ chip \in {"idle", "rx"}
  /\ chip = "rx" => status \cap RxEnd = {}
  /\ \A e, f \in status \cap RxEnd : e = f
  /\ loop => chip = "rx" \/ atWork \/ status \cap RxEnd # {}

(* Example 2h: rx_ok_cb works between a reception and the next, and reads  *)
(* the value of a frame whose quality it found good.                       *)
PhaseLoop == pc \in {"test", "copy", "print"}

PhaseInv ==
  /\ pc \in {"clear", "install", "enable"} \/ PhaseLoop
  /\ Port
  /\ Reception(PhaseLoop, cb # "none")
  /\ cb # "none" => ctx = "isr" /\ chip = "idle" /\ status \cap RxEnd = {} /\ ~Setup
  /\ cb \in {"none", "value", "enable"}
  /\ cb = "value" => rxPdoa # Noise
  /\ pdoa_val # Noise

PhaseHolds == app = "simple_rx_pdoa" => PhaseInv

(* The example starts so.                                                  *)
LEMMA PhaseInit == Init => PhaseHolds
BY ExamplesAssumption
   DEF ExamplesAssumption, Phase!RxPdoaAssumption, Init, Phase!Init, Phase!IrqInit, PhaseInv, PhaseHolds,
       PhaseLoop, Port, Setup, Reception, RxEnd

(* A step of main keeps it.                                                *)
LEMMA PhaseMain == PhaseInv /\ Phase!Main => PhaseInv'
<1> SUFFICES ASSUME PhaseInv, Phase!Main PROVE PhaseInv'
  OBVIOUS
<1> USE DEF PhaseInv, PhaseLoop, Port, Setup, Reception, RxEnd, Phase!Step, Phase!irqVars
<1>1. CASE Phase!Clear
  BY <1>1 DEF Phase!Clear, Phase!ClearEvents
<1>2. CASE Phase!Install
  BY <1>2 DEF Phase!Install, Phase!InstallIsr, Phase!EnableIrq, Phase!Line
<1>3. CASE Phase!Enable
  BY <1>3 DEF Phase!Enable
<1>4. CASE Phase!Test
  BY <1>4 DEF Phase!Test
<1>5. CASE Phase!Copy
  BY <1>5 DEF Phase!Copy
<1>6. CASE Phase!Display
  BY <1>6 DEF Phase!Display
<1> QED BY <1>1, <1>2, <1>3, <1>4, <1>5, <1>6 DEF Phase!Main

(* The interrupt and its call-backs keep it.                               *)
LEMMA PhaseIsr == PhaseInv /\ Phase!Isr => PhaseInv'
<1> SUFFICES ASSUME PhaseInv, Phase!Isr PROVE PhaseInv'
  OBVIOUS
<1> USE DEF PhaseInv, PhaseLoop, Port, Setup, Reception, RxEnd, Phase!irqVars, Phase!appVars,
            Phase!Line, Phase!Handle
<1>1. CASE Phase!TakeIrq /\ UNCHANGED Phase!appVars
  BY <1>1 DEF Phase!TakeIrq
<1>2. CASE Phase!TestLine /\ UNCHANGED Phase!appVars
  BY <1>2 DEF Phase!TestLine
<1>3. CASE cb = "none" /\ Phase!LeaveIsr /\ UNCHANGED Phase!appVars
  BY <1>3 DEF Phase!LeaveIsr
<1>4. CASE Phase!RxOk
  BY <1>4 DEF Phase!RxOk
<1>5. CASE Phase!ReadValue
  BY <1>5 DEF Phase!ReadValue
<1>6. CASE Phase!ReEnable
  BY <1>6 DEF Phase!ReEnable
<1>7. CASE Phase!RxError
  BY <1>7 DEF Phase!RxError
<1> QED BY <1>1, <1>2, <1>3, <1>4, <1>5, <1>6, <1>7 DEF Phase!Isr

(* The chip keeps it.                                                      *)
LEMMA PhaseChip ==
  PhaseInv /\ ((\E v \in Pdoa \cup {Noise} : Phase!Receive(v)) \/ Phase!Fail) => PhaseInv'
<1> USE DEF PhaseInv, PhaseLoop, Port, Setup, Reception, RxEnd, Phase!Raise, Phase!Line
<1>1. ASSUME PhaseInv, NEW v \in Pdoa \cup {Noise}, Phase!Receive(v) PROVE PhaseInv'
  BY <1>1 DEF Phase!Receive
<1>2. ASSUME PhaseInv, Phase!Fail PROVE PhaseInv'
  BY <1>2 DEF Phase!Fail
<1> QED BY <1>1, <1>2

(* A step of the composition is one of the example, or leaves its          *)
(* variables alone.                                                        *)
LEMMA PhaseInvariance == Spec => []PhaseHolds
<1>1. PhaseHolds /\ [Next]_vars => PhaseHolds'
  <2> SUFFICES ASSUME PhaseHolds, [Next]_vars, app' = "simple_rx_pdoa" PROVE PhaseInv'
    BY DEF PhaseHolds
  <2>1. CASE Next
    <3>1. Phase!Next /\ PhaseRuns
      BY <2>1 DEF Next, SleepRuns, TimerRuns, DoubleRuns, WaitRuns, Runs
    <3> QED BY <3>1, PhaseMain, PhaseIsr, PhaseChip DEF Phase!Next, PhaseRuns, Runs, PhaseHolds
  <2>2. CASE UNCHANGED vars
    BY <2>2 DEF PhaseHolds, vars, phaseVars, PhaseInv, PhaseLoop, Port, Setup, Reception, RxEnd
  <2> QED BY <2>1, <2>2
<1> QED BY PhaseInit, <1>1, PTL DEF Spec

(* Example 2h: what main shows is never the value of a frame with a bad    *)
(* STS, whatever is received while rx_ok_cb asks for the quality.          *)
THEOREM NoiseNeverTaken == Spec => []NeverNoise
<1>1. PhaseHolds => NeverNoise
  BY DEF PhaseHolds, PhaseInv, NeverNoise, Phase!NeverNoise
<1> QED BY <1>1, PhaseInvariance, PTL
-----------------------------------------------------------------------------
(* Example 2e: the receiver works on while the host reads, so that two     *)
(* frames may wait. The full buffers are those signalled and not freed,    *)
(* the host's first, and they hold the frames after the one taken.         *)
After(n) == (n + 1) % SEQMOD

Numbers ==
  /\ rxSide \in {0, 1} /\ hostSide \in {0, 1}
  /\ heard \in 0 .. SEQMOD - 1 /\ taken \in 0 .. SEQMOD - 1
  /\ buffer \in [{0, 1} -> 0 .. SEQMOD - 1]
  /\ full \subseteq {0, 1}
  /\ work \in {"none", "read", "free"}

Signals ==
  /\ \A side \in {0, 1} :
       side \in full <=> \/ Double!RxOkOf(side) \in status
                         \/ work # "none" /\ side = hostSide
  /\ work # "none" => Double!RxOkOf(hostSide) \notin status

Buffers ==
  LET next == 1 - hostSide IN
  /\ next \in full => hostSide \in full
  /\ rxSide = (IF hostSide \in full /\ next \notin full THEN next ELSE hostSide)
  /\ work # "free" =>
       /\ hostSide \notin full => heard = taken
       /\ hostSide \in full => buffer[hostSide] = After(taken)
       /\ hostSide \in full /\ next \notin full => heard = After(taken)
       /\ next \in full => heard = After(After(taken)) /\ buffer[next] = heard
  /\ work = "free" =>
       /\ next \notin full => heard = taken
       /\ next \in full => heard = After(taken) /\ buffer[next] = heard

DoubleInv ==
  /\ pc \in {"clear", "install", "mode", "enable", "loop"}
  /\ Port
  /\ pc \in {"mode", "enable"} => ctx = "main" /\ status = {} /\ ~latched
  /\ chip = (IF pc = "loop" THEN "rx" ELSE "idle")
  /\ dbl \in BOOLEAN /\ (pc \in {"enable", "loop"} => dbl)
  /\ work # "none" => ctx = "isr" /\ pc = "loop"
  /\ Numbers /\ Signals /\ Buffers

(* Counting modulo SEQMOD.                                                 *)
LEMMA AfterProps ==
  ASSUME NEW t \in 0 .. SEQMOD - 1
  PROVE  /\ After(t) \in 0 .. SEQMOD - 1
         /\ (t - t) % SEQMOD = 0
         /\ (After(t) - t) % SEQMOD = 1
         /\ (After(After(t)) - t) % SEQMOD = 2
<1>1. SEQMOD \in Nat /\ SEQMOD > 3
  BY ExamplesAssumption DEF ExamplesAssumption, Double!DblBufAssumption
<1>2. CASE t < SEQMOD - 2
  <2>1. After(t) = t + 1 /\ After(t + 1) = t + 2
    BY <1>1, <1>2 DEF After
  <2> QED BY <1>1, <1>2, <2>1
<1>3. CASE t = SEQMOD - 2
  <2>1. After(t) = t + 1 /\ After(t + 1) = 0
    BY <1>1, <1>3 DEF After
  <2> QED BY <1>1, <1>3, <2>1
<1>4. CASE t = SEQMOD - 1
  <2>1. After(t) = 0 /\ After(0) = 1
    BY <1>1, <1>4 DEF After
  <2> QED BY <1>1, <1>4, <2>1
<1> QED BY <1>1, <1>2, <1>3, <1>4

DoubleHolds == app = "double_buffer_rx" => DoubleInv

(* The example starts so.                                                  *)
LEMMA DoubleInit == Init => DoubleHolds
<1> SUFFICES ASSUME Double!Init PROVE DoubleInv
  BY DEF Init, DoubleHolds
<1> USE DEF Double!Init, Double!IrqInit, Double!Side
<1>1. Port
  BY DEF Port, Setup
<1>2. 0 \in 0 .. SEQMOD - 1
  BY ExamplesAssumption DEF ExamplesAssumption, Double!DblBufAssumption
<1>3. Numbers /\ Signals /\ Buffers
  BY <1>2 DEF Numbers, Signals, Buffers, Double!RxOkOf
<1> QED BY <1>1, <1>3 DEF DoubleInv

(* A step of main keeps it.                                                *)
LEMMA DoubleMain ==
  DoubleInv /\ (Double!Clear \/ Double!Install \/ Double!SetMode \/ Double!Enable) => DoubleInv'
<1> SUFFICES ASSUME DoubleInv, Double!Clear \/ Double!Install \/ Double!SetMode \/ Double!Enable
             PROVE  DoubleInv'
  OBVIOUS
<1> USE DEF DoubleInv, Port, Setup, Double!Step, Double!irqVars
<1>1. /\ UNCHANGED <<buffer, full, rxSide, hostSide, heard, taken, work>>
      /\ status' \in {status, status \ {"SPIRDY"}}
  BY DEF Double!Clear, Double!ClearEvents, Double!Install, Double!InstallIsr, Double!SetMode,
         Double!Enable
<1>2. Numbers' /\ Signals' /\ Buffers'
  BY <1>1 DEF Numbers, Signals, Buffers, Double!RxOkOf
<1>3. CASE Double!Clear
  BY <1>2, <1>3 DEF Double!Clear, Double!ClearEvents
<1>4. CASE Double!Install
  BY <1>2, <1>4 DEF Double!Install, Double!InstallIsr, Double!EnableIrq, Double!Line
<1>5. CASE Double!SetMode
  BY <1>2, <1>5 DEF Double!SetMode
<1>6. CASE Double!Enable
  BY <1>2, <1>6 DEF Double!Enable
<1> QED BY <1>3, <1>4, <1>5, <1>6

(* The interrupt and its call-back keep it.                                *)
LEMMA DoubleIsr == DoubleInv /\ Double!Isr => DoubleInv'
<1> SUFFICES ASSUME DoubleInv, Double!Isr PROVE DoubleInv'
  OBVIOUS
<1> USE DEF DoubleInv, Port, Setup, Double!irqVars, Double!appVars, Double!Line, Double!Handle
<1>1. CASE (Double!TakeIrq \/ Double!TestLine \/ (work = "none" /\ Double!LeaveIsr))
           /\ UNCHANGED Double!appVars
  <2>1. Numbers' /\ Signals' /\ Buffers'
    BY <1>1 DEF Numbers, Signals, Buffers, Double!TakeIrq, Double!TestLine, Double!LeaveIsr
  <2>2. CASE Double!TakeIrq
    BY <1>1, <2>1, <2>2 DEF Double!TakeIrq
  <2>3. CASE Double!TestLine
    BY <1>1, <2>1, <2>3 DEF Double!TestLine
  <2>4. CASE work = "none" /\ Double!LeaveIsr
    BY <1>1, <2>1, <2>4 DEF Double!LeaveIsr
  <2> QED BY <1>1, <2>2, <2>3, <2>4
<1>2. CASE Double!RxOk
  <2> USE <1>2 DEF Double!RxOk
  <2>1. Numbers' /\ Signals' /\ Buffers'
    BY DEF Numbers, Signals, Buffers, Double!RxOkOf
  <2>2. pc = "loop"
    BY DEF Signals, Numbers, Double!RxOkOf
  <2> QED BY <2>1, <2>2
<1>3. CASE Double!ReadData
  <2> USE <1>3 DEF Double!ReadData
  <2>1. hostSide \in full /\ taken' = After(taken) /\ taken' \in 0 .. SEQMOD - 1
    BY DEF Numbers, Signals, Buffers
  <2>2. Numbers' /\ Signals'
    BY <2>1 DEF Numbers, Signals
  <2>3. Buffers'
    BY <2>1 DEF Numbers, Buffers
  <2> QED BY <2>2, <2>3
<1>4. CASE Double!Free
  <2> USE <1>4 DEF Double!Free
  <2>1. dbl /\ hostSide' = 1 - hostSide
    BY DEF Double!Other
  <2>2. (hostSide' \in full' <=> 1 - hostSide \in full) /\ hostSide \notin full'
    BY <2>1 DEF Numbers
  <2>3. Numbers'
    BY <2>1 DEF Numbers
  <2>4. Signals'
    <3>1. work' = "none" /\ status' = status /\ full' = full \ {hostSide}
      OBVIOUS
    <3> QED BY <3>1 DEF Numbers, Signals, Double!RxOkOf
  <2>5. Buffers'
    <3>1. /\ work = "free" /\ work' = "free" => FALSE
          /\ UNCHANGED <<rxSide, heard, taken, buffer>>
      OBVIOUS
    <3>2. 1 - hostSide' = hostSide
      BY <2>1 DEF Numbers
    <3>3. /\ hostSide \notin full'
          /\ rxSide = (IF 1 - hostSide \notin full THEN 1 - hostSide ELSE hostSide)
          /\ 1 - hostSide \notin full => heard = taken
          /\ 1 - hostSide \in full => heard = After(taken) /\ buffer[1 - hostSide] = heard
      BY <2>2, <3>1 DEF Signals, Numbers, Buffers
    <3> QED BY <2>1, <2>2, <3>1, <3>2, <3>3 DEF Buffers
  <2> QED BY <2>3, <2>4, <2>5
<1> QED BY <1>1, <1>2, <1>3, <1>4 DEF Double!Isr

(* The chip keeps it: it writes the buffer after the last full one.        *)
LEMMA DoubleChip == DoubleInv /\ Double!Receive => DoubleInv'
<1> SUFFICES ASSUME DoubleInv, Double!Receive PROVE DoubleInv'
  OBVIOUS
<1> USE DEF DoubleInv, Double!Receive, Double!Raise
<1>1. /\ pc = "loop" /\ dbl /\ rxSide' = 1 - rxSide
      /\ heard' = After(heard) /\ heard' \in 0 .. SEQMOD - 1
  BY AfterProps DEF Numbers, After, Double!Other
<1>2. Port'
  BY <1>1 DEF Port, Setup, Double!Line
<1>3. Numbers'
  BY <1>1 DEF Numbers
<1>4. Signals'
  <2>1. /\ full' = full \cup {rxSide} /\ status' = status \cup {Double!RxOkOf(rxSide)}
        /\ UNCHANGED <<hostSide, work>> /\ rxSide \notin full
        /\ hostSide \in {0, 1} /\ rxSide \in {0, 1} /\ full \subseteq {0, 1}
    BY DEF Numbers
  <2>2. \A side \in {0, 1} : Double!RxOkOf(side)' = Double!RxOkOf(side)
    BY DEF Double!RxOkOf
  <2>3. Double!RxOkOf(0) # Double!RxOkOf(1)
    BY DEF Double!RxOkOf
  <2> QED BY <2>1, <2>2, <2>3 DEF Signals
<1>5. Buffers'
  <2>1. /\ full' = full \cup {rxSide} /\ rxSide \notin full
        /\ buffer' = [buffer EXCEPT ![rxSide] = After(heard)] /\ heard' = After(heard)
        /\ UNCHANGED <<hostSide, work, taken>>
        /\ hostSide \in {0, 1} /\ rxSide \in {0, 1} /\ rxSide' = 1 - rxSide
        /\ full \subseteq {0, 1} /\ buffer \in [{0, 1} -> 0 .. SEQMOD - 1]
    BY <1>1 DEF Numbers
  <2>2. work = "free" => hostSide \in full
    BY <2>1 DEF Signals
  <2>3. CASE hostSide = 0
    BY <2>1, <2>2, <2>3 DEF Buffers
  <2>4. CASE hostSide = 1
    BY <2>1, <2>2, <2>4 DEF Buffers
  <2> QED BY <2>1, <2>3, <2>4
<1> QED BY <1>1, <1>2, <1>3, <1>4, <1>5

(* The example's invariant holds whenever main calls it.                   *)
LEMMA DoubleInvariance == Spec => []DoubleHolds
<1>1. DoubleHolds /\ [Next]_vars => DoubleHolds'
  <2> SUFFICES ASSUME DoubleHolds, [Next]_vars, app' = "double_buffer_rx"
               PROVE  DoubleInv'
    BY DEF DoubleHolds
  <2>1. CASE Next
    <3>1. Double!Next /\ DoubleRuns
      BY <2>1 DEF Next, SleepRuns, TimerRuns, PhaseRuns, WaitRuns, Runs
    <3> QED BY <3>1, DoubleMain, DoubleIsr, DoubleChip DEF Double!Next, DoubleRuns, Runs, DoubleHolds
  <2>2. CASE UNCHANGED vars
    BY <2>2 DEF DoubleHolds, vars, doubleVars, DoubleInv, Port, Setup, Numbers, Signals, Buffers
  <2> QED BY <2>1, <2>2
<1> QED BY DoubleInit, <1>1, PTL DEF Spec

(* Example 2e: every frame that was put into a buffer is read, once and in *)
(* order, whatever arrives while the handler reads.                        *)
THEOREM NoFrameLost == Spec => []NoneLost
<1>1. ASSUME DoubleInv PROVE Double!NoneLost
  <2> DEFINE next == 1 - hostSide
  <2>1. /\ taken \in 0 .. SEQMOD - 1 /\ full \subseteq {0, 1}
        /\ hostSide \in {0, 1} /\ next \in {0, 1} /\ next # hostSide
        /\ next \in full => hostSide \in full
    BY <1>1 DEF DoubleInv, Numbers, Buffers
  <2> DEFINE n == (heard - taken) % SEQMOD
  <2>2. work # "free" =>
          /\ hostSide \notin full => n = 0
          /\ hostSide \in full /\ next \notin full => n = 1
          /\ next \in full => n = 2
    BY <1>1, <2>1, AfterProps DEF DoubleInv, Buffers
  <2>3. work = "free" => n = IF next \in full THEN 1 ELSE 0
    BY <1>1, <2>1, AfterProps DEF DoubleInv, Buffers
  <2>4. n = Double!Unread(hostSide) + Double!Unread(next)
    <3> HIDE DEF n, next
    <3> QED BY <2>1, <2>2, <2>3 DEF Double!Unread
  <2> QED BY <2>1, <2>4 DEF Double!NoneLost, Double!Unread
<1>2. DoubleHolds => NoneLost
  BY <1>1 DEF DoubleHolds, NoneLost
<1> QED BY <1>2, DoubleInvariance, PTL

(* Examples 2h and 2e: unless the handler is at work or about to be, the   *)
(* chip receives, and in 2e has a buffer to write.                         *)
THEOREM AlwaysListening == Spec => []KeepsListening
<1>1. PhaseHolds => (app = "simple_rx_pdoa" => Phase!KeepsListening)
  BY DEF PhaseHolds, PhaseInv, PhaseLoop, Port, Setup, Reception, Phase!KeepsListening, Phase!Line
<1>2. ASSUME DoubleInv, pc = "loop", ctx = "main", rxSide \in full
      PROVE  Double!Line /\ enabled /\ latched
  BY <1>2 DEF DoubleInv, Port, Setup, Numbers, Signals, Double!Line
<1>3. DoubleHolds => (app = "double_buffer_rx" => Double!KeepsListening)
  BY <1>2 DEF DoubleHolds, DoubleInv, Double!KeepsListening
<1>4. PhaseHolds /\ DoubleHolds => KeepsListening
  BY <1>1, <1>3 DEF KeepsListening
<1> QED BY <1>4, PhaseInvariance, DoubleInvariance, PTL
-----------------------------------------------------------------------------
(* Example 1d: the call-back must not clear the flag before main has set   *)
(* it. What keeps it from that is time: the shortest sleep is longer than  *)
(* the step from dwt_entersleep() to "sleeping = 1" may take.              *)
SleepsLonger == \A c \in Calibrations : Sleep!SleepMs(Sleep!SleepCount(c), c) > MaxLag

(* The flag and what the chip does, at each point of main.                 *)
Wake ==
  /\ pc \in {"clear", "install", "configure", "send", "enter"} => chip = "idle"
  /\ pc = "poll" /\ sent => chip = "idle"
  /\ pc = "poll" /\ ~sent => chip = "tx"
  /\ pc # "poll" => ~sent
  /\ pc \in {"send", "poll", "enter"} => configured
  /\ pc # "spin" => ~sleeping
  /\ pc = "mark" => chip = "asleep" /\ left + lag > MaxLag
  /\ pc = "spin" /\ sleeping =>
       \/ chip = "asleep" /\ status = {}
       \/ chip \in {"waking", "idle"} /\ "SPIRDY" \in status
  /\ pc = "spin" /\ ~sleeping => chip = "idle" /\ configured /\ status = {}

SleepInv ==
  /\ pc \in {"clear", "install", "configure", "send", "poll", "enter", "mark", "spin"}
  /\ Port
  /\ status \subseteq {"SPIRDY"}
  /\ ~(Setup \/ pc = "spin") => ctx = "main" /\ status = {} /\ ~latched
  /\ pc = "spin" => /\ status = {} \/ ctx # "main" => ~latched
                    /\ chip = "asleep" => ctx = "main"
  /\ cal \in Calibrations /\ left \in Int /\ lag \in 0 .. MaxLag
  /\ Wake

SleepHolds == app = "tx_timed_sleep" => SleepInv

(* The time in the sleep counter is a number.                              *)
LEMMA SleepMsType ==
  ASSUME NEW c \in Calibrations
  PROVE  Sleep!SleepMs(Sleep!SleepCount(c), c) \in Int
<1>1. c \in Nat \ {0} /\ XTAL_FREQ_HZ \in Nat /\ XTAL_FREQ_HZ >= 1000 /\ TX_DELAY_MS \in Nat
  BY ExamplesAssumption DEF ExamplesAssumption, Sleep!TimedSleepAssumption
<1>2. Sleep!SleepCount(c) \in Int
  <2>1. XTAL_FREQ_HZ \div c \in Int
    BY <1>1
  <2>2. (TX_DELAY_MS - 10) * (XTAL_FREQ_HZ \div c) \in Int
    BY <1>1, <2>1
  <2> QED BY <2>2 DEF Sleep!SleepCount, Sleep!SLEEP_TIME_MS
<1>3. XTAL_FREQ_HZ \div 1000 \in Nat \ {0}
  BY <1>1
<1>4. Sleep!SleepCount(c) * 4096 * c \in Int
  BY <1>1, <1>2
<1> QED BY <1>3, <1>4 DEF Sleep!SleepMs

(* The example starts so.                                                  *)
LEMMA SleepInit == Init => SleepHolds
<1> SUFFICES ASSUME Sleep!Init PROVE SleepInv
  BY DEF Init, SleepHolds
<1> QED
  BY ExamplesAssumption
     DEF ExamplesAssumption, Sleep!TimedSleepAssumption, Sleep!Init, Sleep!IrqInit, SleepInv,
         Port, Setup, Wake

(* A step of main keeps it.                                                *)
LEMMA SleepMain ==
  ASSUME SleepsLonger
  PROVE  SleepInv /\ Sleep!Main => SleepInv'
<1> SUFFICES ASSUME SleepInv, Sleep!Main PROVE SleepInv'
  OBVIOUS
<1>0. MaxLag \in Nat /\ TX_MS \in Nat
  BY ExamplesAssumption DEF ExamplesAssumption, Sleep!TimedSleepAssumption
<1> USE <1>0 DEF SleepInv, Port, Setup, Wake, Sleep!Step, Sleep!irqVars
<1>1. CASE Sleep!Clear
  BY <1>1 DEF Sleep!Clear, Sleep!ClearEvents
<1>2. CASE Sleep!Install
  <2>1. status' = {} /\ latched' = FALSE /\ enabled' /\ sensing' /\ isr'
    BY <1>2 DEF Sleep!Install, Sleep!InstallIsr, Sleep!EnableIrq, Sleep!Line
  <2>2. ctx' = "main" /\ found' = {} /\ pc' = "configure"
    BY <1>2 DEF Sleep!Install, Sleep!InstallIsr
  <2>3. Port'
    BY <2>1, <2>2
  <2>4. Wake'
    BY <1>2, <2>2 DEF Sleep!Install
  <2> QED BY <1>2, <2>1, <2>2, <2>3, <2>4 DEF Sleep!Install
<1>3. CASE Sleep!Configure
  BY <1>3 DEF Sleep!Configure
<1>4. CASE Sleep!Send
  BY <1>4 DEF Sleep!Send
<1>5. CASE Sleep!Poll
  BY <1>5 DEF Sleep!Poll
<1>6. CASE Sleep!EnterSleep
  BY <1>6, SleepMsType DEF Sleep!EnterSleep, SleepsLonger
<1>7. CASE Sleep!Mark
  BY <1>7 DEF Sleep!Mark
<1>8. CASE Sleep!Awake
  BY <1>8 DEF Sleep!Awake
<1> QED BY <1>1, <1>2, <1>3, <1>4, <1>5, <1>6, <1>7, <1>8 DEF Sleep!Main

(* The interrupt and its call-back keep it.                                *)
LEMMA SleepIsr == SleepInv /\ Sleep!Isr => SleepInv'
<1> SUFFICES ASSUME SleepInv, Sleep!Isr PROVE SleepInv'
  OBVIOUS
<1>0. MaxLag \in Nat
  BY ExamplesAssumption DEF ExamplesAssumption, Sleep!TimedSleepAssumption
<1> USE <1>0 DEF SleepInv, Port, Setup, Wake, Sleep!Line, Sleep!Handle
<1>1. CASE Sleep!SpiReady
  BY <1>1 DEF Sleep!SpiReady
<1>2. ASSUME Sleep!TakeIrq \/ Sleep!TestLine \/ Sleep!LeaveIsr, lag' = 0,
             UNCHANGED <<cal, pc, sleeping, chip, left, sent, configured, since>>
      PROVE  SleepInv'
  <2>1. CASE Sleep!TakeIrq
    <3>1. Port' /\ Wake'
      BY <1>2, <2>1 DEF Sleep!TakeIrq
    <3> QED BY <1>2, <2>1, <3>1 DEF Sleep!TakeIrq
  <2>2. CASE Sleep!TestLine
    <3>1. Port' /\ Wake'
      BY <1>2, <2>2 DEF Sleep!TestLine
    <3> QED BY <1>2, <2>2, <3>1 DEF Sleep!TestLine
  <2>3. CASE Sleep!LeaveIsr
    BY <1>2, <2>3 DEF Sleep!LeaveIsr
  <2> QED BY <1>2, <2>1, <2>2, <2>3
<1> QED BY <1>1, <1>2 DEF Sleep!Isr

(* The chip and time keep it.                                              *)
LEMMA SleepChip ==
  SleepInv /\ (Sleep!Sent \/ Sleep!WakeUp \/ Sleep!IdleRc \/ Sleep!Tick) => SleepInv'
<1> SUFFICES ASSUME SleepInv, Sleep!Sent \/ Sleep!WakeUp \/ Sleep!IdleRc \/ Sleep!Tick
             PROVE  SleepInv'
  OBVIOUS
<1>0. MaxLag \in Nat /\ WAKE_MS \in Nat
  BY ExamplesAssumption DEF ExamplesAssumption, Sleep!TimedSleepAssumption
<1> USE <1>0 DEF SleepInv, Port, Setup, Wake, Sleep!irqVars
<1>1. CASE Sleep!Sent
  BY <1>1 DEF Sleep!Sent
<1>2. CASE Sleep!WakeUp
  <2> USE <1>2 DEF Sleep!WakeUp, Sleep!Raise, Sleep!Line
  <2>1. pc = "spin" /\ sleeping /\ status = {} /\ ctx = "main" /\ ~latched
    OBVIOUS
  <2>2. latched' /\ status' = {"SPIRDY"}
    BY <2>1
  <2>3. Port' /\ Wake'
    BY <2>1, <2>2
  <2> QED BY <2>1, <2>2, <2>3
<1>3. CASE Sleep!IdleRc
  BY <1>3 DEF Sleep!IdleRc
<1>4. CASE Sleep!Tick
  BY <1>4 DEF Sleep!Tick, Sleep!Timed, Sleep!Busy, Sleep!Ready
<1> QED BY <1>1, <1>2, <1>3, <1>4

(* The example's invariant holds whenever main calls it.                   *)
LEMMA SleepInvariance ==
  ASSUME SleepsLonger
  PROVE  Spec => []SleepHolds
<1>1. SleepHolds /\ [Next]_vars => SleepHolds'
  <2> SUFFICES ASSUME SleepHolds, [Next]_vars, app' = "tx_timed_sleep" PROVE SleepInv'
    BY DEF SleepHolds
  <2>1. CASE Next
    <3>1. Sleep!Next /\ SleepRuns
      BY <2>1 DEF Next, DoubleRuns, TimerRuns, PhaseRuns, WaitRuns, Runs
    <3> QED BY <3>1, SleepMain, SleepIsr, SleepChip DEF Sleep!Next, SleepRuns, Runs, SleepHolds
  <2>2. CASE UNCHANGED vars
    BY <2>2 DEF SleepHolds, vars, sleepVars, SleepInv, Port, Setup, Wake
  <2> QED BY <2>1, <2>2
<1> QED BY SleepInit, <1>1, PTL DEF Spec

(* Example 1d: main sends only on a chip that is awake and that the        *)
(* call-back has restored.                                                 *)
THEOREM ConfiguredWhenSent ==
  ASSUME SleepsLonger
  PROVE  Spec => []SendsConfigured
<1>1. SleepHolds => SendsConfigured
  BY DEF SleepHolds, SleepInv, Wake, SendsConfigured, Sleep!SendsConfigured
<1> QED BY <1>1, SleepInvariance, PTL

(* Example 1d: the wake-up is not lost between dwt_entersleep() and the    *)
(* flag that main waits on.                                                *)
THEOREM WakeUpAlwaysSeen ==
  ASSUME SleepsLonger
  PROVE  Spec => []WakeUpIsSeen
<1>1. SleepHolds => WakeUpIsSeen
  BY DEF SleepHolds, SleepInv, Wake, WakeUpIsSeen, Sleep!WakeUpIsSeen
<1> QED BY <1>1, SleepInvariance, PTL
-----------------------------------------------------------------------------
(* Example 18, with a terminal that takes less than a period: no expiry    *)
(* falls into the showing of a count, so that the reset of the flag wipes  *)
(* out none.                                                               *)
Counted(n) == (n + 1) % COUNTMOD

Count ==
  /\ {timer_count, shown, disp} \subseteq 0 .. COUNTMOD - 1
  /\ left \in 0 .. PERIOD /\ busy \in 0 .. show
  /\ ~on => pc \in {"clear", "install", "start"} /\ timer_count = 0 /\ shown = 0
  /\ pc \in {"clear", "install", "start"} => ~on /\ busy = 0 /\ status \subseteq {"SPIRDY"}
  /\ pc \in {"test", "format", "print", "reset"} => status \subseteq {"TIMER0"}
  /\ pc = "test" => busy = 0
  /\ pc = "test" /\ timer_expired => timer_count = Counted(shown) /\ left = PERIOD /\ status = {}
  /\ pc = "test" /\ ~timer_expired => timer_count = shown
  /\ pc = "test" /\ status # {} => left = PERIOD
  /\ pc \in {"format", "print", "reset"} => left + busy = PERIOD /\ status = {}
  /\ pc \in {"format", "print"} => timer_count = Counted(shown)
  /\ pc = "print" => disp = timer_count
  /\ pc = "reset" => shown = timer_count

TimerInv ==
  /\ pc \in {"clear", "install", "start", "test", "format", "print", "reset"}
  /\ show \in Nat /\ show < PERIOD
  /\ Port
  /\ pc = "start" => ctx = "main" /\ status = {} /\ ~latched
  /\ Count

TimerHolds == app = "timer_example" /\ show < PERIOD => TimerInv

(* Counting modulo COUNTMOD.                                               *)
LEMMA CountedProps ==
  ASSUME NEW n \in 0 .. COUNTMOD - 1
  PROVE  /\ Counted(n) \in 0 .. COUNTMOD - 1
         /\ (n - n) % COUNTMOD = 0
         /\ (Counted(n) - n) % COUNTMOD = 1
<1>1. COUNTMOD \in Nat /\ COUNTMOD > 2
  BY ExamplesAssumption DEF ExamplesAssumption, Timer!TimerAssumption
<1>2. CASE n < COUNTMOD - 1
  <2>1. Counted(n) = n + 1
    BY <1>1, <1>2 DEF Counted
  <2> QED BY <1>1, <1>2, <2>1
<1>3. CASE n = COUNTMOD - 1
  <2>1. Counted(n) = 0
    BY <1>1, <1>3 DEF Counted
  <2> QED BY <1>1, <1>3, <2>1
<1> QED BY <1>1, <1>2, <1>3

(* The example starts so.                                                  *)
LEMMA TimerInit == Init => TimerHolds
<1> SUFFICES ASSUME Timer!Init, show < PERIOD PROVE TimerInv
  BY DEF Init, TimerHolds
<1> USE ExamplesAssumption
    DEF ExamplesAssumption, Timer!TimerAssumption, Timer!Init, Timer!IrqInit
<1>1. Port
  BY DEF Port, Setup
<1>2. Count
  BY DEF Count
<1> QED BY <1>1, <1>2 DEF TimerInv

(* A step of main keeps it.                                                *)
LEMMA TimerMain == TimerInv /\ Timer!Main => TimerInv'
<1> SUFFICES ASSUME TimerInv, Timer!Main PROVE TimerInv'
  OBVIOUS
<1>0. PERIOD \in Nat \ {0} /\ COUNTMOD \in Nat /\ COUNTMOD > 2
  BY ExamplesAssumption DEF ExamplesAssumption, Timer!TimerAssumption
<1> USE <1>0 DEF TimerInv, Port, Setup, Count, Timer!Step, Timer!irqVars
<1>1. CASE Timer!Clear
  BY <1>1 DEF Timer!Clear, Timer!ClearEvents
<1>2. CASE Timer!Install
  <2>1. status' = {} /\ latched' = FALSE /\ enabled' /\ sensing' /\ isr'
    BY <1>2 DEF Timer!Install, Timer!InstallIsr, Timer!EnableIrq, Timer!Line
  <2>2. Port'
    BY <1>2, <2>1 DEF Timer!Install, Timer!InstallIsr
  <2> QED BY <1>2, <2>1, <2>2 DEF Timer!Install, Timer!InstallIsr
<1>3. CASE Timer!Start
  BY <1>3 DEF Timer!Start
<1>4. CASE Timer!Test
  BY <1>4 DEF Timer!Test
<1>5. CASE Timer!Format
  BY <1>5 DEF Timer!Format
<1>6. CASE Timer!Display
  BY <1>6 DEF Timer!Display
<1>7. CASE Timer!Reset
  BY <1>7 DEF Timer!Reset
<1> QED BY <1>1, <1>2, <1>3, <1>4, <1>5, <1>6, <1>7 DEF Timer!Main

(* The interrupt and its call-back keep it.                                *)
LEMMA TimerIsr == TimerInv /\ Timer!Isr => TimerInv'
<1> SUFFICES ASSUME TimerInv, Timer!Isr PROVE TimerInv'
  OBVIOUS
<1>0. PERIOD \in Nat \ {0} /\ COUNTMOD \in Nat /\ COUNTMOD > 2
  BY ExamplesAssumption DEF ExamplesAssumption, Timer!TimerAssumption
<1> USE <1>0 DEF TimerInv, Port, Setup, Count, Timer!Line
<1>1. CASE Timer!TimerCb
  <2> USE <1>1 DEF Timer!TimerCb, Timer!Handle
  <2>1. pc = "test" /\ ~timer_expired /\ status' = {} /\ ctx' = "isr"
    OBVIOUS
  <2>2. timer_count' = Counted(shown') /\ timer_count' \in 0 .. COUNTMOD - 1
    BY <2>1, CountedProps DEF Counted
  <2> QED BY <2>1, <2>2
<1>2. CASE Timer!TakeIrq /\ UNCHANGED Timer!appVars
  BY <1>2 DEF Timer!TakeIrq, Timer!appVars
<1>3. CASE Timer!TestLine /\ UNCHANGED Timer!appVars
  BY <1>3 DEF Timer!TestLine, Timer!appVars
<1>4. CASE Timer!LeaveIsr /\ UNCHANGED Timer!appVars
  BY <1>4 DEF Timer!LeaveIsr, Timer!appVars
<1> QED BY <1>1, <1>2, <1>3, <1>4 DEF Timer!Isr

(* The timer and time keep it.                                             *)
LEMMA TimerChip == TimerInv /\ (Timer!Expire \/ Timer!Tick) => TimerInv'
<1> SUFFICES ASSUME TimerInv, Timer!Expire \/ Timer!Tick PROVE TimerInv'
  OBVIOUS
<1>0. PERIOD \in Nat \ {0}
  BY ExamplesAssumption DEF ExamplesAssumption, Timer!TimerAssumption
<1> USE <1>0 DEF TimerInv, Port, Setup, Count, Timer!irqVars
<1>1. CASE Timer!Expire
  <2> USE <1>1 DEF Timer!Expire, Timer!Raise, Timer!Line
  <2>1. pc = "test" /\ ~timer_expired /\ status = {}
    OBVIOUS
  <2>2. latched' = TRUE /\ status' = {"TIMER0"}
    BY <2>1
  <2> QED BY <2>1, <2>2
<1>2. CASE Timer!Tick
  BY <1>2 DEF Timer!Tick, Timer!Showing
<1> QED BY <1>1, <1>2

(* The example's invariant holds whenever main calls it.                   *)
LEMMA TimerInvariance == Spec => []TimerHolds
<1>1. TimerHolds /\ [Next]_vars => TimerHolds'
  <2> SUFFICES ASSUME TimerHolds, [Next]_vars, app' = "timer_example", show' < PERIOD
               PROVE  TimerInv'
    BY DEF TimerHolds
  <2>1. CASE Next
    <3>1. Timer!Next /\ TimerRuns
      BY <2>1 DEF Next, SleepRuns, DoubleRuns, PhaseRuns, WaitRuns, Runs
    <3>2. show' = show
      BY <3>1 DEF Timer!Next, Timer!Main, Timer!Clear, Timer!Install, Timer!Start, Timer!Test,
                  Timer!Format, Timer!Display, Timer!Reset, Timer!Isr, Timer!TimerCb,
                  Timer!appVars, Timer!Expire, Timer!Tick
    <3> QED
      BY <3>1, <3>2, TimerMain, TimerIsr, TimerChip DEF Timer!Next, TimerRuns, Runs, TimerHolds
  <2>2. CASE UNCHANGED vars
    BY <2>2 DEF TimerHolds, vars, timerVars, TimerInv, Port, Setup, Count
  <2> QED BY <2>1, <2>2
<1> QED BY TimerInit, <1>1, PTL DEF Spec

(* Example 18: a terminal that keeps up is at most one expiry behind the   *)
(* chip.                                                                   *)
THEOREM NoCountSkipped == Spec => []NoneSkipped
<1>1. TimerHolds => NoneSkipped
  BY CountedProps DEF TimerHolds, TimerInv, Count, NoneSkipped, Timer!NoneSkipped
<1> QED BY <1>1, TimerInvariance, PTL
-----------------------------------------------------------------------------
(* Example 1d, the period: the chip's sleep is SLEEP_TIME_MS at most, and  *)
(* the ten milliseconds of margin cover what follows it.                   *)
MarginSuffices == 5 * MaxLag + WAKE_MS + TX_MS <= 10 /\ XTAL_FREQ_HZ % 1000 = 0

(* When the last steps before the next blink begin at the latest.          *)
Slept == 2 * MaxLag + Sleep!SLEEP_TIME_MS
Woken == Slept + WAKE_MS

Punctual ==
  /\ since \in Nat
  /\ pc = "clear"     => since <= lag
  /\ pc = "install"   => since <= MaxLag + lag
  /\ pc = "configure" => since <= 2 * MaxLag + lag
  /\ pc = "send"      => since <= Woken + 2 * MaxLag + lag
  /\ pc = "poll"      => since <= IF sent THEN lag ELSE Woken + 3 * MaxLag + TX_MS - left
  /\ pc = "enter"     => since <= MaxLag + lag
  /\ chip = "asleep"  => since <= Slept - left
  /\ chip = "waking"  => since <= Woken - left
  /\ pc = "spin" /\ sleeping /\ chip = "idle" =>
       since <= IF Sleep!InCallBack THEN Woken + lag ELSE Woken
  /\ pc = "spin" /\ ~sleeping =>
       since <= IF ctx = "main" THEN Woken + MaxLag + lag ELSE Woken + MaxLag

BlinkHolds == app = "tx_timed_sleep" => left >= 0 /\ Punctual

(* The sleep counter's rounding shortens the sleep, it never prolongs it.  *)
LEMMA SleepIsShort ==
  ASSUME XTAL_FREQ_HZ % 1000 = 0, NEW c \in Calibrations
  PROVE  Sleep!SleepMs(Sleep!SleepCount(c), c) <= Sleep!SLEEP_TIME_MS
<1> DEFINE S == Sleep!SLEEP_TIME_MS
           a == XTAL_FREQ_HZ \div c
           b == (S * a) \div 1000
           k == b \div 4096
           q == XTAL_FREQ_HZ \div 1000
<1>1. /\ c \in Nat \ {0} /\ XTAL_FREQ_HZ \in Nat /\ XTAL_FREQ_HZ >= 1000
      /\ S \in Nat
  BY ExamplesAssumption
     DEF ExamplesAssumption, Sleep!TimedSleepAssumption, Sleep!SLEEP_TIME_MS
<1>2. q \in Nat \ {0} /\ XTAL_FREQ_HZ = 1000 * q
  BY <1>1
<1>3. a \in Nat /\ c * a <= XTAL_FREQ_HZ
  BY <1>1
<1>4. b \in Nat /\ 1000 * b <= S * a
  <2>1. S * a \in Nat
    BY <1>1, <1>3
  <2> HIDE DEF S, a
  <2> QED BY <2>1
<1>5. k \in Nat /\ 4096 * k <= b
  <2> HIDE DEF b
  <2> QED BY <1>4
<1>6. Sleep!SleepMs(Sleep!SleepCount(c), c) = (k * 4096 * c) \div q
  BY DEF Sleep!SleepMs, Sleep!SleepCount
<1> HIDE DEF S, a, b, k, q
<1>7. (4096 * k) * c <= b * c
  BY <1>1, <1>4, <1>5
<1>8. 1000 * (b * c) <= S * (c * a)
  <2>1. (1000 * b) * c <= (S * a) * c
    <3>1. 1000 * b \in Nat /\ S * a \in Nat
      BY <1>1, <1>3, <1>4
    <3> QED BY <1>1, <1>4, <3>1
  <2>2. (1000 * b) * c = 1000 * (b * c) /\ (S * a) * c = S * (c * a)
    BY <1>1, <1>3, <1>4
  <2> QED BY <2>1, <2>2
<1>9. S * (c * a) <= S * (1000 * q)
  <2>1. c * a \in Nat /\ c * a <= 1000 * q
    BY <1>1, <1>2, <1>3
  <2> QED BY <1>1, <1>2, <2>1
<1>10. k * 4096 * c <= S * q
  <2>1. S * (1000 * q) = 1000 * (S * q) /\ (4096 * k) * c = k * 4096 * c
    BY <1>1, <1>2, <1>5
  <2>2. b * c \in Nat /\ S * q \in Nat /\ k * 4096 * c \in Nat
    BY <1>1, <1>2, <1>4, <1>5
  <2>3. 1000 * (b * c) <= 1000 * (S * q)
    <3>1. S * (c * a) \in Nat
      BY <1>1, <1>3
    <3> QED BY <1>8, <1>9, <2>1, <2>2, <3>1
  <2>4. b * c <= S * q
    BY <2>2, <2>3
  <2> QED BY <1>7, <2>1, <2>2, <2>4
<1>11. (k * 4096 * c) \div q <= S
  <2> DEFINE n == k * 4096 * c
  <2>1. n \in Nat /\ n <= S * q
    BY <1>1, <1>5, <1>10
  <2> HIDE DEF n
  <2>2. n \div q \in Nat /\ q * (n \div q) <= n
    BY <1>2, <2>1
  <2>3. q * (n \div q) <= q * S
    BY <1>1, <1>2, <2>1, <2>2
  <2>4. n \div q <= S
    BY <1>1, <1>2, <2>2, <2>3
  <2> QED BY <2>4 DEF n
<1> QED BY <1>6, <1>11 DEF S

(* Every step of the example keeps the time.                               *)
LEMMA PunctualStep ==
  ASSUME SleepsLonger, XTAL_FREQ_HZ % 1000 = 0, SleepInv, left >= 0, Punctual, Sleep!Next
  PROVE  left' >= 0 /\ Punctual'
<1> DEFINE S == Sleep!SLEEP_TIME_MS
<1>0. /\ MaxLag \in Nat /\ WAKE_MS \in Nat /\ TX_MS \in Nat /\ S \in Nat
      /\ 2 * MaxLag \in Nat /\ 3 * MaxLag \in Nat
      /\ TX_DELAY_MS \in Nat
  BY ExamplesAssumption
     DEF ExamplesAssumption, Sleep!TimedSleepAssumption, Sleep!SLEEP_TIME_MS
<1>1. cal \in Calibrations /\ left \in Int /\ lag \in 0 .. MaxLag
  BY DEF SleepInv
<1> USE <1>0, <1>1 DEF Punctual, Slept, Woken, SleepInv, Wake, Setup, Port
<1> HIDE DEF S
<1>2. CASE Sleep!Main
  <2> USE DEF Sleep!Step
  <2>1. CASE Sleep!Clear \/ Sleep!Install \/ Sleep!Configure
    BY <2>1 DEF Sleep!Clear, Sleep!Install, Sleep!Configure, Sleep!InCallBack, S
  <2>2. CASE Sleep!Send
    BY <2>2 DEF Sleep!Send, Sleep!irqVars, S
  <2>3. CASE Sleep!Poll
    BY <2>3 DEF Sleep!Poll
  <2>4. CASE Sleep!EnterSleep
    <3>1. left' <= Sleep!SLEEP_TIME_MS /\ left' \in Int /\ left' > MaxLag
      BY <2>4, SleepIsShort, SleepMsType DEF Sleep!EnterSleep, SleepsLonger
    <3> QED BY <2>4, <3>1 DEF Sleep!EnterSleep, S
  <2>5. CASE Sleep!Mark
    BY <2>5 DEF Sleep!Mark
  <2>6. CASE Sleep!Awake
    BY <2>6 DEF Sleep!Awake, S
  <2> QED BY <1>2, <2>1, <2>2, <2>3, <2>4, <2>5, <2>6 DEF Sleep!Main
<1>3. CASE Sleep!Isr
  <2>1. CASE Sleep!SpiReady
    BY <2>1 DEF Sleep!SpiReady, Sleep!Handle, Sleep!InCallBack, S
  <2>2. ASSUME Sleep!TakeIrq \/ Sleep!TestLine \/ Sleep!LeaveIsr, lag' = 0,
               UNCHANGED <<cal, pc, sleeping, chip, left, sent, configured, since>>
        PROVE  left' >= 0 /\ Punctual'
    <3>1. pc = "spin"
      BY <2>2 DEF Sleep!TakeIrq, Sleep!TestLine, Sleep!LeaveIsr
    <3>2. CASE Sleep!TakeIrq
      BY <2>2, <3>1, <3>2 DEF Sleep!TakeIrq, Sleep!InCallBack, S
    <3>3. CASE Sleep!TestLine
      BY <2>2, <3>1, <3>3 DEF Sleep!TestLine, Sleep!InCallBack, Sleep!Line, S
    <3>4. CASE Sleep!LeaveIsr
      BY <2>2, <3>1, <3>4 DEF Sleep!LeaveIsr, Sleep!InCallBack, S
    <3> QED BY <2>2, <3>2, <3>3, <3>4
  <2> QED BY <1>3, <2>1, <2>2 DEF Sleep!Isr
<1>4. CASE Sleep!Sent
  BY <1>4 DEF Sleep!Sent, Sleep!irqVars
<1>5. CASE Sleep!WakeUp
  BY <1>5 DEF Sleep!WakeUp, Sleep!Raise, S
<1>6. CASE Sleep!IdleRc
  BY <1>6 DEF Sleep!IdleRc, Sleep!irqVars, Sleep!InCallBack, S
<1>7. CASE Sleep!Tick
  <2>1. /\ since' \in Nat /\ since' <= since + 1
        /\ UNCHANGED <<pc, ctx, found, chip, sent, sleeping, status, cal>>
        /\ chip # "idle" => left' = left - 1 /\ left > 0
        /\ left' >= 0
        /\ Sleep!Busy => lag' = lag + 1
        /\ ctx = "main" => ~(enabled /\ latched)
        /\ ctx # "main" => Sleep!InCallBack
    BY <1>7 DEF Sleep!Tick, Sleep!Timed, Sleep!irqVars, Sleep!InCallBack
  <2>2. CASE pc \in {"clear", "install", "configure", "send", "enter"}
    BY <2>1, <2>2 DEF Sleep!Busy, Sleep!Ready, S
  <2>3. CASE pc = "poll"
    BY <2>1, <2>3 DEF Sleep!Busy, Sleep!Ready, S
  <2>4. CASE pc = "mark"
    BY <2>1, <2>4 DEF S
  <2>5. CASE pc = "spin" /\ sleeping
    <3>1. chip = "idle" => Sleep!InCallBack
      BY <2>1, <2>5
    <3>2. Sleep!InCallBack /\ chip = "idle" => lag' = lag + 1
      BY <2>1 DEF Sleep!Busy, Sleep!InCallBack
    <3> QED BY <2>1, <2>5, <3>1, <3>2 DEF Sleep!InCallBack, S
  <2>6. CASE pc = "spin" /\ ~sleeping
    <3>1. ctx = "main" /\ lag' = lag + 1
      BY <2>1, <2>6 DEF Sleep!Busy, Sleep!Ready, Sleep!InCallBack
    <3> QED BY <2>1, <2>6, <3>1 DEF S
  <2> QED BY <2>2, <2>3, <2>4, <2>5, <2>6
<1> QED BY <1>2, <1>3, <1>4, <1>5, <1>6, <1>7 DEF Sleep!Next

(* Example 1d: the next blink is out in time, whatever the frequency of    *)
(* the chip's oscillator, if main and the call-back are not later in all   *)
(* than the margin that SLEEP_TIME_MS leaves.                              *)
THEOREM AlwaysInTime ==
  ASSUME SleepsLonger, MarginSuffices
  PROVE  Spec => []BlinkInTime
<1>1. Init => BlinkHolds
  <2> SUFFICES ASSUME Sleep!Init PROVE left >= 0 /\ Punctual
    BY DEF Init, BlinkHolds
  <2> QED
    BY DEF Sleep!Init, Punctual
<1>2. SleepHolds /\ BlinkHolds /\ [Next]_vars => BlinkHolds'
  <2> SUFFICES ASSUME SleepHolds, BlinkHolds, [Next]_vars, app' = "tx_timed_sleep"
               PROVE  left' >= 0 /\ Punctual'
    BY DEF BlinkHolds
  <2>1. CASE Next
    <3>1. Sleep!Next /\ SleepRuns
      BY <2>1 DEF Next, DoubleRuns, TimerRuns, PhaseRuns, WaitRuns, Runs
    <3> QED
      BY <3>1, PunctualStep DEF MarginSuffices, SleepRuns, Runs, SleepHolds, BlinkHolds
  <2>2. CASE UNCHANGED vars
    BY <2>2 DEF BlinkHolds, vars, sleepVars, Punctual, Sleep!InCallBack
  <2> QED BY <2>1, <2>2
<1>3. SleepHolds /\ BlinkHolds => BlinkInTime
  <2> SUFFICES ASSUME SleepInv, left >= 0, Punctual PROVE since <= TX_DELAY_MS
    BY DEF SleepHolds, BlinkHolds, BlinkInTime, Sleep!BlinkInTime
  <2>1. /\ MaxLag \in Nat /\ WAKE_MS \in Nat /\ TX_MS \in Nat /\ TX_DELAY_MS \in Nat
        /\ TX_DELAY_MS > 10
    BY ExamplesAssumption DEF ExamplesAssumption, Sleep!TimedSleepAssumption
  <2>2. 5 * MaxLag + WAKE_MS + TX_MS <= 10
    BY DEF MarginSuffices
  <2> QED
    BY <2>1, <2>2 DEF SleepInv, Wake, Punctual, Slept, Woken, Sleep!SLEEP_TIME_MS
<1> QED BY SleepInvariance, <1>1, <1>2, <1>3, PTL DEF Spec
-----------------------------------------------------------------------------
(* Example 18, with any terminal that shows a count before the counter has *)
(* gone round: what main formats is never what it has shown last.          *)
GoesOn == \A s \in Shows : 2 * s + 2 * PERIOD < COUNTMOD * PERIOD

(* The expiries that timer_count has seen since a count was taken, and the *)
(* ticks that they and the one that is signalled stand for.                *)
Ahead(n)   == (timer_count - n) % COUNTMOD
Signalled  == IF "TIMER0" \in status THEN 1 ELSE 0
Elapsed(n) == (Ahead(n) + Signalled) * PERIOD

NewCount ==
  /\ pc = "test" /\ ~timer_expired => Ahead(shown) * PERIOD <= show + PERIOD
  /\ pc = "test" /\ timer_expired =>
       shown # timer_count /\ Ahead(shown) * PERIOD <= show + 2 * PERIOD
  /\ pc = "format" =>
       shown # timer_count /\ Elapsed(shown) <= show + PERIOD + busy + left
  /\ pc = "print" => disp # shown /\ Elapsed(disp) <= busy + left
  /\ pc = "reset" => Elapsed(shown) <= busy + left
  /\ ~repeats

AnyTimer ==
  /\ Timer!TypeOK
  /\ Port
  /\ pc = "start" => ctx = "main" /\ status = {} /\ ~latched
  /\ ~on <=> pc \in {"clear", "install", "start"}
  /\ ~on => timer_count = 0 /\ shown = 0 /\ busy = 0 /\ status \subseteq {"SPIRDY"}
  /\ on => status \subseteq {"TIMER0"}
  /\ "TIMER0" \in status => left = PERIOD
  /\ pc = "test" => busy = 0
  /\ pc = "test" /\ timer_expired => left = PERIOD /\ status = {}
  /\ NewCount

AnyTimerHolds == app = "timer_example" => AnyTimer

(* Differences modulo COUNTMOD.                                            *)
LEMMA AheadProps ==
  ASSUME NEW t \in 0 .. COUNTMOD - 1, NEW n \in 0 .. COUNTMOD - 1
  PROVE  /\ (t - n) % COUNTMOD \in 0 .. COUNTMOD - 1
         /\ (t - n) % COUNTMOD = 0 <=> t = n
         /\ ((t - n) % COUNTMOD) + 1 < COUNTMOD =>
              /\ Counted(t) \in 0 .. COUNTMOD - 1
              /\ (Counted(t) - n) % COUNTMOD = ((t - n) % COUNTMOD) + 1
<1>0. COUNTMOD \in Nat /\ COUNTMOD > 2
  BY ExamplesAssumption DEF ExamplesAssumption, Timer!TimerAssumption
<1>1. CASE t >= n /\ t + 1 < COUNTMOD
  <2>1. (t - n) % COUNTMOD = t - n /\ Counted(t) = t + 1
    BY <1>0, <1>1 DEF Counted
  <2>2. t + 1 - n < COUNTMOD => (t + 1 - n) % COUNTMOD = t + 1 - n
    BY <1>0, <1>1
  <2> QED BY <1>0, <1>1, <2>1, <2>2
<1>2. CASE t >= n /\ t + 1 = COUNTMOD
  <2>1. (t - n) % COUNTMOD = t - n /\ Counted(t) = 0
    BY <1>0, <1>2 DEF Counted
  <2>2. n > 0 => (0 - n) % COUNTMOD = COUNTMOD - n
    BY <1>0
  <2> QED BY <1>0, <1>2, <2>1, <2>2
<1>3. CASE t < n
  <2>1. (t - n) % COUNTMOD = t - n + COUNTMOD /\ Counted(t) = t + 1
    BY <1>0, <1>3 DEF Counted
  <2>2. t + 1 < n => (t + 1 - n) % COUNTMOD = t + 1 - n + COUNTMOD
    BY <1>0, <1>3
  <2> QED BY <1>0, <1>3, <2>1, <2>2
<1> QED BY <1>0, <1>1, <1>2, <1>3

(* What is short of the time in which the counter goes round is less than  *)
(* the counter.                                                            *)
LEMMA FewExpiries ==
  ASSUME GoesOn, show \in Shows, NEW k \in Nat, k * PERIOD <= 2 * show + 2 * PERIOD
  PROVE  k < COUNTMOD
<1>1. PERIOD \in Nat \ {0} /\ COUNTMOD \in Nat /\ show \in Nat
  BY ExamplesAssumption DEF ExamplesAssumption, Timer!TimerAssumption
<1>2. k * PERIOD < COUNTMOD * PERIOD
  <2>1. 2 * show + 2 * PERIOD < COUNTMOD * PERIOD
    BY DEF GoesOn
  <2>2. k * PERIOD \in Nat /\ COUNTMOD * PERIOD \in Nat
    BY <1>1
  <2> QED BY <1>1, <2>1, <2>2
<1> QED
  <2> SUFFICES ASSUME k >= COUNTMOD PROVE FALSE
    BY <1>1
  <2>1. k * PERIOD >= COUNTMOD * PERIOD
    BY <1>1
  <2>2. k * PERIOD \in Nat /\ COUNTMOD * PERIOD \in Nat
    BY <1>1
  <2> QED BY <1>2, <2>1, <2>2

(* The products that the invariant speaks of.                              *)
LEMMA ElapsedProps ==
  ASSUME AnyTimer, NEW n \in 0 .. COUNTMOD - 1
  PROVE  /\ Ahead(n) \in Nat /\ Ahead(n) * PERIOD \in Nat
         /\ (Ahead(n) + 1) * PERIOD = Ahead(n) * PERIOD + PERIOD
         /\ Elapsed(n) = Ahead(n) * PERIOD + (IF "TIMER0" \in status THEN PERIOD ELSE 0)
<1>1. PERIOD \in Nat \ {0} /\ COUNTMOD \in Nat
  BY ExamplesAssumption DEF ExamplesAssumption, Timer!TimerAssumption
<1>2. Ahead(n) \in Nat
  <2>1. timer_count \in 0 .. COUNTMOD - 1
    BY DEF AnyTimer, Timer!TypeOK
  <2>2. (timer_count - n) % COUNTMOD \in 0 .. COUNTMOD - 1
    BY <2>1, AheadProps
  <2> QED BY <1>1, <2>2 DEF Ahead
<1>3. Ahead(n) * PERIOD \in Nat /\ (Ahead(n) + 1) * PERIOD = Ahead(n) * PERIOD + PERIOD
  BY <1>1, <1>2
<1> QED BY <1>1, <1>2, <1>3 DEF Elapsed, Signalled

(* The example starts so.                                                  *)
LEMMA AnyTimerInit == Init => AnyTimerHolds
<1> SUFFICES ASSUME Timer!Init PROVE AnyTimer
  BY DEF Init, AnyTimerHolds
<1>0. PERIOD \in Nat \ {0} /\ COUNTMOD \in Nat /\ COUNTMOD > 2 /\ Shows \subseteq Nat
  BY ExamplesAssumption DEF ExamplesAssumption, Timer!TimerAssumption
<1> USE <1>0 DEF Timer!Init, Timer!IrqInit
<1>1. Timer!TypeOK
  <2>1. Timer!IrqTypeOK
    BY DEF Timer!IrqTypeOK
  <2>2. 0 \in 0 .. COUNTMOD - 1 /\ 0 \in 0 .. PERIOD /\ 0 \in 0 .. show
    OBVIOUS
  <2> QED BY <2>1, <2>2 DEF Timer!TypeOK
<1>2. Port
  BY DEF Port, Setup
<1> QED BY <1>1, <1>2 DEF AnyTimer, NewCount

(* A step of main keeps it.                                                *)
LEMMA AnyTimerMain == AnyTimer /\ Timer!Main => AnyTimer'
<1> SUFFICES ASSUME AnyTimer, Timer!Main PROVE AnyTimer'
  OBVIOUS
<1>0. /\ PERIOD \in Nat \ {0} /\ COUNTMOD \in Nat /\ COUNTMOD > 2 /\ Shows \subseteq Nat
      /\ show \in Nat /\ left \in Nat /\ busy \in Nat /\ left <= PERIOD /\ busy <= show
      /\ shown \in 0 .. COUNTMOD - 1 /\ disp \in 0 .. COUNTMOD - 1
      /\ timer_count \in 0 .. COUNTMOD - 1
  BY ExamplesAssumption
     DEF ExamplesAssumption, Timer!TimerAssumption, AnyTimer, Timer!TypeOK
<1> USE <1>0 DEF AnyTimer, Port, Setup, Timer!Step
<1>1. Timer!TypeOK'
  <2> USE DEF Timer!Main, Timer!Clear, Timer!Install, Timer!Start, Timer!Test, Timer!Format,
              Timer!Display, Timer!Reset
  <2>1. Timer!IrqTypeOK'
    BY DEF Timer!TypeOK, Timer!IrqTypeOK, Timer!ClearEvents, Timer!InstallIsr,
           Timer!EnableIrq, Timer!DisableIrq, Timer!irqVars
  <2>2. /\ timer_count' \in {0, timer_count} /\ disp' \in {disp, timer_count}
        /\ shown' \in {shown, disp} /\ left' \in {left, PERIOD} /\ busy' \in {0, busy}
        /\ show' = show
    OBVIOUS
  <2>3. /\ timer_count' \in 0 .. COUNTMOD - 1 /\ disp' \in 0 .. COUNTMOD - 1
        /\ shown' \in 0 .. COUNTMOD - 1 /\ left' \in 0 .. PERIOD /\ busy' \in 0 .. show
    BY <2>2
  <2>4. /\ pc' \in {"clear", "install", "start", "test", "format", "print", "reset"}
        /\ timer_expired' \in BOOLEAN /\ on' \in BOOLEAN /\ repeats' \in BOOLEAN
    BY DEF Timer!TypeOK
  <2>5. show \in Shows
    BY DEF Timer!TypeOK
  <2> QED BY <2>1, <2>2, <2>3, <2>4, <2>5 DEF Timer!TypeOK
<1>2. CASE Timer!Clear
  BY <1>1, <1>2 DEF Timer!Clear, Timer!ClearEvents, NewCount
<1>3. CASE Timer!Install
  <2>1. status' = {} /\ latched' = FALSE /\ enabled' /\ sensing' /\ isr'
    BY <1>3 DEF Timer!Install, Timer!InstallIsr, Timer!EnableIrq, Timer!Line
  <2>2. Port'
    BY <1>3, <2>1 DEF Timer!Install, Timer!InstallIsr
  <2> QED BY <1>1, <1>3, <2>1, <2>2 DEF Timer!Install, Timer!InstallIsr, NewCount
<1>4. CASE Timer!Start
  <2>1. timer_count' = 0 /\ shown' = 0 /\ pc' = "test" /\ ~timer_expired' /\ status' = {}
    BY <1>4 DEF Timer!Start, Timer!irqVars
  <2>2. Ahead(shown)' = 0
    BY <2>1, AheadProps DEF Ahead
  <2>3. NewCount'
    BY <1>4, <2>1, <2>2 DEF Timer!Start, NewCount
  <2> QED BY <1>1, <1>4, <2>1, <2>3 DEF Timer!Start, Timer!irqVars
<1>5. CASE Timer!Test
  <2>1. /\ pc' = "format" /\ busy = 0 /\ left = PERIOD /\ status = {}
        /\ UNCHANGED <<status, timer_count, shown, busy, left, show>>
    BY <1>5 DEF Timer!Test, Timer!irqVars
  <2>2. Elapsed(shown)' = Ahead(shown) * PERIOD
    BY <2>1, ElapsedProps DEF Elapsed, Ahead, Signalled
  <2>3. NewCount'
    BY <1>5, <2>1, <2>2, ElapsedProps DEF Timer!Test, NewCount
  <2> QED BY <1>1, <1>5, <2>1, <2>3 DEF Timer!Test, Timer!irqVars
<1>6. CASE Timer!Format
  <2>1. /\ pc' = "print" /\ disp' = timer_count
        /\ UNCHANGED <<status, timer_count, shown, busy, left, show, repeats>>
    BY <1>6 DEF Timer!Format, Timer!irqVars
  <2>2. Ahead(disp)' = 0
    BY <2>1, AheadProps DEF Ahead
  <2>3. Elapsed(disp)' <= busy + left
    BY <2>1, <2>2 DEF Elapsed, Signalled
  <2>4. NewCount'
    BY <1>6, <2>1, <2>3 DEF Timer!Format, NewCount
  <2> QED BY <1>1, <1>6, <2>1, <2>4 DEF Timer!Format, Timer!irqVars
<1>7. CASE Timer!Display
  <2>1. /\ pc' = "reset" /\ shown' = disp /\ ~repeats'
        /\ UNCHANGED <<status, timer_count, busy, left>>
    BY <1>7 DEF Timer!Display, Timer!irqVars, NewCount
  <2>2. Elapsed(shown)' = Elapsed(disp)
    BY <2>1 DEF Elapsed, Ahead, Signalled
  <2>3. NewCount'
    BY <1>7, <2>1, <2>2 DEF Timer!Display, NewCount
  <2> QED BY <1>1, <1>7, <2>1, <2>3 DEF Timer!Display, Timer!irqVars
<1>8. CASE Timer!Reset
  <2>1. /\ pc = "reset" /\ pc' = "test" /\ ~timer_expired'
        /\ UNCHANGED <<status, timer_count, shown, left, show, repeats>>
    BY <1>8 DEF Timer!Reset, Timer!irqVars
  <2>2. Ahead(shown) * PERIOD <= show + PERIOD
    BY <2>1, ElapsedProps DEF NewCount
  <2>3. NewCount'
    BY <2>1, <2>2 DEF NewCount, Ahead
  <2> QED BY <1>1, <1>8, <2>1, <2>3 DEF Timer!Reset, Timer!irqVars
<1> QED BY <1>2, <1>3, <1>4, <1>5, <1>6, <1>7, <1>8 DEF Timer!Main

(* The interrupt keeps it. Its call-back counts one more, of which the     *)
(* time that has passed says that it is not the one shown.                 *)
LEMMA AnyTimerCb == GoesOn /\ AnyTimer /\ Timer!TimerCb => AnyTimer'
<1> SUFFICES ASSUME GoesOn, AnyTimer, Timer!TimerCb PROVE AnyTimer'
  OBVIOUS
<1>0. /\ PERIOD \in Nat \ {0} /\ COUNTMOD \in Nat /\ COUNTMOD > 2 /\ Shows \subseteq Nat
      /\ show \in Nat /\ left \in Nat /\ busy \in Nat /\ left <= PERIOD /\ busy <= show
      /\ show \in Shows
      /\ shown \in 0 .. COUNTMOD - 1 /\ disp \in 0 .. COUNTMOD - 1
      /\ timer_count \in 0 .. COUNTMOD - 1
  BY ExamplesAssumption
     DEF ExamplesAssumption, Timer!TimerAssumption, AnyTimer, Timer!TypeOK
<1>1. /\ "TIMER0" \in status /\ status' = {} /\ left = PERIOD /\ timer_expired'
      /\ timer_count' = Counted(timer_count) /\ ctx = "isr" /\ found' = {}
      /\ UNCHANGED <<pc, disp, shown, repeats, left, on, show, busy, sensing, enabled,
                     latched, isr, ctx>>
      /\ pc \in {"test", "format", "print", "reset"}
  BY DEF Timer!TimerCb, Timer!Handle, AnyTimer, Port, Setup, Counted, Timer!TypeOK
<1>2. pc = "test" => ~timer_expired
  BY <1>1 DEF AnyTimer
<1>3. \A n \in {shown, disp} :
        (Ahead(n) + 1) * PERIOD <= 2 * show + 2 * PERIOD =>
          /\ Ahead(n)' = Ahead(n) + 1 /\ timer_count' # n
          /\ timer_count' \in 0 .. COUNTMOD - 1
  <2> SUFFICES ASSUME NEW n \in {shown, disp},
                      (Ahead(n) + 1) * PERIOD <= 2 * show + 2 * PERIOD
               PROVE  /\ (timer_count' - n) % COUNTMOD = Ahead(n) + 1 /\ timer_count' # n
                      /\ timer_count' \in 0 .. COUNTMOD - 1
    BY <1>1 DEF Ahead
  <2>1. Ahead(n) + 1 \in Nat /\ Ahead(n) \in Nat
    BY <1>0, ElapsedProps
  <2>2. Ahead(n) + 1 < COUNTMOD
    BY <1>0, <2>1, FewExpiries
  <2>3. (timer_count' - n) % COUNTMOD = Ahead(n) + 1 /\ timer_count' \in 0 .. COUNTMOD - 1
    BY <1>0, <1>1, <2>2, AheadProps DEF Ahead
  <2>4. timer_count' # n
    BY <1>0, <2>1, <2>3, AheadProps
  <2> QED BY <2>3, <2>4
<1>4. CASE pc = "test"
  <2>1. Ahead(shown) * PERIOD <= show + PERIOD
    BY <1>2, <1>4 DEF AnyTimer, NewCount
  <2>2. (Ahead(shown) + 1) * PERIOD <= show + 2 * PERIOD
    BY <1>0, <2>1, ElapsedProps
  <2>3. /\ Ahead(shown)' = Ahead(shown) + 1 /\ timer_count' # shown
        /\ timer_count' \in 0 .. COUNTMOD - 1
    <3>1. (Ahead(shown) + 1) * PERIOD \in Nat
      BY <1>0, ElapsedProps
    <3>2. (Ahead(shown) + 1) * PERIOD <= 2 * show + 2 * PERIOD
      <4> DEFINE e == (Ahead(shown) + 1) * PERIOD
      <4>1. e \in Nat /\ e <= show + 2 * PERIOD
        BY <2>2, <3>1
      <4> HIDE DEF e
      <4>2. e <= 2 * show + 2 * PERIOD
        BY <1>0, <4>1
      <4> QED BY <4>2 DEF e
    <3> QED BY <1>1, <1>3, <3>2 DEF Ahead
  <2>4. NewCount'
    BY <1>1, <1>4, <2>2, <2>3 DEF NewCount, AnyTimer
  <2> QED BY <1>0, <1>1, <2>3, <2>4 DEF AnyTimer, Port, Setup, Timer!TypeOK, Timer!IrqTypeOK
<1>5. CASE pc # "test"
  <2> DEFINE n == IF pc = "print" THEN disp ELSE shown
  <2>1. n \in {shown, disp} /\ n \in 0 .. COUNTMOD - 1 /\ n' = n
    BY <1>0, <1>1
  <2>2. Elapsed(n) \in Nat /\ Elapsed(n) <= show + PERIOD + busy + left
    <3>1. \A e \in Nat : e <= busy + left => e <= show + PERIOD + busy + left
      BY <1>0
    <3>2. Elapsed(shown) \in Nat /\ Elapsed(disp) \in Nat
      BY <1>0, ElapsedProps
    <3>3. CASE pc = "format"
      BY <3>2, <3>3 DEF AnyTimer, NewCount
    <3>4. CASE pc = "print"
      BY <3>1, <3>2, <3>4 DEF AnyTimer, NewCount
    <3>5. CASE pc = "reset"
      BY <3>1, <3>2, <3>5 DEF AnyTimer, NewCount
    <3> QED BY <1>1, <1>5, <3>3, <3>4, <3>5
  <2>3. (Ahead(n) + 1) * PERIOD = Elapsed(n)
    BY <1>1, <2>1, ElapsedProps
  <2>4. /\ Ahead(n)' = Ahead(n) + 1 /\ timer_count' # n
        /\ timer_count' \in 0 .. COUNTMOD - 1
    <3>1. (Ahead(n) + 1) * PERIOD <= 2 * show + 2 * PERIOD
      <4> DEFINE e == Elapsed(n)
      <4>1. e \in Nat /\ e <= show + PERIOD + busy + left
        BY <2>2
      <4> HIDE DEF e
      <4>2. e <= 2 * show + 2 * PERIOD
        BY <1>0, <4>1
      <4> QED BY <2>3, <4>2 DEF e
    <3> HIDE DEF n
    <3>2. Ahead(n)' = Ahead(n) + 1 /\ timer_count' # n /\ timer_count' \in 0 .. COUNTMOD - 1
      BY <1>3, <2>1, <3>1 DEF Ahead
    <3> QED BY <3>2
  <2>5. Elapsed(n)' = Elapsed(n)
    <3>1. Elapsed(n)' = (Ahead(n)' + 0) * PERIOD
      BY <1>1 DEF Elapsed, Signalled
    <3> QED BY <1>0, <2>1, <2>3, <2>4, <3>1, ElapsedProps
  <2>6. NewCount'
    BY <1>1, <1>5, <2>4, <2>5 DEF NewCount, AnyTimer
  <2> QED BY <1>0, <1>1, <2>4, <2>6 DEF AnyTimer, Port, Setup, Timer!TypeOK, Timer!IrqTypeOK
<1> QED BY <1>4, <1>5

LEMMA AnyTimerIsr == GoesOn /\ AnyTimer /\ Timer!Isr => AnyTimer'
<1> SUFFICES ASSUME AnyTimer, Timer!TakeIrq \/ Timer!TestLine \/ Timer!LeaveIsr,
                    UNCHANGED Timer!appVars
             PROVE  AnyTimer'
  BY AnyTimerCb DEF Timer!Isr
<1>1. NewCount'
  BY DEF AnyTimer, NewCount, Elapsed, Ahead, Signalled, Timer!appVars, Timer!TakeIrq,
         Timer!TestLine, Timer!LeaveIsr
<1> USE <1>1 DEF AnyTimer, Port, Setup, Timer!TypeOK, Timer!IrqTypeOK, Timer!appVars, Timer!Line
<1>2. CASE Timer!TakeIrq
  BY <1>2 DEF Timer!TakeIrq
<1>3. CASE Timer!TestLine
  BY <1>3 DEF Timer!TestLine
<1>4. CASE Timer!LeaveIsr
  BY <1>4 DEF Timer!LeaveIsr
<1> QED BY <1>2, <1>3, <1>4

(* The timer and time keep it.                                             *)
LEMMA AnyTimerChip == AnyTimer /\ (Timer!Expire \/ Timer!Tick) => AnyTimer'
<1> SUFFICES ASSUME AnyTimer, Timer!Expire \/ Timer!Tick PROVE AnyTimer'
  OBVIOUS
<1>0. /\ PERIOD \in Nat \ {0} /\ COUNTMOD \in Nat /\ COUNTMOD > 2 /\ Shows \subseteq Nat
      /\ show \in Nat /\ left \in Nat /\ busy \in Nat /\ left <= PERIOD /\ busy <= show
      /\ shown \in 0 .. COUNTMOD - 1 /\ disp \in 0 .. COUNTMOD - 1
  BY ExamplesAssumption
     DEF ExamplesAssumption, Timer!TimerAssumption, AnyTimer, Timer!TypeOK
<1>1. CASE Timer!Expire
  <2>1. /\ left = 0 /\ left' = PERIOD /\ status = {} /\ status' = {"TIMER0"} /\ on
        /\ UNCHANGED <<pc, timer_expired, timer_count, disp, shown, repeats, on, show, busy>>
    BY <1>0, <1>1 DEF Timer!Expire, Timer!Raise, AnyTimer
  <2>2. \A n \in {shown, disp} : Elapsed(n)' = Elapsed(n) + PERIOD /\ Ahead(n)' = Ahead(n)
                                 /\ Elapsed(n) \in Nat
    <3> SUFFICES ASSUME NEW n \in {shown, disp}
                 PROVE  /\ (Ahead(n) + 1) * PERIOD = Elapsed(n) + PERIOD /\ Elapsed(n) \in Nat
      BY <2>1 DEF Elapsed, Ahead, Signalled
    <3> QED BY <1>0, <2>1, ElapsedProps
  <2>3. NewCount'
    <3>1. ~(pc = "test" /\ timer_expired)
      BY <1>0, <2>1 DEF AnyTimer
    <3> QED BY <1>0, <2>1, <2>2, <3>1 DEF NewCount, AnyTimer
  <2>4. Port'
    BY <1>1, <2>1 DEF Timer!Expire, Timer!Raise, Timer!Line, AnyTimer, Port, Setup
  <2>5. Timer!IrqTypeOK'
    BY <1>1, <2>1 DEF Timer!Expire, Timer!Raise, AnyTimer, Timer!TypeOK, Timer!IrqTypeOK
  <2>6. (pc = "test" => ~timer_expired) /\ pc # "start"
    BY <1>0, <2>1 DEF AnyTimer
  <2>7. Timer!TypeOK'
    BY <1>0, <2>1, <2>5 DEF AnyTimer, Timer!TypeOK
  <2> QED BY <2>1, <2>3, <2>4, <2>6, <2>7 DEF AnyTimer
<1>2. CASE Timer!Tick
  <2>1. /\ left > 0 /\ left' = left - 1 /\ on /\ status = {}
        /\ (pc = "test" => ~timer_expired)
        /\ (IF pc = "test" THEN busy' = busy ELSE busy < show /\ busy' = busy + 1)
        /\ UNCHANGED <<status, pc, timer_expired, timer_count, disp, shown, repeats, on, show>>
    BY <1>2 DEF Timer!Tick, Timer!Showing, Timer!irqVars, AnyTimer, Port, Setup, Timer!TypeOK
  <2>2. \A n \in {shown, disp} : Elapsed(n)' = Elapsed(n) /\ Ahead(n)' = Ahead(n)
    BY <2>1 DEF Elapsed, Ahead, Signalled
  <2>3. NewCount'
    <3>1. pc # "test" => busy' + left' = busy + left
      BY <1>0, <2>1
    <3>2. show + PERIOD + busy' + left' = show + PERIOD + (busy' + left')
          /\ show + PERIOD + busy + left = show + PERIOD + (busy + left)
      BY <1>0, <2>1
    <3> QED BY <2>1, <2>2, <3>1, <3>2 DEF NewCount, AnyTimer
  <2>4. left' \in 0 .. PERIOD /\ busy' \in 0 .. show
    BY <1>0, <2>1
  <2> QED
    BY <1>2, <2>1, <2>3, <2>4
       DEF Timer!Tick, Timer!irqVars, AnyTimer, Port, Setup, Timer!TypeOK, Timer!IrqTypeOK
<1> QED BY <1>1, <1>2

(* The example's invariant holds whenever main calls it.                   *)
LEMMA AnyTimerInvariance ==
  ASSUME GoesOn
  PROVE  Spec => []AnyTimerHolds
<1>1. AnyTimerHolds /\ [Next]_vars => AnyTimerHolds'
  <2> SUFFICES ASSUME AnyTimerHolds, [Next]_vars, app' = "timer_example"
               PROVE  AnyTimer'
    BY DEF AnyTimerHolds
  <2>1. CASE Next
    <3>1. Timer!Next /\ TimerRuns
      BY <2>1 DEF Next, SleepRuns, DoubleRuns, PhaseRuns, WaitRuns, Runs
    <3> QED
      BY <3>1, AnyTimerMain, AnyTimerIsr, AnyTimerChip
         DEF Timer!Next, TimerRuns, Runs, AnyTimerHolds
  <2>2. CASE UNCHANGED vars
    BY <2>2 DEF AnyTimerHolds, vars, timerVars, AnyTimer, Timer!TypeOK, Timer!IrqTypeOK, Port,
                Setup, NewCount, Elapsed, Ahead, Signalled
  <2> QED BY <2>1, <2>2
<1> QED BY AnyTimerInit, <1>1, PTL DEF Spec

(* Example 18: no count is shown twice, however long the terminal takes    *)
(* short of the time in which the counter goes round.                      *)
THEOREM NothingRepeated ==
  ASSUME GoesOn
  PROVE  Spec => []NeverRepeats
<1>1. AnyTimerHolds => NeverRepeats
  BY DEF AnyTimerHolds, AnyTimer, NewCount, NeverRepeats, Timer!NeverRepeats
<1> QED BY <1>1, AnyTimerInvariance, PTL
-----------------------------------------------------------------------------
(* The types. Example 1d: what main computes from the calibration fits the *)
(* chip's sleep counter, and is not nothing.                               *)
CountFits ==
  \A c \in Calibrations :
    XTAL_FREQ_HZ \div c < 2^16 /\ Sleep!SleepCount(c) \in 1 .. 2^16 - 1

LEMMA SleepTypes ==
  ASSUME CountFits, Sleep!TypeOK, Sleep!Next
  PROVE  Sleep!TypeOK'
<1>0. /\ MaxLag \in Nat /\ TX_MS \in Nat /\ WAKE_MS \in Nat /\ Sleep!Cap \in Nat
      /\ cal \in Calibrations /\ cal \in Nat /\ XTAL_FREQ_HZ \div 1000 \in Nat \ {0}
  BY ExamplesAssumption
     DEF ExamplesAssumption, Sleep!TimedSleepAssumption, Sleep!Cap, Sleep!TypeOK
<1>1. Sleep!SleepMs(Sleep!SleepCount(cal), cal) \in Nat
  <2> DEFINE n == Sleep!SleepCount(cal)
  <2>1. n \in Nat
    BY <1>0 DEF CountFits
  <2> HIDE DEF n
  <2>2. n * 4096 * cal \in Nat
    BY <1>0, <2>1
  <2>3. (n * 4096 * cal) \div (XTAL_FREQ_HZ \div 1000) \in Nat
    BY <1>0, <2>2
  <2> QED BY <2>3 DEF n, Sleep!SleepMs
<1>2. cal' = cal
  BY DEF Sleep!Next, Sleep!Main, Sleep!Isr, Sleep!Clear, Sleep!Install, Sleep!Configure,
         Sleep!Send, Sleep!Poll, Sleep!EnterSleep, Sleep!Mark, Sleep!Awake, Sleep!SpiReady,
         Sleep!Sent, Sleep!WakeUp, Sleep!IdleRc, Sleep!Tick
<1>3. Sleep!SleepCount(cal)' = Sleep!SleepCount(cal)
  BY <1>2 DEF Sleep!SleepCount
<1>4. XTAL_FREQ_HZ \div cal' < 2^16 /\ Sleep!SleepCount(cal)' \in 1 .. 2^16 - 1
      /\ cal' \in Calibrations
  BY <1>0, <1>2, <1>3 DEF CountFits
<1>5. Sleep!IrqTypeOK'
  <2> USE DEF Sleep!TypeOK, Sleep!IrqTypeOK, Sleep!irqVars
  <2>1. CASE Sleep!Main
    BY <2>1 DEF Sleep!Main, Sleep!Step, Sleep!Clear, Sleep!ClearEvents, Sleep!Install,
                Sleep!InstallIsr, Sleep!EnableIrq, Sleep!DisableIrq, Sleep!Configure,
                Sleep!Send, Sleep!Poll, Sleep!EnterSleep, Sleep!Mark, Sleep!Awake
  <2>2. CASE Sleep!Isr
    BY <2>2 DEF Sleep!Isr, Sleep!TakeIrq, Sleep!TestLine, Sleep!LeaveIsr, Sleep!SpiReady,
                Sleep!Handle
  <2>3. CASE Sleep!Sent \/ Sleep!WakeUp \/ Sleep!IdleRc \/ Sleep!Tick
    BY <2>3 DEF Sleep!Sent, Sleep!WakeUp, Sleep!IdleRc, Sleep!Tick, Sleep!Raise, Sleep!Line
  <2> QED BY <2>1, <2>2, <2>3 DEF Sleep!Next
<1>6. /\ pc' \in {"clear", "install", "configure", "send", "poll", "enter", "mark", "spin"}
      /\ sleeping' \in BOOLEAN /\ sent' \in BOOLEAN /\ configured' \in BOOLEAN
      /\ chip' \in {"idle", "tx", "asleep", "waking"}
  <2> USE DEF Sleep!TypeOK
  <2>1. CASE Sleep!Main
    BY <2>1 DEF Sleep!Main, Sleep!Step, Sleep!Clear, Sleep!Install, Sleep!Configure,
                Sleep!Send, Sleep!Poll, Sleep!EnterSleep, Sleep!Mark, Sleep!Awake
  <2>2. CASE Sleep!Isr \/ Sleep!Sent \/ Sleep!WakeUp \/ Sleep!IdleRc \/ Sleep!Tick
    BY <2>2 DEF Sleep!Isr, Sleep!SpiReady, Sleep!Sent, Sleep!WakeUp, Sleep!IdleRc, Sleep!Tick
  <2> QED BY <2>1, <2>2 DEF Sleep!Next
<1>7. left' \in Nat
  <2> USE <1>0 DEF Sleep!TypeOK
  <2>1. CASE Sleep!Main
    BY <1>1, <2>1 DEF Sleep!Main, Sleep!Clear, Sleep!Install, Sleep!Configure, Sleep!Send,
                      Sleep!Poll, Sleep!EnterSleep, Sleep!Mark, Sleep!Awake
  <2>2. CASE Sleep!Isr \/ Sleep!Sent \/ Sleep!WakeUp \/ Sleep!IdleRc
    BY <2>2 DEF Sleep!Isr, Sleep!SpiReady, Sleep!Sent, Sleep!WakeUp, Sleep!IdleRc
  <2>3. CASE Sleep!Tick
    BY <2>3 DEF Sleep!Tick, Sleep!Timed
  <2> QED BY <2>1, <2>2, <2>3 DEF Sleep!Next
<1>8. lag' \in 0 .. MaxLag /\ since' \in 0 .. Sleep!Cap
  <2>1. (lag' \in {0, lag} \/ (lag < MaxLag /\ lag' = lag + 1))
        /\ (since' \in {0, since} \/ (since < Sleep!Cap /\ since' = since + 1))
    <3>1. CASE Sleep!Main
      BY <3>1 DEF Sleep!Main, Sleep!Step, Sleep!Clear, Sleep!Install, Sleep!Configure,
                  Sleep!Send, Sleep!Poll, Sleep!EnterSleep, Sleep!Mark, Sleep!Awake
    <3>2. CASE Sleep!Isr \/ Sleep!Sent \/ Sleep!WakeUp \/ Sleep!IdleRc
      BY <3>2 DEF Sleep!Isr, Sleep!SpiReady, Sleep!Sent, Sleep!WakeUp, Sleep!IdleRc
    <3>3. CASE Sleep!Tick
      BY <3>3 DEF Sleep!Tick
    <3> QED BY <3>1, <3>2, <3>3 DEF Sleep!Next
  <2>2. lag \in 0 .. MaxLag /\ since \in 0 .. Sleep!Cap
    BY DEF Sleep!TypeOK
  <2> QED BY <1>0, <2>1, <2>2
<1> QED BY <1>4, <1>5, <1>6, <1>7, <1>8 DEF Sleep!TypeOK

LEMMA PhaseTypes ==
  ASSUME Phase!TypeOK, Phase!Next
  PROVE  Phase!TypeOK'
<1> USE DEF Phase!TypeOK, Phase!IrqTypeOK, Phase!irqVars, Phase!appVars
<1>1. CASE Phase!Main
  BY <1>1 DEF Phase!Main, Phase!Step, Phase!Clear, Phase!ClearEvents, Phase!Install,
              Phase!InstallIsr, Phase!EnableIrq, Phase!DisableIrq, Phase!Enable, Phase!Test,
              Phase!Copy, Phase!Display
<1>2. CASE (Phase!TakeIrq \/ Phase!TestLine \/ Phase!LeaveIsr) /\ UNCHANGED Phase!appVars
  <2>1. Phase!IrqTypeOK'
    BY <1>2 DEF Phase!TakeIrq, Phase!TestLine, Phase!LeaveIsr
  <2> QED BY <1>2, <2>1
<1>3. CASE Phase!RxOk \/ Phase!RxError
  <2>1. Phase!IrqTypeOK'
    BY <1>3 DEF Phase!RxOk, Phase!RxError, Phase!Handle
  <2>2. cb' \in {"none", "value", "enable"} /\ chip' \in {chip, "rx"}
        /\ UNCHANGED <<pc, pdoa_val, last_pdoa_val, shown, rxPdoa>>
    BY <1>3 DEF Phase!RxOk, Phase!RxError
  <2> QED BY <2>1, <2>2
<1>4. CASE Phase!ReadValue
  BY <1>4 DEF Phase!ReadValue
<1>6. CASE Phase!ReEnable
  BY <1>6 DEF Phase!ReEnable
<1>5. CASE (\E v \in Pdoa \cup {Noise} : Phase!Receive(v)) \/ Phase!Fail
  BY <1>5, ZenonT(30) DEF Phase!Receive, Phase!Fail, Phase!Raise, Phase!Line
<1> QED BY <1>1, <1>2, <1>3, <1>4, <1>5, <1>6 DEF Phase!Next, Phase!Isr

LEMMA TimerTypes ==
  ASSUME Timer!TypeOK, Timer!Next
  PROVE  Timer!TypeOK'
<1>0. PERIOD \in Nat \ {0} /\ COUNTMOD \in Nat /\ COUNTMOD > 2 /\ Shows \subseteq Nat
  BY ExamplesAssumption DEF ExamplesAssumption, Timer!TimerAssumption
<1>1. Timer!IrqTypeOK'
  <2> USE DEF Timer!TypeOK, Timer!IrqTypeOK, Timer!irqVars
  <2>1. CASE Timer!Main
    BY <2>1 DEF Timer!Main, Timer!Step, Timer!Clear, Timer!ClearEvents, Timer!Install,
                Timer!InstallIsr, Timer!EnableIrq, Timer!DisableIrq, Timer!Start, Timer!Test,
                Timer!Format, Timer!Display, Timer!Reset
  <2>2. CASE Timer!Isr
    BY <2>2 DEF Timer!Isr, Timer!TakeIrq, Timer!TestLine, Timer!LeaveIsr, Timer!Handle,
                Timer!TimerCb
  <2>3. CASE Timer!Expire \/ Timer!Tick
    BY <2>3 DEF Timer!Expire, Timer!Tick, Timer!Raise, Timer!Line
  <2> QED BY <2>1, <2>2, <2>3 DEF Timer!Next
<1>2. /\ pc' \in {"clear", "install", "start", "test", "format", "print", "reset"}
      /\ timer_expired' \in BOOLEAN /\ on' \in BOOLEAN /\ repeats' \in BOOLEAN
      /\ show' = show
  <2> USE DEF Timer!TypeOK
  <2>1. CASE Timer!Main
    BY <2>1 DEF Timer!Main, Timer!Step, Timer!Clear, Timer!Install, Timer!Start, Timer!Test,
                Timer!Format, Timer!Display, Timer!Reset
  <2>2. CASE Timer!Isr \/ Timer!Expire \/ Timer!Tick
    BY <2>2 DEF Timer!Isr, Timer!TimerCb, Timer!Expire, Timer!Tick, Timer!appVars
  <2> QED BY <2>1, <2>2 DEF Timer!Next
<1>3. /\ {timer_count', disp', shown'} \subseteq {0, Counted(timer_count), timer_count, disp, shown}
      /\ left' \in {left, PERIOD} \/ (left > 0 /\ left' = left - 1)
      /\ busy' \in {busy, 0} \/ (busy < show /\ busy' = busy + 1)
  <2>1. CASE Timer!Main
    BY <2>1 DEF Timer!Main, Timer!Clear, Timer!Install, Timer!Start, Timer!Test,
                Timer!Format, Timer!Display, Timer!Reset
  <2>2. CASE Timer!Isr \/ Timer!Expire
    BY <2>2 DEF Timer!Isr, Timer!TimerCb, Timer!Expire, Timer!appVars, Counted
  <2>3. CASE Timer!Tick
    BY <2>3 DEF Timer!Tick
  <2> QED BY <2>1, <2>2, <2>3 DEF Timer!Next
<1>4. /\ {timer_count', disp', shown'} \subseteq 0 .. COUNTMOD - 1
      /\ left' \in 0 .. PERIOD /\ show' \in Shows /\ busy' \in 0 .. show'
  <2>1. /\ timer_count \in 0 .. COUNTMOD - 1 /\ disp \in 0 .. COUNTMOD - 1
        /\ shown \in 0 .. COUNTMOD - 1 /\ left \in 0 .. PERIOD /\ busy \in 0 .. show
        /\ show \in Shows /\ show \in Nat
    BY <1>0 DEF Timer!TypeOK
  <2>2. Counted(timer_count) \in 0 .. COUNTMOD - 1
    BY <2>1, CountedProps
  <2> QED BY <1>0, <1>2, <1>3, <2>1, <2>2
<1> QED BY <1>1, <1>2, <1>4 DEF Timer!TypeOK

LEMMA DoubleTypes ==
  ASSUME Double!TypeOK, Double!Next
  PROVE  Double!TypeOK'
<1>0. SEQMOD \in Nat /\ SEQMOD > 3
  BY ExamplesAssumption DEF ExamplesAssumption, Double!DblBufAssumption
<1> USE <1>0 DEF Double!TypeOK, Double!IrqTypeOK, Double!irqVars, Double!appVars, Double!Side
<1>1. CASE Double!Clear \/ Double!Install \/ Double!SetMode \/ Double!Enable
  BY <1>1, ZenonT(30) DEF Double!Step, Double!Clear, Double!ClearEvents, Double!Install,
              Double!InstallIsr, Double!EnableIrq, Double!DisableIrq, Double!SetMode,
              Double!Enable
<1>2. CASE (Double!TakeIrq \/ Double!TestLine \/ Double!LeaveIsr) /\ UNCHANGED Double!appVars
  <2>1. Double!IrqTypeOK'
    BY <1>2 DEF Double!TakeIrq, Double!TestLine, Double!LeaveIsr
  <2> QED BY <1>2, <2>1
<1>3. CASE Double!RxOk
  <2>1. Double!IrqTypeOK'
    BY <1>3 DEF Double!RxOk, Double!Handle
  <2> QED BY <1>3, <2>1 DEF Double!RxOk
<1>4. CASE Double!ReadData
  <2>1. buffer[hostSide] \in 0 .. SEQMOD - 1
    OBVIOUS
  <2>2. Double!IrqTypeOK'
    BY <1>4 DEF Double!ReadData
  <2> QED BY <1>4, <2>1, <2>2 DEF Double!ReadData
<1>5. CASE Double!Free
  <2>1. hostSide' \in {0, 1} /\ full' \subseteq {0, 1}
    BY <1>5 DEF Double!Free, Double!Other
  <2>2. Double!IrqTypeOK'
    BY <1>5 DEF Double!Free
  <2> QED BY <1>5, <2>1, <2>2 DEF Double!Free
<1>6. CASE Double!Receive
  <2>1. (heard + 1) % SEQMOD \in 0 .. SEQMOD - 1
    BY AfterProps DEF After
  <2>2. /\ heard' \in 0 .. SEQMOD - 1 /\ buffer' \in [{0, 1} -> 0 .. SEQMOD - 1]
        /\ full' \subseteq {0, 1} /\ rxSide' \in {0, 1} /\ chip' \in {"idle", "rx"}
    BY <1>6, <2>1 DEF Double!Receive, Double!Other
  <2>3. Double!IrqTypeOK'
    BY <1>6 DEF Double!Receive, Double!Raise, Double!Line, Double!RxOkOf
  <2> QED BY <1>6, <2>2, <2>3 DEF Double!Receive
<1> QED BY <1>1, <1>2, <1>3, <1>4, <1>5, <1>6 DEF Double!Next, Double!Isr

(* Every example keeps its types; 1d on a chip whose oscillator is within  *)
(* what the sleep counter can hold.                                        *)
THEOREM TypeCorrect ==
  ASSUME CountFits
  PROVE  Spec => []TypeOK
<1>1. Init => TypeOK
  <2> SUFFICES ASSUME Init PROVE TypeOK
    OBVIOUS
  <2>1. app = "tx_timed_sleep" => Sleep!TypeOK
    <3>1. cal \in Calibrations /\ MaxLag \in Nat /\ Sleep!Cap \in Nat
      BY ExamplesAssumption
         DEF ExamplesAssumption, Sleep!TimedSleepAssumption, Init, Sleep!Init, Sleep!Cap
    <3>2. 0 \in 0 .. MaxLag /\ 0 \in 0 .. Sleep!Cap
      BY <3>1
    <3> QED
      BY <3>1, <3>2
         DEF Init, Sleep!Init, Sleep!IrqInit, Sleep!TypeOK, Sleep!IrqTypeOK, CountFits
  <2>2. app = "simple_rx_pdoa" => Phase!TypeOK
    BY ExamplesAssumption
       DEF ExamplesAssumption, Phase!RxPdoaAssumption, Init, Phase!Init, Phase!IrqInit,
           Phase!TypeOK, Phase!IrqTypeOK
  <2>3. app = "timer_example" => Timer!TypeOK
    <3>1. 0 \in 0 .. COUNTMOD - 1 /\ 0 \in 0 .. PERIOD /\ \A s \in Shows : 0 \in 0 .. s
      BY ExamplesAssumption DEF ExamplesAssumption, Timer!TimerAssumption
    <3> QED
      BY <3>1 DEF Init, Timer!Init, Timer!IrqInit, Timer!TypeOK, Timer!IrqTypeOK
  <2>4. app = "double_buffer_rx" => Double!TypeOK
    <3>1. 0 \in 0 .. SEQMOD - 1
      BY ExamplesAssumption DEF ExamplesAssumption, Double!DblBufAssumption
    <3> QED
      BY <3>1 DEF Init, Double!Init, Double!IrqInit, Double!Side, Double!TypeOK, Double!IrqTypeOK
  <2>5. app = "tx_wait_resp_int" => Wait!TypeOK
    BY WaitInit DEF WaitHolds, WaitInv
  <2> QED BY <2>1, <2>2, <2>3, <2>4, <2>5 DEF Init, TypeOK
<1>2. TypeOK /\ WaitHolds /\ WaitHolds' /\ [Next]_vars => TypeOK'
  <2> SUFFICES ASSUME TypeOK, WaitHolds', [Next]_vars PROVE TypeOK'
    OBVIOUS
  <2>1. CASE Sleep!Next /\ SleepRuns
    BY <2>1, SleepTypes DEF SleepRuns, Runs, TypeOK
  <2>2. CASE Phase!Next /\ PhaseRuns
    BY <2>2, PhaseTypes DEF PhaseRuns, Runs, TypeOK
  <2>3. CASE Timer!Next /\ TimerRuns
    BY <2>3, TimerTypes DEF TimerRuns, Runs, TypeOK
  <2>4. CASE Double!Next /\ DoubleRuns
    BY <2>4, DoubleTypes DEF DoubleRuns, Runs, TypeOK
  <2>5. CASE Wait!Next /\ WaitRuns
    BY <2>5 DEF WaitRuns, Runs, TypeOK, WaitHolds, WaitInv
  <2>6. CASE UNCHANGED vars
    BY <2>6
       DEF vars, sleepVars, phaseVars, timerVars, doubleVars, waitVars, TypeOK, Sleep!TypeOK,
           Sleep!IrqTypeOK, Sleep!SleepCount, Phase!TypeOK, Phase!IrqTypeOK, Timer!TypeOK,
           Timer!IrqTypeOK, Double!TypeOK, Double!IrqTypeOK, Double!Side, Wait!TypeOK, Wait!IrqTypeOK
  <2> QED BY <2>1, <2>2, <2>3, <2>4, <2>5, <2>6 DEF Next
<1> QED BY <1>1, <1>2, WaitInvariance, PTL DEF Spec
=============================================================================
