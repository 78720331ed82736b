--------------------------- MODULE PlatformProofs ---------------------------
(***************************************************************************)
(* What the examples rest on.                                              *)
(*                                                                         *)
(* The SPI driver: transfers are whole for every set of events, every      *)
(* timing, and with events at any time. The inductive invariant says what  *)
(* makes a lock work that is tested and taken in two steps: an interrupt   *)
(* is nested in main, so it is out of its transfers, its lock returned,    *)
(* when main goes on.                                                      *)
(*                                                                         *)
(* The delays of shared_functions.c: the radio configurations with which   *)
(* single-sided ranging with STS works as NOTE 14 of                       *)
(* ss_twr_initiator_sts.c says are those with preambles shorter than 1024  *)
(* symbols.                                                                *)
(*                                                                         *)
(* The power boost: its look-up stays inside the tables, as the comment    *)
(* "lut_i cannot be == 0 or > lut_num here" claims.                        *)
(***************************************************************************)
EXTENDS SpiBus, FrameDelays, PowerBoost, TLAPS

Points == {"out", "wait", "lock", "fill", "select", "deselect", "unlock"}

AtOK == at \in [Context -> Points]

(* The interrupt is in a transfer only while it runs.                      *)
Nested == at["isr"] # "out" => ctx = "isr"

(* The lock is taken exactly while someone is past it.                     *)
LockIsHeld == lock <=> Inside("main") \/ Inside("isr")

OneInside == ~(Inside("main") /\ Inside("isr"))

(* What is filled in is not overwritten before it is sent.                 *)
OwnerKept == \A c \in Context : at[c] \in {"select", "deselect"} => owner = c

(* Chip select follows the one that sends.                                 *)
Selected == cs <=> at["main"] = "deselect" \/ at["isr"] = "deselect"

IInv == AtOK /\ Nested /\ LockIsHeld /\ OneInside /\ OwnerKept /\ Selected

(* The invariant implies the property.                                     *)
LEMMA IInvImplies == IInv => TransfersWhole
BY DEF IInv, OneInside, OwnerKept, Selected, TransfersWhole, Context

(* It holds at the start.                                                  *)
LEMMA IInvInit == SpiInit => IInv
BY DEF SpiInit, IrqInit, IInv, AtOK, Nested, LockIsHeld, OneInside, OwnerKept, Selected,
       Inside, Context, Points

(* A step of a transfer of one context keeps the invariant.                *)
LEMMA TransferStep ==
  ASSUME IInv, NEW c \in Context, Transfer(c)
  PROVE  IInv'
<1> USE DEF IInv, AtOK, Nested, LockIsHeld, OneInside, OwnerKept, Selected, Inside,
            Context, Points, irqVars
<1>1. CASE Request(c)
  BY <1>1 DEF Request, Step, Runs
<1>2. CASE RequestTooLong(c) \/ Spin(c)
  BY <1>2 DEF RequestTooLong, Spin, busVars
<1>3. CASE FindFree(c)
  BY <1>3 DEF FindFree, Step, Runs
<1>4. CASE Lock(c)
  BY <1>4 DEF Lock, Step, Runs
<1>5. CASE Fill(c)
  BY <1>5 DEF Fill, Step, Runs
<1>6. CASE Select(c)
  BY <1>6 DEF Select, Step, Runs
<1>7. CASE Deselect(c)
  BY <1>7 DEF Deselect, Step, Runs
<1>8. CASE Unlock(c)
  BY <1>8 DEF Unlock, Step, Runs
<1> QED BY <1>1, <1>2, <1>3, <1>4, <1>5, <1>6, <1>7, <1>8 DEF Transfer

(* Every step does.                                                        *)
LEMMA IInvStep == IInv /\ [SpiNext]_busVars => IInv'
<1> SUFFICES ASSUME IInv, [SpiNext]_busVars PROVE IInv'
  OBVIOUS
<1> USE DEF IInv, AtOK, Nested, LockIsHeld, OneInside, OwnerKept, Selected, Inside, Context
<1>1. CASE Install
  BY <1>1 DEF Install, InstallIsr, spiVars
<1>2. CASE \E c \in Context : Transfer(c)
  BY <1>2, TransferStep
<1>3. CASE Isr
  <2>1. CASE TakeIrq \/ TestLine
    BY <1>3, <2>1 DEF Isr, TakeIrq, TestLine, spiVars
  <2>2. CASE at["isr"] = "out" /\ (LeaveIsr \/ \E e \in Event : Handle(e))
    BY <1>3, <2>2 DEF Isr, LeaveIsr, Handle, spiVars
  <2> QED BY <1>3, <2>1, <2>2 DEF Isr
<1>4. CASE \E e \in Event : ChipEvent(e)
  BY <1>4 DEF ChipEvent, Raise
<1>5. CASE Tick
  BY <1>5 DEF Tick, irqVars
<1>6. CASE UNCHANGED busVars
  BY <1>6 DEF busVars, irqVars
<1> QED BY <1>1, <1>2, <1>3, <1>4, <1>5, <1>6 DEF SpiNext

(* One transfer at a time, each with the bytes of its own request, however *)
(* the interrupt falls between the steps of writetospi, readfromspi and    *)
(* writetospiwithcrc in main.                                              *)
THEOREM WholeTransfers == SpiSpec => []TransfersWhole
<1>1. IInv /\ [SpiNext]_busVars => IInv'
  BY IInvStep
<1> QED BY <1>1, IInvInit, IInvImplies, PTL DEF SpiSpec
-----------------------------------------------------------------------------
(* Without events at any time, the interrupt never meets a lock of main's. *)
(* The chip has to take longer for what a command leads to than main for   *)
(* the step that gives the lock back.                                      *)
ReactsLate == MaxLag < REACT

(* Once main is in a transfer no event is up, and none can come but those  *)
(* of the command it has just sent; these are still some time away.        *)
Undisturbed ==
  /\ owed \in Nat /\ react \in Nat /\ lag \in 0 .. MaxLag
  /\ ~async /\ at["main"] # "out" =>
       /\ status = {} /\ ctx # "isr"
       /\ owed > 0 => at["main"] = "unlock" /\ react + lag >= REACT

LEMMA UndisturbedInit == SpiInit => Undisturbed
BY SpiAssumption DEF SpiAssumption, SpiInit, Undisturbed, Context

LEMMA UndisturbedTransfer ==
  ASSUME IInv, Undisturbed, NEW c \in Context, Transfer(c)
  PROVE  Undisturbed'
<1>0. REACT \in Nat /\ MaxLag \in Nat
  BY SpiAssumption DEF SpiAssumption
<1> USE <1>0 DEF IInv, AtOK, Context, Points, Undisturbed, irqVars
<1>1. CASE Request(c)
  BY <1>1 DEF Request, Step, Runs, Line
<1>2. CASE RequestTooLong(c) \/ Spin(c)
  BY <1>2 DEF RequestTooLong, Spin, busVars
<1>3. CASE FindFree(c)
  BY <1>3 DEF FindFree, Step, Runs
<1>4. CASE Lock(c)
  BY <1>4 DEF Lock, Step, Runs
<1>5. CASE Fill(c)
  BY <1>5 DEF Fill, Step, Runs
<1>6. CASE Select(c)
  BY <1>6 DEF Select, Step, Runs
<1>7. CASE Deselect(c)
  BY <1>7 DEF Deselect, Step, Runs
<1>8. CASE Unlock(c)
  BY <1>8 DEF Unlock, Step, Runs
<1> QED BY <1>1, <1>2, <1>3, <1>4, <1>5, <1>6, <1>7, <1>8 DEF Transfer

LEMMA UndisturbedStep ==
  ASSUME ReactsLate, IInv, Undisturbed, [SpiNext]_busVars
  PROVE  Undisturbed'
<1>0. REACT \in Nat /\ MaxLag \in Nat /\ MaxLag < REACT
  BY SpiAssumption DEF SpiAssumption, ReactsLate
<1> USE <1>0 DEF IInv, AtOK, Context, Undisturbed
<1>1. CASE Install
  BY <1>1 DEF Install, InstallIsr, spiVars
<1>2. CASE \E c \in Context : Transfer(c)
  BY <1>2, UndisturbedTransfer
<1>3. CASE Isr
  <2>1. CASE TakeIrq \/ TestLine
    BY <1>3, <2>1 DEF Isr, TakeIrq, TestLine, Line, spiVars
  <2>2. CASE at["isr"] = "out" /\ (LeaveIsr \/ \E e \in Event : Handle(e))
    BY <1>3, <2>2 DEF Isr, LeaveIsr, Handle, spiVars
  <2> QED BY <1>3, <2>1, <2>2 DEF Isr
<1>4. CASE \E e \in Event : ChipEvent(e)
  <2>1. ~async => owed > 0 /\ react = 0
    BY <1>4 DEF ChipEvent
  <2>2. ~async => at["main"] = "out"
    BY <2>1
  <2>3. UNCHANGED <<async, at, react, lag>> /\ owed' \in Nat
    BY <1>4 DEF ChipEvent
  <2> QED BY <2>2, <2>3
<1>5. CASE Tick
  <2>1. at["main"] = "unlock" => InTransfer
    BY DEF InTransfer
  <2>2. /\ UNCHANGED <<async, at, owed, status, ctx>> /\ react > 0 /\ react' = react - 1
        /\ lag' = (IF InTransfer THEN lag + 1 ELSE 0) /\ (InTransfer => lag < MaxLag)
    BY <1>5 DEF Tick, irqVars
  <2> QED BY <2>1, <2>2
<1>6. CASE UNCHANGED busVars
  BY <1>6 DEF busVars, irqVars
<1> QED BY <1>1, <1>2, <1>3, <1>4, <1>5, <1>6 DEF SpiNext

(* The interrupt never spins for ever at a lock that main holds, whatever  *)
(* the processor needs for a step short of what the chip needs to react.   *)
THEOREM NeverSpinsForever ==
  ASSUME ReactsLate
  PROVE  SpiSpec => []NeverMeetsLock
<1>1. IInv /\ [SpiNext]_busVars => IInv'
  BY IInvStep
<1>2. IInv /\ Undisturbed /\ [SpiNext]_busVars => Undisturbed'
  BY UndisturbedStep
<1>3. IInv /\ Undisturbed => NeverMeetsLock
  BY DEF IInv, AtOK, Nested, LockIsHeld, Undisturbed, NeverMeetsLock, Inside, Context, Points
<1> QED BY <1>1, <1>2, <1>3, IInvInit, UndisturbedInit, PTL DEF SpiSpec
-----------------------------------------------------------------------------
(* A delay of up to 16 ms is what it seems to be: the product keeps within *)
(* 32 bits.                                                                *)
Delay == 0 .. 16000

Rounded(d) ==
  /\ DxTime(d) \in Nat
  /\ 256 * DxTime(d) <= d * 63898
  /\ d * 63898 < 256 * DxTime(d) + 256

(* DxTime rounds such a delay down.                                        *)
LEMMA DxTimeRounds ==
  ASSUME NEW d \in Delay
  PROVE  Rounded(d)
<1> DEFINE q == (d * 63898) \div 256
<1>1. q \in Nat /\ 256 * q <= d * 63898 /\ d * 63898 < 256 * q + 256
  BY SMT DEF Delay
<1>2. q < 16777216
  BY <1>1 DEF Delay
<1>3. q % 16777216 = q
  BY <1>1, <1>2
<1> QED BY <1>1, <1>3 DEF DxTime, UUS_TO_DWT_TIME, Rounded

(* Rounding does not use up a margin of ten microseconds.                  *)
Fits(a, b, d, e) ==
  /\ a \in Delay /\ b \in Delay /\ d \in Delay /\ e \in Delay
  /\ a + b + 10 <= d + e

(* Delays are numbers.                                                     *)
LEMMA DelayNat == ASSUME NEW d \in Delay PROVE d \in Nat
BY DEF Delay

(* Two delays that leave such a margin are the shorter in units, too.      *)
LEMMA Margin ==
  ASSUME NEW a, NEW b, NEW d, NEW e, Fits(a, b, d, e)
  PROVE  DxTime(a) + DxTime(b) < DxTime(d) + DxTime(e)
<1>1. a \in Delay /\ b \in Delay /\ d \in Delay /\ e \in Delay
  BY DEF Fits
<1>2. Rounded(a) /\ Rounded(b) /\ Rounded(d) /\ Rounded(e)
  BY <1>1, DxTimeRounds
<1>3. a \in Nat /\ b \in Nat /\ d \in Nat /\ e \in Nat
  BY <1>1, DelayNat
<1>4. 256 * (DxTime(a) + DxTime(b)) <= (a + b) * 63898
  BY <1>2, <1>3 DEF Rounded
<1>5. (d + e) * 63898 < 256 * (DxTime(d) + DxTime(e)) + 512
  BY <1>2, <1>3 DEF Rounded
<1>6. (a + b) * 63898 + 638980 <= (d + e) * 63898
  BY <1>3 DEF Fits
<1>7. /\ DxTime(a) \in Nat /\ DxTime(b) \in Nat
      /\ DxTime(d) \in Nat /\ DxTime(e) \in Nat
  BY <1>2 DEF Rounded
<1> QED BY <1>3, <1>4, <1>5, <1>6, <1>7

(* No delay is no time.                                                    *)
LEMMA DxTimeOfZero == DxTime(0) = 0
BY DEF DxTime, UUS_TO_DWT_TIME

Configurations == [preamble : {64, 128, 512}, rate : {"850K", "6M8"}, sts : {64, 128}]

(* The arguments of the four moments.                                      *)
ToOn(c)   == 700 - c.preamble + c.sts
ToOff(c)  == 1200 + get_rx_delay_time_data_rate(c) + get_rx_delay_time_txpreamble(c)
ToResp(c) == 850 + get_rx_delay_time_data_rate(c) + get_rx_delay_time_txpreamble(c) + c.sts
Ahead(c)  == c.preamble + 8
After(c)  == c.sts + DataTime(c)

(* The four moments are sums of such delays: the subtraction of            *)
(* set_delayed_rx_time stays positive.                                     *)
LEMMA Moments ==
  ASSUME NEW c \in Configurations
  PROVE  /\ RxOn(c) = DxTime(ToOn(c))
         /\ RxOff(c) = DxTime(ToOn(c)) + DxTime(ToOff(c))
         /\ RespBegin(c) = DxTime(ToResp(c)) - DxTime(Ahead(c))
         /\ RespEnd(c) = DxTime(ToResp(c)) + DxTime(After(c))
<1> DEFINE p == c.preamble
           s == c.sts
           rate == get_rx_delay_time_data_rate(c)
           long == get_rx_delay_time_txpreamble(c)
<1>1. p \in {64, 128, 512} /\ s \in {64, 128}
  BY DEF Configurations
<1>2. rate \in {0, 200}
  BY DEF get_rx_delay_time_data_rate
<1>3. long \in {0, 384}
  BY <1>1 DEF get_rx_delay_time_txpreamble
<1> HIDE DEF rate, long
<1>4. 700 + (0 - p) + s = 700 - p + s
  BY <1>1
<1>5. RxOn(c) = DxTime(ToOn(c))
  <2>1. POLL_TX_TO_RESP_RX_DLY_UUS = 700
    BY DEF POLL_TX_TO_RESP_RX_DLY_UUS, CPU_PROCESSING_TIME
  <2>2. p < 2048
    BY <1>1
  <2> QED BY <2>1, <2>2 DEF RxOn, set_delayed_rx_time, ToOn
<1>6. set_resp_rx_timeout(RESP_RX_TIMEOUT_UUS, c) = DxTime(ToOff(c))
  <2>1. 700 + rate + long + 500 + 0 = 1200 + rate + long
    BY <1>2, <1>3
  <2>2. ~(s >= 256)
    BY <1>1
  <2> QED BY <2>1, <2>2 DEF set_resp_rx_timeout, RESP_RX_TIMEOUT_UUS, ToOff, rate, long
<1>7. RespTxTime(c) = DxTime(ToResp(c))
  <2>1. POLL_RX_TO_RESP_TX_DLY_UUS = 850
    BY DEF POLL_RX_TO_RESP_TX_DLY_UUS, CPU_PROCESSING_TIME
  <2> QED BY <2>1 DEF RespTxTime, ToResp
<1> QED BY <1>5, <1>6, <1>7 DEF RxOff, RespBegin, RespEnd, SFD, Ahead, After

(* And they leave a margin.                                                *)
LEMMA ArgumentsFit ==
  ASSUME NEW c \in Configurations
  PROVE  /\ Fits(ToOn(c), Ahead(c), ToResp(c), 0)
         /\ Fits(ToResp(c), After(c), ToOn(c), ToOff(c))
<1> DEFINE p == c.preamble
           s == c.sts
           rate == get_rx_delay_time_data_rate(c)
           long == get_rx_delay_time_txpreamble(c)
           data == DataTime(c)
<1>1. p \in {64, 128, 512} /\ s \in {64, 128}
  BY DEF Configurations
<1>2. rate \in {0, 200}
  BY DEF get_rx_delay_time_data_rate
<1>3. long \in {0, 384}
  BY <1>1 DEF get_rx_delay_time_txpreamble
<1>4. data \in {50, 240}
  BY DEF DataTime
<1>5. /\ ToOn(c) = 700 - p + s /\ Ahead(c) = p + 8
      /\ ToResp(c) = 850 + rate + long + s
      /\ ToOff(c) = 1200 + rate + long /\ After(c) = s + data
  BY DEF ToOn, Ahead, ToResp, ToOff, After
<1> HIDE DEF p, s, rate, long, data
<1>6. ToOn(c) \in Delay /\ Ahead(c) \in Delay /\ 0 \in Delay
  <2>1. 700 - p + s \in Delay
    BY <1>1, SMTT(30) DEF Delay
  <2>2. p + 8 \in Delay /\ 0 \in Delay
    BY <1>1, SMTT(30) DEF Delay
  <2>3. ToOn(c) \in Delay /\ Ahead(c) \in Delay
    BY <2>1, <2>2, <1>5
  <2> QED BY <2>2, <2>3
<1>7. ToResp(c) \in Delay /\ ToOff(c) \in Delay
  <2>1. 850 + rate + long + s \in Delay
    BY <1>1, <1>2, <1>3, SMTT(30) DEF Delay
  <2>2. 1200 + rate + long \in Delay
    BY <1>2, <1>3, SMTT(30) DEF Delay
  <2> QED BY <2>1, <2>2, <1>5
<1>8. After(c) \in Delay
  <2>1. s + data \in Delay
    BY <1>1, <1>4 DEF Delay
  <2> QED BY <2>1, <1>5
<1>9. ToOn(c) + Ahead(c) + 10 <= ToResp(c) + 0
  <2>1. (700 - p + s) + (p + 8) + 10 <= (850 + rate + long + s) + 0
    BY <1>1, <1>2, <1>3, SMTT(30)
  <2> QED BY <2>1, <1>5
<1>10. ToResp(c) + After(c) + 10 <= ToOn(c) + ToOff(c)
  <2>1. (850 + rate + long + s) + (s + data) + 10 <= (700 - p + s) + (1200 + rate + long)
    BY <1>1, <1>2, <1>3, <1>4, SMTT(30)
  <2> QED BY <2>1, <1>5
<1> QED BY <1>6, <1>7, <1>8, <1>9, <1>10 DEF Fits

(* With a preamble shorter than 1024 symbols the initiator's receiver is   *)
(* on before the response begins and until it has ended, as NOTE 14 says:  *)
(* what the run finds of the longer ones is the only exception.            *)
THEOREM ShortPreamblesAreHeard ==
  ASSUME NEW c \in Configurations
  PROVE  RxOn(c) < RespBegin(c) /\ RespEnd(c) < RxOff(c)
<1>1. DxTime(ToOn(c)) + DxTime(Ahead(c)) < DxTime(ToResp(c)) + DxTime(0)
  BY ArgumentsFit, Margin
<1>2. DxTime(ToResp(c)) + DxTime(After(c)) < DxTime(ToOn(c)) + DxTime(ToOff(c))
  BY ArgumentsFit, Margin
<1>3. Fits(ToOn(c), Ahead(c), ToResp(c), 0) /\ Fits(ToResp(c), After(c), ToOn(c), ToOff(c))
  BY ArgumentsFit
<1>4. /\ DxTime(ToOn(c)) \in Nat /\ DxTime(Ahead(c)) \in Nat /\ DxTime(ToResp(c)) \in Nat
      /\ DxTime(ToOff(c)) \in Nat /\ DxTime(After(c)) \in Nat
  BY <1>3, DxTimeRounds DEF Fits, Rounded
<1>5. RxOn(c) < RespBegin(c)
  BY <1>1, <1>4, Moments, DxTimeOfZero
<1>6. RespEnd(c) < RxOff(c)
  BY <1>2, <1>4, Moments
<1> QED BY <1>5, <1>6
-----------------------------------------------------------------------------
(* The rounded-down index is in the table; at its first entry the table's  *)
(* longest duration is met exactly, so that no neighbour is asked for.     *)
LEMMA LongIndex ==
  ASSUME NEW d \in 201 .. 999
  PROVE  LutIndex(d) \in 1 .. 33
<1> DEFINE q == (d - 200) \div 25
<1>1. q \in 0 .. 31 /\ 25 * q <= d - 200 /\ d - 200 < 25 * q + 25
  BY SMT
<1>2. RawIndex(d) = 33 - q
  BY DEF RawIndex, Table, LONG
<1>3. RawIndex(d) \in 2 .. 33
  BY <1>1, <1>2
<1> QED BY <1>3 DEF LutIndex

(* In the table of the short frames the longest duration is 200 us.        *)
LEMMA ShortIndex ==
  ASSUME NEW d \in 70 .. 200
  PROVE  LutIndex(d) \in 1 .. 14
<1> DEFINE q == (d - 70) \div 10
<1>1. q \in 0 .. 13 /\ 10 * q <= d - 70 /\ d - 70 < 10 * q + 10
  BY SMT
<1>2. RawIndex(d) = 14 - q
  BY DEF RawIndex, Table, LONG, SHORT
<1>3. Limit(d) = 10 * q + 70
  BY <1>1, <1>2 DEF Limit, Table, LONG, SHORT
<1>4. Table(d).step \div 2 = 5
  BY DEF Table, LONG, SHORT
<1>5. q = 13 => Off(d) = 0
  BY <1>1, <1>3 DEF Off
<1>6. q = 13 => LutIndex(d) = 1
  BY <1>2, <1>4, <1>5 DEF LutIndex
<1>7. q # 13 => RawIndex(d) \in 2 .. 14
  BY <1>1, <1>2
<1> QED BY <1>1, <1>6, <1>7 DEF LutIndex

(* Whatever the frame's duration, the access to the table that             *)
(* calculate_power_boost makes is within it.                               *)
THEOREM LookupInTable ==
  ASSUME NEW d \in Nat, Tabulated(d)
  PROVE  LutIndex(d) \in DOMAIN Table(d).lut
<1>1. d \in 70 .. 999
  BY DEF Tabulated, SHORT, FRAME_DURATION_REF
<1>2. CASE d > 200
  <2>1. Table(d).lut = LONG.lut
    BY <1>2 DEF Table, LONG
  <2>2. DOMAIN LONG.lut = 1 .. 33
    BY DEF LONG
  <2>3. d \in 201 .. 999
    BY <1>1, <1>2
  <2>4. LutIndex(d) \in 1 .. 33
    BY <2>3, LongIndex, SMTT(30)
  <2> QED BY <2>1, <2>2, <2>4
<1>3. CASE d <= 200
  <2>1. Table(d).lut = SHORT.lut
    BY <1>1, <1>3 DEF Table, LONG
  <2>2. DOMAIN SHORT.lut = 1 .. 14
    BY DEF SHORT
  <2> QED BY <1>1, <1>3, <2>1, <2>2, ShortIndex
<1> QED BY <1>1, <1>2, <1>3
=============================================================================
