# Verification of the DWM3001C starter firmware

This directory holds TLA+ models of the firmware under `src/`, the TLC
configurations that check them on small instances, and TLAPS proofs of what
matters most for every value of the constants.

1. [The system](#1-the-system)
2. [Modules and how they map to the code](#2-modules-and-how-they-map-to-the-code)
3. [Runs: what is checked, with which bounds](#3-runs-what-is-checked-with-which-bounds)
4. [Fairness](#4-fairness)
5. [Proofs](#5-proofs)
6. [Findings](#6-findings)
7. [What is not modelled](#7-what-is-not-modelled)
8. [Plan](#8-plan)
9. [Running the project](#9-running-the-project)

## 1. The system

The firmware runs on a DWM3001C module: a Nordic nRF52833 processor (no
operating system, one thread and interrupts) and a Qorvo DW3000 ultra-wideband
transceiver on an SPI bus, with one IRQ line. `main.c` sets up the pins, the SPI
and the IRQ and calls exactly one *example*, which never returns. The radio
driver (`dwt_*` functions) is a binary library; the chip is hardware. Both are
external to the repository and modelled from how `src/Src` uses them.

| Part | State it keeps | Operations | Talks to |
|---|---|---|---|
| `main.c`, `example_selection.h` | none | start-up, call of one example | port, SPI, example |
| `platform/port.c` | installed handler, GPIOTE state of the IRQ pin | `dw_irq_init`, `process_deca_irq`, `port_set_dwic_isr` | chip's IRQ line, driver's `dwt_isr` |
| `platform/deca_mutex.c` | none (returns the pin's level) | `decamutexon`, `decamutexoff` | GPIOTE, called by the driver |
| `platform/deca_spi.c` | lock, static buffers, chip select | `writetospi`, `readfromspi`, `writetospiwithcrc`, rate switch | chip, called by the driver from main *and* from the interrupt |
| `shared_functions.c` | none | `waitforsysstatus`, timestamp conversions, `calculate_power_boost`, delays | driver |
| polled examples (05, 06, 07, most others) | loop position, `rx_buffer`, timestamps, sequence number | busy-wait on `SYS_STATUS`, send, receive, `Sleep` | peer board over the air |
| interrupt examples (01d, 02e, 02h, 03d, 18) | variables shared by main and call-backs | main loop, call-backs from `dwt_isr` | port, chip |
| DW3000 (external) | transceiver mode, status flags, timestamps, frame buffers, clock | commands, events | air, IRQ line |
| `config_options.c`, `sdk_config.h`, `custom_board.h` | constants | none | all |
| `MAC_802_15_4`, `MAC_802_15_8` | none (operate on a frame and the caller's header) | header fields, nonce, decryption checks | AES examples |
| SEGGER RTT (vendored; `printf` ends in it) | an up- and a down-ring, their offsets and mode, the active terminal | write, skip, put character, terminal output, read | debug probe |

Complete list with the status of each part: `PROJECT.json`, "components".

**What is hard here.** The source has no tests. Its difficulties are

* *two boards and an unreliable air*: frames lost, corrupted, foreign, too long;
  timeouts set on one clock for frames scheduled by another; retries that
  deliver twice; 40-bit clocks that wrap, of which 32 bits travel;
* *busy-waits without a timeout of their own*: `waitforsysstatus` returns only if
  the chip raises one of the awaited flags, so every loop depends on what it
  started, and on having cleared what was up before;
* *main and call-backs sharing plain variables*, with no lock: signals reset
  late, flags set after the action they belong to;
* *an edge-triggered interrupt on a level signal*, an enable that forgets an
  edge, a handler installed while the line may be high;
* *an SPI lock tested and taken in two steps*, at which an interrupt would spin
  for ever;
* *state that both sides must keep in step*: the counter of the scrambled
  timestamp sequence, the frame counter of the encryption, the two offsets of a
  ring buffer that the debug probe shares without a lock;
* *arithmetic of register units*: delays in unsigned integers, a trim in six bits.

`PROJECT.json`, "hazards", lists each at its line with the properties that
would catch it going wrong, or the reason why none does.

What makes each component correct:

* ranging: a reported distance is the true one; no host hangs; a lost frame costs
  one exchange; windows and delays fit together;
* acknowledged transfer: at-least-once delivery, in order, no gap; everything
  gets through in the end;
* interrupt port and its users: no event without its handler, no signal lost, the
  receiver never left off, values and counts passed to main intact;
* critical sections: the driver's handler stays out;
* SPI: one transfer at a time, no interrupt spinning on the lock;
* power boost: table accesses in bounds;
* ranging with STS and with encrypted frames: as ranging, and after any
  disturbance the counters meet again; no frame counter is used twice;
* plain, sleeping and answering loops: only disturbed frames are lost;
* clear channel assessment: the back-off finds the gap; crystal trim: it settles;
* debug channel: the ring is a stream of bytes, shown on the right terminal, and
  a mode that must not block does not;
* radio configurations: the receiver is on while the answer is on the air.

## 2. Modules and how they map to the code

`PROJECT.json`, "map", gives the source lines of every definition.

```
TwrTime ── UwbLink ── PolledHost ─┬─ DsTwr    (05a + 05b, 05c + 05d)   MCDsTwr
                                  ├─ SsTwr    (06a + 06b)              MCSsTwr
                                  ├─ AckData  (07a + 07b)              MCAckData
                                  │    └ implements Delivery
                                  ├─ StsTwr   (*_sts, *_sts_no_data) ┐
                                  ├─ AesTwr   (06e + 06f)            │
                                  ├─ Blinks   (01x + 02x, 03a + 03b) ├ PolledExamples
                                  └─ LePend   (15)   ── MCLePend     │  MCPolledExamples
                                     TxCca    (01e)                  │
                                     XtalTrim (02f)                  ┘
IrqPort ─┬─ TxWaitInt    (03d) ┐
         ├─ TimedSleep   (01d) │
         ├─ RxPdoa       (02h) ├─ IrqExamples                          MCIrqExamples
         ├─ TimerExample (18)  │
         ├─ DblBufRx     (02e) ┘
         ├─ DecaMutex    (deca_mutex.c)                                MCDecaMutex
         └─ SpiBus       (deca_spi.c)                ┐
Rtt (SEGGER_RTT.c) ── implements ByteStream          ┴                  MCPlatform
FrameDelays (config_options.c and the delays of shared_functions.c)
  └─ FrameTiming (the exchange they lead to)
PowerBoost  (calculate_power_boost)
```

**TwrTime** — timestamps modulo `TSMOD` (2^40), the 32-bit copies in frames
(`MsgTs`, modulo `LOMOD`), the delayed transmission time rounded to `QUANTUM`
(the shift by 8 and the ignored bit 0), its prediction `DelayedTxTs`, the
`int32_t` reading of a difference, and the two time-of-flight formulas with C's
truncating division.

**UwbLink** — two transceivers and the air. Status flags stay up until written
back; a reception ends at its first event; `DWT_RESPONSE_EXPECTED` opens the
receiver `rxDly` after the frame for `rxTo`; a delayed start fails when its time
lies behind; timestamp and frame registers are overwritten by the next frame.
Frames may be lost, corrupted or replaced by foreign ones, at most `MaxFaults`
times. Time is discrete; the two clocks have any offset and the same rate.

**PolledHost** — the loops without interrupts. One action is everything from the
end of one `waitforsysstatus` to the start of the next: the host is the only
thread, its chip is quiet in between, and `MaxLag` lets the action come late,
which is what matters to the delayed transmissions. `ReadFrame` keeps the
length check of the double-sided examples: a frame that is too long leaves
`rx_buffer` as it was.

**DsTwr, SsTwr** — double-sided and single-sided ranging: one action per branch
of each loop, the failing `dwt_starttx` included. In **DsTwr** the variable
`sdc` chooses between the plain pair (05a, 05b) and the one with a super
deterministic STS (05c, 05d): the same exchange, with the STS checked before a
frame is looked at and other flags cleared. That code is the same on every
board, so the STS of another network's frame may be good or bad
(`MayDistrust`). The history variable `unread` names the nodes that took a
frame too long to be read for the one they waited for (`Take`).
`frame_seq_nb` is left out because receivers zero the field before they look at a frame. The single-sided
clock-offset correction is left out, with the clock drift it corrects.

**AckData** — the sender's retransmission loop, the receiver and the chip's
automatic acknowledgment. `arrived` and `got` are history variables. NOTE 6 of
`ack_data_tx.c` gives a receiver turn-on delay of 0 where the code sets 50; the
model follows the code. **Delivery** is the promise: messages are confirmed only
after they arrived and are read one by one in order. `AckData` implements it
with `next <- tx_frame_ack_nb`, `stored <- arrived`, `taken <- got`.

**StsTwr** — the six loops with a scrambled timestamp sequence; `proto` says
which pair runs. `sts[n]` is the counter of n's chip, from the value that the
loops reload; a frame carries the sender's, and `StsGood` compares. In `"nd"`
poll and response are nothing but an STS, and a report in an ordinary frame
follows, for which the initiator keeps its two times. The loops leave flags of
receptions up on some paths and rely on the receiver to take them down when it is
enabled again (`EnableFresh`). The delayed start of the receiver counts from the
transmission's timestamp. The responder's `messageFlag` is set exactly at
`waitFinal`. The error counters are left out: nothing reads them.

**AesTwr** — `hdr[n]` is the frame counter in the one header each host builds its
frames in *and* reads the received headers into: `rx_aes_802_15_4` copies the
header before it looks at it, also that of a frame it then ignores. `unsecured`
are the hosts whose header has lost its security bit that way; what they send
from it says that it is not secured (`"plain"`), and the other host ignores it. `used` remembers the
counters each host encrypted with. A reserved security level, at which
`mac_frame_get_aux_mic_size` gives another length, is left out. `StopOnFrame`: `rx_aes_802_15_4` reports an error for
what is no frame of the standard, at which both hosts stop in a loop.

**Blinks** — sixteen loops as two, with a record of traits for each example: what
is sent, where it waits, what it clears, how its chip gets to sleep, what it
answers, at what it stops. `Pairs` are the examples meant for each other.

**LePend** — both loops of example 15 and the chip's automatic acknowledgment.
The sender sets no receive timeout, which the model follows.

**TxCca** — the back-off of 01e in milliseconds against a periodic sender that
leaves one part in `Share` of its period clear. **XtalTrim** — the correction of
02f with its `float` expressions carried out on integers (units of 2^-26), for a
chip whose step is not the one the code assumes.

**PolledExamples** — those five and one chip each, one at a time, as `main.c`
selects them; the variables of the others stay.

**IrqPort** — GPIOTE latches the rising edge, the handler loops until the line
is low, `dwt_isr` reads the status once and handles what it found. Enabling
forgets a pending edge; `port_set_dwic_isr` leaves the interrupt off if it finds
the line high. A main loop of a module that extends it steps only while
`ctx = "main"`, one shared access per action.

**TxWaitInt, TimedSleep, RxPdoa, TimerExample, DblBufRx** — the examples that
use the port: `pc` is the position of the main loop, the shared variables keep
their names, each call-back is one action or one per access that matters (in 02h,
`rx_ok_cb` starts the next reception and then reads). 02e is modelled as it is
compiled, with `USE_MANUAL_RX_ENABLE` 0: the chip turns its receiver on again by
itself and runs ahead of the handler by up to two frames, and the handler reads
the buffer that is the host's and gives it back; errors do not interrupt. **IrqExamples** puts the five of them on
one port, chip and processor: `app` is the example `main.c` calls, and the
variables of the others stay. The shared variables are not `volatile`; the
common configuration of `dw3000_api.emProject` builds with optimisation Level 0,
and the models read memory where the source does. A build at Level 1, which the
solution's Release configuration names, may hoist those loads out of the waiting
loops, which no model here covers.

**SpiBus** — a transfer in the steps call, find the lock free, take it, fill the
buffer, select, deselect, unlock; by main and by `dwt_isr`. `async` chooses
between a chip that raises events at any time and one that raises them only in
answer to main's command, `REACT` ticks later at the earliest.

**DecaMutex** — the driver entering and leaving critical sections while the chip
raises events.

**Rtt** — a ring, the side that fills it and the side that empties it, each call
in the steps that touch what the other side reads: compute the room, copy, store
the offset (`Room`, `Copy`, `Post`), read the offsets, fetch a byte, store
(`Probe` or `Read`, `Fetch`, `Store`). `chan` chooses between the up-ring (the
firmware fills it, in one of three modes) and the down-ring (the probe fills it).
`SEGGER_RTT_LOCK` keeps the interrupts out, so that one call is in progress at a
time. A slot that has been read becomes `Free`, which makes behaviours that
differ only in old bytes one. The viewer at the other end follows the switches of
terminal. **ByteStream** is the promise: bytes come out once, unchanged, in order.

**FrameDelays** — per configuration, the moments at which the initiator's receiver
goes on and off and the response begins and ends, with the 32-bit arithmetic of
the helpers; **FrameTiming** lets the events happen in that order. **PowerBoost** — both tables,
the index arithmetic and its correction.

Definitions called *mutant of X* restate an operation with a plausible mistake.
They take no part in any specification; they show that the properties can fail.

## 3. Runs: what is checked, with which bounds

| Run | Shows | Bounds |
|---|---|---|
| `ds_safety` | Double-sided, with and without SDC: `WaitWillEnd` (no host waits for what never comes); `NoStaleEvent` (no wait is ended by an old flag); `DistanceIsTrue` (of every exchange whose frames both hosts read) | 2 polls, 2 faults of lost, corrupted or foreign frames (too long to be read, or received with an error; with SDC, of a good STS or a bad one), lag up to 2, 2 clock offsets |
| `ds_live` | `NoTimeoutOnceRanging`, `PollIsRanged` (as long as nothing is lost), `ExchangeEnds` (whatever is lost) | 3 polls, 1 fault (foreign frames that fit the buffer included), lag up to 1, 2 clock offsets each |
| `ds_wrong_distance` | `EveryDistanceIsTrue` is **violated** once a frame is longer than `rx_buffer`, with SDC and without | 3 polls, 2 long frames |
| `ss` | Single-sided: `WaitWillEnd`, `NoStaleEvent`, `DistanceIsTrue`, long frames included; `PollIsRanged` on a clean channel with prompt hosts | 2 polls, 1 fault, lag up to 2, 3 clock offsets each |
| `ack_transfer` | `DeliversInOrder` (refines `Delivery`), `AllAcked`, `WaitWillEnd`, `NoStaleFlag` | 3 messages, 12 transmissions, 3 faults, lag up to 2, numbers modulo 2 |
| `irq_examples` | 03d: `EventsServed`, `StartsIdle`, `SignalKept`; 01d: `SendsConfigured`, `WakeUpIsSeen`, `BlinkInTime`; both: `AlwaysNextBlink`; 02h: `NeverNoise`, `LastIsShown`; 02h and 02e: `KeepsListening`; 18: `NoneSkipped`, `NeverRepeats`; 02e: `NoneLost`; the types of all | all 5 events, 4 oscillator calibrations, 3 phases, terminals of 3 and 9 ticks for a period of 4, counts modulo 16 and 8 |
| `mutex_section` | `SectionExcludesIsr` is **violated** | 2 kinds of event |
| `polled_examples` | STS, AES, plain loops, 15: `WaitWillEnd`, `NoStaleFlag`, `LosesFew` (after a disturbance nothing but the exchange in progress is lost; with AES, unless the initiator ignored a frame that is not secured); STS, AES: `DistanceIsTrue`; AES: `CounterFresh`; 01e: `GetsThrough`; 02f: `TrimSettles` | 5 polls (`"ds"` 6), 1 fault in one of the first two exchanges, lag up to 2 (in ranging, in the first three); 6 periods; 121 offsets up to 39 ppm, 2 trims, 2 steps |
| `aes_goes_on` | `RangingGoesOn` is **violated**: after one unsecured frame of another network no poll is answered any more | as `polled_examples`, 06e and 06f only |
| `platform` | Debug channel: `Streams` (refines `ByteStream`), `NeverSpins`, `OnItsTerminal`. SPI: `TransfersWhole`; `NeverMeetsLock` when events answer commands. A behaviour is about one of the two | 6 bytes, texts of 1 and 6, 2 terminals, all modes; 2 kinds of event, `REACT` 8, lag 7 |
| `le_pend` | `AlwaysNextCommand` is **violated** by one lost frame | commands without a bound, 1 fault |
| `timing` | `HearsResponse` is **violated** by preambles of 1024 symbols | all 33 configurations |

Why the bounds are enough:

* *Clocks*: `TSMOD` is 16 or 32, so each exchange passes the wrap of some
  clock; `LOMOD` is half of it, so that the truncated copies lose a bit that
  matters; `QUANTUM = 2` and start values of both parities make the rounding of
  delayed times differ. An exchange must stay shorter than `LOMOD`, as it does
  in the code (2^32 units are 67 ms).
* *Polls*: a fault of one exchange shows at the latest in the next, or in the
  one after it where the responder waits for a final message without a timeout
  (STS, `"ds"`). Two polls are enough for the waits and the distance of `ds_safety`; three
  cover a responder that misses one and recovers (`ds_live`). In `polled_examples` a
  fault excuses the exchange in progress, and the losses after it count; five polls
  (`"ds"`: six) leave a fault in the first *or the second* exchange enough of them
  to break `LosesFew`: a responder that does not reload its counter breaks it in all
  three pairs with a fault in the second exchange alone, and so does the
  initiator of `aes_goes_on`.
* *Faults*: two let one disturb an exchange and another the recovery.
* *Lag*: 2 is enough to make the delayed transmissions too late (`RecvPollLate`,
  `RecvResponseLate`). The smaller lag of `ds_live` excludes that; in `ss` and
  `polled_examples` a late start excuses the exchange it spoils (`PROMPT`,
  `since`).
* *Delays* keep the proportions of the code's: the receiver opens before the
  earliest frame and closes after the latest, and an exchange ends before the next poll.
* *Sequence numbers* modulo 2 are the hardest case for an acknowledgment that
  carries nothing else. Foreign acknowledgments carry another number than the
  frame that waits (`ForeignAcks = {1}`): one with the same number cannot be
  told apart by the code, which checks length, frame control and number, not who
  sent it. So delivery is shown under the assumption that no other network
  acknowledges the same number at the same moment.
* *SPI*: `REACT > MaxLag` is the assumption under which `NeverMeetsLock` holds: the
  shortest time from a command to its first event (an air frame, of the order
  of 100 us) is longer than what main needs to leave the transfer. With events at
  any time an interrupt can meet the lock and spin for ever; `NeverMeetsLock` claims
  nothing then, `TransfersWhole` holds all the same.

* *Channel*: a gap shorter than the step between attempts could be missed for
  ever (a gap of 2 ms in a period of 50 ms is, with the back-off of the code), so
  that `GetsThrough` is shown for a channel that is clear for a quarter of the
  period. The chip is taken to lower `CCA_FAIL` at the next start, as the host
  never does.
* *Trim*: where the first correction would leave the six bits, it wraps and may
  swing between the ends for ever; `InReach` leaves those starts out. Steps are
  77/64 ppm (the example's constant) and 1.65 ppm (`deca_device_api.h`).
* *Foreign frames* in `ds_safety`: a frame that can be read and is not of
  the exchange leads to the branch of a bad one; `ds_live` has it besides.
* *AES*: a foreign frame that is no frame of the standard stops the hosts
  (`StopOnFrame`). One that is, but not secured or with other addresses,
  leaves its header behind, and the next poll goes out with its counter and
  its security bit: `CounterFresh` excuses what follows, and says so in
  `nonces`; `LosesFew` excuses an initiator that has read a header without
  the bit, and `aes_goes_on` shows what is excused (section 6).
* *Ring*: six bytes hold one text between two switches of terminal with one byte to
  spare, so that each call meets full, nearly full and wrapping rings.
  `RttProofs` has the refinement and `NeverSpins` for every size.

Deadlock is checked in every run. The ranging and acknowledged-transfer models end with their
bound on polls or transmissions, after which time goes on passing.

## 4. Fairness

* *Polled examples*: weak fairness of each host's loop (nothing else runs on the
  processor), of the hardware (an armed frame leaves, an open window closes) and
  of the tick. None of interference: the air may behave. `MaxLag` bounds the
  host besides.
* *LePend*: weak fairness of both loops, the chips and the tick.
* *TxWaitInt*: weak fairness of main, of the handler, of the end of a
  transmission, and of the response timeout only: no frame need ever come.
  Weak fairness of main suffices as the chip does nothing after one reception.
* *TimedSleep*: weak fairness of the whole step; `MaxLag` forces host and chip.
* *RxPdoa*: strong fairness of main and of the last return from the handler.
  A frame takes longer than leaving the interrupt and one step of main, so both
  happen between frames however fast they come.
* The other models need none: their properties are safety properties. What must
  eventually happen in `polled_examples` is stated as a bound (`LosesFew`,
  `GetsThrough`, `TrimSettles`), which says more than liveness would.

## 5. Proofs

All are theorems of the unbounded specification: for every value of the
constants the assumptions of the modules allow, for any number of ticks.

| Module | Theorems |
|---|---|
| `PolledHostProofs` | lemmas about each command of a host, each hardware action, the tick and the truncated times, cited by the ranging and acknowledgment modules |
| `DsTwrProofs` | `HostsChipsInvariant`, `WaitsEnd`, `NoStaleEvents`, `DistanceAlwaysTrue`, `WindowsAlwaysFit`, `TypeCorrect` |
| `SsTwrProofs` | `WaitsEnd`, `NoStaleEvents`, `DistanceAlwaysTrue`, `TypeCorrect` |
| `AckDataProofs` | `WaitsEnd`, `FlagsAreFresh`, `Delivers` (the refinement of `Delivery`), `TypeCorrect` |
| `PolledExamplesProofs` | of `PolledExamples`, the loops without interrupts that have no run of their own: `WaitsEnd`, `NoStaleFlags` (all); `DistanceAlwaysTrue` (STS and encrypted frames), `EncryptedDistanceTrue` (06e and 06f, with fewer assumptions), `NoCounterTwice` (06e and 06f); `BackOffFindsTheGap` (01e); `TrimComesToRest` (02f) |
| `IrqExamplesProofs` | of `IrqExamples`, where the five examples share the port, the chip and the processor: `AllEventsServed`, `AlwaysStartsIdle`, `SignalAlwaysKept` (03d); `NoiseNeverTaken` (02h), `NoFrameLost` (02e), `AlwaysListening` (both); `ConfiguredWhenSent`, `WakeUpAlwaysSeen`, `AlwaysInTime` (01d); `NoCountSkipped`, `NothingRepeated` (18); `TypeCorrect` (all) |
| `RttProofs` | `RingIsStream`, `CallsNeverSpin`, `NeverOverwrites`, `TextsOnTheirTerminals` |
| `PlatformProofs` | `WholeTransfers`, `NeverSpinsForever` (SPI); `ShortPreamblesAreHeard` (delays); `LookupInTable` (power boost) |

*Ranging.* `WaitWillEnd` and `NoStaleEvent` speak of a host that waits. Neither
is inductive: after `Transmit` the initiator's chip is in the gap, and that no
awaited flag is up depends on the flags cleared before the start. The inductive
invariant therefore says, for each point of each loop, in which modes its chip
can be and which flags can be up. A step of one node leaves the other's part
alone, so that the proof goes action by action over a single node, and the
lemmas of `PolledHostProofs` say what each command does to mode and flags. The
assumptions used are the types of the constants and that a response timeout is
not 0; without the latter a lost frame would end no wait.

*Distance.* `DistanceIsTrue` looks at the result only; the invariant has to say of
every timestamp, in a register, in a frame on the air, in a buffer or in a
variable, which transmission or reception it belongs to. It does so without a
history: the clocks of both nodes and the ticks since the last poll and the last
response (`SincePoll`, `SinceResponse`, counted on the clock of the one that sent
it) determine what an honest timestamp must be. `OneAtATime` says that at most one message of the
exchange is under way, and that what a host waits for answers the last message it
sent: the next poll is `NextPoll` ticks away, and an answer takes less, so that none
comes after it. The rest is arithmetic: a delayed reply leaves at the
programmed time, rounded (`DelayedReply`), and differences of truncated copies are those of the
clocks (`CopiesSubtract`), so that the formula is exact whatever the rounding and
wherever the clocks wrap. `ReplyIsSwift` and `ExchangeIsSwift` are the
hypotheses: an answer comes or is missed before the next poll; both round trips
fit the 32-bit copies (for the signed difference of single-sided ranging, half of them);
a delayed transmission that is too late is recognised (the chip looks
half a wrap ahead). For double-sided ranging `ExchangeIsSwift` says, too, that a frame flies
for less than the two delays after which a receiver opens: a response or final that is sent
without its predecessor having been read, at whatever time, is over before a receiver could take it
for one of the next exchange. The delays of the code fulfil them (milliseconds, against a
second between polls and 67 ms of the copies), and so do the constants of
`ds_safety` and `ss`. Frames of any length are allowed; the theorem speaks of every
exchange whose frames were read, whatever came before it (`unread = {}` when the final message is
taken). The invariant therefore ties timestamps to each other only as far as the poll
(`PollRead`) and the response (`ResponseRead`) they come from were read. That the condition is needed
is the finding of `ds_wrong_distance`.

*Windows.* That no receiver times out on a clean channel once an exchange has succeeded
(`NoTimeoutOnceRanging`, proved as `WindowsAlwaysFit`) is what the delays and timeouts of the two programs are chosen for.
The invariant (`Regular`) lists the nine situations an undisturbed exchange goes through, from `Quiet` (both
nodes rest, or the poll is about to leave) over `Polled`, `Heard`, `Answering`, `Answered`, `Got`,
`Ending` and `Ended` to `HasFinal`, and says in each of them how many ticks each receiver that
is still to open, or open, is from its window (`Opens`), as a function of the one thing that goes on: a frame on
the air, an armed transmission or a host that has not looked yet. `r` is what the rounding of
a delayed transmission took off. `Ready` says that the responder listens
before the next poll can come; what makes it true after a result is that a final message
finds the pause of the initiator ahead (`FinalsLast`). In no situation is a receiver
on whose time is over, and a wait that has ended was ended by the frame of the next situation (`WaitedForPoll`,
`WaitedForResponse`, `WaitedForFinal`). The invariant of the distance is used on the way: it says
when a host's clock is how far past its reception, as on a channel that was never disturbed
every frame has been read (`AllRead`). The hypotheses, `WindowsFit`: a host notices a
reception early enough for its delayed transmission, by a quantum (`NotLate`); a window opens at the
latest when its frame comes, with that rounded down, and closes after it; and the
responder's pause after a result is shorter than the initiator's, by twice the lag. That is the reason of
`RNG_DELAY_MS - 10` in the responder. The constants of `ds_live` fulfil them, the two
on opening and closing with nothing to spare.

*Acknowledged transfer.* The waits need the same kind of invariant as ranging, plus the
acknowledgment the chip sends by itself. For `Delivery`, whatever is under
way to the receiver or was read by it last carries the number of the current message or
of the one before, and an acknowledgment under way that carries the current number answers
a frame the receiver has got; the sender advances on nothing else. One bit of
number is enough: `AckAssumption` asks for two numbers, a delay before the acknowledgment
and a transmission that takes time. `NoneMistaken` is the hypothesis
of `Delivers`: no foreign acknowledgment carries a number the sender
waits for (see the bounds above); the waits and flags are proved without it.

*The other polled loops.* `Phases` says for every point of every loop what its chip does
and which flags can be up, as far as the next wait depends on it. Two loops need less
than ranging does and two need more: with STS flags of receptions stay up, so
a point only says what the next wait looks at, and the receiver takes them down when it
is started; the sender of 03a must set a timeout, the one of 15 has none, and a chip that is put
to sleep with TXFRS up must not be sent to before it has woken up without it (`BlinkPhases`). In 15
the receiver's chip is at work on an acknowledgment while RXFCG is up, which is why its
`NoStaleFlag` is a property of its own.

*Encrypted frames.* In 06e and 06f the initiator's next poll may follow at once, without the pause, so
an earlier poll or answer may still be under way when it leaves. The distance needs
that none of them is heard: each either arrives before the next poll and belongs to the
last one, or it is over before the receiver of the initiator is on again (`Gone`). For the counters
(`NoCounterTwice`), as long as the nonces are fresh: every poll on the air or taken
by the responder carries a counter of its own that no answer was encrypted with (`PollsDiffer`),
the counter in the initiator's header has not been used between two polls, and the counters of answers are those of
polls plus one (`CountsUp`); the answer that overwrites the header therefore writes the
number that counting would have written there. The hypothesis `RoundTripFits` asks that a
round trip is shorter than two of the delays after which that receiver opens, that it fits half the
32-bit copies, and that a late responder notices it. In the code the receiver
opens 1720 UUS after the poll (06e, with `CPU_PROCESSING_TIME`), and the response leaves 2000 UUS after
the poll came: 2000 against 3440, and against 33 ms of the copies.

*Ranging with STS.* The counters of the sequence keep exchanges apart as little else does, so
the invariant (`StsExchange`) ties them to the points of the loops (`StsRoles`), and then follows
the timestamps of the one exchange in progress through the air, the registers and the
variables. `Coming` are the frames on the air and those armed: there is one at most, save for the
response and report of the pairs without data (`Apart`); it arrives before another poll could, and
what it carries is what an honest sender would have written (`ComingFits`). A poll was sent `FLIGHT` ticks
before it arrives, by the clock of the other node (`PollArrives`); a response carries the times of
that poll's arrival and, predicted, of its own (`RespSays`); a final message carries
differences that are the round trip and the initiator's reply, and arrives when
both have passed (`FinalSays`). `PollFits`, `RespFits`, `FinalFits` and `ReportFits` say the same of a frame
once it is received and its host has not looked yet, `KeptFits` of the times the initiator keeps over the
reception of the report, `SentFits` of the responder's response, and `ReportingFits` how much of the
time to the report is over. All of these are equations modulo the 32 bits of the copies
(`SameLo`), since the clocks wrap. A responder may notice a poll too late to answer it; only
then (not `Timely`) may another poll be under way.
The hypotheses, `StsSwift`: what follows a poll is over before the next one (delays of at most
a few ms against `RNG_DELAY_MS`, 1 s); both round trips fit the copies (67 ms), for the signed
difference of single-sided ranging half of them; a delay is not below the resolution of delayed
transmissions (8 ns); a host too late for one finds it behind its clock (half of 17 s). They
hold of the constants of `polled_examples`.

*Back-off.* While the channel stays busy, the pause modulo the other sender's period
counts up from the moment it passed a multiple of the period, and the attempts move through
the period by one, two, three ... milliseconds (`Climbing`). They have to cross the gap of one
`Share`-th in steps that are longer than it only if the period is short: `WideGap` is what the
sum of the steps needs. It holds for the periods of the run except the shortest (16 ms),
for which `GetsThrough` is only model-checked. The invariant multiplies two variables;
those facts (`ProductsGrow`, `RemainderIs`) are lemmas of their own.

*Crystal trim.* After each correction the offset is in one of five nested intervals
(`Left`), found with TLC; a reading in the k-th, whatever the noise and the chip's step, leads to a
correction that stays in the six bits and ends in the next, and in the last one no
reading is off target. `PlausibleCrystal` bounds the step by the two values the repository
names (77 ppm in 64 steps, 1.65 ppm), the noise by 0.3 ppm and the first offset by the 42 ppm a
trim can correct at all.

*Interrupt port.* `EventsServed` needs that the latch, the handler's position
and the enable are tied: whenever the line is high, an edge is latched or the
handler will look at the line again. `StartsIdle` and `SignalKept` follow from an
invariant that ties the position of main, the chip and what the handler has
found: while a blink is on its way, the chip is still at it, or its event is up, or the
signal is set; and once main has seen the signal nothing is left to be handled. `Install` is the delicate step: it
finds the line low because `Clear` took the only event that could be up.

*The other interrupt examples.* `Port` is what they have in common: until the
handler is installed only the event of the reset is up, and afterwards a flag is
up only with an edge latched or the handler running. 02h adds
`Reception`: one reception ends with one event, and the receiver is on unless
that event is up or found. In 02e the receiver works on while the handler reads, and
up to two frames wait. A buffer is full exactly while its event is up or the handler is at it
(`Signals`); the host's buffer fills first, and the numbers of the frame taken last, those in
the full buffers and of the one heard last follow each other, modulo the width of
the sequence number (`Buffers`), which gives `NoFrameLost`. That two frames raise the line only once does
no harm, as the handler looks again before it returns (`AlwaysListening`). For 18 the time left of the period and the
time spent on showing a count add up to the period, so that none expires while
main shows. For 01d the flag is set after the chip was sent to sleep; that the wake-up
does not come in between is a matter of time, which the theorems state as their
hypothesis `SleepsLonger`: for every calibration the sleep (990 ms, rounded down to the unit of
the counter) lasts longer than main may take for a step. It holds of
the constants of `irq_examples`. For `AlwaysInTime` each point of main has its latest
time since the last blink; `MarginSuffices` adds up the five lags, the waking and the
sending, and the 10 ms by which the sleep is short pay for them. `NothingRepeated`
counts the expiries since a count was taken; `GoesOn` says that showing it ends before the
counter is round. `CountFits`, for `TypeCorrect`, is what the driver's 16-bit sleep
count needs. All four hold of the constants of the run.

*SPI.* The invariant says that the lock is taken exactly while someone is inside
a transfer, and that the interrupt is in one only while it runs: it can only get
in if it found the lock free, and main, which may stand between the test and the
taking, does not step until the interrupt has given the lock back. For
`NeverSpinsForever` no event may be up while main is in a transfer; the hypothesis
`ReactsLate` is the run's `REACT > MaxLag`.

*Power boost.* `LookupInTable`: for every duration below the reference and not
below the shortest, the index is within its table ("lut_i cannot be == 0 or >
lut_num here", says the source).

*Debug channel.* Each side reads an offset the other moves. The inductive
invariant of `RttProofs` says that what a call has yet to write fits the room
that was there when it looked (the probe can only have added to it), and that
what the probe has yet to read lies between the offsets. `CallsNeverSpin` is then
one step; `NeverOverwrites` says that a copy touches only the slots outside the
posted bytes. For `RingIsStream` the invariant `Bytes` adds that the pieces a call
is cut into make up the rest of what it writes, and that the bytes copied but not
posted yet are in the slots after the write offset, in their order. The stream is
what the slots hold from the next byte the probe fetches to the write offset; each
step of the ring is then a step of `ByteStream` or leaves the stream alone, one lemma per action.
`TextsOnTheirTerminals` needs what the probe's viewer will have switched to
when it reaches each byte of the ring: a text is written only after the
switch before it found room, and the switch back after it may not be skipped.

*Delays.* `ShortPreamblesAreHeard` is the positive side of the finding of `timing`: for
every preamble below 1024 symbols, rate and STS length, the receiver is on before
the response begins and until it has ended. `DxTime` rounds down by less than a
unit, so sums of delays that differ by ten microseconds keep their order.

The types of `DsTwr`, `SsTwr` and `AckData` are proved and in no run; that of `Rtt`
is part of the invariant of its proofs.

**Only model-checked**: of `PolledExamples`, `LosesFew`; and all liveness:
`AlwaysNextBlink`, `LastIsShown`, `PollIsRanged`, `ExchangeEnds`, `AllAcked`. Liveness under
fairness, ENABLED and induction over data are out of the prover's reach.

## 6. Findings

1. **A wrong distance after a frame that is too long** (`ds_wrong_distance`;
   `ex_05a_ds_twr_init/ds_twr_initiator.c:189`, `ex_05b_ds_twr_resp/ds_twr_responder.c:179`).
   The double-sided examples
   read a frame only if it fits `rx_buffer`, but compare the buffer in either
   case. While the initiator waits for a response its buffer holds that of an earlier
   exchange; while the responder waits for a poll, it may hold an earlier poll. Either matches,
   and the reception time of the unread frame enters the formula. (The comparison with
   the final message is safe: the buffer then holds the poll.) The examples with a super
   deterministic STS do the same (05c, lines 199-207, and 05d, lines 191-199): the STS of
   another board's frame is as good as their own.
   The single-sided examples compare only inside the check and do not have the problem
   (`ss` includes long frames).
2. **Critical sections that do not exclude the handler** (`mutex_section`;
   `deca_mutex.c:54`). `decamutexon` takes the level of the pin for the state of
   the interrupt and disables it only if the pin is high.
3. **Preambles of 1024 symbols are never heard** (`timing`;
   `shared_functions.c:365`). `set_delayed_rx_time` subtracts the preamble from
   the delay in a `uint32_t` before it adds the STS: 700 - 1024 + 64 is negative,
   and the receiver opens 67 ms late. Options 7, 8, 15, 16, 23, 24, 31 and 32.
4. **A sender that waits for ever** (`le_pend`; `le_pend_tx.c:149`). The wait is for a
   "frame or error/timeout", but no timeout is ever set: one lost command or
   acknowledgment stops the sender.
5. **Encrypted ranging that one foreign frame ends** (`aes_goes_on`;
   `ss_aes_twr_initiator.c:312`, `mac_802_15_4.c:182`). `rx_aes_802_15_4` copies the header
   of what was received over the one the host sends from, before it decides to ignore the
   frame. The initiator sets the sequence number and the counter before its next poll, the frame
   control never: after an unsecured frame its polls say that they are not secured, the responder
   ignores each, and no distance is measured any more. Responses do not come, so nothing repairs
   the header. With the frame control set before each poll, `RangingGoesOn` holds in this run.

Not a run: `calculate_power_boost`'s table has one step of 0.6 dB
(`shared_functions.c:82`) where the comment at line 28 promises 0.5.

## 7. What is not modelled

* *Clock drift.* Both clocks tick together; the correction in the single-sided
  examples and the asymmetric formula's robustness to drift are about real
  numbers and not checked.
* *Content the code does not look at*: sequence numbers that receivers zero,
  payloads, what is printed, LEDs, diagnostics, register values.
* *Start-up*: probe, initialise, configure. They either succeed or stop for good
  in a loop, before any state of interest.
* *Optimised builds* (see section 2), and what is not compiled or not reached in 02e: the
  manual re-enabling of the receiver, `rx_err_cb` (its interrupts are not enabled) and the
  stop on a chip of the DW3000 family.
* *The rate switch of the SPI*: `port_set_dw_ic_spi_slowrate` and `_fastrate` each
  initialise the peripheral; what the SDK does the second time is external.
* *decamutexoff re-enabling with an edge pending*: the edge is forgotten. The
  driver that would run into it is a binary.
* *RTT's other calls*: `SEGGER_RTT_WriteWithOverwriteNoLock` must not be used
  with a probe (its NOTE 3); allocating and configuring further buffers and the
  queries `HasData`, `GetBytesInBuffer` are not called by the firmware.
* *Constants*: `sdk_config.h` (a third of the repository's lines), `custom_board.h`,
  and the declarations of `deca_device_api.h` and `deca_interface.h`, whose code is a
  binary library. What the models need of them (status bits, preamble codes) is
  mapped.
* *Signal powers and diagnostics* (`simple_rx_nlos.c`, `rx_diagnostics.c`): the
  loops are in `Blinks`; the floating-point sums and what is printed are not.
* Examples without state between calls (device id, continuous wave, OTP, GPIO, PLL
  and bandwidth calibration, SPI CRC), the AES hardware. `docs/` and
  `PROJECT_REPORT.md` describe the repository at large, partly code that is not
  in it.

## 8. Plan

Done: the core (ranging, acknowledged transfer, interrupt port, shared platform
code); ranging with STS, in super deterministic mode and with encrypted frames;
every other example that keeps state; the debug channel; the delays of the radio
configurations; proofs of the waits and distances of both kinds of ranging, of the windows of the double-sided one, of the
acknowledged transfer with its refinement, of the waits of all other polled loops, the
distances with STS and with encrypted frames, the counters, the back-off and the crystal trim, of the interrupt port and its five examples, the SPI lock, the ring with its refinement, and the delays.

Left, in this order:

1. *Proofs*: `LosesFew` of `PolledExamples`.
2. *SPI rate switch and CRC*, `decamutexoff` with the driver's handler: both need
   what the SDK and the binary driver do.

## 9. Running the project

```
tlc -workers 2 -config MCDsTwr_safety.cfg MCDsTwr
tlapm DsTwrProofs.tla
```

`PROJECT.json` lists every run with its module and configuration; run them from
this directory. The runs marked "violation" end with a counterexample.
