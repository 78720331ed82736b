-------------------------------- MODULE TxCca --------------------------------
(***************************************************************************)
(* tx_with_cca.c (example 1e): frames are sent only when the channel is    *)
(* found clear. After a busy channel the host backs off, each time in a    *)
(* row one millisecond longer; after a frame it starts with the initial    *)
(* back-off again.                                                         *)
(*                                                                         *)
(* The channel is used by a periodic sender and clear for one part in      *)
(* Share of its period. An attempt takes no time. The chip is taken to     *)
(* lower CCA_FAIL with the next start, as the host never does.             *)
(***************************************************************************)
EXTENDS Naturals

CONSTANTS
  TX_DELAY_MS,            \* pause after a frame
  INITIAL_BACKOFF_PERIOD, \* first pause after a busy channel
  Periods,                \* periods of the other sender, in milliseconds
  Share                   \* a period is clear for one part in Share

CcaAssumption ==
  /\ TX_DELAY_MS \in Nat \ {0} /\ INITIAL_BACKOFF_PERIOD \in Nat \ {0}
  /\ Share \in Nat \ {0} /\ Periods \subseteq Nat \ {0}

VARIABLES
  period,                \* of the other sender
  phase,                 \* time within the period
  next_backoff_interval,
  busy                   \* history: attempts in a row that found it busy

ccaVars == <<period, phase, next_backoff_interval, busy>>

Idle == /\ period = 0 /\ phase = 0
        /\ next_backoff_interval = INITIAL_BACKOFF_PERIOD /\ busy = 0

Init == /\ period \in Periods
        /\ phase \in 0 .. period - 1
        /\ next_backoff_interval = INITIAL_BACKOFF_PERIOD /\ busy = 0

Clear == phase * Share < period

(* tx_sleep_period is set and slept.                                       *)
SleepFor(ms) == phase' = (phase + ms) % period /\ UNCHANGED period

Sent ==
  /\ Clear
  /\ next_backoff_interval' = INITIAL_BACKOFF_PERIOD
  /\ busy' = 0
  /\ SleepFor(TX_DELAY_MS)

(* Mutant of FoundBusy: the back-off does not grow.                        *)
FoundBusyConstant ==
  /\ ~Clear
  /\ UNCHANGED next_backoff_interval
  /\ busy' = busy + 1
  /\ SleepFor(next_backoff_interval)

FoundBusy ==
  /\ ~Clear
  /\ next_backoff_interval' = next_backoff_interval + 1
  /\ busy' = busy + 1
  /\ SleepFor(next_backoff_interval)

Next == Sent \/ FoundBusy
-----------------------------------------------------------------------------
(* The back-off, which has no upper bound, does not grow for ever: when    *)
(* the other sender's period divides the initial back-off it is the growth *)
(* that finds the gap, in fewer attempts than twice the period has         *)
(* milliseconds.                                                           *)
GetsThrough == busy <= 2 * period
=============================================================================
