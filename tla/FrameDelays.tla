---------------------------- MODULE FrameDelays ----------------------------
(***************************************************************************)
(* When the initiator of ss_twr_initiator_sts.c has its receiver on, and   *)
(* when the response of ss_twr_responder_sts.c is on the air, for each of  *)
(* the radio configurations of config_options.c. Both follow from helpers  *)
(* of shared_functions.c, which work in 32 bits.                           *)
(*                                                                         *)
(* Lengths are in symbols of the preamble and delays in microseconds of    *)
(* UWB, which are a hundredth apart; moments are in units of the DX_TIME   *)
(* register, from the poll's timestamp. The flight time is left out.       *)
(***************************************************************************)
EXTENDS Integers

UUS_TO_DWT_TIME == 63898
CPU_PROCESSING_TIME == 400
POLL_TX_TO_RESP_RX_DLY_UUS == 300 + CPU_PROCESSING_TIME  \* initiator
RESP_RX_TIMEOUT_UUS == 700                               \* initiator
POLL_RX_TO_RESP_TX_DLY_UUS == 450 + CPU_PROCESSING_TIME  \* responder

(* What of CONFIG_OPTION_i matters here. The channel (5 if i is odd, else  *)
(* 9) and the preamble code do not.                                        *)
Preambles == <<64, 128, 512, 1024>>

config_options(i) ==
  IF i = 33 THEN [preamble |-> 128, rate |-> "6M8", sts |-> 128]
  ELSE [preamble |-> Preambles[(((i - 1) \div 2) % 4) + 1],
        rate |-> IF i <= 16 THEN "850K" ELSE "6M8",
        sts |-> 64]

(* A delay in units of DX_TIME. The product and the shift are of 32 bits,  *)
(* so that a negative delay becomes a large one: 16777216 is 2^24.         *)
DxTime(delay) == ((delay * UUS_TO_DWT_TIME) \div 256) % 16777216

get_rx_delay_time_txpreamble(c) == IF c.preamble > 128 THEN c.preamble - 128 ELSE 0
get_rx_delay_time_data_rate(c)  == IF c.rate = "850K" THEN 200 ELSE 0

(* set_delayed_rx_time, with (1 << (stsLength + 2)) * 8 the length of the  *)
(* STS.                                                                    *)
set_delayed_rx_time(delay, c) ==
  DxTime(delay - (IF c.preamble < 2048 THEN c.preamble ELSE 2048) + c.sts)

set_resp_rx_timeout(delay, c) ==
  DxTime(delay + get_rx_delay_time_data_rate(c) + get_rx_delay_time_txpreamble(c) + 500
           + IF c.sts >= 256 THEN c.sts ELSE 0)

(* The response's timestamp, between its SFD and its STS.                  *)
RespTxTime(c) ==
  DxTime(POLL_RX_TO_RESP_TX_DLY_UUS + get_rx_delay_time_data_rate(c)
           + get_rx_delay_time_txpreamble(c) + c.sts)

(* Symbols of the SFD, and of a header and a payload of 20 bytes.          *)
SFD == 8
DataTime(c) == IF c.rate = "850K" THEN 240 ELSE 50
-----------------------------------------------------------------------------
(* The four moments of an exchange with configuration c.                   *)
RxOn(c)      == set_delayed_rx_time(POLL_TX_TO_RESP_RX_DLY_UUS, c)
RxOff(c)     == RxOn(c) + set_resp_rx_timeout(RESP_RX_TIMEOUT_UUS, c)
RespBegin(c) == RespTxTime(c) - DxTime(c.preamble + SFD)
RespEnd(c)   == RespTxTime(c) + DxTime(c.sts + DataTime(c))
=============================================================================
