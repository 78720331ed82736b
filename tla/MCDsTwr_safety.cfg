SPECIFICATION ApartSpec
CONSTANTS
 TSMOD = 16
 LOMOD = 8
 QUANTUM = 2
 TX_ANT_DLY = 1
 FLIGHT = 1
 Foreign = {"long", "bad"}
 MaxFaults = 2
 MaxLag = 2
 POLL_TX_TO_RESP_RX_DLY = 3
 RESP_RX_TIMEOUT = 3
 RESP_RX_TO_FINAL_TX_DLY = 2
 POLL_RX_TO_RESP_TX_DLY = 2
 RESP_TX_TO_FINAL_RX_DLY = 3
 FINAL_RX_TIMEOUT = 3
 RNG_DELAY = 4
 RNG_DELAY_RESP = 1
 MaxPolls = 2
 Starts <- TwoStarts
INVARIANTS
 WaitWillEnd
 NoStaleEvent
PROPERTIES
 DistanceIsTrue
