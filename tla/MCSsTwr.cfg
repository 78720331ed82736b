SPECIFICATION FairSpec
CONSTANTS
 TSMOD = 32
 LOMOD = 16
 QUANTUM = 2
 TX_ANT_DLY = 1
 FLIGHT = 1
 POLL_TX_TO_RESP_RX_DLY = 3
 RESP_RX_TIMEOUT = 3
 POLL_RX_TO_RESP_TX_DLY = 2
 RNG_DELAY = 4
 Foreign = {"short", "long", "bad"}
 MaxFaults = 1
 MaxLag = 2
 MaxPolls = 2
 Starts <- ThreeStarts
INVARIANTS
 WaitWillEnd
 NoStaleEvent
 DistanceIsTrue
PROPERTIES
 PollIsRanged
