SPECIFICATION FairSpec
CONSTANTS
 TSMOD = 1
 LOMOD = 1
 QUANTUM = 1
 TX_ANT_DLY = 0
 FLIGHT = 1
 Foreign = {"short", "long", "bad"}
 ForeignAcks = {1}
 MaxFaults = 3
 MaxLag = 2
 RX_AFTER_TX_DLY = 1
 RX_RESP_TO = 3
 ACK_DLY = 1
 TX_DELAY = 2
 RETRY_DELAY = 1
 SNMOD = 2
 MaxFrames = 3
 MaxSends = 12
INVARIANTS
 WaitWillEnd
 NoStaleFlag
PROPERTIES
 DeliversInOrder
 AllAcked
