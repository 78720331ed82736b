SPECIFICATION FairSpec
CONSTANTS
 TSMOD = 1
 LOMOD = 1
 QUANTUM = 1
 TX_ANT_DLY = 0
 FLIGHT = 1
 ACK_DLY = 1
 TX_DELAY = 4
 Foreign = {}
 MaxFaults = 1
 MaxLag = 1
 MaxPolls = 1
 Bounded = FALSE
PROPERTIES
 AlwaysNextCommand
