SPECIFICATION MCSpec
CONSTANTS
 SIZE = 6
 Terminals = {0, 1}
 NUMBERS = 2
 Lengths <- MCLengths
 Modes <- AllModes
 Event <- MCEvent
 REACT = 8
 MaxLag = 7
INVARIANTS
 NeverSpins
 OnItsTerminal
 TransfersWhole
 NeverMeetsLock
PROPERTIES
 Streams
