SPECIFICATION FairSpec
CONSTANTS
  TX_DELAY_MS = 1000
  XTAL_FREQ_HZ = 38400000
  Calibrations <- MCCalibrations
  TX_MS = 1
  WAKE_MS = 2
  MaxLag = 1
  Pdoa <- MCPdoa
  Noise = 99
  PERIOD = 4
  Shows <- MCShows
  COUNTMOD = 16
  SEQMOD = 8
  DFLT_TX_DELAY_MS = 1000
  RX_TO_TX_DELAY_MS = 3000
INVARIANTS
  TypeOK
  SendsConfigured
  WakeUpIsSeen
  BlinkInTime
  NeverNoise
  KeepsListening
  NoneSkipped
  NeverRepeats
  NoneLost
  EventsServed
  StartsIdle
  SignalKept
PROPERTIES
  AlwaysNextBlink
  LastIsShown
