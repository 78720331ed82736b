SPECIFICATION MCSpec
CONSTANTS
  TSMOD = 32
  LOMOD = 16
  QUANTUM = 2
  TX_ANT_DLY = 1
  FLIGHT = 1
  POLL_TX_TO_RESP_RX_DLY = 3
  RESP_RX_TIMEOUT = 3
  POLL_RX_TO_RESP_TX_DLY = 2
  RNG_DELAY = 8
  Starts <- MCStarts
  POLL_TX_TO_REPORT_RX_DLY = 2
  RESP_RX_TO_FINAL_TX_DLY = 2
  RESP_TX_TO_FINAL_RX_DLY = 3
  RNG_DELAY_RESP = 1
  TX_TO_RX_DLY = 1
  RX_RESP_TO = 4
  TX_DELAY = 6
  WAKE_DELAY = 1
  ACK_DLY = 1
  TX_DELAY_MS = 100
  INITIAL_BACKOFF_PERIOD = 400
  Periods <- MCPeriods
  Share = 4
  Steps <- MCSteps
  Offsets <- MCOffsets
  Trims <- MCTrims
  Noise = 20
  MaxPolls = 5
  StsPolls <- MCStsPolls
  Foreign = {"short"}
  MaxFaults = 1
  MaxLag = 2
INVARIANTS
  WaitWillEnd
  NoStaleFlag
  DistanceIsTrue
  LosesFew
  CounterFresh
  GetsThrough
  TrimSettles
