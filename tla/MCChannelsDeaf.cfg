SPECIFICATION AppSpec
CONSTANTS
  app1 = app1
  app2 = app2
  CAN = CAN
  ISO15765 = ISO15765
  J1850VPW = J1850VPW
  h1 = h1
  h2 = h2
  h3 = h3
  h4 = h4
  NoHandler = NoHandler
  Apps <- OneApp
  Protocols <- CANs
  Unsupported <- NoProtocol
  ThreadMayFail = FALSE
  Handlers <- FourAddresses
  MAX_CHANNELS = 2
  MAX_LISTENERS = 2
  MaxIds = 4
INVARIANT OpenChannelsHear
CHECK_DEADLOCK FALSE
