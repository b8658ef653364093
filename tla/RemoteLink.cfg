SPECIFICATION FairLinkSpec
CONSTANTS
  HELLO_PERIOD = 1
  BEAT_PERIOD = 2
  LINK_TIMEOUT = 6
  MaxLoss = 4
  MaxRestart = 2
  SplitRead = TRUE
INVARIANT SilenceNoticed
PROPERTIES HandshakeCompletes SessionSurvivesLoss
