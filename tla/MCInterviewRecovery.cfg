SPECIFICATION FairSpec
CONSTANTS
  MinSpeech = 2
  SilenceToEnd = 2
  Preroll = 3
  MaxUtterance = 6
  MaxMessage = 1
CHECK_DEADLOCK FALSE
INVARIANT RecoveryKeepsGoing
