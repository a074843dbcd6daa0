SPECIFICATION FairScenesSpec
CONSTANTS
  MinSpeech = 2
  SilenceToEnd = 1
  Preroll = 5
  MaxUtterance = 8
  MaxMessage = 4
  MediaSilence = 2
  MediaMessage = 2
CHECK_DEADLOCK FALSE
INVARIANTS NoIllegalEvent UtterancesAreTurns NoTurnEndLost
PROPERTY TurnsCome
