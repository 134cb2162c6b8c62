CONSTANTS
  WIFI_MAX_RETRY = 5
  MaxCalls = 5
  MaxBoots = 2
SPECIFICATION FairSpec
INVARIANTS TypeOK OneReceiver RetryPossible PlaysAloud GivesUpLate
PROPERTY MessagingStarts
CHECK_DEADLOCK FALSE
