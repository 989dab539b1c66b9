\* One message, offered twice, with three troubles of any kind and a clear.
SPECIFICATION FairSpec
CONSTANTS
  MaxOffers = 2
  MaxRounds = 2
  MaxAttempts = 3
  MaxTroubles = 3
  MaxClears = 1
INVARIANTS OneEffect OneResult HandedOver
PROPERTIES HandledOnce MessageSettles AnswerArrives
CHECK_DEADLOCK FALSE
