SPECIFICATION FairSpec
CONSTANTS
  w1 = w1  w2 = w2  NoWorkItem = NoWorkItem
  Workers <- OneWorker
  MaxVersion = 2
  MaxTokens = 2
  MaxMails = 2
  MailAttempts = 1
  Chains <- LongChain
  StaleHandlers = FALSE
INVARIANT OfferSafety
PROPERTIES LateSendIsAttested MailEndsEventually KeepsContract
CHECK_DEADLOCK FALSE
