SPECIFICATION FairNotices
CONSTANTS
  MaxSeq = 2
  MaxMails = 2
  MailTries = 3
  SendTries = 2
  WaitTries = 1
INVARIANT NoticeSafety
PROPERTY NoticeEnds
CHECK_DEADLOCK FALSE
