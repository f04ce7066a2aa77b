SPECIFICATION FairSpec
CONSTANTS
  Words = {"GET", "POST", "/", "Connection:", "keep-alive"}
  CR = CR
  LF = LF
  NULL = NULL
  RECV_BUF_SIZE = 4
  Texts <- MCTexts
  MaxTexts = 3
  MaxErrors = 1
INVARIANTS TypeOK GoodRequestIsWhatWasSent BadRequestIsBad ResponsesMatchRequests
PROPERTIES ServeClientReturns
CHECK_DEADLOCK FALSE
