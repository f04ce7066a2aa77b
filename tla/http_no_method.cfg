SPECIFICATION Spec
CONSTANTS
  Words = {"GET", "POST", "/", "Connection:", "keep-alive"}
  CR = CR
  LF = LF
  NULL = NULL
  RECV_BUF_SIZE = 4
  Texts <- MCTexts
  MaxTexts = 1
  MaxErrors = 1
INVARIANTS GoodRequestHasMethod
CHECK_DEADLOCK FALSE
