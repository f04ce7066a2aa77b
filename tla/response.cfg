SPECIFICATION Spec
CONSTANTS
  INITIAL_CAPACITY = 2
  NUL = NUL
  Junk = Junk
  CIFAR_NUM_IMAGES = 12
  CIFAR_TABLE_SIZE = 2
  CIFAR_IMG_SIZE = 1
  PAGE_SIZE = 8
  NULL = NULL
  MAX_RESEND_ATTEMPTS = 2
  BUFSIZE = 2
  Builds <- MCBuilds
  ENTRIES = 2
  Requests <- MCRequests
  Outside = {"else"}
  Absent = Absent
  Directory = Directory
  Files <- MCFiles
  FileSizes = {0, 1, 3, Absent}
  PictureSizes = {48, 22, 24}
  MaxRequests = 3
  MaxChanges = 1
INVARIANTS TypeOK BodyIsThePage PeerReadsThePage IndexLeadsEverywhere
CHECK_DEADLOCK FALSE
