SPECIFICATION Spec
CONSTANTS
  MAX_INT_LEN = 2
  INT_BITS = 8
  CIFAR_NUM_IMAGES = 12
  CIFAR_IMG_SIZE = 4
  PAGE_SIZE = 16
  Targets <- MCTargets
  IMAGES <- MCImages
  STATIC <- MCStatic
  BMP <- MCBmp
  PAGE <- MCPage
  MIME_TYPES <- MCMimeTypes
  PictureSizes = {588, 340, 294}
  NULL = NULL
INVARIANTS TypeOK PageIsTheParameter LinksLeadThere ViewerSeesThePicture DecodingStaysInside FileIsTheOneMeant TypeBelongsToTheFile
CHECK_DEADLOCK FALSE
