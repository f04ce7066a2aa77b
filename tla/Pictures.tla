------------------------------- MODULE Pictures --------------------------------
(***************************************************************************)
(* The file of CIFAR pictures (cifar-server/resources.c) and the bitmap    *)
(* files made of it (bmp.c).  A picture is a byte with its class and then  *)
(* three planes, red, green and blue.  A byte of the file stands for its   *)
(* own address in it, so no two are confused; a copy from the mapped file  *)
(* may go on past its end.                                                 *)
(***************************************************************************)
EXTENDS Integers, Sequences

CONSTANTS
  CIFAR_NUM_IMAGES,
  CIFAR_IMG_SIZE,      \* pictures are square
  PAGE_SIZE            \* of memory

ASSUME PicturesAssumption ==
  /\ CIFAR_NUM_IMAGES \in Nat \ {0} /\ CIFAR_IMG_SIZE \in Nat \ {0}
  /\ PAGE_SIZE \in Nat \ {0}

CIFAR_BLOB_SIZE == 1 + CIFAR_IMG_SIZE * CIFAR_IMG_SIZE * 3

PictureInRange(n) == n \in 0 .. CIFAR_NUM_IMAGES - 1

\* Load refuses a picture that begins after the end of a mapped file of that size.
LoadRefuses(n, size) == n * CIFAR_BLOB_SIZE > size

WholeInFile(n, size) == (n + 1) * CIFAR_BLOB_SIZE <= size

\* A mapping has whole pages; what the file does not fill of the last is zero.
EndOfPages(size) == ((size + PAGE_SIZE - 1) \div PAGE_SIZE) * PAGE_SIZE

LeavesPages(n, size) == (n + 1) * CIFAR_BLOB_SIZE > EndOfPages(size)

Zero == -1
Foreign == -2        \* whatever there is in memory behind the mapping

\* The byte that is found at an address of a file of that size.
ByteOfFile(a, size) ==
  IF a < size THEN a ELSE IF a < EndOfPages(size) THEN Zero ELSE Foreign

--------------------------------------------------------------------------------
(* Bitmap files.  The pixels are kept apart from the headers; bytes of a   *)
(* header that no property looks at are left out.                          *)

BITMAPFILEHEADER == 14       \* sizes
BITMAPINFOHEADER == 40
RGB_data == <<"b", "g", "r">>

BuildBmpFileData(width, height, source) ==
  LET numPixels == width * height
      fileSize == BITMAPFILEHEADER + BITMAPINFOHEADER + Len(RGB_data) * numPixels
  IN  [outsize |-> fileSize, bfSize |-> fileSize,
       bfOffBits |-> BITMAPFILEHEADER + BITMAPINFOHEADER,
       biWidth |-> width, biHeight |-> -height, biBitCount |-> 24,
       data |-> [i \in 0 .. numPixels - 1 |->
                   [r |-> source[i], g |-> source[i + numPixels],
                    b |-> source[i + numPixels + numPixels]]]]

\* Mutant: the class is taken for the first red.
BitmapFromClass(n, size) ==
  BuildBmpFileData(CIFAR_IMG_SIZE, CIFAR_IMG_SIZE,
                   [i \in 0 .. CIFAR_BLOB_SIZE - 1 |-> ByteOfFile(n * CIFAR_BLOB_SIZE + i, size)])

\* The bitmap of picture n, without the class.
BitmapOf(n, size) ==
  BuildBmpFileData(CIFAR_IMG_SIZE, CIFAR_IMG_SIZE,
                   [i \in 0 .. CIFAR_BLOB_SIZE - 2 |->
                      ByteOfFile(n * CIFAR_BLOB_SIZE + 1 + i, size)])

--------------------------------------------------------------------------------
(* A viewer, by the headers: rows are padded to four bytes, and go from    *)
(* the top when the height is negative.                                    *)

BmpByte(bmp, at) ==
  LET k == at - bmp.bfOffBits
  IN  bmp.data[k \div Len(RGB_data)][RGB_data[1 + (k % Len(RGB_data))]]

Seen(bmp, x, y) ==
  LET stride == ((bmp.biBitCount * bmp.biWidth + 31) \div 32) * 4
      row == IF bmp.biHeight < 0 THEN y ELSE bmp.biHeight - 1 - y
      at == bmp.bfOffBits + row * stride + x * (bmp.biBitCount \div 8)
  IN  [b |-> BmpByte(bmp, at), g |-> BmpByte(bmp, at + 1), r |-> BmpByte(bmp, at + 2)]

\* Where a pixel is in the file of pictures: plane after plane, row after row.
Pixel(n, x, y) ==
  LET at(plane) == n * CIFAR_BLOB_SIZE + 1
                   + (plane * CIFAR_IMG_SIZE + y) * CIFAR_IMG_SIZE + x
  IN  [r |-> at(0), g |-> at(1), b |-> at(2)]

\* A colour is the one at address a of the file; behind its end it is black, or
\* nobody's when the pages have ended too.
ColourShown(colour, a, size) ==
  \/ a < size /\ colour = a
  \/ a >= size /\ colour = Zero
  \/ a >= EndOfPages(size) /\ colour = Foreign

\* What was built looks like picture n as far as the file goes, and says its own
\* length.
LooksLike(bmp, n, size) ==
  /\ bmp.bfSize = bmp.outsize
  /\ bmp.bfOffBits + Len(RGB_data) * bmp.biWidth * (-bmp.biHeight) = bmp.outsize
  /\ \A x, y \in 0 .. CIFAR_IMG_SIZE - 1 : \A plane \in {"r", "g", "b"} :
       ColourShown(Seen(bmp, x, y)[plane], Pixel(n, x, y)[plane], size)
================================================================================
