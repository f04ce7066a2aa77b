------------------------- MODULE RequestHandlerProofs --------------------------
(***************************************************************************)
(* For every target a client may ask for: percent_url_decode stays inside  *)
(* its strings and gives the file that was meant; the page of an index is  *)
(* the parameter; a link the server wrote leads where it says.  A bitmap   *)
(* shows the picture as far as the file goes, for pictures of every size.  *)
(***************************************************************************)
EXTENDS RequestHandler, SequenceTheorems, FiniteSetTheorems, TLAPS

Text == Seq(Bytes \ {NUL})

\* While the path is decoded, what is written and read stays behind i.
Behind ==
  /\ pc \notin {"decode", "answered"} => out = <<>> /\ last_read = 0
  /\ pc = "decode" => i <= Len(Encoded) /\ Len(out) <= i
  /\ pc \in {"split", "route"} => i = 0

Inside == TypeOK /\ target \in Text /\ Behind /\ DecodingStaysInside

--------------------------------------------------------------------------------
LEMMA SubSeqType ==
  ASSUME NEW s \in Text, NEW m \in 1 .. Len(s) + 1, NEW n \in 0 .. Len(s)
  PROVE  SubSeq(s, m, n) \in Text
  BY DEF Text

LEMMA TailType ==
  ASSUME NEW s \in Text, s # <<>>
  PROVE  Tail(s) \in Text /\ Len(Tail(s)) = Len(s) - 1
  BY DEF Text

(* The terminator is no hexadecimal digit.                                 *)
LEMMA HexValueType ==
  ASSUME NEW b \in Bytes
  PROVE  HexValue(b) \in -1 .. 15 /\ (HexValue(b) >= 0 => b # NUL)
  BY DEF HexValue, Bytes, Digits, NUL

(* A byte of the path that is not the terminator is followed by one more.  *)
LEMMA ByteAtType ==
  ASSUME path \in Text, path # <<>>, NEW k \in 0 .. Len(Encoded)
  PROVE  /\ Len(Encoded) \in Nat
         /\ ByteAt(k) \in Bytes
         /\ ByteAt(k) # NUL => k + 1 <= Len(Encoded)
<1>1. Encoded \in Text
  BY TailType DEF Encoded
<1>2. CASE k < Len(Encoded)
  <2>1. k + 1 \in 1 .. Len(Encoded)
    BY <1>1, <1>2 DEF Text
  <2>2. Encoded[k + 1] \in Bytes \ {NUL}
    BY <1>1, <2>1 DEF Text
  <2> QED
    BY <1>1, <1>2, <2>2 DEF ByteAt, Text
<1>3. CASE k = Len(Encoded)
  BY <1>1, <1>3 DEF ByteAt, NUL, Bytes, Text
<1> QED
  BY <1>1, <1>2, <1>3 DEF Text

--------------------------------------------------------------------------------
LEMMA InitInside == Init => Inside
  BY HandlerAssumption
     DEF Init, Inside, TypeOK, Behind, DecodingStaysInside, Text

LEMMA SplitInside ==
  ASSUME Inside, NEW n \in 0 .. Len(target), SplitFullRequest(n) PROVE Inside'
<1> USE DEF Inside, TypeOK, Behind, DecodingStaysInside, SplitFullRequest, input_vars
<1>1. path' \in Text
  BY SubSeqType
<1>2. query' \in Text \cup {NULL}
  <2>1. CASE n < Len(target)
    BY <2>1, SubSeqType DEF Text
  <2>2. CASE ~(n < Len(target))
    BY <2>2
  <2> QED
    BY <2>1, <2>2
<1> QED
  BY <1>1, <1>2 DEF Text

(* An answer leaves what was decoded as it is.                             *)
LEMMA AnswerInside ==
  ASSUME Inside, NEW route, NEW code, NEW arg, NEW content,
         Answer(route, code, arg, content),
         i' \in Nat, last_read' \in Nat,
         path # <<>> => last_read' <= Len(Encoded) /\ Len(out) <= Len(Encoded)
  PROVE  Inside'
  BY DEF Inside, TypeOK, Behind, DecodingStaysInside, Answer, input_vars, Encoded

LEMMA RouteInside ==
  ASSUME Inside,
         \/ HandleIndex \/ CallGetIntParam \/ HandleImage \/ CallSendStaticFile
         \/ HandleUnknown
  PROVE  Inside'
<1> USE DEF Inside, Behind
<1>0. path # <<>> => Len(Encoded) \in Nat
  BY TailType DEF TypeOK, Encoded, Text
<1>1. ASSUME NEW route, NEW code, NEW arg, NEW content,
             Answer(route, code, arg, content), pc = "route", UNCHANGED <<i, last_read>>
      PROVE  Inside'
  BY <1>0, <1>1, AnswerInside DEF TypeOK
<1>2. CASE HandleIndex \/ HandleUnknown
  BY <1>1, <1>2 DEF HandleIndex, HandleUnknown
<1>3. CASE HandleImage
  <2>1. CASE pc' = "crashed" /\ UNCHANGED <<input_vars, path, query, out, answer>>
    BY <1>3, <2>1 DEF HandleImage, TypeOK, DecodingStaysInside, input_vars
  <2> QED
    BY <1>1, <1>3, <2>1 DEF HandleImage, SendCifarBitmap
<1>4. CASE CallGetIntParam
  BY <1>4 DEF CallGetIntParam, TypeOK, DecodingStaysInside, input_vars
<1>5. CASE CallSendStaticFile
  <2>1. path # <<>>
    BY <1>5, HandlerAssumption DEF CallSendStaticFile, IsStatic, StartsWith, IsPrefix
  <2> QED
    BY <1>0, <1>5, <2>1
       DEF CallSendStaticFile, TypeOK, DecodingStaysInside, input_vars, Encoded
<1> QED
  BY <1>2, <1>3, <1>4, <1>5

LEMMA ParamInside ==
  ASSUME Inside,
         \/ pc = "param" /\ \E j \in i .. Len(query) : NextPiece(j) \/ ParamFound(j)
         \/ ParamAbsent
  PROVE  Inside'
<1> USE DEF Inside, Behind
<1>0. path # <<>> => Len(Encoded) \in Nat
  BY TailType DEF TypeOK, Encoded, Text
<1>1. ASSUME NEW j \in i .. Len(query), NextPiece(j) PROVE Inside'
  BY <1>1 DEF NextPiece, TypeOK, DecodingStaysInside, input_vars
<1>2. ASSUME NEW j \in i .. Len(query), ParamFound(j) PROVE Inside'
  BY <1>0, <1>2, AnswerInside DEF ParamFound, TypeOK
<1>3. CASE ParamAbsent
  BY <1>0, <1>3, AnswerInside DEF ParamAbsent, TypeOK
<1> QED
  BY <1>1, <1>2, <1>3

(* A step of the decoder reads a byte and those an escape has behind it,   *)
(* and only as long as each is not the terminator.                         *)
LEMMA DecodeInside ==
  ASSUME Inside,
         CopyByte \/ DecodeEscape \/ BadEscape \/ \E n \in 0 .. Len(out) : EndOfPath(n)
  PROVE  Inside'
<1> USE DEF Inside, Behind
<1>1. pc = "decode" /\ path \in Text /\ path # <<>> /\ i \in 0 .. Len(Encoded)
  BY DEF CopyByte, DecodeEscape, BadEscape, EndOfPath, TypeOK, Text
<1>2. Len(Encoded) \in Nat /\ ByteAt(i) \in Bytes
      /\ (ByteAt(i) # NUL => i + 1 \in 0 .. Len(Encoded))
  BY <1>1, ByteAtType
<1>3. ByteAt(i) = Percent => ByteAt(i + 1) \in Bytes /\ HexValue(ByteAt(i + 1)) \in -1 .. 15
  BY <1>1, <1>2, ByteAtType, HexValueType DEF Percent, NUL
<1>4. ByteAt(i) = Percent /\ HexValue(ByteAt(i + 1)) >= 0 =>
        /\ i + 2 \in 0 .. Len(Encoded)
        /\ ByteAt(i + 2) \in Bytes /\ HexValue(ByteAt(i + 2)) \in -1 .. 15
  <2> SUFFICES ASSUME ByteAt(i) = Percent, HexValue(ByteAt(i + 1)) >= 0
               PROVE  /\ i + 2 \in 0 .. Len(Encoded)
                      /\ ByteAt(i + 2) \in Bytes /\ HexValue(ByteAt(i + 2)) \in -1 .. 15
    OBVIOUS
  <2>1. i + 1 \in 0 .. Len(Encoded)
    BY <1>2 DEF Percent, NUL
  <2>2. ByteAt(i + 1) # NUL
    BY <1>3, HexValueType
  <2>3. i + 2 \in 0 .. Len(Encoded)
    BY <1>1, <1>2, <2>1, <2>2, ByteAtType
  <2> QED
    BY <1>1, <2>3, ByteAtType, HexValueType
<1>5. CASE CopyByte
  <2>1. ByteAt(i) \in Bytes /\ i + 1 <= Len(Encoded)
    BY <1>2, <1>5 DEF CopyByte
  <2> QED
    BY <1>1, <1>2, <1>5, <2>1
       DEF CopyByte, TypeOK, DecodingStaysInside, input_vars, Encoded
<1>6. CASE DecodeEscape
  <2> DEFINE byte == 16 * HexValue(ByteAt(i + 1)) + HexValue(ByteAt(i + 2))
  <2>1. byte \in Bytes
    <3>1. ASSUME NEW h \in 0 .. 15, NEW l \in 0 .. 15 PROVE 16 * h + l \in Bytes
      BY DEF Bytes
    <3>0. /\ ByteAt(i) = Percent
          /\ HexValue(ByteAt(i + 1)) >= 0 /\ HexValue(ByteAt(i + 2)) >= 0
      BY <1>6 DEF DecodeEscape
    <3>2. HexValue(ByteAt(i + 1)) \in 0 .. 15 /\ HexValue(ByteAt(i + 2)) \in 0 .. 15
      BY <1>3, <1>4, <3>0
    <3> QED
      BY <3>1, <3>2
  <2>2. i + 3 \in 0 .. Len(Encoded)
    <3>1. i + 2 \in 0 .. Len(Encoded) /\ ByteAt(i + 2) # NUL
      BY <1>4, <1>6, HexValueType DEF DecodeEscape
    <3> QED
      BY <1>1, <1>2, <3>1, ByteAtType
  <2>3. out' = Append(out, byte) /\ Len(out') = Len(out) + 1
    BY <1>6 DEF DecodeEscape, TypeOK
  <2> HIDE DEF byte
  <2> QED
    BY <1>1, <1>2, <1>6, <2>1, <2>2, <2>3
       DEF DecodeEscape, TypeOK, DecodingStaysInside, input_vars, Encoded
<1>7. CASE BadEscape
  <2>1. last_read' \in 0 .. Len(Encoded)
    BY <1>2, <1>4, <1>7 DEF BadEscape, Percent, NUL
  <2> QED
    BY <1>1, <1>2, <1>7, <2>1, AnswerInside DEF BadEscape, TypeOK
<1>8. ASSUME NEW n \in 0 .. Len(out), EndOfPath(n) PROVE Inside'
  BY <1>1, <1>2, <1>8, AnswerInside DEF EndOfPath, TypeOK
<1> QED
  BY <1>5, <1>6, <1>7, <1>8

LEMMA NextInside == Inside /\ [Next]_vars => Inside'
<1>1. Inside /\ Next => Inside'
  BY SplitInside, RouteInside, ParamInside, DecodeInside DEF Next
<1>2. Inside /\ UNCHANGED vars => Inside'
  BY DEF vars, input_vars, Inside, TypeOK, Behind, DecodingStaysInside, Encoded
<1> QED
  BY <1>1, <1>2

(* However long the path and wherever an escape is cut off: the decoder    *)
(* never reads past the terminator of the path, and what it writes fits,   *)
(* terminator included, in an allocation of strlen(path) + 1.              *)
THEOREM DecoderStaysInside == Spec => [](TypeOK /\ DecodingStaysInside)
<1>1. Inside => TypeOK /\ DecodingStaysInside
  BY DEF Inside
<1> QED
  BY InitInside, NextInside, <1>1, PTL DEF Spec

--------------------------------------------------------------------------------
W == CIFAR_IMG_SIZE

(* Rows need no padding, so the row a viewer looks for is where the pixels *)
(* are counted to.                                                         *)
LEMMA RowsAreNotPadded == ((24 * W + 31) \div 32) * 4 = 3 * W
<1>1. W \in Nat /\ (3 * W) % 4 = 0
  BY PicturesAssumption, HandlerAssumption DEF W
<1>2. PICK m \in Nat : W = 4 * m
  <2>1. W = 4 * (W \div 4) /\ W \div 4 \in Nat
    BY <1>1
  <2> QED
    BY <2>1
<1>3. (24 * W + 31) \div 32 = 3 * m
  BY <1>2
<1> QED
  BY <1>2, <1>3

LEMMA PixelInside ==
  ASSUME NEW x \in 0 .. W - 1, NEW y \in 0 .. W - 1
  PROVE  y * W + x \in 0 .. W * W - 1
<1>0. W \in Nat
  BY PicturesAssumption DEF W
<1>1. PICK u \in Nat : W = y + 1 + u
  <2>1. W - (y + 1) \in Nat /\ W = y + 1 + (W - (y + 1))
    BY <1>0
  <2> QED
    BY <2>1
<1>2. W * W = y * W + W + u * W /\ u * W \in Nat /\ y * W \in Nat
  BY <1>0, <1>1
<1> QED
  BY <1>0, <1>2

(* The bytes of the pixel in place q of the data.                          *)
LEMMA BytesOfPixel ==
  ASSUME NEW n \in Nat, NEW size, NEW q \in 0 .. W * W - 1
  PROVE  LET first == n * CIFAR_BLOB_SIZE + 1
             Byte(k) == ByteOfFile(first + k, size)
         IN  /\ BmpByte(BitmapOf(n, size), 54 + 3 * q) = Byte(q + W * W + W * W)
             /\ BmpByte(BitmapOf(n, size), 54 + 3 * q + 1) = Byte(q + W * W)
             /\ BmpByte(BitmapOf(n, size), 54 + 3 * q + 2) = Byte(q)
<1> DEFINE first == n * CIFAR_BLOB_SIZE + 1
           Byte(k) == ByteOfFile(first + k, size)
           bmp == BitmapOf(n, size)
           area == W * W
<1>1. area \in Nat /\ CIFAR_BLOB_SIZE = 1 + 3 * area
  BY PicturesAssumption DEF W, CIFAR_BLOB_SIZE
<1>2. /\ bmp.bfOffBits = 54
      /\ bmp.data[q] = [r |-> Byte(q), g |-> Byte(q + area), b |-> Byte(q + area + area)]
  <2> DEFINE source == [k \in 0 .. CIFAR_BLOB_SIZE - 2 |-> Byte(k)]
  <2> HIDE DEF Byte
  <2>1. \A k \in {q, q + area, q + area + area} : source[k] = Byte(k)
    <3>1. q \in 0 .. area - 1
      OBVIOUS
    <3> HIDE DEF area
    <3>2. \A k \in {q, q + area, q + area + area} : k \in 0 .. CIFAR_BLOB_SIZE - 2
      BY <1>1, <3>1
    <3> QED
      BY <3>2
  <2>2. bmp = BuildBmpFileData(W, W, source)
    BY DEF BitmapOf, W, Byte
  <2> HIDE DEF source, bmp
  <2>3. bmp.bfOffBits = 54
    BY <2>2 DEF BuildBmpFileData, BITMAPFILEHEADER, BITMAPINFOHEADER
  <2>4. bmp.data[q] = [r |-> source[q], g |-> source[q + area], b |-> source[q + area + area]]
    BY <1>1, <2>2 DEF BuildBmpFileData
  <2> QED
    BY <2>1, <2>3, <2>4
<1>3. Len(RGB_data) = 3 /\ RGB_data[1] = "b" /\ RGB_data[2] = "g" /\ RGB_data[3] = "r"
  BY DEF RGB_data
<1>4. \A c \in 0 .. 2 : (54 + 3 * q + c - 54) \div 3 = q /\ (54 + 3 * q + c - 54) % 3 = c
  OBVIOUS
<1> HIDE DEF Byte
<1>5. \A c \in 0 .. 2 : BmpByte(bmp, 54 + 3 * q + c) = bmp.data[q][RGB_data[1 + c]]
  BY <1>2, <1>3, <1>4 DEF BmpByte
<1>6. BmpByte(bmp, 54 + 3 * q) = bmp.data[q][RGB_data[1]]
  <2>1. 54 + 3 * q + 0 = 54 + 3 * q
    OBVIOUS
  <2> QED
    BY <1>5, <2>1
<1> HIDE DEF bmp
<1> QED
  BY <1>2, <1>3, <1>5, <1>6 DEF bmp, Byte

(* What is found at an address is the byte of the file, or none of its.    *)
LEMMA ByteShows ==
  ASSUME NEW a \in Nat, NEW size \in Nat PROVE ColourShown(ByteOfFile(a, size), a, size)
<1>1. EndOfPages(size) \in Int
  <2>1. (size + PAGE_SIZE - 1) \div PAGE_SIZE \in Int /\ PAGE_SIZE \in Int
    BY PicturesAssumption
  <2> QED
    BY <2>1 DEF EndOfPages
<1> QED
  BY <1>1 DEF ColourShown, ByteOfFile

(* In every place a viewer sees the colours the file of pictures has there.*)
LEMMA BitmapLooksLike ==
  ASSUME NEW n \in Nat, NEW size \in Nat PROVE LooksLike(BitmapOf(n, size), n, size)
<1> DEFINE bmp == BitmapOf(n, size)
<1>1. W \in Nat \ {0} /\ W * W \in Nat
  BY PicturesAssumption DEF W
<1>2. /\ bmp.bfOffBits = 54 /\ bmp.biBitCount = 24
      /\ bmp.biWidth = W /\ bmp.biHeight = -W
      /\ bmp.bfSize = 54 + 3 * (W * W) /\ bmp.outsize = 54 + 3 * (W * W)
      /\ Len(RGB_data) = 3
  BY <1>1 DEF BitmapOf, BuildBmpFileData, W, BITMAPFILEHEADER, BITMAPINFOHEADER, RGB_data
<1>3. ASSUME NEW x \in 0 .. W - 1, NEW y \in 0 .. W - 1
      PROVE  \A plane \in {"r", "g", "b"} :
               ColourShown(Seen(bmp, x, y)[plane], Pixel(n, x, y)[plane], size)
  <2> DEFINE q == y * W + x
             first == n * CIFAR_BLOB_SIZE + 1
  <2>1. q \in 0 .. W * W - 1
    BY PixelInside
  <2>2. ((24 * W + 31) \div 32) * 4 = 3 * W
    BY RowsAreNotPadded
  <2>3. 54 + y * (3 * W) + x * 3 = 54 + 3 * q
    BY <1>1
  <2>4. 24 \div 8 = 3 /\ -W < 0
    BY <1>1
  <2>5. Seen(bmp, x, y) = [b |-> BmpByte(bmp, 54 + 3 * q), g |-> BmpByte(bmp, 54 + 3 * q + 1),
                           r |-> BmpByte(bmp, 54 + 3 * q + 2)]
    <3> HIDE DEF bmp, q
    <3> QED
      BY <1>2, <2>2, <2>3, <2>4 DEF Seen
  <2>6. /\ Pixel(n, x, y) = [r |-> first + q, g |-> first + (q + W * W),
                             b |-> first + (q + W * W + W * W)]
        /\ {first + q, first + (q + W * W), first + (q + W * W + W * W)} \subseteq Nat
    <3>1. first \in Nat
      BY <1>1 DEF CIFAR_BLOB_SIZE, W
    <3>2. /\ (0 * W + y) * W + x = q
          /\ (1 * W + y) * W + x = q + W * W
          /\ (2 * W + y) * W + x = q + W * W + W * W
      BY <1>1
    <3>3. q \in Nat /\ W * W \in Nat
      BY <1>1, <2>1
    <3> QED
      BY <1>1, <3>1, <3>2, <3>3 DEF Pixel, W
  <2>7. /\ BmpByte(bmp, 54 + 3 * q) = ByteOfFile(first + (q + W * W + W * W), size)
        /\ BmpByte(bmp, 54 + 3 * q + 1) = ByteOfFile(first + (q + W * W), size)
        /\ BmpByte(bmp, 54 + 3 * q + 2) = ByteOfFile(first + q, size)
    BY <2>1, BytesOfPixel DEF bmp
  <2> HIDE DEF bmp, q, first
  <2> QED
    BY <2>5, <2>6, <2>7, ByteShows
<1>4. bmp.bfOffBits + Len(RGB_data) * bmp.biWidth * (-bmp.biHeight) = bmp.outsize
  <2>1. 54 + 3 * W * (-(-W)) = 54 + 3 * (W * W)
    BY <1>1
  <2> HIDE DEF bmp
  <2> QED
    BY <1>2, <2>1
<1> HIDE DEF bmp
<1> QED
  BY <1>2, <1>3, <1>4 DEF LooksLike, W, bmp

(* What is answered with 200 is the bitmap of a picture in range.          *)
PictureAnswered ==
  /\ pictures_size \in Nat
  /\ Answered("image") /\ answer.code = 200 =>
       /\ answer.arg \in Nat /\ answer.content = BitmapOf(answer.arg, pictures_size)
       /\ mapped \/ WholeInFile(answer.arg, pictures_size)

(* A bitmap that is answered shows the picture as far as the file goes, in *)
(* every place, for every size of the pictures whose rows need no padding, *)
(* of the file and of the pages of memory.                                 *)
THEOREM BitmapsAreThePictures == Spec => []ViewerSeesThePicture
<1>1. Init => PictureAnswered
  BY HandlerAssumption DEF Init, PictureAnswered, Answered
<1>2. PictureAnswered /\ [Next]_vars => PictureAnswered'
  <2> SUFFICES ASSUME PictureAnswered, [Next]_vars PROVE PictureAnswered'
    OBVIOUS
  <2> USE DEF PictureAnswered, Answered
  <2>1. ASSUME NEW n, pc = "route", SendCifarBitmap(n) PROVE PictureAnswered'
    BY <2>1, PicturesAssumption DEF SendCifarBitmap, Loads, Answer, PictureInRange, input_vars
  <2>2. ASSUME NEW route, NEW code, NEW arg, NEW content, route # "image",
               Answer(route, code, arg, content)
        PROVE  PictureAnswered'
    BY <2>2 DEF Answer, input_vars
  <2>3. CASE HandleImage
    BY <2>1, <2>3 DEF HandleImage
  <2>4. CASE pc' # "answered" /\ pictures_size' = pictures_size
    BY <2>4
  <2>5. CASE UNCHANGED vars
    BY <2>5 DEF vars, input_vars
  <2>6. CASE HandleIndex \/ HandleUnknown \/ ParamAbsent
    BY <2>2, <2>6 DEF HandleIndex, HandleUnknown, ParamAbsent
  <2>7. ASSUME NEW j, ParamFound(j) PROVE PictureAnswered'
    BY <2>2, <2>7 DEF ParamFound
  <2>8. ASSUME NEW n, EndOfPath(n) PROVE PictureAnswered'
    BY <2>2, <2>8 DEF EndOfPath
  <2>9. CASE BadEscape
    BY <2>2, <2>9 DEF BadEscape
  <2>10. ASSUME NEW n, SplitFullRequest(n) \/ NextPiece(n)
         PROVE  pc' # "answered" /\ pictures_size' = pictures_size
    BY <2>10 DEF SplitFullRequest, NextPiece, input_vars
  <2>11. CallGetIntParam \/ CallSendStaticFile \/ CopyByte \/ DecodeEscape =>
           pc' # "answered" /\ pictures_size' = pictures_size
    BY DEF CallGetIntParam, CallSendStaticFile, CopyByte, DecodeEscape, input_vars
  <2> QED
    BY <2>3, <2>4, <2>5, <2>6, <2>7, <2>8, <2>9, <2>10, <2>11 DEF Next
<1>3. PictureAnswered => ViewerSeesThePicture
  BY BitmapLooksLike DEF PictureAnswered, ViewerSeesThePicture
<1> QED
  BY <1>1, <1>2, <1>3, PTL DEF Spec

--------------------------------------------------------------------------------
(* The decoded name.                                                       *)

StartsUpTo(s, j) == {m \in Starts(s) : m <= j}

\* What has been decoded is what was meant, and the end of it that no escape is
\* in or next to was copied.
DecodedSoFar ==
  /\ \A k \in 1 .. i : Encoded[k] = Percent =>
       k + 2 <= i /\ HexValue(Encoded[k + 1]) >= 0 /\ HexValue(Encoded[k + 2]) >= 0
  /\ Len(out) = Cardinality(StartsUpTo(Encoded, i))
  /\ \A n \in 1 .. Len(out) : \E k \in StartsUpTo(Encoded, i) : Place(Encoded, k) = n
  /\ \A k \in StartsUpTo(Encoded, i) :
       Place(Encoded, k) \in 1 .. Len(out) /\ out[Place(Encoded, k)] = ByteFrom(Encoded, k)
  /\ \A m \in 0 .. i : (\A k \in 1 .. i : k >= i - m - 1 => Encoded[k] # Percent) =>
       m <= Len(out) /\ \A l \in 1 .. m : out[Len(out) - m + l] = Encoded[i - m + l]

Decoded ==
  /\ Inside
  /\ pc = "decode" => DecodedSoFar
  /\ FileIsTheOneMeant
  /\ TypeBelongsToTheFile

(* The starts up to j + 1, if one is there, are one more than those up to  *)
(* j.                                                                      *)
LEMMA StartAdded ==
  ASSUME NEW s \in Text, NEW j \in 0 .. Len(s) - 1, j + 1 \in Starts(s)
  PROVE  /\ StartsUpTo(s, j + 1) = StartsUpTo(s, j) \cup {j + 1}
         /\ Cardinality(StartsUpTo(s, j)) \in Nat
         /\ Cardinality(StartsUpTo(s, j + 1)) = Cardinality(StartsUpTo(s, j)) + 1
<1>1. Len(s) \in Nat /\ Starts(s) \subseteq 1 .. Len(s)
  BY DEF Starts, Text
<1>2. StartsUpTo(s, j + 1) = StartsUpTo(s, j) \cup {j + 1}
  BY <1>1 DEF StartsUpTo
<1>3. IsFiniteSet(StartsUpTo(s, j))
  <2>1. IsFiniteSet(1 .. Len(s)) /\ StartsUpTo(s, j) \in SUBSET (1 .. Len(s))
    BY <1>1, FS_Interval DEF StartsUpTo
  <2> QED
    BY <2>1, FS_Subset
<1>4. j + 1 \notin StartsUpTo(s, j)
  BY <1>1 DEF StartsUpTo
<1> QED
  BY <1>2, <1>3, <1>4, FS_AddElement, FS_CardinalityType

(* One more start, at j + 1, and a byte written for it.                    *)
LEMMA ByteWritten ==
  ASSUME Inside, pc = "decode", path \in Text, path # <<>>, DecodedSoFar,
         i \in 0 .. Len(Encoded) - 1,
         i + 1 \in Starts(Encoded), NEW j \in i + 1 .. Len(Encoded),
         StartsUpTo(Encoded, j) = StartsUpTo(Encoded, i + 1),
         NEW o \in Seq(Bytes), o = Append(out, ByteFrom(Encoded, i + 1)), out \in Seq(Bytes)
  PROVE  /\ Len(o) = Cardinality(StartsUpTo(Encoded, j))
         /\ \A n \in 1 .. Len(o) : \E k \in StartsUpTo(Encoded, j) : Place(Encoded, k) = n
         /\ \A k \in StartsUpTo(Encoded, j) :
              Place(Encoded, k) \in 1 .. Len(o) /\ o[Place(Encoded, k)] = ByteFrom(Encoded, k)
<1> DEFINE s == Encoded
           A == StartsUpTo(s, i)
           B == StartsUpTo(s, i + 1)
<1>1. s \in Text
  BY TailType DEF Encoded
<1> HIDE DEF s
<1>2. B = A \cup {i + 1} /\ Cardinality(B) = Cardinality(A) + 1
  BY <1>1, StartAdded DEF s
<1>3. Place(s, i + 1) = Cardinality(B)
  BY DEF Place, StartsUpTo
<1>4. Len(o) = Len(out) + 1 /\ Len(out) \in Nat /\ o[Len(out) + 1] = ByteFrom(s, i + 1)
      /\ \A n \in 1 .. Len(out) : o[n] = out[n]
  <2> DEFINE b == ByteFrom(s, i + 1)
  <2>1. o = Append(out, b)
    BY DEF s
  <2> HIDE DEF b
  <2>2. Len(o) = Len(out) + 1 /\ Len(out) \in Nat
    BY <2>1
  <2>3. o[Len(out) + 1] = b /\ \A n \in 1 .. Len(out) : o[n] = out[n]
    BY <2>1
  <2> QED
    BY <2>2, <2>3 DEF b
<1>5. /\ Len(out) = Cardinality(A)
      /\ \A n \in 1 .. Len(out) : \E k \in A : Place(s, k) = n
      /\ \A k \in A : Place(s, k) \in 1 .. Len(out) /\ out[Place(s, k)] = ByteFrom(s, k)
  BY DEF DecodedSoFar, s
<1> HIDE DEF A, B
<1>6. Place(s, i + 1) = Len(out) + 1 /\ Len(o) = Cardinality(B)
  BY <1>2, <1>3, <1>4, <1>5
<1>7. \A n \in 1 .. Len(o) : \E k \in B : Place(s, k) = n
  <2> TAKE n \in 1 .. Len(o)
  <2>1. CASE n = Len(out) + 1
    BY <1>2, <1>6, <2>1
  <2>2. CASE n # Len(out) + 1
    <3>1. n \in 1 .. Len(out)
      BY <1>4, <2>2
    <3> QED
      BY <1>2, <1>5, <3>1
  <2> QED
    BY <2>1, <2>2
<1>8. ASSUME NEW k \in B
      PROVE  Place(s, k) \in 1 .. Len(o) /\ o[Place(s, k)] = ByteFrom(s, k)
  <2>1. CASE k = i + 1
    BY <1>4, <1>6, <2>1
  <2>2. CASE k \in A
    BY <1>4, <1>5, <2>2
  <2> QED
    BY <1>2, <2>1, <2>2
<1> QED
  BY <1>6, <1>7, <1>8 DEF B, s

(* Where an escape ends or a byte is copied, a byte or an escape starts.   *)
LEMMA NextIsStart ==
  ASSUME path \in Text, path # <<>>, DecodedSoFar, i \in 0 .. Len(Encoded) - 1
  PROVE  i + 1 \in Starts(Encoded)
<1>1. Encoded \in Text /\ Len(Encoded) \in Nat /\ DOMAIN Encoded = 1 .. Len(Encoded)
  BY TailType DEF Encoded, Text
<1>2. \A k \in 1 .. i : k \in {i, i - 1} => Encoded[k] # Percent
  BY DEF DecodedSoFar
<1> QED
  BY <1>1, <1>2 DEF Starts

(* Before the first byte nothing has been decoded, and nothing was meant.  *)
LEMMA StartDecodes ==
  ASSUME Decoded, CallSendStaticFile PROVE Decoded'
<1>1. Inside'
  BY RouteInside DEF Decoded
<1>2. i' = 0 /\ i = 0 /\ out = <<>> /\ out' = <<>> /\ pc' = "decode" /\ path' = path
  BY DEF CallSendStaticFile, Decoded, Inside, Behind
<1>3. StartsUpTo(Encoded', 0) = {}
  <2>1. Encoded' \in Text
    BY <1>1, <1>2, TailType DEF Inside, TypeOK, Encoded, Text
  <2> HIDE DEF Encoded
  <2> QED
    BY <2>1 DEF StartsUpTo, Starts, Text
<1>4. DecodedSoFar'
  BY <1>2, <1>3, FS_EmptySet DEF DecodedSoFar
<1>5. FileIsTheOneMeant' /\ TypeBelongsToTheFile'
  BY <1>2 DEF FileIsTheOneMeant, TypeBelongsToTheFile, Answered
<1> QED
  BY <1>1, <1>4, <1>5 DEF Decoded

(* A byte that is copied is the byte that was meant.                       *)
LEMMA CopyDecodes ==
  ASSUME Decoded, CopyByte PROVE Decoded'
<1>1. Inside'
  BY DecodeInside DEF Decoded
<1>2. /\ pc = "decode" /\ path \in Text /\ path # <<>> /\ i \in 0 .. Len(Encoded)
      /\ out \in Seq(Bytes) /\ DecodedSoFar
  BY DEF CopyByte, Decoded, Inside, TypeOK, Behind, Text
<1>3. Encoded \in Text /\ Len(Encoded) \in Nat
  BY <1>2, TailType DEF Encoded, Text
<1>4. i \in 0 .. Len(Encoded) - 1 /\ ByteAt(i) = Encoded[i + 1]
  BY <1>2, <1>3 DEF CopyByte, ByteAt
<1>5. i + 1 \in Starts(Encoded)
  BY <1>2, <1>4, NextIsStart
<1>6. Encoded[i + 1] # Percent /\ Encoded[i + 1] \in Bytes
  <2>1. i + 1 \in 1 .. Len(Encoded)
    BY <1>3, <1>4
  <2> QED
    BY <1>3, <1>4, <2>1 DEF CopyByte, Text
<1>7. /\ out' = Append(out, ByteFrom(Encoded, i + 1)) /\ i' = i + 1 /\ pc' = "decode"
      /\ Encoded' = Encoded
  BY <1>4, <1>6 DEF CopyByte, ByteFrom, Encoded
<1> DEFINE s == Encoded
<1> HIDE DEF s
<1>8. out' \in Seq(Bytes) /\ Len(out') = Len(out) + 1 /\ Len(out) \in Nat
      /\ out'[Len(out) + 1] = Encoded[i + 1]
      /\ \A n \in 1 .. Len(out) : out'[n] = out[n]
  BY <1>2, <1>4, <1>6 DEF CopyByte
<1>9. /\ Len(out') = Cardinality(StartsUpTo(s, i + 1))
      /\ \A n \in 1 .. Len(out') : \E k \in StartsUpTo(s, i + 1) : Place(s, k) = n
      /\ \A k \in StartsUpTo(s, i + 1) :
           Place(s, k) \in 1 .. Len(out') /\ out'[Place(s, k)] = ByteFrom(s, k)
  <2>1. i + 1 \in i + 1 .. Len(Encoded)
    BY <1>3, <1>4
  <2> QED
    BY <1>2, <1>4, <1>5, <1>7, <1>8, <2>1, ByteWritten DEF Decoded, s
<1>10. \A k \in 1 .. i + 1 : s[k] = Percent =>
         k + 2 <= i + 1 /\ HexValue(s[k + 1]) >= 0 /\ HexValue(s[k + 2]) >= 0
  <2> SUFFICES ASSUME NEW k \in 1 .. i + 1, s[k] = Percent
               PROVE  k + 2 <= i + 1 /\ HexValue(s[k + 1]) >= 0 /\ HexValue(s[k + 2]) >= 0
    OBVIOUS
  <2>1. k \in 1 .. i
    BY <1>4, <1>6 DEF s
  <2>2. k + 2 <= i /\ HexValue(s[k + 1]) >= 0 /\ HexValue(s[k + 2]) >= 0
    BY <1>2, <2>1 DEF DecodedSoFar, s
  <2> QED
    BY <1>4, <2>2
<1>11. ASSUME NEW m \in 0 .. i + 1,
              \A k \in 1 .. i + 1 : k >= (i + 1) - m - 1 => s[k] # Percent
       PROVE  /\ m <= Len(out')
              /\ \A l \in 1 .. m : out'[Len(out') - m + l] = s[(i + 1) - m + l]
  <2>1. CASE m = 0
    BY <1>8, <2>1
  <2>2. CASE m # 0
    <3>1. m - 1 \in 0 .. i /\ \A k \in 1 .. i : k >= i - (m - 1) - 1 => s[k] # Percent
      BY <1>4, <1>11, <2>2
    <3>2. m - 1 <= Len(out)
          /\ \A l \in 1 .. m - 1 : out[Len(out) - (m - 1) + l] = s[i - (m - 1) + l]
      BY <1>2, <3>1 DEF DecodedSoFar, s
    <3>3. m <= Len(out')
      BY <1>4, <1>8, <3>2
    <3>4. ASSUME NEW l \in 1 .. m PROVE out'[Len(out') - m + l] = s[(i + 1) - m + l]
      <4>1. CASE l = m
        <5>1. Len(out') - m + l = Len(out) + 1 /\ (i + 1) - m + l = i + 1
          BY <1>4, <1>8, <4>1
        <5> QED
          BY <1>8, <5>1 DEF s
      <4>2. CASE l # m
        <5>1. l \in 1 .. m - 1 /\ Len(out') - m + l = Len(out) - (m - 1) + l
              /\ (i + 1) - m + l = i - (m - 1) + l
          BY <1>4, <1>8, <4>2
        <5>2. Len(out) - (m - 1) + l \in 1 .. Len(out)
          BY <1>8, <3>2, <5>1
        <5> QED
          BY <1>8, <3>2, <5>1, <5>2
      <4> QED
        BY <4>1, <4>2
    <3> QED
      BY <3>3, <3>4
  <2> QED
    BY <2>1, <2>2
<1>12. DecodedSoFar'
  <2>1. Encoded' = s /\ i' = i + 1
    BY <1>7 DEF s
  <2> QED
    BY <1>9, <1>10, <1>11, <2>1 DEF DecodedSoFar
<1>13. FileIsTheOneMeant' /\ TypeBelongsToTheFile'
  BY <1>7 DEF FileIsTheOneMeant, TypeBelongsToTheFile, Answered
<1> QED
  BY <1>1, <1>12, <1>13 DEF Decoded

(* An escape becomes the byte that was meant, and its two digits start     *)
(* nothing.                                                                *)
LEMMA EscapeDecodes ==
  ASSUME Decoded, DecodeEscape PROVE Decoded'
<1>1. Inside'
  BY DecodeInside DEF Decoded
<1>2. /\ pc = "decode" /\ path \in Text /\ path # <<>> /\ i \in 0 .. Len(Encoded)
      /\ out \in Seq(Bytes) /\ DecodedSoFar
  BY DEF DecodeEscape, Decoded, Inside, TypeOK, Behind, Text
<1>3. Encoded \in Text /\ Len(Encoded) \in Nat
  BY <1>2, TailType DEF Encoded, Text
<1>4. i + 3 <= Len(Encoded) /\ i' = i + 3
  BY <1>1 DEF DecodeEscape, Inside, Behind, Encoded
<1>5. /\ ByteAt(i) = Encoded[i + 1] /\ ByteAt(i + 1) = Encoded[i + 2]
      /\ ByteAt(i + 2) = Encoded[i + 3]
  <2>1. (i + 1) + 1 = i + 2 /\ (i + 2) + 1 = i + 3
    BY <1>2
  <2> QED
    BY <1>2, <1>3, <1>4, <2>1 DEF ByteAt
<1> DEFINE s == Encoded
<1>6. /\ s[i + 1] = Percent /\ HexValue(s[i + 2]) >= 0 /\ HexValue(s[i + 3]) >= 0
      /\ out' = Append(out, 16 * HexValue(s[i + 2]) + HexValue(s[i + 3]))
      /\ pc' = "decode" /\ Encoded' = Encoded
  BY <1>5 DEF DecodeEscape, Encoded
<1>7. s[i + 2] # Percent /\ s[i + 3] # Percent
  <2>1. HexValue(Percent) = -1
    BY DEF HexValue, Percent, Digits
  <2> QED
    BY <1>6, <2>1
<1>8. out' = Append(out, ByteFrom(s, i + 1))
  <2>1. (i + 1) + 1 = i + 2 /\ (i + 1) + 2 = i + 3
    BY <1>2
  <2> QED
    BY <1>6, <2>1 DEF ByteFrom
<1>9. out' \in Seq(Bytes)
  BY <1>1 DEF Inside, TypeOK
<1>10. i \in 0 .. Len(Encoded) - 1 /\ i + 1 \in Starts(Encoded)
  <2>1. i \in 0 .. Len(Encoded) - 1
    BY <1>2, <1>3, <1>4
  <2> QED
    BY <1>2, <2>1, NextIsStart
<1>11. StartsUpTo(s, i + 3) = StartsUpTo(s, i + 1)
  <2>1. DOMAIN s = 1 .. Len(s)
    BY <1>3 DEF Text
  <2>2. i + 1 \in DOMAIN s
    BY <1>2, <1>3, <1>4, <2>1
  <2>3. i + 2 \notin Starts(s)
    <3>1. (i + 2) - 1 = i + 1
      BY <1>2
    <3> QED
      BY <1>6, <2>2, <3>1 DEF Starts
  <2>4. i + 3 \notin Starts(s)
    <3>1. (i + 3) - 2 = i + 1
      BY <1>2
    <3> QED
      BY <1>6, <2>2, <3>1 DEF Starts
  <2>5. Starts(s) \subseteq Int
    BY <2>1 DEF Starts
  <2>6. \A m \in Starts(s) : m <= i + 3 <=> m <= i + 1
    BY <1>2, <2>3, <2>4, <2>5
  <2> QED
    BY <2>6 DEF StartsUpTo
<1> HIDE DEF s
<1>12. /\ Len(out') = Cardinality(StartsUpTo(s, i + 3))
       /\ \A n \in 1 .. Len(out') : \E k \in StartsUpTo(s, i + 3) : Place(s, k) = n
       /\ \A k \in StartsUpTo(s, i + 3) :
            Place(s, k) \in 1 .. Len(out') /\ out'[Place(s, k)] = ByteFrom(s, k)
  <2>1. i + 3 \in i + 1 .. Len(Encoded)
    BY <1>3, <1>4, <1>10
  <2> QED
    BY <1>2, <1>8, <1>9, <1>10, <1>11, <2>1, ByteWritten DEF Decoded, s
<1>13. \A k \in 1 .. i + 3 : s[k] = Percent =>
         k + 2 <= i + 3 /\ HexValue(s[k + 1]) >= 0 /\ HexValue(s[k + 2]) >= 0
  <2> SUFFICES ASSUME NEW k \in 1 .. i + 3, s[k] = Percent
               PROVE  k + 2 <= i + 3 /\ HexValue(s[k + 1]) >= 0 /\ HexValue(s[k + 2]) >= 0
    OBVIOUS
  <2>1. CASE k \in 1 .. i
    <3>1. k + 2 <= i /\ HexValue(s[k + 1]) >= 0 /\ HexValue(s[k + 2]) >= 0
      BY <1>2, <2>1 DEF DecodedSoFar, s
    <3> QED
      BY <1>10, <3>1
  <2>2. CASE k = i + 1
    <3>1. k + 1 = i + 2 /\ k + 2 = i + 3
      BY <1>10, <2>2
    <3> QED
      BY <1>6, <1>10, <3>1
  <2>3. k # i + 2 /\ k # i + 3
    BY <1>7 DEF s
  <2> QED
    BY <1>10, <2>1, <2>2, <2>3
<1>14. ASSUME NEW m \in 0 .. i + 3,
              \A k \in 1 .. i + 3 : k >= (i + 3) - m - 1 => s[k] # Percent
       PROVE  /\ m <= Len(out')
              /\ \A l \in 1 .. m : out'[Len(out') - m + l] = s[(i + 3) - m + l]
  <2>1. m = 0
    <3>1. i + 1 \in 1 .. i + 3 /\ ~(i + 1 >= (i + 3) - m - 1)
      BY <1>6, <1>10, <1>14
    <3> QED
      BY <1>10, <3>1
  <2>2. Len(out') \in Nat
    BY <1>9
  <2> QED
    BY <2>1, <2>2
<1>15. DecodedSoFar'
  <2>1. Encoded' = s /\ i' = i + 3
    BY <1>4, <1>6 DEF s
  <2> QED
    BY <1>12, <1>13, <1>14, <2>1 DEF DecodedSoFar
<1>16. FileIsTheOneMeant' /\ TypeBelongsToTheFile'
  BY <1>6 DEF FileIsTheOneMeant, TypeBelongsToTheFile, Answered
<1> QED
  BY <1>1, <1>15, <1>16 DEF Decoded

(* A bad escape: nothing is left of the name.                              *)
LEMMA BadEscapeDecodes ==
  ASSUME Decoded, BadEscape PROVE Decoded'
<1>1. Inside'
  BY DecodeInside DEF Decoded
<1>2. /\ pc = "decode" /\ path \in Text /\ path # <<>> /\ i \in 0 .. Len(Encoded)
      /\ pc' = "answered" /\ Encoded' = Encoded /\ answer'.arg = <<>>
  BY DEF BadEscape, Answer, Decoded, Inside, TypeOK, Behind, Text, Encoded
<1>3. Encoded \in Text /\ Len(Encoded) \in Nat /\ DOMAIN Encoded = 1 .. Len(Encoded)
  BY <1>2, TailType DEF Encoded, Text
<1>4. i \in 0 .. Len(Encoded) - 1 /\ Encoded[i + 1] = Percent
  BY <1>2, <1>3 DEF BadEscape, ByteAt, Percent, NUL
<1>5. ~WellFormed(Encoded)
  <2> SUFFICES ASSUME WellFormed(Encoded) PROVE FALSE
    OBVIOUS
  <2>1. (i + 1) + 2 <= Len(Encoded) /\ HexValue(Encoded[(i + 1) + 1]) >= 0
        /\ HexValue(Encoded[(i + 1) + 2]) >= 0
    <3>1. i + 1 \in DOMAIN Encoded
      BY <1>3, <1>4
    <3> QED
      BY <1>4, <3>1 DEF WellFormed
  <2>2. ByteAt(i + 1) = Encoded[i + 2] /\ ByteAt(i + 2) = Encoded[i + 3]
    <3>1. (i + 1) + 1 = i + 2 /\ (i + 2) + 1 = i + 3
          /\ i + 1 < Len(Encoded) /\ i + 2 < Len(Encoded)
      BY <1>3, <1>4, <2>1
    <3> QED
      BY <3>1 DEF ByteAt
  <2>3. (i + 1) + 1 = i + 2 /\ (i + 1) + 2 = i + 3
    BY <1>4
  <2>4. HexValue(ByteAt(i + 1)) >= 0 /\ HexValue(ByteAt(i + 2)) >= 0
    BY <2>1, <2>2, <2>3
  <2>5. Encoded[i + 2] \in Bytes /\ Encoded[i + 3] \in Bytes
    BY <1>3, <1>4, <2>1 DEF Text
  <2>6. HexValue(ByteAt(i + 1)) \in Int /\ HexValue(ByteAt(i + 2)) \in Int
    BY <2>2, <2>5, HexValueType
  <2> QED
    BY <2>4, <2>6 DEF BadEscape
<1>6. FileIsTheOneMeant' /\ TypeBelongsToTheFile'
  BY <1>2, <1>5 DEF FileIsTheOneMeant, TypeBelongsToTheFile
<1> QED
  BY <1>1, <1>2, <1>6 DEF Decoded

(* When the whole path has been decoded, that is what was meant.           *)
LEMMA WholeIsMeant ==
  ASSUME path \in Text, path # <<>>, DecodedSoFar, i = Len(Encoded), out \in Seq(Bytes)
  PROVE  WellFormed(Encoded) /\ Meant(Encoded) = out
<1> DEFINE s == Encoded
<1>1. s \in Text /\ Len(s) \in Nat /\ DOMAIN s = 1 .. Len(s)
  BY TailType DEF Encoded, Text
<1> HIDE DEF s
<1>2. WellFormed(s)
  BY <1>1 DEF DecodedSoFar, WellFormed, s
<1>3. StartsUpTo(s, i) = Starts(s)
  BY <1>1 DEF StartsUpTo, Starts, s
<1>4. /\ Len(out) = Cardinality(Starts(s))
      /\ \A n \in 1 .. Len(out) : \E k \in Starts(s) : Place(s, k) = n
      /\ \A k \in Starts(s) : out[Place(s, k)] = ByteFrom(s, k)
  BY <1>3 DEF DecodedSoFar, s
<1> DEFINE At(n) == CHOOSE k \in Starts(s) : Place(s, k) = n
<1>5. ASSUME NEW n \in 1 .. Len(out) PROVE ByteFrom(s, At(n)) = out[n]
  <2>1. At(n) \in Starts(s) /\ Place(s, At(n)) = n
    BY <1>4
  <2> QED
    BY <1>4, <2>1
<1>6. Meant(s) = [n \in 1 .. Len(out) |-> ByteFrom(s, At(n))]
  BY <1>4 DEF Meant
<1>7. out = [n \in 1 .. Len(out) |-> out[n]]
  OBVIOUS
<1> HIDE DEF At
<1>8. Meant(s) = out
  BY <1>5, <1>6, <1>7, Zenon
<1> QED
  BY <1>2, <1>8 DEF s

(* Lowering a text keeps its length and changes each byte for itself.      *)
LEMMA LoweredType ==
  ASSUME NEW s \in Seq(Bytes)
  PROVE  /\ Lowered(s) \in Seq(Int) /\ Len(Lowered(s)) = Len(s)
         /\ \A k \in 1 .. Len(s) : Lowered(s)[k] = ToLower(s[k])
<1>1. \A k \in 1 .. Len(s) : ToLower(s[k]) \in Int
  <2>1. \A b \in Bytes : ToLower(b) \in Int
    BY DEF ToLower, Bytes
  <2> QED
    BY <2>1
<1>2. DOMAIN s = 1 .. Len(s) /\ Len(s) \in Nat
  OBVIOUS
<1>3. Lowered(s) = [k \in 1 .. Len(s) |-> ToLower(s[k])]
  BY <1>2 DEF Lowered
<1> QED
  BY <1>1, <1>2, <1>3

(* What upper and lower case do not change.                                *)
LEMMA ToLowerKeeps ==
  ASSUME NEW a \in Bytes, NEW b \in Bytes, ToLower(a) = ToLower(b)
  PROVE  /\ a = Percent => b = Percent
         /\ a \in HexDigits => b \in HexDigits
  BY DEF ToLower, Bytes, Percent, HexDigits, Digits

(* What has a value is a hexadecimal digit.                                *)
LEMMA HexValueDigits ==
  ASSUME NEW b \in Bytes, HexValue(b) >= 0 PROVE b \in HexDigits
  BY DEF HexValue, HexDigits, Digits, Bytes

(* IsSuffix, which compares the reversed sequences, place by place.        *)
LEMMA SuffixByPlace ==
  ASSUME NEW S, NEW a \in Seq(S), NEW b \in Seq(S), Len(a) <= Len(b),
         \A l \in 1 .. Len(a) : b[Len(b) - Len(a) + l] = a[l]
  PROVE  IsSuffix(a, b)
<1> DEFINE c == Reverse(a)
           d == Reverse(b)
<1>1. /\ c \in Seq(S) /\ Len(c) = Len(a) /\ \A k \in 1 .. Len(a) : c[k] = a[(Len(a) - k) + 1]
      /\ d \in Seq(S) /\ Len(d) = Len(b) /\ \A k \in 1 .. Len(b) : d[k] = b[(Len(b) - k) + 1]
  BY DEF Reverse
<1>2. \A k \in 1 .. Len(a) : c[k] = d[k]
  <2> TAKE k \in 1 .. Len(a)
  <2>1. (Len(a) - k) + 1 \in 1 .. Len(a)
        /\ Len(b) - Len(a) + ((Len(a) - k) + 1) = (Len(b) - k) + 1
        /\ k \in 1 .. Len(b)
    OBVIOUS
  <2>2. b[Len(b) - Len(a) + ((Len(a) - k) + 1)] = a[(Len(a) - k) + 1]
    BY <2>1
  <2> QED
    BY <1>1, <2>1, <2>2
<1> HIDE DEF c, d
<1>3. SubSeq(c, 1, Len(c)) = SubSeq(d, 1, Len(c))
  BY <1>1, <1>2
<1> QED
  BY <1>1, <1>3 DEF IsSuffix, IsPrefix, c, d

(* An extension that ends the encoded path has been copied.                *)
LEMMA ExtensionCopied ==
  ASSUME path \in Text, path # <<>>, DecodedSoFar, i = Len(Encoded), out \in Seq(Bytes),
         NEW k \in DOMAIN MIME_TYPES, EndsWithCI(Encoded, MIME_TYPES[k].Extension)
  PROVE  IsSuffix(Lowered(MIME_TYPES[k].Extension), Lowered(out))
<1> DEFINE s == Encoded
           e == MIME_TYPES[k].Extension
           m == Len(e)
<1>1. s \in Text /\ i \in Nat /\ i = Len(s)
  BY TailType DEF Encoded, Text
<1>2. /\ e \in Seq(Bytes \ {NUL, Percent}) /\ e # <<>> /\ e[1] \notin HexDigits
  BY ExtensionAssumption
<1>3. /\ m <= Len(s)
      /\ \A l \in 1 .. m : ToLower(s[Len(s) - m + l]) = ToLower(e[l])
  BY DEF EndsWithCI
<1> HIDE DEF s, e
<1>4. m \in 1 .. i /\ e \in Seq(Bytes)
  BY <1>1, <1>2, <1>3
<1>5. \A l \in 1 .. m : e[l] \in Bytes \ {Percent}
  BY <1>2
<1>6. \A n \in 1 .. i : s[n] \in Bytes
  BY <1>1 DEF Text
<1> HIDE DEF m
<1>7. \A l \in 1 .. m : ToLower(s[i - m + l]) = ToLower(e[l]) /\ s[i - m + l] # Percent
  <2> TAKE l \in 1 .. m
  <2>1. i - m + l \in 1 .. i
    BY <1>1, <1>4
  <2>2. ToLower(s[i - m + l]) = ToLower(e[l])
    BY <1>1, <1>3
  <2> QED
    BY <1>5, <1>6, <2>1, <2>2, ToLowerKeeps
<1>8. s[i - m + 1] \notin HexDigits
  <2>1. 1 \in 1 .. m /\ i - m + 1 \in 1 .. i
    BY <1>1, <1>4
  <2>2. ToLower(s[i - m + 1]) = ToLower(e[1])
    BY <1>7, <2>1
  <2> QED
    BY <1>2, <1>5, <1>6, <2>1, <2>2, ToLowerKeeps
<1>9. ASSUME NEW n \in 1 .. i, n >= i - m - 1, s[n] = Percent PROVE FALSE
  <2>1. n + 2 <= i /\ HexValue(s[n + 1]) >= 0 /\ HexValue(s[n + 2]) >= 0
    BY <1>9 DEF DecodedSoFar, s
  <2>2. CASE n > i - m
    <3>1. n - (i - m) \in 1 .. m /\ i - m + (n - (i - m)) = n
      BY <1>1, <1>4, <2>2
    <3> QED
      BY <1>7, <1>9, <3>1
  <2>3. CASE n = i - m \/ n = i - m - 1
    <3>0. i \in Int /\ m \in Int /\ n \in Int
      BY <1>1, <1>4
    <3>1. n + 1 = i - m + 1 \/ n + 2 = i - m + 1
      BY ONLY <3>0, <2>3
    <3>2. i - m + 1 \in 1 .. i
      BY <1>1, <1>4
    <3>3. HexValue(s[i - m + 1]) >= 0
      BY <2>1, <3>1
    <3> QED
      BY <1>6, <1>8, <3>2, <3>3, HexValueDigits
  <2> QED
    BY <1>1, <1>4, <1>9, <2>2, <2>3
<1>10. m <= Len(out) /\ \A l \in 1 .. m : out[Len(out) - m + l] = s[i - m + l]
  <2>1. m \in 0 .. i
    BY <1>1, <1>4
  <2> QED
    BY <1>9, <2>1 DEF DecodedSoFar, s
<1> DEFINE a == Lowered(e)
           b == Lowered(out)
<1>11. /\ a \in Seq(Int) /\ Len(a) = m /\ \A l \in 1 .. m : a[l] = ToLower(e[l])
       /\ b \in Seq(Int) /\ Len(b) = Len(out)
       /\ \A l \in 1 .. Len(out) : b[l] = ToLower(out[l])
  BY <1>4, LoweredType DEF m
<1> HIDE DEF a, b
<1>12. \A l \in 1 .. Len(a) : b[Len(b) - Len(a) + l] = a[l]
  <2> TAKE l \in 1 .. Len(a)
  <2>1. Len(out) - m + l \in 1 .. Len(out) /\ l \in 1 .. m
    BY <1>4, <1>10, <1>11
  <2>2. b[Len(out) - m + l] = ToLower(out[Len(out) - m + l])
    BY <1>11, <2>1
  <2> QED
    BY <1>7, <1>10, <1>11, <2>1, <2>2
<1>13. IsSuffix(a, b)
  BY <1>10, <1>11, <1>12, SuffixByPlace
<1> QED
  BY <1>13 DEF a, b, e

(* At the end of the path the name and its type are those of the file      *)
(* meant.                                                                  *)
LEMMA EndDecodes ==
  ASSUME Decoded, NEW n \in 0 .. Len(out), EndOfPath(n) PROVE Decoded'
<1>1. Inside'
  BY DecodeInside DEF Decoded
<1>2. /\ pc = "decode" /\ path \in Text /\ path # <<>> /\ i \in 0 .. Len(Encoded)
      /\ out \in Seq(Bytes) /\ DecodedSoFar
  BY DEF EndOfPath, Decoded, Inside, TypeOK, Behind, Text
<1>3. PICK type \in MimeTypes :
        IsContentType(type) /\ Answer("static", NULL, SubSeq(out, 1, n), type)
  BY DEF EndOfPath
<1>4. /\ pc' = "answered" /\ Encoded' = Encoded /\ out' = out
      /\ answer'.arg = SubSeq(out, 1, n) /\ answer'.content = type
  BY <1>3 DEF Answer, Encoded
<1>5. Encoded \in Text /\ Len(Encoded) \in Nat
  BY <1>2, TailType DEF Encoded, Text
<1>6. i = Len(Encoded)
  <2>1. CASE i < Len(Encoded)
    <3>1. ByteAt(i) = Encoded[i + 1] /\ i + 1 \in 1 .. Len(Encoded)
      BY <1>2, <1>5, <2>1 DEF ByteAt
    <3> QED
      BY <1>5, <3>1 DEF EndOfPath, Text
  <2> QED
    BY <1>2, <1>5, <2>1
<1>7. WellFormed(Encoded) /\ Meant(Encoded) = out
  BY <1>2, <1>6, WholeIsMeant
<1>8. FileIsTheOneMeant'
  <2>1. IsCString(out, SubSeq(out, 1, n))
    BY DEF IsCString, EndOfPath
  <2> QED
    BY <1>4, <1>7, <2>1 DEF FileIsTheOneMeant
<1>9. TypeBelongsToTheFile'
  <2> SUFFICES ASSUME type # NULL, NUL \notin ToSet(out)
               PROVE  \E k \in DOMAIN MIME_TYPES :
                        /\ MIME_TYPES[k].MimeType = type
                        /\ IsSuffix(Lowered(MIME_TYPES[k].Extension),
                                    Lowered(SubSeq(out, 1, n)))
    BY <1>4 DEF TypeBelongsToTheFile
  <2>1. n = Len(out)
    <3>1. CASE n < Len(out)
      <4>1. out[n + 1] = NUL /\ n + 1 \in DOMAIN out
        BY <1>2, <3>1 DEF EndOfPath, StopsAt
      <4> QED
        BY <4>1 DEF ToSet
    <3> QED
      BY <1>2, <3>1
  <2>2. SubSeq(out, 1, n) = out
    BY <1>2, <2>1
  <2>3. PICK k \in DOMAIN MIME_TYPES :
          type = MIME_TYPES[k].MimeType /\ EndsWithCI(Encoded, MIME_TYPES[k].Extension)
    BY <1>3 DEF IsContentType
  <2>4. IsSuffix(Lowered(MIME_TYPES[k].Extension), Lowered(out))
    BY <1>2, <1>6, <2>3, ExtensionCopied
  <2> QED
    BY <2>2, <2>3, <2>4
<1> QED
  BY <1>1, <1>4, <1>8, <1>9 DEF Decoded

(* The steps outside percent_url_decode answer with no file.               *)
LEMMA OtherDecodes ==
  ASSUME Decoded,
         \/ \E n \in 0 .. Len(target) : SplitFullRequest(n)
         \/ HandleIndex \/ CallGetIntParam \/ HandleImage \/ HandleUnknown
         \/ pc = "param" /\ \E j \in i .. Len(query) : NextPiece(j) \/ ParamFound(j)
         \/ ParamAbsent
  PROVE  Decoded'
<1>1. Inside'
  BY SplitInside, RouteInside, ParamInside DEF Decoded
<1>2. pc' \in {"route", "param", "answered", "crashed"} /\ (pc' = "answered" => answer'.route # "static")
  BY DEF SplitFullRequest, HandleIndex, CallGetIntParam, HandleImage, SendCifarBitmap,
         HandleUnknown, NextPiece, ParamFound, ParamAbsent, Answer
<1> QED
  BY <1>1, <1>2 DEF Decoded, FileIsTheOneMeant, TypeBelongsToTheFile, Answered

(* Every step keeps what has been decoded so far.                          *)
LEMMA NextDecodes == Decoded /\ [Next]_vars => Decoded'
<1>1. Decoded /\ Next => Decoded'
  BY StartDecodes, CopyDecodes, EscapeDecodes, BadEscapeDecodes, EndDecodes, OtherDecodes DEF Next
<1>2. ASSUME Decoded, UNCHANGED vars PROVE Decoded'
  <2>1. Inside'
    BY <1>2, NextInside DEF Decoded
  <2>2. pc' = pc /\ path' = path /\ i' = i /\ out' = out /\ answer' = answer
    BY <1>2 DEF vars
  <2> QED
    BY <1>2, <2>1, <2>2 DEF Decoded, DecodedSoFar, FileIsTheOneMeant, TypeBelongsToTheFile,
       Answered, Encoded
<1> QED
  BY <1>1, <1>2

(* It holds at the beginning.                                              *)
LEMMA InitDecodes == Init => Decoded
  BY InitInside DEF Init, Decoded, FileIsTheOneMeant, TypeBelongsToTheFile, Answered

(* The file that is looked for is the one the client meant, byte for byte, *)
(* and none if an escape is malformed (percent_url_decode).                *)
THEOREM FilesAreTheOnesMeant == Spec => []FileIsTheOneMeant
<1>1. Decoded => FileIsTheOneMeant
  BY DEF Decoded
<1> QED
  BY InitDecodes, NextDecodes, <1>1, PTL DEF Spec

(* The type guessed from the encoded path belongs to the file of the       *)
(* decoded name (send_static_file, guess_content_type).                    *)
THEOREM TypesBelongToTheFiles == Spec => []TypeBelongsToTheFile
<1>1. Decoded => TypeBelongsToTheFile
  BY DEF Decoded
<1> QED
  BY InitDecodes, NextDecodes, <1>1, PTL DEF Spec


--------------------------------------------------------------------------------
(* The numbers in a text.                                                  *)

Product == INSTANCE FoldProofs WITH Op <- Times

Numeral == INSTANCE FoldProofs WITH Op <- NextDigit

(* A power is the fold of the theory of folds.                             *)
LEMMA PowerIsFold ==
  ASSUME NEW b, NEW k
  PROVE  Power(b, k) = Product!Fold(1, [n \in 1 .. k |-> b])
  BY DEF Power, FoldLeft, MapThenFoldSet, Max, Product!Fold, Product!FoldLeft,
         Product!MapThenFoldSet, Product!Max

(* So is the number that digits stand for.                                 *)
LEMMA NumberIsFold ==
  ASSUME NEW digits
  PROVE  Number(digits) = Numeral!Fold(0, digits)
  BY DEF Number, FoldLeft, MapThenFoldSet, Max, Numeral!Fold, Numeral!FoldLeft,
         Numeral!MapThenFoldSet, Numeral!Max

(* The recursion of a power, its beginning,                                *)
LEMMA PowerZero == ASSUME NEW b PROVE Power(b, 0) = 1
<1>1. [n \in 1 .. 0 |-> b] = <<>>
  OBVIOUS
<1> QED
  BY <1>1, PowerIsFold, Product!FoldEmpty

(* and its step.                                                           *)
LEMMA PowerNext ==
  ASSUME NEW b, NEW k \in Nat
  PROVE  Power(b, k + 1) = Power(b, k) * b
<1> DEFINE s == [n \in 1 .. k |-> b]
           t == [n \in 1 .. k + 1 |-> b]
<1>1. s \in Seq({b}) /\ b \in {b} /\ t = Append(s, b)
  OBVIOUS
<1> HIDE DEF s, t
<1>2. Product!Fold(1, Append(s, b)) = Times(Product!Fold(1, s), b)
  BY <1>1, Product!FoldAppend
<1> QED
  BY <1>1, <1>2, PowerIsFold DEF Times, s, t

(* A power of a positive number is one.                                    *)
LEMMA PowerType ==
  ASSUME NEW b \in Nat \ {0}, NEW k \in Nat
  PROVE  Power(b, k) \in Nat \ {0}
<1> DEFINE S == {n \in Nat : Power(b, n) \in Nat \ {0}}
<1>1. 0 \in S
  BY PowerZero
<1>2. ASSUME NEW n \in Nat, n \in S PROVE n + 1 \in S
  <2>1. Power(b, n) * b \in Nat \ {0}
    <3>1. \A x, y \in Nat \ {0} : x * y \in Nat \ {0}
      OBVIOUS
    <3> QED
      BY <1>2, <3>1
  <2> QED
    BY <2>1, PowerNext
<1> HIDE DEF S
<1>3. k \in S
  BY <1>1, <1>2, Product!NatSetInduction
<1> QED
  BY <1>3 DEF S

(* A power of ten grows with its exponent.                                 *)
LEMMA PowerGrows ==
  ASSUME NEW j \in Nat, NEW k \in Nat, j <= k
  PROVE  Power(10, j) <= Power(10, k)
<1> DEFINE S == {n \in Nat : Power(10, j) <= Power(10, j + n)}
<1>1. 0 \in S
  <2>1. j + 0 = j /\ Power(10, j) \in Nat
    BY PowerType
  <2> QED
    BY <2>1
<1>2. ASSUME NEW n \in Nat, n \in S PROVE n + 1 \in S
  <2>1. Power(10, (j + n) + 1) = Power(10, j + n) * 10
    BY PowerNext
  <2>2. Power(10, j + n) \in Nat /\ Power(10, j) \in Nat
    BY PowerType
  <2>3. j + (n + 1) = (j + n) + 1
    OBVIOUS
  <2> QED
    BY <1>2, <2>1, <2>2, <2>3
<1> HIDE DEF S
<1>3. k - j \in Nat /\ j + (k - j) = k
  OBVIOUS
<1>4. k - j \in S
  BY <1>1, <1>2, <1>3, Product!NatSetInduction
<1> QED
  BY <1>3, <1>4 DEF S

(* Span is what it is called: the longest beginning of a sequence in a     *)
(* set.                                                                    *)
LEMMA SpanType ==
  ASSUME NEW S, NEW s \in Seq(S), NEW B
  PROVE  /\ Span(s, B) \in 0 .. Len(s)
         /\ \A n \in 1 .. Span(s, B) : s[n] \in B
         /\ Span(s, B) < Len(s) => s[Span(s, B) + 1] \notin B
<1> DEFINE T == {n \in 0 .. Len(s) : n < Len(s) => s[n + 1] \notin B}
<1>1. T \in SUBSET Nat /\ Len(s) \in T /\ Len(s) \in Nat
  OBVIOUS
<1>2. PICK n \in T : \A m \in T : n <= m
  <2> HIDE DEF T
  <2>1. T # {}
    BY <1>1
  <2> QED
    BY <1>1, <2>1, Product!LeastNat
<1>3. \A m \in 1 .. n : s[m] \in B
  <2> SUFFICES ASSUME NEW m \in 1 .. n, s[m] \notin B PROVE FALSE
    OBVIOUS
  <2>1. m - 1 \in 0 .. Len(s) /\ (m - 1) + 1 = m /\ m - 1 < n
    BY <1>1, <1>2
  <2>2. m - 1 \in T
    BY <2>1
  <2> QED
    BY <1>2, <2>1, <2>2
<1> QED
  BY <1>2, <1>3 DEF Span

(* The number that n digits stand for has at most n digits.                *)
LEMMA DigitsBelow ==
  ASSUME NEW d \in Seq(Digits)
  PROVE  Number(d) \in 0 .. Power(10, Len(d)) - 1
<1> DEFINE After(j) == Numeral!Fold(0, SubSeq(d, 1, j))
           S == {j \in Nat : j <= Len(d) => After(j) \in 0 .. Power(10, j) - 1}
<1>1. Len(d) \in Nat
  OBVIOUS
<1>2. 0 \in S
  <2>1. SubSeq(d, 1, 0) = <<>>
    OBVIOUS
  <2>2. After(0) = 0
    BY <2>1, Numeral!FoldEmpty
  <2> QED
    BY <2>2, PowerZero
<1>3. ASSUME NEW j \in Nat, j \in S PROVE j + 1 \in S
  <2> SUFFICES ASSUME j + 1 <= Len(d) PROVE After(j + 1) \in 0 .. Power(10, j + 1) - 1
    OBVIOUS
  <2>1. j + 1 \in 1 .. Len(d) /\ (j + 1) - 1 = j
    BY <1>1
  <2>2. After(j + 1) = 10 * After(j) + (d[j + 1] - 48)
    BY <2>1, Numeral!FoldPrefix DEF NextDigit
  <2>3. d[j + 1] - 48 \in 0 .. 9
    <3>1. d[j + 1] \in 48 .. 57
      BY <2>1 DEF Digits
    <3> QED
      BY <3>1
  <2>4. After(j) \in 0 .. Power(10, j) - 1
    BY <1>1, <1>3
  <2>5. Power(10, j + 1) = Power(10, j) * 10 /\ Power(10, j) \in Nat
    <3>1. 10 \in Nat \ {0}
      OBVIOUS
    <3> QED
      BY <3>1, PowerNext, PowerType
  <2> DEFINE x == Power(10, j)
             y == d[j + 1] - 48
  <2>6. 10 * After(j) + y \in 0 .. x * 10 - 1
    <3>1. After(j) \in 0 .. x - 1 /\ x \in Nat /\ y \in 0 .. 9
      BY <2>3, <2>4, <2>5
    <3> HIDE DEF After, x, y
    <3> QED
      BY <3>1
  <2> HIDE DEF After
  <2> QED
    BY <2>2, <2>5, <2>6
<1> HIDE DEF S
<1>4. Len(d) \in S
  BY <1>1, <1>2, <1>3, Product!NatSetInduction
<1>5. SubSeq(d, 1, Len(d)) = d
  OBVIOUS
<1>6. After(Len(d)) \in 0 .. Power(10, Len(d)) - 1
  <2> HIDE DEF After
  <2> QED
    BY <1>1, <1>4 DEF S
<1> QED
  BY <1>5, <1>6, NumberIsFold

(* What sscanf reads from a text of n bytes has at most n digits.          *)
LEMMA ScanIntBound ==
  ASSUME NEW s \in Seq(Bytes)
  PROVE  /\ ScanInt(s).value \in Int
         /\ -Power(10, Len(s)) < ScanInt(s).value
         /\ ScanInt(s).value < Power(10, Len(s))
         /\ ScanInt(s).matched \in BOOLEAN
<1> DEFINE w == Span(s, Whitespace)
           t == Drop(s, w)
           u == Unsigned(t)
           n == Span(u, Digits)
           d == SubSeq(u, 1, n)
           v == Number(d)
<1>1. w \in 0 .. Len(s)
  BY SpanType
<1>2. t \in Seq(Bytes) /\ Len(t) <= Len(s) /\ Len(t) \in Nat
  <2> HIDE DEF w
  <2> QED
    BY <1>1 DEF Drop
<1>3. u \in Seq(Bytes) /\ Len(u) <= Len(t) /\ Len(u) \in Nat
  <2> HIDE DEF t
  <2>1. CASE t = <<>>
    BY <1>2, <2>1 DEF Unsigned
  <2>2. CASE t # <<>>
    <3>1. Tail(t) \in Seq(Bytes) /\ Len(Tail(t)) = Len(t) - 1
      BY <1>2, <2>2
    <3> QED
      BY <1>2, <3>1 DEF Unsigned
  <2> QED
    BY <2>1, <2>2
<1> HIDE DEF u
<1>4. n \in 0 .. Len(u) /\ \A k \in 1 .. n : u[k] \in Digits
  BY <1>3, SpanType
<1> HIDE DEF n
<1>5. d \in Seq(Digits) /\ Len(d) = n
  BY <1>3, <1>4
<1> HIDE DEF d
<1>6. v \in 0 .. Power(10, n) - 1
  BY <1>5, DigitsBelow
<1>7. n \in Nat /\ Len(s) \in Nat /\ n <= Len(s)
  BY <1>2, <1>3, <1>4
<1>8. Power(10, n) <= Power(10, Len(s)) /\ Power(10, n) \in Nat /\ Power(10, Len(s)) \in Nat
  BY <1>7, PowerGrows, PowerType
<1> HIDE DEF v, t, w
<1>9. /\ ScanInt(s).value = IF t # u /\ t[1] = Minus THEN -v ELSE v
      /\ ScanInt(s).matched = (n > 0)
  BY DEF ScanInt, v, t, w, u, n, d
<1> QED
  BY <1>6, <1>8, <1>9

(* A number whose digits fit is not changed by the width of an int.        *)
LEMMA TruncatedFits ==
  ASSUME NEW v \in Int, -Power(10, MAX_INT_LEN) < v, v < Power(10, MAX_INT_LEN)
  PROVE  Truncated(v) = v
<1> DEFINE h == Power(2, INT_BITS - 1)
<1>1. h \in Nat \ {0} /\ Power(10, MAX_INT_LEN) \in Nat /\ Power(10, MAX_INT_LEN) <= h
  <2>1. INT_BITS - 1 \in Nat /\ MAX_INT_LEN \in Nat /\ Power(10, MAX_INT_LEN) <= h
    BY IntAssumption
  <2>2. 2 \in Nat \ {0} /\ 10 \in Nat \ {0}
    OBVIOUS
  <2> QED
    BY <2>1, <2>2, PowerType
<1>2. Truncated(v) = ((v + h) % (2 * h)) - h
  BY DEF Truncated
<1> HIDE DEF h
<1>3. v + h \in Nat /\ v + h < 2 * h
  BY <1>1
<1>4. \A x, m \in Nat : x < m => x % m = x
  OBVIOUS
<1>5. (v + h) % (2 * h) = v + h
  BY <1>1, <1>3, <1>4
<1> QED
  BY <1>1, <1>2, <1>5

(* A parameter that is short enough is never cut to the width of an int.   *)
LEMMA ParseIntReads ==
  ASSUME NEW s \in Seq(Bytes)
  PROVE  ParseInt(s) = IF Len(s) > MAX_INT_LEN \/ ~ScanInt(s).matched THEN 0
                       ELSE ScanInt(s).value
<1>1. Len(s) \in Nat /\ MAX_INT_LEN \in Nat
  BY IntAssumption
<1>2. CASE Len(s) <= MAX_INT_LEN /\ ScanInt(s).matched
  <2>1. Power(10, Len(s)) <= Power(10, MAX_INT_LEN) /\ Power(10, Len(s)) \in Nat
        /\ Power(10, MAX_INT_LEN) \in Nat
    <3>1. 10 \in Nat \ {0}
      OBVIOUS
    <3> QED
      BY <1>1, <1>2, <3>1, PowerGrows, PowerType
  <2>2. ScanInt(s).value \in Int /\ -Power(10, MAX_INT_LEN) < ScanInt(s).value
        /\ ScanInt(s).value < Power(10, MAX_INT_LEN)
    BY <2>1, ScanIntBound
  <2> QED
    BY <1>1, <1>2, <2>2, TruncatedFits DEF ParseInt
<1>3. CASE ~(Len(s) <= MAX_INT_LEN /\ ScanInt(s).matched)
  BY <1>1, <1>3 DEF ParseInt
<1> QED
  BY <1>2, <1>3

--------------------------------------------------------------------------------
(* The parameter.                                                          *)

\* A piece is looked at from its start, and no piece before it is the one.
Looking ==
  /\ i \in Nat
  /\ i <= Len(query) => i = 0 \/ query[i] = Ampersand
  /\ \A a \in 0 .. Len(query) : \A b \in 0 .. Len(query) : a < i => ~Piece(a, b)

Parameter ==
  /\ Inside
  /\ pc = "param" => Looking
  /\ PageIsTheParameter

(* A search for a byte ends in one place only.                             *)
LEMMA OneStop ==
  ASSUME NEW s \in Text, NEW b, NEW a \in Nat, NEW j, NEW k,
         StopsAt(s, b, a, j), StopsAt(s, b, a, k)
  PROVE  j = k
<1>1. j \in a .. Len(s) /\ k \in a .. Len(s) /\ Len(s) \in Nat
  BY DEF StopsAt, Text
<1>2. CASE j < k
  <2>1. j \in a .. k - 1 /\ j < Len(s)
    BY <1>1, <1>2
  <2> QED
    BY <2>1 DEF StopsAt
<1>3. CASE k < j
  <2>1. k \in a .. j - 1 /\ k < Len(s)
    BY <1>1, <1>3
  <2> QED
    BY <2>1 DEF StopsAt
<1> QED
  BY <1>1, <1>2, <1>3

(* KeyMatches is the test for the name with an equals sign after it.       *)
LEMMA KeyIsPrefix ==
  ASSUME query \in Text, NEW a \in 0 .. Len(query), NEW b \in a .. Len(query)
  PROVE  IsPrefix(PAGE \o <<Equals>>, SubSeq(query, a + 1, b)) <=>
           /\ b - a > Len(PAGE)
           /\ SubSeq(query, a + 1, a + Len(PAGE)) = PAGE
           /\ query[a + Len(PAGE) + 1] = Equals
<1> DEFINE p == PAGE \o <<Equals>>
           n == Len(PAGE)
           s == SubSeq(query, a + 1, b)
<1>1. PAGE \in Seq(Bytes) /\ n \in Nat /\ query \in Seq(Bytes) /\ Len(query) \in Nat
  BY HandlerAssumption DEF Text
<1>2. /\ p \in Seq(Bytes) /\ Len(p) = n + 1 /\ p[n + 1] = Equals
      /\ \A k \in 1 .. n : p[k] = PAGE[k]
  BY <1>1 DEF Equals, Bytes
<1>3. s \in Seq(Bytes) /\ Len(s) = b - a /\ \A k \in 1 .. b - a : s[k] = query[a + k]
  BY <1>1
<1> HIDE DEF p, s
<1>4. CASE b - a > n
  <2>1. IsPrefix(p, s) <=> \A k \in 1 .. n + 1 : p[k] = s[k]
    <3>1. SubSeq(p, 1, Len(p)) = [k \in 1 .. n + 1 |-> p[k]]
          /\ SubSeq(s, 1, Len(p)) = [k \in 1 .. n + 1 |-> s[k]]
      BY <1>1, <1>2, <1>3, <1>4
    <3> QED
      BY <1>1, <1>2, <1>3, <1>4, <3>1 DEF IsPrefix
  <2>2. SubSeq(query, a + 1, a + n) = PAGE <=> \A k \in 1 .. n : query[a + k] = PAGE[k]
    <3> DEFINE q == SubSeq(query, a + 1, a + n)
    <3>1. q \in Seq(Bytes) /\ Len(q) = n /\ \A k \in 1 .. n : q[k] = query[a + k]
      <4>1. a + 1 \in Nat \ {0} /\ a + n \in Nat /\ a + n <= Len(query)
            /\ \A k \in a + 1 .. a + n : query[k] \in Bytes
        BY <1>1, <1>4
      <4>2. q = [k \in 1 .. n |-> query[a + k]]
        BY <1>1, <4>1
      <4>3. \A k \in 1 .. n : query[a + k] \in Bytes
        BY <1>1, <4>1
      <4> HIDE DEF q
      <4> QED
        BY <1>1, <4>2, <4>3
    <3> HIDE DEF q
    <3>2. q = PAGE <=> \A k \in 1 .. n : q[k] = PAGE[k]
      <4>1. PAGE = [k \in 1 .. n |-> PAGE[k]] /\ q = [k \in 1 .. n |-> q[k]]
        BY <1>1, <3>1
      <4> QED
        BY <4>1
    <3> QED
      BY <3>1, <3>2 DEF q
  <2>3. /\ s[n + 1] = query[a + n + 1]
        /\ \A k \in 1 .. n : s[k] = query[a + k]
    <3>1. n + 1 \in 1 .. b - a /\ a + (n + 1) = a + n + 1 /\ \A k \in 1 .. n : k \in 1 .. b - a
      BY <1>1, <1>4
    <3> QED
      BY <1>3, <3>1
  <2>4. \A k \in 1 .. n + 1 : k \in 1 .. n \/ k = n + 1
    BY <1>1
  <2>5. n + 1 \in 1 .. n + 1 /\ \A k \in 1 .. n : k \in 1 .. n + 1
    BY <1>1
  <2> HIDE DEF n
  <2> QED
    BY <1>2, <1>4, <2>1, <2>2, <2>3, <2>4, <2>5 DEF p, s, n
<1>5. CASE ~(b - a > n)
  BY <1>1, <1>2, <1>3, <1>5 DEF IsPrefix, p, s
<1> QED
  BY <1>4, <1>5

(* What a piece is, in the terms of the parameter loop.                    *)
LEMMA PieceLooksLike ==
  ASSUME query \in Text, NEW a \in 0 .. Len(query), NEW b \in 0 .. Len(query), Piece(a, b)
  PROVE  /\ a < b /\ StopsAt(query, Ampersand, a, b)
         /\ a = 0 \/ query[a] = Ampersand
         /\ b - a > Len(PAGE)
         /\ SubSeq(query, a + 1, a + Len(PAGE)) = PAGE
         /\ query[a + Len(PAGE) + 1] = Equals
<1>1. b \in a .. Len(query) /\ Len(PAGE) \in Nat
  BY HandlerAssumption DEF Piece, StopsAt
<1> QED
  BY <1>1, KeyIsPrefix DEF Piece

(* A turn of the loop passes over a piece that is not the one.             *)
LEMMA NextPieceLooks ==
  ASSUME Parameter, NEW j \in i .. Len(query), NextPiece(j) PROVE Parameter'
<1>1. Inside'
  BY ParamInside DEF Parameter, NextPiece
<1>2. /\ query \in Text /\ Looking /\ i < Len(query) /\ StopsAt(query, Ampersand, i, j)
      /\ ~KeyMatches(j) /\ i' = j + 1 /\ query' = query /\ pc' = "param"
  BY DEF NextPiece, Parameter, Inside, TypeOK, Text, input_vars
<1>3. Len(query) \in Nat /\ i \in Nat /\ j \in i .. Len(query)
  BY <1>2 DEF Looking, Text
<1>4. i' \in Nat /\ (i' <= Len(query) => query[i'] = Ampersand)
  BY <1>2, <1>3 DEF StopsAt
<1>5. ASSUME NEW a \in 0 .. Len(query), NEW b \in 0 .. Len(query), a < j + 1, Piece(a, b)
      PROVE  FALSE
  <2>1. CASE a < i
    BY <1>2, <1>5, <2>1 DEF Looking
  <2>2. CASE a = i
    <3>1. b = j
      BY <1>2, <1>3, <1>5, <2>2, PieceLooksLike, OneStop
    <3> QED
      BY <1>2, <1>5, <2>2, <3>1, PieceLooksLike DEF KeyMatches
  <2>3. CASE a > i
    <3>1. a - 1 \in i .. j - 1 /\ (a - 1) + 1 = a /\ a # 0
      BY <1>3, <1>5, <2>3
    <3>2. query[a] # Ampersand
      BY <1>2, <3>1 DEF StopsAt
    <3> QED
      BY <1>2, <1>5, <3>1, <3>2, PieceLooksLike
  <2> QED
    BY <1>3, <2>1, <2>2, <2>3
<1>6. Looking'
  BY <1>2, <1>4, <1>5 DEF Looking, Piece
<1> QED
  BY <1>1, <1>2, <1>6 DEF Parameter, PageIsTheParameter, Answered

Value(v) ==
  IF Len(v) > MAX_INT_LEN \/ ~ScanInt(v).matched THEN 0 ELSE ScanInt(v).value

(* The piece the loop takes is the first one, and its value is read whole. *)
LEMMA FoundIsParameter ==
  ASSUME Parameter, NEW j \in i .. Len(query), ParamFound(j) PROVE Parameter'
<1>1. Inside'
  BY ParamInside DEF Parameter, ParamFound
<1>2. /\ query \in Text /\ Looking /\ i < Len(query) /\ StopsAt(query, Ampersand, i, j)
      /\ KeyMatches(j) /\ query' = query /\ pc' = "answered"
      /\ answer'.arg = ParseInt(SubSeq(query, i + Len(PAGE) + 2, j))
  BY DEF ParamFound, Parameter, Inside, TypeOK, Text, Answer
<1>3. /\ Len(query) \in Nat /\ i \in 0 .. Len(query) /\ j \in 0 .. Len(query)
      /\ j \in i .. Len(query) /\ Len(PAGE) \in Nat
  BY <1>2, HandlerAssumption DEF Looking, Text
<1>4. Piece(i, j)
  BY <1>2, <1>3, KeyIsPrefix DEF Looking, Piece, KeyMatches
<1> DEFINE v == SubSeq(query, i + Len(PAGE) + 2, j)
<1>5. v \in Seq(Bytes)
  <2>1. \A k \in i + Len(PAGE) + 2 .. j : query[k] \in Bytes
    BY <1>2, <1>3 DEF Text
  <2> QED
    BY <1>2, <1>3, <2>1 DEF Text
<1> HIDE DEF v
<1>6. answer'.arg = Value(v)
  BY <1>2, <1>5, ParseIntReads DEF Value, v
<1> DEFINE pieces == {p \in (0 .. Len(query)) \X (0 .. Len(query)) : Piece(p[1], p[2])}
<1>7. <<i, j>> \in pieces
  BY <1>3, <1>4
<1>8. \A o \in pieces : i <= o[1]
  <2> TAKE o \in pieces
  <2>1. o[1] \in 0 .. Len(query) /\ o[2] \in 0 .. Len(query) /\ Piece(o[1], o[2])
    OBVIOUS
  <2> QED
    BY <1>2, <1>3, <2>1 DEF Looking
<1> HIDE DEF pieces
<1>9. \E p \in pieces :
        (\A o \in pieces : p[1] <= o[1])
        /\ answer'.arg = Value(SubSeq(query, p[1] + Len(PAGE) + 2, p[2]))
  BY <1>6, <1>7, <1>8 DEF v
<1>10. PageIsTheParameter'
  <2>1. pieces # {}
    BY <1>7
  <2>2. pieces = {p \in (0 .. Len(query')) \X (0 .. Len(query')) : Piece(p[1], p[2])'}
    BY <1>2 DEF pieces, Piece
  <2> QED
    BY <1>2, <1>9, <2>1, <2>2 DEF PageIsTheParameter, Value
<1> QED
  BY <1>1, <1>2, <1>10 DEF Parameter

(* If the loop comes to the end of the query there is no such piece.       *)
LEMMA AbsentIsParameter ==
  ASSUME Parameter, ParamAbsent PROVE Parameter'
<1>1. Inside'
  BY ParamInside DEF Parameter
<1>2. /\ query \in Text /\ Looking /\ i >= Len(query)
      /\ query' = query /\ pc' = "answered" /\ answer'.arg = 0
  BY DEF ParamAbsent, Parameter, Inside, TypeOK, Text, Answer
<1>3. Len(query) \in Nat /\ i \in Nat
  BY <1>2 DEF Looking, Text
<1>4. ASSUME NEW a \in 0 .. Len(query), NEW b \in 0 .. Len(query), Piece(a, b) PROVE FALSE
  <2>1. a < b
    BY <1>2, <1>4, PieceLooksLike
  <2>2. a < i
    BY <1>2, <1>3, <2>1
  <2> QED
    BY <1>2, <1>4, <2>2 DEF Looking
<1> DEFINE pieces == {p \in (0 .. Len(query)) \X (0 .. Len(query)) : Piece(p[1], p[2])}
<1>5. pieces = {}
  <2> SUFFICES ASSUME NEW p \in pieces PROVE FALSE
    OBVIOUS
  <2>1. p[1] \in 0 .. Len(query) /\ p[2] \in 0 .. Len(query) /\ Piece(p[1], p[2])
    OBVIOUS
  <2> QED
    BY <1>4, <2>1
<1> HIDE DEF pieces
<1>6. PageIsTheParameter'
  <2>1. pieces = {p \in (0 .. Len(query')) \X (0 .. Len(query')) : Piece(p[1], p[2])'}
    BY <1>2 DEF pieces, Piece
  <2> QED
    BY <1>2, <1>5, <2>1 DEF PageIsTheParameter
<1> QED
  BY <1>1, <1>2, <1>6 DEF Parameter

(* The steps outside GetIntParam answer with no page, or with the first    *)
(* one.                                                                    *)
LEMMA OtherParameter ==
  ASSUME Parameter,
         \/ \E n \in 0 .. Len(target) : SplitFullRequest(n)
         \/ HandleIndex \/ CallGetIntParam \/ HandleImage \/ CallSendStaticFile
         \/ HandleUnknown
         \/ CopyByte \/ DecodeEscape \/ BadEscape \/ \E n \in 0 .. Len(out) : EndOfPath(n)
  PROVE  Parameter'
<1>1. Inside'
  BY SplitInside, RouteInside, DecodeInside DEF Parameter
<1>2. CASE CallGetIntParam
  <2>1. i' = 0 /\ pc' = "param" /\ query' = query /\ query \in Text
    BY <1>2 DEF CallGetIntParam, Parameter, Inside, Behind, TypeOK, Text
  <2>2. \A a \in 0 .. Len(query) : ~(a < 0)
    OBVIOUS
  <2>3. Looking'
    BY <2>1, <2>2 DEF Looking
  <2> QED
    BY <1>1, <2>1, <2>3 DEF Parameter, PageIsTheParameter, Answered
<1>3. CASE HandleIndex
  <2>1. query' = NULL /\ pc' = "answered"
    BY <1>3 DEF HandleIndex, Answer
  <2> QED
    BY <1>1, <2>1 DEF Parameter, PageIsTheParameter
<1>4. CASE ~CallGetIntParam /\ ~HandleIndex
  <2>1. pc' # "param" /\ (pc' = "answered" => answer'.route # "index")
    BY <1>4 DEF SplitFullRequest, HandleImage, SendCifarBitmap, CallSendStaticFile,
           HandleUnknown, CopyByte, DecodeEscape, BadEscape, EndOfPath, Answer
  <2> QED
    BY <1>1, <2>1 DEF Parameter, PageIsTheParameter, Answered
<1> QED
  BY <1>2, <1>3, <1>4

(* Every step keeps the place of the search.                               *)
LEMMA NextParameter == Parameter /\ [Next]_vars => Parameter'
<1>1. Parameter /\ Next => Parameter'
  BY NextPieceLooks, FoundIsParameter, AbsentIsParameter, OtherParameter DEF Next
<1>2. ASSUME Parameter, UNCHANGED vars PROVE Parameter'
  <2>1. Inside'
    BY <1>2, NextInside DEF Parameter
  <2>2. pc' = pc /\ i' = i /\ query' = query /\ answer' = answer
    BY <1>2 DEF vars
  <2> QED
    BY <1>2, <2>1, <2>2 DEF Parameter, Looking, PageIsTheParameter, Answered, Piece
<1> QED
  BY <1>1, <1>2

(* The page of an index is the number in the first piece of the query that *)
(* is the parameter, and 0 without one (GetIntParam, ParseInt).            *)
THEOREM PagesAreTheParameters == Spec => []PageIsTheParameter
<1>1. Init => Parameter
  BY InitInside DEF Init, Parameter, PageIsTheParameter, Answered
<1>2. Parameter => PageIsTheParameter
  BY DEF Parameter
<1> QED
  BY <1>1, NextParameter, <1>2, PTL DEF Spec


--------------------------------------------------------------------------------
(* The links.                                                              *)

IsDecimals(d, n) ==
  d = [k \in 0 .. n |-> IF k < 10 THEN <<48 + k>> ELSE Append(d[k \div 10], 48 + (k % 10))]

(* The last digit of a number and the others.                              *)
LEMMA TenDivides ==
  ASSUME NEW k \in Nat
  PROVE  /\ k \div 10 \in Nat /\ k % 10 \in 0 .. 9 /\ k = 10 * (k \div 10) + (k % 10)
         /\ k >= 10 => k \div 10 < k
  OBVIOUS

(* The function that Decimal chooses exists, for every number.             *)
LEMMA DecimalsExist == \A n \in Nat : \E d : IsDecimals(d, n)
<1> DEFINE S == {n \in Nat : \E d : IsDecimals(d, n)}
<1>1. 0 \in S
  <2> DEFINE d == [k \in 0 .. 0 |-> <<48 + k>>]
  <2>1. \A k \in 0 .. 0 : k < 10
    OBVIOUS
  <2>2. d = [k \in 0 .. 0 |-> IF k < 10 THEN <<48 + k>> ELSE Append(d[k \div 10], 48 + (k % 10))]
    BY <2>1
  <2> HIDE DEF d
  <2>3. IsDecimals(d, 0)
    BY <2>2 DEF IsDecimals
  <2> QED
    BY <2>3
<1>2. ASSUME NEW n \in Nat, n \in S PROVE n + 1 \in S
  <2>1. PICK d : IsDecimals(d, n)
    BY <1>2
  <2> DEFINE e == [k \in 0 .. n + 1 |->
                     IF k < 10 THEN <<48 + k>> ELSE Append(d[k \div 10], 48 + (k % 10))]
  <2>2. \A k \in 0 .. n : e[k] = d[k]
    <3>1. \A k \in 0 .. n : d[k] = IF k < 10 THEN <<48 + k>>
                                   ELSE Append(d[k \div 10], 48 + (k % 10))
      <4> DEFINE f == [k \in 0 .. n |->
                         IF k < 10 THEN <<48 + k>> ELSE Append(d[k \div 10], 48 + (k % 10))]
      <4>1. d = f
        BY <2>1 DEF IsDecimals
      <4>2. \A k \in 0 .. n : f[k] = IF k < 10 THEN <<48 + k>>
                                     ELSE Append(d[k \div 10], 48 + (k % 10))
        OBVIOUS
      <4> HIDE DEF f
      <4> QED
        BY <4>1, <4>2
    <3>2. \A k \in 0 .. n : k \in 0 .. n + 1
      OBVIOUS
    <3> QED
      BY <3>1, <3>2
  <2>3. \A k \in 0 .. n + 1 : k >= 10 => k \div 10 \in 0 .. n
    BY TenDivides
  <2>4. e = [k \in 0 .. n + 1 |->
               IF k < 10 THEN <<48 + k>> ELSE Append(e[k \div 10], 48 + (k % 10))]
    <3>1. \A k \in 0 .. n + 1 : ~(k < 10) => e[k \div 10] = d[k \div 10]
      <4> HIDE DEF e
      <4> QED
        BY <2>2, <2>3
    <3> QED
      BY <3>1
  <2> HIDE DEF e
  <2>5. IsDecimals(e, n + 1)
    BY <2>4 DEF IsDecimals
  <2> QED
    BY <2>5
<1> HIDE DEF S
<1>3. Nat \subseteq S
  BY <1>1, <1>2, Product!NatSetInduction
<1> QED
  BY <1>3 DEF S

(* The recursion of the number that digits stand for, its beginning,       *)
LEMMA NumberOfEmpty == Number(<<>>) = 0
  BY NumberIsFold, Numeral!FoldEmpty

(* and its step.                                                           *)
LEMMA NumberAppend ==
  ASSUME NEW s \in Seq(Digits), NEW c \in Digits
  PROVE  Number(Append(s, c)) = 10 * Number(s) + (c - 48)
  BY NumberIsFold, Numeral!FoldAppend DEF NextDigit

(* What printf("%d") writes is digits, reads as the number, and has no more *)
(* of them than the number needs.                                          *)
LEMMA DecimalReads ==
  ASSUME NEW n \in Nat
  PROVE  /\ Decimal(n) \in Seq(Digits) /\ Len(Decimal(n)) >= 1
         /\ Number(Decimal(n)) = n
         /\ \A l \in Nat \ {0} : n < Power(10, l) => Len(Decimal(n)) <= l
<1> DEFINE d == CHOOSE d : IsDecimals(d, n)
<1>1. IsDecimals(d, n)
  BY DecimalsExist
<1>2. Decimal(n) = d[n]
  BY DEF Decimal, IsDecimals
<1> HIDE DEF d
<1>3. \A k \in 0 .. n : d[k] = IF k < 10 THEN <<48 + k>>
                               ELSE Append(d[k \div 10], 48 + (k % 10))
  <2> DEFINE f == [k \in 0 .. n |->
                     IF k < 10 THEN <<48 + k>> ELSE Append(d[k \div 10], 48 + (k % 10))]
  <2>1. d = f
    BY <1>1 DEF IsDecimals
  <2>2. \A k \in 0 .. n : f[k] = IF k < 10 THEN <<48 + k>>
                                 ELSE Append(d[k \div 10], 48 + (k % 10))
    OBVIOUS
  <2> HIDE DEF f
  <2> QED
    BY <2>1, <2>2
<1>10. ASSUME NEW k \in 0 .. n, k < 10 PROVE d[k] = <<48 + k>>
  BY <1>3, <1>10, Zenon
<1>11. ASSUME NEW k \in 0 .. n, k >= 10 PROVE d[k] = Append(d[k \div 10], 48 + (k % 10))
  <2>1. ~(k < 10)
    BY <1>11
  <2> QED
    BY <1>3, <2>1, Zenon
<1> DEFINE Reads(k) == /\ d[k] \in Seq(Digits) /\ Len(d[k]) >= 1
                       /\ Number(d[k]) = k
                       /\ \A l \in Nat \ {0} : k < Power(10, l) => Len(d[k]) <= l
           S == {m \in Nat : \A k \in 0 .. m : k <= n => Reads(k)}
<1>4. ASSUME NEW k \in 0 .. n, k < 10 PROVE Reads(k)
  <2>1. d[k] = <<48 + k>> /\ 48 + k \in Digits
    <3>1. d[k] = <<48 + k>>
      BY <1>4, <1>10
    <3> QED
      BY <1>4, <3>1 DEF Digits
  <2>2. Number(Append(<<>>, 48 + k)) = 10 * 0 + (48 + k - 48)
    <3>1. <<>> \in Seq(Digits)
      OBVIOUS
    <3> DEFINE c == 48 + k
    <3>2. c \in Digits
      BY <2>1
    <3>3. c - 48 = 48 + k - 48
      OBVIOUS
    <3> HIDE DEF c
    <3>4. Number(Append(<<>>, c)) = 10 * Number(<<>>) + (c - 48)
      BY <3>1, <3>2, NumberAppend
    <3> QED
      BY <3>3, <3>4, NumberOfEmpty DEF c
  <2>3. Append(<<>>, 48 + k) = <<48 + k>>
    OBVIOUS
  <2>4. Number(d[k]) = k
    BY <2>1, <2>2, <2>3
  <2>5. d[k] \in Seq(Digits) /\ Len(d[k]) = 1
    BY <2>1
  <2> QED
    BY <2>4, <2>5
<1>5. ASSUME NEW k \in 0 .. n, k >= 10, Reads(k \div 10) PROVE Reads(k)
  <2> DEFINE q == k \div 10
             r == k % 10
  <2>1. q \in Nat /\ r \in 0 .. 9 /\ k = 10 * q + r
    BY TenDivides
  <2>2. d[k] = Append(d[q], 48 + r)
    BY <1>5, <1>11
  <2>3. d[q] \in Seq(Digits) /\ Len(d[q]) >= 1 /\ Number(d[q]) = q
        /\ \A l \in Nat \ {0} : q < Power(10, l) => Len(d[q]) <= l
    BY <1>5
  <2> HIDE DEF q, r
  <2>4. 48 + r \in Digits
    BY <2>1 DEF Digits
  <2>5. Number(d[k]) = k
    <3>1. Number(d[k]) = 10 * q + (48 + r - 48)
      <4> DEFINE c == 48 + r
      <4>1. c - 48 = 48 + r - 48
        BY <2>1
      <4> HIDE DEF c
      <4>2. Number(Append(d[q], c)) = 10 * Number(d[q]) + (c - 48)
        BY <2>3, <2>4, NumberAppend DEF c
      <4> QED
        BY <2>2, <2>3, <4>1, <4>2 DEF c
    <3> QED
      BY <2>1, <3>1
  <2>6. d[k] \in Seq(Digits) /\ Len(d[k]) = Len(d[q]) + 1
    BY <2>2, <2>3, <2>4
  <2>7. ASSUME NEW l \in Nat \ {0}, k < Power(10, l) PROVE Len(d[k]) <= l
    <3>1. Power(10, (l - 1) + 1) = Power(10, l - 1) * 10 /\ (l - 1) + 1 = l
          /\ Power(10, l - 1) \in Nat
      <4>1. 10 \in Nat \ {0} /\ l - 1 \in Nat
        OBVIOUS
      <4> QED
        BY <4>1, PowerNext, PowerType
    <3>2. q < Power(10, l - 1)
      <4> DEFINE p == Power(10, l - 1)
      <4>1. 10 * q + r < p * 10 /\ p \in Nat
        BY <2>1, <2>7, <3>1
      <4> HIDE DEF p
      <4>2. q < p
        BY <2>1, <4>1
      <4> QED
        BY <4>2 DEF p
    <3>3. l - 1 # 0
      <4>1. CASE l - 1 = 0
        <5>1. Power(10, l) = 10
          BY <3>1, <4>1, PowerZero
        <5> QED
          BY <1>5, <2>7, <5>1
      <4> QED
        BY <4>1
    <3>4. Len(d[q]) <= l - 1
      BY <2>3, <3>2, <3>3
    <3> QED
      BY <2>3, <2>6, <3>4
  <2> QED
    BY <2>3, <2>5, <2>6, <2>7
<1> HIDE DEF Reads
<1>6. 0 \in S
  <2>1. \A k \in 0 .. 0 : k \in 0 .. n /\ k < 10
    OBVIOUS
  <2> QED
    BY <1>4, <2>1
<1>7. ASSUME NEW m \in Nat, m \in S PROVE m + 1 \in S
  <2> SUFFICES ASSUME NEW k \in 0 .. m + 1, k <= n PROVE Reads(k)
    OBVIOUS
  <2>1. CASE k < 10
    BY <1>4, <2>1
  <2>2. CASE k >= 10
    <3>1. k \div 10 \in 0 .. m /\ k \div 10 <= n
      BY <2>2, TenDivides
    <3>2. Reads(k \div 10)
      BY <1>7, <3>1
    <3> QED
      BY <1>5, <2>2, <3>2
  <2> QED
    BY <2>1, <2>2
<1> HIDE DEF S
<1>8. n \in S
  BY <1>6, <1>7, Product!NatSetInduction
<1>9. Reads(n)
  BY <1>8 DEF S
<1> QED
  BY <1>2, <1>9 DEF Reads

(* What a concatenation has in each place.                                 *)
LEMMA Concatenated ==
  ASSUME NEW S, NEW s \in Seq(S), NEW t \in Seq(S)
  PROVE  /\ s \o t \in Seq(S) /\ Len(s \o t) = Len(s) + Len(t)
         /\ Len(s) \in Nat /\ Len(t) \in Nat
         /\ \A n \in 1 .. Len(s) : (s \o t)[n] = s[n]
         /\ \A n \in 1 .. Len(t) : (s \o t)[Len(s) + n] = t[n]
  OBVIOUS

(* Sequences with the same elements are the same.                          *)
LEMMA SameElements ==
  ASSUME NEW S, NEW s \in Seq(S), NEW t \in Seq(S), Len(s) = Len(t),
         \A n \in 1 .. Len(s) : s[n] = t[n]
  PROVE  s = t
  OBVIOUS

(* The two parts of a concatenation.                                       *)
LEMMA DropFirst ==
  ASSUME NEW S, NEW s \in Seq(S), NEW t \in Seq(S)
  PROVE  /\ SubSeq(s \o t, Len(s) + 1, Len(s \o t)) = t
         /\ SubSeq(s \o t, 1, Len(s)) = s
<1> DEFINE w == s \o t
           a == SubSeq(w, Len(s) + 1, Len(w))
           b == SubSeq(w, 1, Len(s))
<1>1. /\ w \in Seq(S) /\ Len(w) = Len(s) + Len(t) /\ Len(s) \in Nat /\ Len(t) \in Nat
      /\ \A n \in 1 .. Len(s) : w[n] = s[n]
      /\ \A n \in 1 .. Len(t) : w[Len(s) + n] = t[n]
  BY Concatenated
<1> HIDE DEF w
<1>2. a \in Seq(S) /\ Len(a) = Len(t) /\ \A n \in 1 .. Len(t) : a[n] = t[n]
  BY <1>1
<1>3. b \in Seq(S) /\ Len(b) = Len(s) /\ \A n \in 1 .. Len(s) : b[n] = s[n]
  BY <1>1
<1> HIDE DEF a, b
<1>4. a = t /\ b = s
  BY <1>2, <1>3, SameElements
<1> QED
  BY <1>4 DEF a, b, w

(* sscanf takes the digits a number was printed with, and stops there.     *)
LEMMA ScanIntReads ==
  ASSUME NEW n \in Nat, NEW rest \in Seq(Bytes), rest # <<>> => rest[1] \notin Digits
  PROVE  ScanInt(Decimal(n) \o rest) = [matched |-> TRUE, value |-> n]
<1> DEFINE t == Decimal(n)
           s == t \o rest
           w == Span(s, Whitespace)
           sp == Span(s, Digits)
<1>1. t \in Seq(Digits) /\ Len(t) >= 1 /\ Number(t) = n /\ Len(t) \in Nat
  <2>1. t \in Seq(Digits) /\ Len(t) >= 1 /\ Number(t) = n
    BY DecimalReads
  <2> HIDE DEF t
  <2> QED
    BY <2>1
<1>2. t \in Seq(Bytes)
  <2>1. Digits \subseteq Bytes
    BY DEF Digits, Bytes
  <2> QED
    BY <1>1, <2>1
<1> HIDE DEF t
<1>3. /\ s \in Seq(Bytes) /\ Len(s) = Len(t) + Len(rest) /\ Len(rest) \in Nat
      /\ \A k \in 1 .. Len(t) : s[k] = t[k]
      /\ \A k \in 1 .. Len(rest) : s[Len(t) + k] = rest[k]
  BY <1>2, Concatenated
<1>4. SubSeq(s, 1, Len(t)) = t
  BY ONLY <1>2, DropFirst
<1> HIDE DEF s
<1>5. s[1] \in Digits /\ Len(s) >= 1 /\ s # <<>>
  BY <1>1, <1>3
<1>6. w = 0
  <2>1. w \in 0 .. Len(s) /\ \A k \in 1 .. w : s[k] \in Whitespace
    BY <1>3, SpanType
  <2>2. s[1] \notin Whitespace
    BY ONLY <1>5 DEF Digits, Whitespace
  <2> HIDE DEF w
  <2>3. w >= 1 => 1 \in 1 .. w
    BY <1>3, <2>1
  <2> QED
    BY <1>3, <2>1, <2>2, <2>3
<1>7. Drop(s, 0) = s
  BY <1>3 DEF Drop
<1>8. Unsigned(s) = s
  BY <1>5 DEF Unsigned, Digits, Plus, Minus
<1>9. sp = Len(t)
  <2>1. /\ sp \in 0 .. Len(s) /\ \A k \in 1 .. sp : s[k] \in Digits
        /\ sp < Len(s) => s[sp + 1] \notin Digits
    BY <1>3, SpanType
  <2> HIDE DEF sp
  <2>2. CASE sp < Len(t)
    <3>1. sp + 1 \in 1 .. Len(t) /\ sp < Len(s)
      BY <1>1, <1>3, <2>1, <2>2
    <3> QED
      BY <1>1, <1>3, <2>1, <3>1
  <2>3. CASE sp > Len(t)
    <3>1. Len(t) + 1 \in 1 .. sp /\ 1 \in 1 .. Len(rest) /\ rest # <<>>
      BY <1>1, <1>3, <2>1, <2>3
    <3> QED
      BY <1>3, <2>1, <3>1
  <2> QED
    BY <1>1, <2>1, <2>2, <2>3
<1> HIDE DEF w, sp
<1>10. ScanInt(s) = [matched |-> Span(s, Digits) > 0,
                     value |-> Number(SubSeq(s, 1, Span(s, Digits)))]
  BY <1>6, <1>7, <1>8 DEF ScanInt, w
<1>11. Span(s, Digits) > 0 /\ Number(SubSeq(s, 1, Span(s, Digits))) = n
  <2>1. Span(s, Digits) = Len(t)
    BY <1>9 DEF sp
  <2>2. Number(SubSeq(s, 1, Len(t))) = n
    BY <1>1, <1>4
  <2> QED
    BY <1>1, <2>1, <2>2
<1>12. ScanInt(s) = [matched |-> TRUE, value |-> n]
  BY <1>10, <1>11
<1> QED
  BY <1>12 DEF s, t


\* What becomes of a request for a link to page n, and to picture n.
PageLinkFollowed(n) ==
  /\ path = <<Slash>>
  /\ query = PAGE \o <<Equals>> \o Decimal(n)
  /\ pc \in {"route", "param", "answered"}
  /\ pc = "param" => i = 0
  /\ pc = "answered" => answer.route = "index" /\ answer.arg = n

ImageLinkFollowed(n) ==
  /\ path = ImageLinkText(n)
  /\ query = NULL
  /\ pc \in {"route", "answered", "crashed"}
  /\ pc = "answered" => answer.route = "image" /\ answer.arg = n

LinksFollowed ==
  /\ Inside
  /\ pc # "split" => \A n \in 0 .. CIFAR_NUM_IMAGES - 1 :
       /\ target = PageLinkText(n) => PageLinkFollowed(n)
       /\ target = ImageLinkText(n) => ImageLinkFollowed(n)

(* A number that was printed is a text of digits.                          *)
LEMMA DecimalText ==
  ASSUME NEW n \in Nat
  PROVE  /\ Decimal(n) \in Seq(Bytes) /\ Len(Decimal(n)) \in Nat \ {0}
         /\ \A k \in 1 .. Len(Decimal(n)) : Decimal(n)[k] \in Digits
<1> DEFINE t == Decimal(n)
<1>1. t \in Seq(Digits) /\ Len(t) >= 1
  BY DecimalReads
<1> HIDE DEF t
<1>2. Digits \subseteq Bytes
  BY DEF Digits, Bytes
<1>3. t \in Seq(Bytes) /\ Len(t) \in Nat \ {0} /\ \A k \in 1 .. Len(t) : t[k] \in Digits
  BY <1>1, <1>2
<1> QED
  BY <1>3 DEF t

\* What stands behind the question mark in the link to a page.
ParameterText(n) == PAGE \o <<Equals>> \o Decimal(n)

(* Its parts: the name, an equals sign, and the digits; no ampersand.      *)
LEMMA ParameterTextIs ==
  ASSUME NEW n \in Nat
  PROVE  LET q == ParameterText(n) IN
         /\ q \in Seq(Bytes) /\ Len(q) = Len(PAGE) + 1 + Len(Decimal(n))
         /\ Len(PAGE) \in Nat /\ Len(Decimal(n)) \in Nat \ {0}
         /\ SubSeq(q, 1, Len(PAGE)) = PAGE
         /\ q[Len(PAGE) + 1] = Equals
         /\ SubSeq(q, Len(PAGE) + 2, Len(q)) = Decimal(n)
         /\ \A k \in 1 .. Len(q) : q[k] # Ampersand
<1> DEFINE p == PAGE \o <<Equals>>
           t == Decimal(n)
           q == p \o t
           m == Len(PAGE)
<1>1. /\ PAGE \in Seq(Bytes) /\ m \in Nat /\ <<Equals>> \in Seq(Bytes)
      /\ Len(<<Equals>>) = 1
      /\ \A k \in 1 .. m : PAGE[k] # Ampersand
  BY HandlerAssumption DEF Equals, Bytes
<1>2. t \in Seq(Bytes) /\ Len(t) \in Nat \ {0} /\ \A k \in 1 .. Len(t) : t[k] \in Digits
  BY DecimalText
<1> HIDE DEF t, m
<1>3. /\ p \in Seq(Bytes) /\ Len(p) = m + 1 /\ p[m + 1] = Equals
      /\ \A k \in 1 .. m : p[k] = PAGE[k]
  BY <1>1 DEF m
<1>4. SubSeq(p, 1, m) = PAGE
  BY <1>1, DropFirst DEF m
<1> HIDE DEF p
<1>5. /\ q \in Seq(Bytes) /\ Len(q) = m + 1 + Len(t)
      /\ \A k \in 1 .. m + 1 : q[k] = p[k]
      /\ \A k \in 1 .. Len(t) : q[m + 1 + k] = t[k]
  <2>1. /\ q \in Seq(Bytes) /\ Len(q) = Len(p) + Len(t)
        /\ \A k \in 1 .. Len(p) : q[k] = p[k]
        /\ \A k \in 1 .. Len(t) : q[Len(p) + k] = t[k]
    <3>1. p \in Seq(Bytes) /\ t \in Seq(Bytes)
      BY <1>2, <1>3
    <3> QED
      BY ONLY <3>1, Concatenated
  <2> HIDE DEF q
  <2> QED
    BY <1>3, <2>1
<1>6. SubSeq(q, m + 2, Len(q)) = t
  <2>1. SubSeq(q, Len(p) + 1, Len(q)) = t
    BY <1>2, <1>3, DropFirst
  <2>2. Len(p) + 1 = m + 2
    BY <1>1, <1>3
  <2> QED
    BY <2>1, <2>2
<1> HIDE DEF q
<1>7. SubSeq(q, 1, m) = PAGE
  <2>1. SubSeq(q, 1, m) = SubSeq(p, 1, m)
    <3>1. \A k \in 1 .. m : q[k] = p[k]
      BY <1>1, <1>5
    <3>2. m <= Len(q) /\ m <= Len(p)
      BY <1>1, <1>2, <1>3, <1>5
    <3>3. SubSeq(q, 1, m) = [k \in 1 .. m |-> q[k]] /\ SubSeq(p, 1, m) = [k \in 1 .. m |-> p[k]]
      BY <1>1, <1>3, <1>5, <3>2
    <3> QED
      BY <3>1, <3>3
  <2> QED
    BY <1>4, <2>1
<1>8. q[m + 1] = Equals
  BY <1>1, <1>3, <1>5
<1>9. ASSUME NEW k \in 1 .. Len(q) PROVE q[k] # Ampersand
  <2>1. CASE k \in 1 .. m
    BY <1>1, <1>3, <1>5, <2>1
  <2>2. CASE k = m + 1
    BY <1>8, <2>2 DEF Equals, Ampersand
  <2>3. CASE k > m + 1
    <3>1. k - (m + 1) \in 1 .. Len(t) /\ m + 1 + (k - (m + 1)) = k
      BY <1>1, <1>2, <1>5, <2>3
    <3>2. q[k] \in Digits
      BY <1>2, <1>5, <3>1
    <3> QED
      BY <3>2 DEF Digits, Ampersand
  <2> QED
    BY <1>1, <2>1, <2>2, <2>3
<1>10. ParameterText(n) = q
  BY DEF ParameterText, q, p, t
<1> QED
  BY <1>1, <1>2, <1>5, <1>6, <1>7, <1>8, <1>9, <1>10 DEF m, t

(* The link to a page is its path, a question mark, and the parameter.     *)
LEMMA PageLinkIs ==
  ASSUME NEW n \in Nat
  PROVE  LET s == PageLinkText(n) IN
         /\ Len(s) = 2 + Len(ParameterText(n)) /\ Len(ParameterText(n)) \in Nat \ {0}
         /\ s[1] = Slash /\ s[2] = QuestionMark
         /\ SubSeq(s, 1, 1) = <<Slash>>
         /\ SubSeq(s, 3, Len(s)) = ParameterText(n)
<1> DEFINE a == <<Slash, QuestionMark>>
           q == ParameterText(n)
           s == a \o q
           t == Decimal(n)
<1>1. q \in Seq(Bytes) /\ Len(q) \in Nat \ {0}
  BY ParameterTextIs
<1>2. a \in Seq(Bytes) /\ Len(a) = 2 /\ a[1] = Slash /\ a[2] = QuestionMark
      /\ PAGE \in Seq(Bytes) /\ <<Equals>> \in Seq(Bytes)
  BY HandlerAssumption DEF Bytes, Slash, QuestionMark, Equals
<1>3. t \in Seq(Bytes)
  BY DecimalText
<1>4. PageLinkText(n) = s
  <2> DEFINE e == <<Equals>>
  <2> HIDE DEF a, t, e
  <2>1. ((a \o PAGE) \o e) \o t = a \o ((PAGE \o e) \o t)
    <3>1. a \o PAGE \in Seq(Bytes) /\ PAGE \o e \in Seq(Bytes)
      BY <1>2, Concatenated DEF e
    <3>2. (a \o PAGE) \o e = a \o (PAGE \o e)
      BY <1>2, ConcatAssociative DEF e
    <3>3. (a \o (PAGE \o e)) \o t = a \o ((PAGE \o e) \o t)
      <4>1. PICK x : x = PAGE \o e
        OBVIOUS
      <4>2. a \in Seq(Bytes) /\ x \in Seq(Bytes) /\ t \in Seq(Bytes)
        BY <1>2, <1>3, <3>1, <4>1
      <4>3. (a \o x) \o t = a \o (x \o t)
        BY ONLY <4>2, ConcatAssociative
      <4> QED
        BY ONLY <4>1, <4>3
    <3> QED
      BY ONLY <3>2, <3>3
  <2> QED
    BY <2>1 DEF PageLinkText, ParameterText, a, t, e
<1> HIDE DEF q, a
<1>5. /\ s \in Seq(Bytes) /\ Len(s) = 2 + Len(q)
      /\ s[1] = Slash /\ s[2] = QuestionMark
  <2>1. /\ s \in Seq(Bytes) /\ Len(s) = Len(a) + Len(q)
        /\ \A k \in 1 .. Len(a) : s[k] = a[k]
    <3>1. a \in Seq(Bytes) /\ q \in Seq(Bytes)
      BY <1>1, <1>2
    <3> QED
      BY ONLY <3>1, Concatenated
  <2> HIDE DEF s
  <2> QED
    BY <1>2, <2>1
<1>6. SubSeq(s, 3, Len(s)) = q
  <2>1. SubSeq(s, Len(a) + 1, Len(s)) = q
    BY <1>1, <1>2, DropFirst
  <2> QED
    BY <1>2, <2>1
<1> HIDE DEF s
<1>7. SubSeq(s, 1, 1) = <<Slash>>
  <2> DEFINE u == SubSeq(s, 1, 1)
             v == <<Slash>>
  <2>1. u \in Seq(Bytes) /\ Len(u) = 1 /\ u[1] = Slash
    BY <1>1, <1>5
  <2>2. v \in Seq(Bytes) /\ Len(v) = 1 /\ v[1] = Slash
    BY DEF Slash, Bytes
  <2> HIDE DEF u, v
  <2>3. u = v
    BY <2>1, <2>2, SameElements
  <2> QED
    BY <2>3 DEF u, v
<1> QED
  BY <1>1, <1>4, <1>5, <1>6, <1>7 DEF q

(* The link to a picture has its number behind the beginning of the route. *)
LEMMA ImageLinkIs ==
  ASSUME NEW n \in Nat
  PROVE  LET s == ImageLinkText(n) IN
         /\ s \in Text \cup Seq(Bytes) /\ Len(s) \in Nat \ {0}
         /\ \A k \in 1 .. Len(s) : s[k] # QuestionMark
         /\ StartsWith(s, IMAGES)
         /\ Drop(s, Len(IMAGES)) = Decimal(n) \o BMP
         /\ s # <<Slash>>
<1> DEFINE t == Decimal(n)
           r == t \o BMP
           s == IMAGES \o r
           m == Len(IMAGES)
<1>1. /\ IMAGES \in Seq(Bytes) /\ BMP \in Seq(Bytes) /\ m \in Nat
      /\ \A k \in 1 .. m : IMAGES[k] # QuestionMark
      /\ \A k \in 1 .. Len(BMP) : BMP[k] # QuestionMark
  BY LinkAssumption
<1>2. t \in Seq(Bytes) /\ Len(t) \in Nat \ {0} /\ \A k \in 1 .. Len(t) : t[k] \in Digits
  BY DecimalText
<1> HIDE DEF t
<1>3. ImageLinkText(n) = s
  <2>1. (IMAGES \o t) \o BMP = IMAGES \o (t \o BMP)
    BY <1>1, <1>2, ConcatAssociative
  <2> QED
    BY <2>1 DEF ImageLinkText, t
<1>4. /\ r \in Seq(Bytes) /\ Len(r) = Len(t) + Len(BMP) /\ Len(BMP) \in Nat
      /\ \A k \in 1 .. Len(t) : r[k] = t[k]
      /\ \A k \in 1 .. Len(BMP) : r[Len(t) + k] = BMP[k]
  BY <1>1, <1>2, Concatenated
<1> HIDE DEF r
<1>5. /\ s \in Seq(Bytes) /\ Len(s) = m + Len(r)
      /\ \A k \in 1 .. m : s[k] = IMAGES[k]
      /\ \A k \in 1 .. Len(r) : s[m + k] = r[k]
  <2>1. IMAGES \in Seq(Bytes) /\ r \in Seq(Bytes)
    BY <1>1, <1>4
  <2> QED
    BY ONLY <2>1, Concatenated
<1>6. SubSeq(s, m + 1, Len(s)) = r /\ SubSeq(s, 1, m) = IMAGES
  BY <1>1, <1>4, DropFirst
<1> HIDE DEF s, m
<1>7. Len(s) \in Nat \ {0} /\ Len(r) \in Nat \ {0} /\ m <= Len(s)
  BY <1>1, <1>2, <1>4, <1>5
<1>8. \A k \in 1 .. Len(r) : r[k] # QuestionMark
  <2> TAKE k \in 1 .. Len(r)
  <2>1. CASE k <= Len(t)
    <3>1. k \in 1 .. Len(t)
      BY <1>2, <2>1
    <3>2. r[k] \in Digits
      BY <1>2, <1>4, <3>1
    <3> QED
      BY <3>2 DEF Digits, QuestionMark
  <2>2. CASE k > Len(t)
    <3>1. k - Len(t) \in 1 .. Len(BMP) /\ Len(t) + (k - Len(t)) = k
      BY <1>2, <1>4, <2>2
    <3> QED
      BY <1>1, <1>4, <3>1
  <2> QED
    BY <1>2, <2>1, <2>2
<1>9. \A k \in 1 .. Len(s) : s[k] # QuestionMark
  <2> TAKE k \in 1 .. Len(s)
  <2>1. CASE k <= m
    <3>1. k \in 1 .. m
      BY <1>1, <2>1
    <3> QED
      BY <1>1, <1>5, <3>1
  <2>2. CASE k > m
    <3>1. k - m \in 1 .. Len(r) /\ m + (k - m) = k
      BY <1>1, <1>5, <1>7, <2>2
    <3> QED
      BY <1>5, <1>8, <3>1
  <2> QED
    BY <1>1, <2>1, <2>2
<1>10. StartsWith(s, IMAGES)
  <2>1. SubSeq(IMAGES, 1, Len(IMAGES)) = IMAGES
    BY <1>1
  <2> QED
    BY <1>6, <1>7, <2>1 DEF StartsWith, IsPrefix, m
<1>11. s # <<Slash>>
  <2> SUFFICES ASSUME s = <<Slash>> PROVE FALSE
    OBVIOUS
  <2>1. Len(s) = 1 /\ s[1] = Slash
    OBVIOUS
  <2>2. m = 0 /\ s[m + 1] = r[1] /\ r[1] = t[1] /\ t[1] \in Digits
    BY <1>1, <1>2, <1>4, <1>5, <1>7, <2>1
  <2> QED
    BY <2>1, <2>2 DEF Slash, Digits
<1>12. Drop(s, Len(IMAGES)) = r
  BY <1>6 DEF Drop, m
<1> QED
  BY <1>3, <1>5, <1>7, <1>9, <1>10, <1>11, <1>12 DEF r, t

(* The number of a picture has not too many digits for a parameter, nor    *)
(* for an int.                                                             *)
LEMMA ImageNumber ==
  ASSUME NEW n \in 0 .. CIFAR_NUM_IMAGES - 1
  PROVE  /\ n \in Nat /\ n < Power(10, MAX_INT_LEN) /\ Len(Decimal(n)) <= MAX_INT_LEN
         /\ Truncated(n) = n
<1>1. n \in Nat /\ n < Power(10, MAX_INT_LEN)
  <2>1. 10 \in Nat \ {0} /\ MAX_INT_LEN \in Nat
    BY IntAssumption
  <2>2. Power(10, MAX_INT_LEN) \in Nat /\ CIFAR_NUM_IMAGES \in Nat
    BY <2>1, PowerType, PicturesAssumption
  <2> QED
    BY <2>2, LinkAssumption
<1>2. Len(Decimal(n)) <= MAX_INT_LEN
  BY <1>1, DecimalReads, IntAssumption
<1>3. Truncated(n) = n
  <2>1. -Power(10, MAX_INT_LEN) < n
    <3>1. 10 \in Nat \ {0} /\ MAX_INT_LEN \in Nat
      BY IntAssumption
    <3>2. Power(10, MAX_INT_LEN) \in Nat \ {0}
      BY <3>1, PowerType
    <3> QED
      BY <1>1, <3>2
  <2> QED
    BY <1>1, <2>1, TruncatedFits
<1> QED
  BY <1>1, <1>2, <1>3

(* The link to a page is split at its question mark.                       *)
LEMMA PageLinkSplits ==
  ASSUME Inside, NEW n \in Nat, target = PageLinkText(n),
         NEW k \in 0 .. Len(target), SplitFullRequest(k)
  PROVE  PageLinkFollowed(n)'
<1>1. /\ Len(target) = 2 + Len(ParameterText(n)) /\ Len(ParameterText(n)) \in Nat \ {0}
      /\ target[1] = Slash /\ target[2] = QuestionMark
      /\ SubSeq(target, 1, 1) = <<Slash>>
      /\ SubSeq(target, 3, Len(target)) = ParameterText(n)
  BY PageLinkIs
<1>2. k = 1
  <2>1. CASE k = 0
    BY <1>1, <2>1 DEF SplitFullRequest, StopsAt, Slash, QuestionMark
  <2>2. CASE k > 1
    <3>1. 1 \in 0 .. k - 1 /\ 1 + 1 = 2
      BY <1>1, <2>2
    <3> QED
      BY <1>1, <3>1 DEF SplitFullRequest, StopsAt
  <2> QED
    BY <1>1, <2>1, <2>2
<1>3. path' = <<Slash>> /\ query' = ParameterText(n) /\ pc' = "route"
  BY <1>1, <1>2 DEF SplitFullRequest
<1> QED
  BY <1>3 DEF PageLinkFollowed, ParameterText

(* The link to a picture has none, and stays whole.                        *)
LEMMA ImageLinkSplits ==
  ASSUME Inside, NEW n \in Nat, target = ImageLinkText(n),
         NEW k \in 0 .. Len(target), SplitFullRequest(k)
  PROVE  ImageLinkFollowed(n)'
<1>1. /\ target \in Text /\ Len(target) \in Nat \ {0}
      /\ \A l \in 1 .. Len(target) : target[l] # QuestionMark
  BY ImageLinkIs DEF Inside
<1>2. k = Len(target)
  <2>1. CASE k < Len(target)
    <3>1. target[k + 1] = QuestionMark /\ k + 1 \in 1 .. Len(target)
      BY <1>1, <2>1 DEF SplitFullRequest, StopsAt
    <3> QED
      BY <1>1, <3>1
  <2> QED
    BY <1>1, <2>1
<1>3. SubSeq(target, 1, k) = target
  BY <1>1, <1>2 DEF Text
<1>4. path' = target /\ query' = NULL /\ pc' = "route"
  BY <1>1, <1>2, <1>3 DEF SplitFullRequest
<1> QED
  BY <1>4 DEF ImageLinkFollowed

\* The steps after the split.
Onward ==
  \/ HandleIndex \/ CallGetIntParam \/ HandleImage \/ CallSendStaticFile
  \/ HandleUnknown
  \/ pc = "param" /\ \E j \in i .. Len(query) : NextPiece(j) \/ ParamFound(j)
  \/ ParamAbsent
  \/ CopyByte \/ DecodeEscape \/ BadEscape \/ \E n \in 0 .. Len(out) : EndOfPath(n)

(* The parameter loop takes the one piece there is, and reads the number.  *)
LEMMA PageLinkGoesOn ==
  ASSUME Inside, NEW n \in 0 .. CIFAR_NUM_IMAGES - 1, PageLinkFollowed(n), Onward
  PROVE  PageLinkFollowed(n)'
<1> DEFINE q == ParameterText(n)
           m == Len(PAGE)
<1>1. /\ path = <<Slash>> /\ query = q /\ pc \in {"route", "param", "answered"}
      /\ pc = "param" => i = 0
  BY DEF PageLinkFollowed, ParameterText
<1>2. n \in Nat /\ Len(Decimal(n)) <= MAX_INT_LEN
  BY ImageNumber
<1>3. /\ q \in Seq(Bytes) /\ Len(q) = m + 1 + Len(Decimal(n))
      /\ m \in Nat /\ Len(Decimal(n)) \in Nat \ {0}
      /\ SubSeq(q, 1, m) = PAGE
      /\ q[m + 1] = Equals
      /\ SubSeq(q, m + 2, Len(q)) = Decimal(n)
      /\ \A k \in 1 .. Len(q) : q[k] # Ampersand
  BY <1>2, ParameterTextIs
<1> HIDE DEF q, m
<1>4. CASE pc = "route"
  <2>1. IsIndex /\ query # NULL
    BY <1>1, <1>3, HandlerAssumption DEF IsIndex
  <2>2. CallGetIntParam
    BY <1>4, <2>1 DEF Onward, HandleIndex, HandleImage, CallSendStaticFile, HandleUnknown,
       ParamAbsent, CopyByte, DecodeEscape, BadEscape, EndOfPath
  <2>3. i = 0
    BY <1>4 DEF Inside, Behind
  <2> QED
    BY <2>2, <2>3 DEF CallGetIntParam, PageLinkFollowed
<1>5. CASE pc = "param"
  <2>1. i = 0 /\ Len(q) \in Nat \ {0} /\ i < Len(query)
    BY <1>1, <1>3, <1>5
  <2>2. PICK j \in i .. Len(query) : NextPiece(j) \/ ParamFound(j)
    BY <1>5, <2>1 DEF Onward, HandleIndex, CallGetIntParam, HandleImage, CallSendStaticFile,
       HandleUnknown, ParamAbsent, CopyByte, DecodeEscape, BadEscape, EndOfPath
  <2>3. j = Len(q)
    <3>1. StopsAt(q, Ampersand, 0, j) /\ j \in 0 .. Len(q)
      BY <1>1, <2>1, <2>2 DEF NextPiece, ParamFound
    <3>2. CASE j < Len(q)
      <4>1. j + 1 \in 1 .. Len(q) /\ q[j + 1] = Ampersand
        BY <2>1, <3>1, <3>2 DEF StopsAt
      <4> QED
        BY <1>3, <4>1
    <3> QED
      BY <2>1, <3>1, <3>2
  <2>4. KeyMatches(j)
    <3>1. j - i > m /\ i + 1 = 1 /\ i + m = m /\ i + m + 1 = m + 1
      BY <1>3, <2>1, <2>3
    <3> QED
      BY <1>1, <1>3, <3>1 DEF KeyMatches, m
  <2>5. ParamFound(j)
    BY <2>2, <2>4 DEF NextPiece
  <2>6. /\ pc' = "answered" /\ path' = path /\ query' = query
        /\ answer'.route = "index"
        /\ answer'.arg = ParseInt(SubSeq(query, i + m + 2, j))
    BY <2>5 DEF ParamFound, Answer, m
  <2>7. SubSeq(query, i + m + 2, j) = Decimal(n)
    <3>1. i + m + 2 = m + 2
      BY <1>3, <2>1
    <3> QED
      BY <1>1, <1>3, <2>3, <3>1
  <2>8. ParseInt(Decimal(n)) = n
    <3>1. Decimal(n) \in Seq(Bytes)
      BY <1>2, DecimalText
    <3>2. ScanInt(Decimal(n)) = [matched |-> TRUE, value |-> n]
      <4>1. <<>> \in Seq(Bytes)
        OBVIOUS
      <4>2. Decimal(n) \o <<>> = Decimal(n)
        BY <3>1
      <4> QED
        BY <1>2, <4>1, <4>2, ScanIntReads
    <3>3. ~(Len(Decimal(n)) > MAX_INT_LEN)
      BY <1>2, <1>3, IntAssumption
    <3> QED
      BY <3>1, <3>2, <3>3, ParseIntReads
  <2> QED
    BY <1>1, <2>6, <2>7, <2>8 DEF PageLinkFollowed, ParameterText, q
<1>6. pc # "answered"
  BY DEF Onward, HandleIndex, CallGetIntParam, HandleImage, CallSendStaticFile,
     HandleUnknown, NextPiece, ParamFound, ParamAbsent, CopyByte, DecodeEscape, BadEscape,
     EndOfPath
<1> QED
  BY <1>1, <1>4, <1>5, <1>6

(* The picture route reads the number the link was printed with.           *)
LEMMA ImageLinkGoesOn ==
  ASSUME NEW n \in 0 .. CIFAR_NUM_IMAGES - 1, ImageLinkFollowed(n), Onward
  PROVE  ImageLinkFollowed(n)'
<1> DEFINE r == Drop(path, Len(IMAGES))
<1>1. n \in Nat /\ Truncated(n) = n
  BY ImageNumber
<1>2. path = ImageLinkText(n) /\ query = NULL /\ pc \in {"route", "answered", "crashed"}
  BY DEF ImageLinkFollowed
<1>3. StartsWith(path, IMAGES) /\ r = Decimal(n) \o BMP /\ path # <<Slash>>
  BY <1>1, <1>2, ImageLinkIs
<1>4. ScanInt(r) = [matched |-> TRUE, value |-> n]
  <2>1. BMP \in Seq(Bytes) /\ (BMP # <<>> => BMP[1] \notin Digits)
    BY LinkAssumption
  <2> HIDE DEF r
  <2> QED
    BY <1>1, <1>3, <2>1, ScanIntReads
<1>5. ~IsIndex /\ IsImage
  BY <1>3, <1>4 DEF IsIndex, IsImage
<1>6. pc = "route" /\ HandleImage
  BY <1>2, <1>5 DEF Onward, HandleIndex, CallGetIntParam, HandleImage, CallSendStaticFile,
     HandleUnknown, NextPiece, ParamFound, ParamAbsent, CopyByte, DecodeEscape, BadEscape,
     EndOfPath, IsStatic
<1>7. SendCifarBitmap(n)
  BY <1>1, <1>4, <1>6 DEF HandleImage
<1>8. /\ pc' \in {"answered", "crashed"} /\ path' = path /\ query' = query
      /\ pc' = "answered" => answer'.route = "image" /\ answer'.arg = n
  BY <1>7 DEF SendCifarBitmap, Answer
<1> QED
  BY <1>2, <1>8 DEF ImageLinkFollowed

(* Every step follows the links.                                           *)
LEMMA NextFollows == LinksFollowed /\ [Next]_vars => LinksFollowed'
<1> SUFFICES ASSUME LinksFollowed, [Next]_vars PROVE LinksFollowed'
  OBVIOUS
<1>1. Inside' /\ target' = target
  <2>1. Inside'
    BY NextInside DEF LinksFollowed
  <2>2. target' = target
    BY DEF Next, vars, input_vars, SplitFullRequest, HandleIndex, CallGetIntParam, HandleImage,
       SendCifarBitmap, CallSendStaticFile, HandleUnknown, NextPiece, ParamFound, ParamAbsent,
       CopyByte, DecodeEscape, BadEscape, EndOfPath, Answer
  <2> QED
    BY <2>1, <2>2
<1>2. ASSUME NEW n \in 0 .. CIFAR_NUM_IMAGES - 1, target = PageLinkText(n), pc' # "split"
      PROVE  PageLinkFollowed(n)'
  <2>1. n \in Nat
    BY ImageNumber
  <2>2. ASSUME NEW k \in 0 .. Len(target), SplitFullRequest(k) PROVE PageLinkFollowed(n)'
    BY <1>2, <2>1, <2>2, PageLinkSplits DEF LinksFollowed
  <2>3. CASE Onward
    <3>1. pc # "split"
      BY <2>3 DEF Onward, HandleIndex, CallGetIntParam, HandleImage, CallSendStaticFile,
         HandleUnknown, NextPiece, ParamFound, ParamAbsent, CopyByte, DecodeEscape, BadEscape,
         EndOfPath
    <3> QED
      BY <1>2, <2>3, <3>1, PageLinkGoesOn DEF LinksFollowed
  <2>4. CASE UNCHANGED vars
    <3>1. PageLinkFollowed(n)
      BY <1>2, <2>4 DEF LinksFollowed, vars
    <3> QED
      BY <2>4, <3>1 DEF PageLinkFollowed, vars
  <2> QED
    BY <2>2, <2>3, <2>4 DEF Next, Onward
<1>3. ASSUME NEW n \in 0 .. CIFAR_NUM_IMAGES - 1, target = ImageLinkText(n), pc' # "split"
      PROVE  ImageLinkFollowed(n)'
  <2>1. n \in Nat
    BY ImageNumber
  <2>2. ASSUME NEW k \in 0 .. Len(target), SplitFullRequest(k) PROVE ImageLinkFollowed(n)'
    BY <1>3, <2>1, <2>2, ImageLinkSplits DEF LinksFollowed
  <2>3. CASE Onward
    <3>1. pc # "split"
      BY <2>3 DEF Onward, HandleIndex, CallGetIntParam, HandleImage, CallSendStaticFile,
         HandleUnknown, NextPiece, ParamFound, ParamAbsent, CopyByte, DecodeEscape, BadEscape,
         EndOfPath
    <3> QED
      BY <1>3, <2>3, <3>1, ImageLinkGoesOn DEF LinksFollowed
  <2>4. CASE UNCHANGED vars
    <3>1. ImageLinkFollowed(n)
      BY <1>3, <2>4 DEF LinksFollowed, vars
    <3> QED
      BY <2>4, <3>1 DEF ImageLinkFollowed, vars
  <2> QED
    BY <2>2, <2>3, <2>4 DEF Next, Onward
<1> QED
  BY <1>1, <1>2, <1>3 DEF LinksFollowed

(* A link the server wrote into a page leads to the page or the picture it *)
(* was written for (send_index, GetIntParam, Handle).                      *)
THEOREM LinksAreFollowed == Spec => []LinksLeadThere
<1>1. Init => LinksFollowed
  BY InitInside DEF Init, LinksFollowed
<1>2. LinksFollowed => LinksLeadThere
  BY DEF LinksFollowed, LinksLeadThere, PageLinkFollowed, ImageLinkFollowed
<1> QED
  BY <1>1, NextFollows, <1>2, PTL DEF Spec
================================================================================
