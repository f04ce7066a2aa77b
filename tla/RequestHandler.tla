----------------------------- MODULE RequestHandler -----------------------------
(***************************************************************************)
(* Handle (handler.c) on one GET request, from the text of its target to   *)
(* what is to be answered: the split at the question mark, the routes, the *)
(* parameter loop of GetIntParam, percent_url_decode byte by byte, and the *)
(* bitmap of a picture.  HttpResponse has what happens to the file system  *)
(* and to the response after that.                                         *)
(***************************************************************************)
EXTENDS StringUtils, Pictures

CONSTANTS
  Targets,         \* the texts a client may ask for
  IMAGES, STATIC,  \* the beginnings of the routes
  BMP,             \* what a link to a picture ends in
  PAGE,            \* the name of the parameter
  MIME_TYPES,      \* a sequence of records with Extension and MimeType
  PictureSizes,    \* sizes the file of pictures may have
  NULL

Bytes == 0 .. 255

\* No text has a NUL in it; the rows of a bitmap need no padding; an empty file
\* cannot be mapped.
ASSUME HandlerAssumption ==
  /\ Targets \subseteq Seq(Bytes \ {NUL})
  /\ NULL \notin Seq(Bytes)
  /\ PAGE \in Seq(Bytes \ {NUL, Ampersand})
  /\ STATIC \in Seq(Bytes) \ {<<>>}
  /\ (3 * CIFAR_IMG_SIZE) % 4 = 0
  /\ PictureSizes \subseteq Nat \ {0}

\* The number of a picture is not too long for a parameter; in its link nothing
\* can be taken for the query or for one more digit.
ASSUME LinkAssumption ==
  /\ CIFAR_NUM_IMAGES <= Power(10, MAX_INT_LEN)
  /\ IMAGES \in Seq(Bytes \ {NUL, QuestionMark})
  /\ BMP \in Seq(Bytes \ {NUL, QuestionMark})
  /\ BMP # <<>> => BMP[1] \notin Digits

HexDigits == Digits \cup 65 .. 70 \cup 97 .. 102

\* Every extension begins with a dot and has no escapes.
ASSUME ExtensionAssumption == \A k \in DOMAIN MIME_TYPES :
  LET e == MIME_TYPES[k].Extension
  IN  /\ e \in Seq(Bytes \ {NUL, Percent}) \ {<<>>}
      /\ e[1] \notin HexDigits

VARIABLES
  mapped,          \* USING_MMAP_INSTEAD_READ
  pictures_size,
  target,          \* the second word of the request line
  path, query,     \* its two parts; query is NULL if there is none
  pc,
  i,               \* position in the query or the encoded path
  out,             \* the decoded path so far
  last_read,       \* history: the last position of the encoded path looked at
  answer           \* history: the route and what it was given, or NULL

input_vars == <<mapped, pictures_size, target>>
vars == <<input_vars, path, query, pc, i, out, last_read, answer>>

TypeOK ==
  /\ path \in Seq(Bytes \ {NUL})
  /\ query \in Seq(Bytes \ {NUL}) \cup {NULL}
  /\ pc \in {"split", "route", "param", "decode", "answered", "crashed"}
  /\ i \in Nat
  /\ out \in Seq(Bytes)
  /\ last_read \in Nat
  /\ pc = "param" => query # NULL
  /\ pc = "decode" => path # <<>>

Init ==
  /\ mapped \in BOOLEAN
  /\ pictures_size \in PictureSizes
  /\ target \in Targets
  /\ path = <<>> /\ query = NULL
  /\ pc = "split"
  /\ i = 0
  /\ out = <<>>
  /\ last_read = 0
  /\ answer = NULL

--------------------------------------------------------------------------------
(* Which route a request takes.                                            *)

\* Mutant: the question mark stays in the query.
SplitBeforeMark(n) ==
  /\ pc = "split"
  /\ StopsAt(target, QuestionMark, 0, n)
  /\ pc' = "route"
  /\ path' = SubSeq(target, 1, n)
  /\ query' = IF n < Len(target) THEN SubSeq(target, n + 1, Len(target)) ELSE NULL
  /\ UNCHANGED <<input_vars, i, out, last_read, answer>>

SplitFullRequest(n) ==
  /\ pc = "split"
  /\ StopsAt(target, QuestionMark, 0, n)
  /\ pc' = "route"
  /\ path' = SubSeq(target, 1, n)
  /\ query' = IF n < Len(target) THEN SubSeq(target, n + 2, Len(target)) ELSE NULL
  /\ UNCHANGED <<input_vars, i, out, last_read, answer>>

\* The code of a page or file is decided later, when its argument is looked at.
Answer(route, code, arg, content) ==
  /\ pc' = "answered"
  /\ answer' = [route |-> route, code |-> code, arg |-> arg, content |-> content]
  /\ UNCHANGED <<input_vars, path, query, out>>

IsIndex == path = <<Slash>>
IsImage ==
  /\ StartsWith(path, IMAGES)
  /\ ScanInt(Drop(path, Len(IMAGES))).matched
IsStatic == ~IsImage /\ StartsWith(path, STATIC)

HandleIndex ==
  /\ pc = "route" /\ IsIndex /\ query = NULL
  /\ Answer("index", NULL, 0, NULL)
  /\ UNCHANGED <<i, last_read>>

\* Mutant: the parameter is looked for whether or not there is a query.
CallGetIntParamAlways ==
  /\ pc = "route" /\ IsIndex
  /\ pc' = "param"
  /\ UNCHANGED <<input_vars, path, query, i, out, last_read, answer>>

CallGetIntParam ==
  /\ pc = "route" /\ IsIndex /\ query # NULL
  /\ pc' = "param"
  /\ UNCHANGED <<input_vars, path, query, i, out, last_read, answer>>

Loads(n) ==
  IF mapped THEN ~LoadRefuses(n, pictures_size) ELSE WholeInFile(n, pictures_size)

\* malloc may fail, the file may end; the copy from a mapped file goes on there, and
\* past its pages there may be no memory.
SendCifarBitmap(n) ==
  \/ ~PictureInRange(n) /\ Answer("image", 404, n, NULL)
  \/ PictureInRange(n) /\ Answer("image", 500, n, NULL)
  \/ /\ PictureInRange(n) /\ Loads(n)
     /\ Answer("image", 200, n, BitmapOf(n, pictures_size))
  \/ /\ PictureInRange(n) /\ Loads(n) /\ LeavesPages(n, pictures_size)
     /\ pc' = "crashed"
     /\ UNCHANGED <<input_vars, path, query, out, answer>>

\* What follows the number is not looked at.
HandleImage ==
  /\ pc = "route" /\ ~IsIndex /\ IsImage
  /\ SendCifarBitmap(Truncated(ScanInt(Drop(path, Len(IMAGES))).value))
  /\ UNCHANGED <<i, last_read>>

CallSendStaticFile ==
  /\ pc = "route" /\ ~IsIndex /\ IsStatic
  /\ pc' = "decode"
  /\ UNCHANGED <<input_vars, path, query, i, out, last_read, answer>>

HandleUnknown ==
  /\ pc = "route" /\ ~IsIndex /\ ~IsImage /\ ~IsStatic
  /\ Answer("unknown", 404, 0, NULL)
  /\ UNCHANGED <<i, last_read>>

--------------------------------------------------------------------------------
(* GetIntParam: a turn of the loop looks at the piece from i up to j.      *)

\* Mutant: a parameter whose name begins with the name is taken for it.
KeyBegins(j) == j - i > Len(PAGE) /\ SubSeq(query, i + 1, i + Len(PAGE)) = PAGE

KeyMatches(j) ==
  /\ j - i > Len(PAGE)
  /\ SubSeq(query, i + 1, i + Len(PAGE)) = PAGE
  /\ query[i + Len(PAGE) + 1] = Equals

NextPiece(j) ==
  /\ pc = "param" /\ i < Len(query)
  /\ StopsAt(query, Ampersand, i, j)
  /\ ~KeyMatches(j)
  /\ i' = j + 1
  /\ UNCHANGED <<input_vars, path, query, pc, out, last_read, answer>>

ParamFound(j) ==
  /\ pc = "param" /\ i < Len(query)
  /\ StopsAt(query, Ampersand, i, j)
  /\ KeyMatches(j)
  /\ Answer("index", NULL, ParseInt(SubSeq(query, i + Len(PAGE) + 2, j)), NULL)
  /\ UNCHANGED <<i, last_read>>

ParamAbsent ==
  /\ pc = "param" /\ i >= Len(query)
  /\ Answer("index", NULL, 0, NULL)
  /\ UNCHANGED <<i, last_read>>

--------------------------------------------------------------------------------
(* percent_url_decode of the path without its first slash.                 *)

Encoded == Tail(path)

\* The terminator is a byte like the others; what comes after it may be anything.
Beyond == 65
ByteAt(k) == IF k < Len(Encoded) THEN Encoded[k + 1]
             ELSE IF k = Len(Encoded) THEN NUL ELSE Beyond

HexValue(b) ==
  CASE b \in Digits -> b - 48
    [] b \in 65 .. 70 -> b - 55
    [] b \in 97 .. 102 -> b - 87
    [] OTHER -> -1

CopyByte ==
  /\ pc = "decode"
  /\ ByteAt(i) \notin {NUL, Percent}
  /\ out' = Append(out, ByteAt(i))
  /\ i' = i + 1
  /\ last_read' = i
  /\ UNCHANGED <<input_vars, path, query, pc, answer>>

\* Mutant: the second digit is not checked.
DecodeUnchecked ==
  /\ pc = "decode"
  /\ ByteAt(i) = Percent /\ HexValue(ByteAt(i + 1)) >= 0
  /\ out' = Append(out, (16 * HexValue(ByteAt(i + 1)) + HexValue(ByteAt(i + 2))) % 256)
  /\ i' = i + 3
  /\ last_read' = i + 2
  /\ UNCHANGED <<input_vars, path, query, pc, answer>>

DecodeEscape ==
  /\ pc = "decode"
  /\ ByteAt(i) = Percent /\ HexValue(ByteAt(i + 1)) >= 0 /\ HexValue(ByteAt(i + 2)) >= 0
  /\ out' = Append(out, 16 * HexValue(ByteAt(i + 1)) + HexValue(ByteAt(i + 2)))
  /\ i' = i + 3
  /\ last_read' = i + 2
  /\ UNCHANGED <<input_vars, path, query, pc, answer>>

\* The first of the extensions that the encoded path ends in.
IsContentType(type) ==
  \/ /\ type = NULL
     /\ \A k \in DOMAIN MIME_TYPES : ~EndsWithCI(Encoded, MIME_TYPES[k].Extension)
  \/ \E k \in DOMAIN MIME_TYPES :
       /\ type = MIME_TYPES[k].MimeType
       /\ EndsWithCI(Encoded, MIME_TYPES[k].Extension)
       /\ \A l \in 1 .. k - 1 : ~EndsWithCI(Encoded, MIME_TYPES[l].Extension)

MimeTypes == {MIME_TYPES[k].MimeType : k \in DOMAIN MIME_TYPES} \cup {NULL}

\* The text a decoded path is for whoever reads it as a string.
IsCString(bytes, s) == \E n \in 0 .. Len(bytes) :
  StopsAt(bytes, NUL, 0, n) /\ s = SubSeq(bytes, 1, n)

\* Mutant: what was decoded before the bad escape is left in the path.
BadEscapeKeeps ==
  /\ pc = "decode" /\ ByteAt(i) = Percent
  /\ HexValue(ByteAt(i + 1)) < 0 \/ HexValue(ByteAt(i + 2)) < 0
  /\ \E type \in MimeTypes : IsContentType(type) /\ Answer("static", NULL, out, type)
  /\ UNCHANGED <<i, last_read>>

\* The result is not looked at, but nothing is left of the path.
BadEscape ==
  /\ pc = "decode" /\ ByteAt(i) = Percent
  /\ \/ HexValue(ByteAt(i + 1)) < 0 /\ last_read' = i + 1
     \/ HexValue(ByteAt(i + 1)) >= 0 /\ HexValue(ByteAt(i + 2)) < 0 /\ last_read' = i + 2
  /\ \E type \in MimeTypes : IsContentType(type) /\ Answer("static", NULL, <<>>, type)
  /\ UNCHANGED i

EndOfPath(n) ==
  /\ pc = "decode" /\ ByteAt(i) = NUL
  /\ StopsAt(out, NUL, 0, n)
  /\ \E type \in MimeTypes :
       IsContentType(type) /\ Answer("static", NULL, SubSeq(out, 1, n), type)
  /\ last_read' = i
  /\ UNCHANGED i

Next ==
  \/ \E n \in 0 .. Len(target) : SplitFullRequest(n)
  \/ HandleIndex \/ CallGetIntParam \/ HandleImage \/ CallSendStaticFile
  \/ HandleUnknown
  \/ pc = "param" /\ \E j \in i .. Len(query) : NextPiece(j) \/ ParamFound(j)
  \/ ParamAbsent
  \/ CopyByte \/ DecodeEscape \/ BadEscape \/ \E n \in 0 .. Len(out) : EndOfPath(n)

Spec == Init /\ [][Next]_vars

--------------------------------------------------------------------------------
Answered(route) == pc = "answered" /\ answer.route = route

(* GetIntParam as its tests have it (tests.c:9-15): the number in the first *)
(* piece between ampersands that is the name, an equals sign and a value;   *)
(* zero if there is none or the value is too long, and never a number cut   *)
(* to the width of an int.                                                  *)
Piece(a, b) ==
  /\ a = 0 \/ query[a] = Ampersand
  /\ StopsAt(query, Ampersand, a, b)
  /\ IsPrefix(PAGE \o <<Equals>>, SubSeq(query, a + 1, b))

PageIsTheParameter ==
  Answered("index") /\ query # NULL =>
    LET pieces == {p \in (0 .. Len(query)) \X (0 .. Len(query)) : Piece(p[1], p[2])}
        First(p) == \A o \in pieces : p[1] <= o[1]
        Value(v) == IF Len(v) > MAX_INT_LEN \/ ~ScanInt(v).matched THEN 0
                    ELSE ScanInt(v).value
    IN  IF pieces = {} THEN answer.arg = 0
        ELSE \E p \in pieces :
               First(p) /\ answer.arg = Value(SubSeq(query, p[1] + Len(PAGE) + 2, p[2]))

(* The links the server writes lead where they say: what it prints with %d  *)
(* into the page of an index is found again by the parameter loop and by    *)
(* the sscanf of the picture route.                                         *)
Decimal(n) ==
  LET d[k \in 0 .. n] == IF k < 10 THEN <<48 + k>> ELSE Append(d[k \div 10], 48 + (k % 10))
  IN  d[n]

PageLinkText(n) == <<Slash, QuestionMark>> \o PAGE \o <<Equals>> \o Decimal(n)
ImageLinkText(n) == IMAGES \o Decimal(n) \o BMP

LinksLeadThere ==
  pc = "answered" => \A n \in 0 .. CIFAR_NUM_IMAGES - 1 :
    /\ target = PageLinkText(n) => answer.route = "index" /\ answer.arg = n
    /\ target = ImageLinkText(n) => answer.route = "image" /\ answer.arg = n

(* A bitmap that is answered is the picture: a viewer that goes by its      *)
(* headers sees in every place the three colours the file of pictures has   *)
(* there.  The copy of Load from a mapped file that ends inside the picture *)
(* goes on past the end: what comes there is black as far as the last page  *)
(* goes, and of the file there is everything.  In the build that reads all  *)
(* of the picture is the file's.                                            *)
ViewerSeesThePicture ==
  Answered("image") /\ answer.code = 200 =>
    /\ LooksLike(answer.content, answer.arg, pictures_size)
    /\ mapped \/ WholeInFile(answer.arg, pictures_size)

(* percent_url_decode stays inside its strings: it never looks past the     *)
(* terminator of the path, however an escape is cut off at its end, and the *)
(* copy with its terminator fits in an allocation of strlen(path) + 1.      *)
DecodingStaysInside ==
  pc \in {"decode", "answered"} /\ path # <<>> =>
    last_read <= Len(Encoded) /\ Len(out) <= Len(Encoded)

(* The file that is looked for is the one the client meant, byte for byte;  *)
(* if any escape is malformed the name is empty.                            *)
WellFormed(s) ==
  \A k \in DOMAIN s : s[k] = Percent =>
    k + 2 <= Len(s) /\ HexValue(s[k + 1]) >= 0 /\ HexValue(s[k + 2]) >= 0

\* Where a byte or an escape starts, and how many do until there.
Starts(s) ==
  {k \in DOMAIN s : \A m \in {k - 1, k - 2} \cap DOMAIN s : s[m] # Percent}

Place(s, k) == Cardinality({m \in Starts(s) : m <= k})

ByteFrom(s, k) ==
  IF s[k] # Percent THEN s[k] ELSE 16 * HexValue(s[k + 1]) + HexValue(s[k + 2])

Meant(s) ==
  [n \in 1 .. Cardinality(Starts(s)) |->
     ByteFrom(s, CHOOSE k \in Starts(s) : Place(s, k) = n)]

FileIsTheOneMeant ==
  Answered("static") =>
    IF WellFormed(Encoded) THEN IsCString(Meant(Encoded), answer.arg)
    ELSE answer.arg = <<>>

(* The type is guessed from the encoded path, and still belongs to the file *)
(* of the decoded name, unless an encoded NUL ends that name early.         *)
Lowered(s) == [k \in DOMAIN s |-> ToLower(s[k])]

TypeBelongsToTheFile ==
  Answered("static") /\ answer.content # NULL /\ answer.arg # <<>> /\ NUL \notin ToSet(out) =>
    \E k \in DOMAIN MIME_TYPES :
      /\ MIME_TYPES[k].MimeType = answer.content
      /\ IsSuffix(Lowered(MIME_TYPES[k].Extension), Lowered(answer.arg))
================================================================================
