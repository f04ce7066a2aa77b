--------------------------- MODULE HttpResponseProofs --------------------------
(***************************************************************************)
(* For every set of requests and files, every build and every bound: that  *)
(* a builder holds what was put into it and the body of a response is the  *)
(* page that is due; that the index leads to all pictures; and that a peer *)
(* reads the pages that were promised, in whatever parts they are sent.    *)
(***************************************************************************)
EXTENDS HttpResponse, SequenceTheorems, TLAPS

IsResponse(r) ==
  r = [Code |-> r.Code, Body |-> r.Body, should_use_sendfile |-> r.should_use_sendfile,
       file_path_requested |-> r.file_path_requested, sent_file_size |-> r.sent_file_size]

\* A file goes with the response only in the build that sends files, and it is a file.
FileOfResponse ==
  IF response.should_use_sendfile
  THEN /\ build.USING_SENDFILE
       /\ response.file_path_requested \in Paths \ {NULL}
       /\ files[response.file_path_requested] # Directory
  ELSE response.should_use_sendfile = FALSE /\ response.file_path_requested = NULL

\* A file is put with the response last of all.
HandlingState ==
  /\ pc \in {"receive", "handle", "stat", "open_page", "read"} =>
       ~response.should_use_sendfile
  /\ pc \in {"handle", "stat", "open_page", "read"} => request \in Requests
  /\ pc \in {"stat", "open_page", "read"} => request.route = "static"
  /\ pc \in {"open_page", "read"} =>
       ~build.USING_SENDFILE /\ files[request.arg] # Directory

SendingState ==
  /\ pc \in {"open", "sendfile", "close"} => response.should_use_sendfile
  /\ pc = "sendfile" => attempt_counter < MAX_RESEND_ATTEMPTS
  /\ pc \notin {"sendfile", "close", "destroy"} => attempt_counter = 0

Sound ==
  /\ TypeOK
  /\ IsResponse(response)
  /\ files \in [Paths -> Nat \cup {Absent, Directory}]
  /\ FileOfResponse /\ HandlingState /\ SendingState
  /\ cut \in BOOLEAN

--------------------------------------------------------------------------------
(* Whatever a page does to a response, it leaves the file out of it.       *)

SameFile(r, s) ==
  /\ IsResponse(s)
  /\ s.should_use_sendfile = r.should_use_sendfile
  /\ s.file_path_requested = r.file_path_requested

(* A response with another body, and everything else as it was.            *)
LEMMA BodyKeepsFile ==
  ASSUME NEW r, NEW body, IsResponse(r)
  PROVE  LET s == [r EXCEPT !.Body = body]
         IN  /\ SameFile(r, s)
             /\ s.Body = body /\ s.Code = r.Code /\ s.sent_file_size = r.sent_file_size
<1>1. [r EXCEPT !.Body = body] =
        [Code |-> r.Code, Body |-> body, should_use_sendfile |-> r.should_use_sendfile,
         file_path_requested |-> r.file_path_requested, sent_file_size |-> r.sent_file_size]
  BY DEF IsResponse
<1> QED
  BY <1>1 DEF IsResponse, SameFile

\* r with another code and another body.
Recoded(r, code, body) == [r EXCEPT !.Code = code, !.Body = body]

(* It is a response, and the file it goes with is the same.                *)
LEMMA CodeKeepsFile ==
  ASSUME NEW r, NEW code, NEW body, IsResponse(r)
  PROVE  /\ SameFile(r, Recoded(r, code, body))
         /\ Recoded(r, code, body).Code = code
         /\ Recoded(r, code, body).Body = body
<1> DEFINE coded == [r EXCEPT !.Code = code]
<1>1. coded = [Code |-> code, Body |-> r.Body, should_use_sendfile |-> r.should_use_sendfile,
               file_path_requested |-> r.file_path_requested,
               sent_file_size |-> r.sent_file_size]
  BY DEF IsResponse
<1>2. Recoded(r, code, body) = [coded EXCEPT !.Body = body]
  BY DEF Recoded
<1> HIDE DEF coded
<1>3. [coded EXCEPT !.Body = body] =
        [Code |-> code, Body |-> body, should_use_sendfile |-> r.should_use_sendfile,
         file_path_requested |-> r.file_path_requested, sent_file_size |-> r.sent_file_size]
  BY <1>1
<1> QED
  BY <1>2, <1>3 DEF IsResponse, SameFile

(* An error page sets the code and the body, whatever the response was.    *)
LEMMA ErrorPageKeepsFile ==
  ASSUME NEW r, NEW code, IsResponse(r)
  PROVE  SameFile(r, CreateErrorPage(r, code)) /\ CreateErrorPage(r, code).Code = code
<1>1. CreateErrorPage(r, code) = Recoded(r, code, Sprintf(Clear(r.Body), <<Error(code)>>))
  BY DEF CreateErrorPage, Recoded
<1> QED
  BY <1>1, CodeKeepsFile

WithFile(r, flag, path, size) ==
  [r EXCEPT !.should_use_sendfile = flag, !.file_path_requested = path,
            !.sent_file_size = size]

(* A response that is to send a file.                                      *)
LEMMA FileIsPut ==
  ASSUME NEW r, NEW flag, NEW path, NEW size, IsResponse(r)
  PROVE  /\ IsResponse(WithFile(r, flag, path, size))
         /\ WithFile(r, flag, path, size).should_use_sendfile = flag
         /\ WithFile(r, flag, path, size).file_path_requested = path
<1> DEFINE flagged == [r EXCEPT !.should_use_sendfile = flag]
           named == [flagged EXCEPT !.file_path_requested = path]
           s == [named EXCEPT !.sent_file_size = size]
<1>1. flagged = [Code |-> r.Code, Body |-> r.Body, should_use_sendfile |-> flag,
                 file_path_requested |-> r.file_path_requested,
                 sent_file_size |-> r.sent_file_size]
  BY DEF IsResponse
<1>2. named = [Code |-> r.Code, Body |-> r.Body, should_use_sendfile |-> flag,
               file_path_requested |-> path, sent_file_size |-> r.sent_file_size]
  <2> HIDE DEF flagged
  <2> QED
    BY <1>1 DEF named
<1>3. s = [Code |-> r.Code, Body |-> r.Body, should_use_sendfile |-> flag,
           file_path_requested |-> path, sent_file_size |-> size]
  <2> HIDE DEF named
  <2> QED
    BY <1>2 DEF s
<1>4. WithFile(r, flag, path, size) = s
  BY DEF WithFile
<1> HIDE DEF s
<1> QED
  BY <1>3, <1>4 DEF IsResponse

(* No page has anything to do with a file that sendfile would send.        *)
LEMMA PagesKeepFile ==
  ASSUME NEW r, NEW n, IsResponse(r)
  PROVE  /\ SameFile(r, CreateIndexPage(r, n))
         /\ SameFile(r, DirListing(r, n))
         /\ SameFile(r, BitmapBody(r, n))
<1>1. SameFile(r, CreateIndexPage(r, n))
  BY ErrorPageKeepsFile, BodyKeepsFile DEF CreateIndexPage
<1>2. SameFile(r, DirListing(r, n)) /\ SameFile(r, BitmapBody(r, n))
  BY BodyKeepsFile DEF DirListing, BitmapBody
<1> QED
  BY <1>1, <1>2

(* The server waits for its first request.                                 *)
LEMMA InitSound == Init => Sound
<1> SUFFICES ASSUME Init PROVE Sound
  OBVIOUS
<1>0. /\ response.should_use_sendfile = FALSE
      /\ response.file_path_requested = NULL
      /\ IsResponse(response)
  <2>1. response = NewResponse
    BY DEF Init
  <2> QED
    BY <2>1 DEF NewResponse, IsResponse
<1>1. TypeOK
  <2>1. /\ pc = "receive" /\ request = NULL /\ req_keep_alive = FALSE
        /\ attempt_counter = 0 /\ open_file = Absent
        /\ requests = 0 /\ changes = 0
    BY DEF Init
  <2>2. 0 \in 0 .. MAX_RESEND_ATTEMPTS /\ 0 \in 0 .. MaxRequests /\ 0 \in 0 .. MaxChanges
    BY ResponseAssumption
  <2> QED
    BY <1>0, <2>1, <2>2 DEF TypeOK, PCs
<1>2. files \in [Paths -> Nat \cup {Absent, Directory}]
  BY FilesAssumption DEF Init
<1> QED
  BY <1>0, <1>1, <1>2
     DEF Init, Sound, FileOfResponse, HandlingState,
         SendingState

(* A page without a file is ready.                                         *)
LEMMA BuildSound ==
  ASSUME Sound, NEW r, Build(r),
         pc \in {"receive", "handle", "stat", "open_page", "read"},
         SameFile(response, r)
  PROVE  Sound'
<1> USE DEF Sound, Build, request_vars, world_vars, history_vars, SameFile
<1>1. ~r.should_use_sendfile /\ r.file_path_requested = NULL
  BY DEF HandlingState, FileOfResponse
<1>2. TypeOK'
  BY <1>1 DEF TypeOK, PCs
<1>3. FileOfResponse' /\ HandlingState' /\ SendingState'
  BY <1>1 DEF FileOfResponse, HandlingState, SendingState
<1> QED
  BY <1>2, <1>3

(* Receiving leaves nothing behind, whatever the outcome.                  *)
LEMMA ReceiveSound ==
  ASSUME Sound,
         \/ \E q \in Requests, keep \in BOOLEAN : Receive(q, keep)
         \/ \E code \in {400, 500} : ReceiveFails(code)
         \/ ReceiveDisconnected
  PROVE  Sound'
<1>1. ASSUME NEW q \in Requests, NEW keep \in BOOLEAN, Receive(q, keep) PROVE Sound'
  BY <1>1, ResponseAssumption
     DEF Receive, Sound, TypeOK, PCs, FileOfResponse, HandlingState, SendingState,
         send_vars, world_vars, history_vars
<1>2. ASSUME NEW code \in {400, 500}, ReceiveFails(code) PROVE Sound'
  BY <1>2, BuildSound, ErrorPageKeepsFile DEF ReceiveFails, Sound
<1>3. CASE ReceiveDisconnected
  BY <1>3
     DEF ReceiveDisconnected, Sound, TypeOK, PCs, FileOfResponse, HandlingState,
         SendingState, request_vars, send_vars, world_vars,
         history_vars
<1> QED
  BY <1>1, <1>2, <1>3

(* The routes that answer with a page of the server.                       *)
LEMMA PageSound ==
  ASSUME Sound,
         \/ HandleMethod \/ HandleUnknown \/ HandleIndex
         \/ ImageOutOfRange \/ ImageFails \/ SendImage \/ ImageCrashes
  PROVE  Sound'
<1>1. ASSUME NEW r, Build(r), pc = "handle", SameFile(response, r) PROVE Sound'
  BY <1>1, BuildSound
<1>2. IsResponse(response)
  BY DEF Sound
<1>3. CASE HandleMethod \/ HandleUnknown \/ ImageOutOfRange \/ ImageFails
  BY <1>1, <1>2, <1>3, ErrorPageKeepsFile
     DEF HandleMethod, HandleUnknown, ImageOutOfRange, ImageFails, HandleImage, Handling
<1>4. CASE HandleIndex \/ SendImage
  BY <1>1, <1>2, <1>4, PagesKeepFile DEF HandleIndex, SendImage, HandleImage, Handling
<1>5. CASE ImageCrashes
  BY <1>5
     DEF ImageCrashes, HandleImage, Handling, Sound, TypeOK, PCs, FileOfResponse,
         HandlingState, SendingState, request_vars, send_vars,
         world_vars, history_vars
<1> QED
  BY <1>3, <1>4, <1>5

(* SendStaticFile: the ways out of it that have a page.                    *)
LEMMA StaticSound ==
  ASSUME Sound,
         \/ \E code \in {400, 404, 500} : StaticRefused(code)
         \/ StatFails \/ ListDir
         \/ \E n \in 0 .. ENTRIES : ListDirFails(n)
         \/ OpenPageFails \/ ReadWholeFileEnds \/ ReadWholeFileFails
  PROVE  Sound'
<1>0. IsResponse(response) /\ HandlingState
  BY DEF Sound
<1>1. ASSUME NEW code \in {400, 404, 500}, StaticRefused(code) PROVE Sound'
  <2> DEFINE r == CreateErrorPage(response, code)
  <2>1. SameFile(response, r) /\ r.Code = code
    BY <1>0, ErrorPageKeepsFile
  <2> HIDE DEF r
  <2> QED
    BY <1>1, <2>1, BuildSound DEF StaticRefused, Handling, r
<1>2. CASE StatFails
  BY <1>0, <1>2, BuildSound, ErrorPageKeepsFile
     DEF StatFails, Statting
<1>3. CASE ListDir
  BY <1>0, <1>3, BuildSound, PagesKeepFile
     DEF ListDir, Statting
<1>4. ASSUME NEW n \in 0 .. ENTRIES, ListDirFails(n) PROVE Sound'
  <2> DEFINE listing == DirListing(response, n)
             r == CreateErrorPage(listing, 500)
  <2>1. SameFile(response, r) /\ r.Code = 500
    <3>1. SameFile(response, listing)
      BY <1>0, PagesKeepFile
    <3> HIDE DEF listing
    <3> QED
      BY <3>1, ErrorPageKeepsFile DEF SameFile
  <2> HIDE DEF r
  <2> QED
    BY <1>0, <1>4, <2>1, BuildSound
       DEF ListDirFails, Statting, r
<1>5. CASE OpenPageFails
  BY <1>0, <1>5, BuildSound, ErrorPageKeepsFile DEF OpenPageFails
<1>6. CASE ReadWholeFileEnds
  BY <1>0, <1>6, BuildSound DEF ReadWholeFileEnds, SameFile
<1>7. CASE ReadWholeFileFails
  BY <1>0, <1>7, BuildSound, ErrorPageKeepsFile DEF ReadWholeFileFails
<1> QED
  BY <1>1, <1>2, <1>3, <1>4, <1>5, <1>6, <1>7

(* The file that is going to be sent, and the steps before a page is ready. *)
LEMMA FileSound ==
  ASSUME Sound,
         \/ StaticResolved \/ StatFile \/ StatFileToRead \/ OpenPage
         \/ \E n \in 1 .. BUFSIZE : ReadWholeFile(n)
  PROVE  Sound'
<1> USE DEF Sound, request_vars, send_vars, world_vars, history_vars
<1>1. CASE StaticResolved
  BY <1>1
     DEF StaticResolved, Handling, TypeOK, PCs, FileOfResponse, HandlingState,
         SendingState
<1>2. CASE StatFile
  <2>1. /\ IsResponse(response') /\ response'.should_use_sendfile = TRUE
        /\ response'.file_path_requested = request.arg
        /\ pc' = "build"
    <3>1. response' = WithFile(response, TRUE, request.arg, files[request.arg])
          /\ pc' = "build"
      BY <1>2 DEF StatFile, Build, WithFile
    <3>2. /\ IsResponse(WithFile(response, TRUE, request.arg, files[request.arg]))
          /\ WithFile(response, TRUE, request.arg, files[request.arg]).should_use_sendfile = TRUE
          /\ WithFile(response, TRUE, request.arg, files[request.arg]).file_path_requested
               = request.arg
      <4> PICK flag : flag = TRUE
        OBVIOUS
      <4> DEFINE r == WithFile(response, flag, request.arg, files[request.arg])
      <4>1. IsResponse(response)
        OBVIOUS
      <4>2. /\ IsResponse(r) /\ r.should_use_sendfile = flag
            /\ r.file_path_requested = request.arg
        BY ONLY <4>1, FileIsPut
      <4> QED
        BY ONLY <4>2, flag = TRUE
    <3> QED
      BY ONLY <3>1, <3>2
  <2>2. /\ request.arg \in Paths \ {NULL} /\ files[request.arg] # Directory
        /\ pc = "stat" /\ build.USING_SENDFILE
    BY <1>2, FilesAssumption DEF StatFile, Statting, HandlingState
  <2>3. UNCHANGED <<request_vars, out, attempt_counter, world_vars, history_vars>>
        /\ open_file' = Absent
    BY <1>2 DEF StatFile, Build
  <2>4. TypeOK'
    BY <2>1, <2>2, <2>3 DEF TypeOK, PCs
  <2>5. FileOfResponse' /\ HandlingState'
    BY <2>1, <2>2, <2>3 DEF FileOfResponse, HandlingState
  <2>6. SendingState'
    BY <2>1, <2>2, <2>3 DEF SendingState
  <2> QED
    BY <2>1, <2>3, <2>4, <2>5, <2>6
<1>3. CASE StatFileToRead
  BY <1>3, FilesAssumption
     DEF StatFileToRead, Statting, TypeOK, PCs, FileOfResponse, HandlingState,
         SendingState
<1>4. CASE OpenPage
  <2>1. files[request.arg] \in Nat
    BY <1>4, FilesAssumption DEF OpenPage, HandlingState
  <2> QED
    BY <1>4, <2>1
       DEF OpenPage, TypeOK, PCs, FileOfResponse, HandlingState, SendingState
<1>5. ASSUME NEW n \in 1 .. BUFSIZE, ReadWholeFile(n) PROVE Sound'
  <2> DEFINE body == AppendBuf(response.Body, [k \in 1 .. n |-> FileByte])
  <2>1. response' = [response EXCEPT !.Body = body]
    BY <1>5 DEF ReadWholeFile
  <2>2. SameFile(response, response')
    <3> HIDE DEF body
    <3> QED
      BY <2>1, BodyKeepsFile
  <2> QED
    BY <1>5, <2>2
       DEF ReadWholeFile, SameFile, TypeOK, PCs, FileOfResponse, HandlingState,
           SendingState
<1> QED
  BY <1>1, <1>2, <1>3, <1>4, <1>5

(* Sending keeps the file that goes with the response.                     *)
LEMMA SendSound == ASSUME Sound, Sender PROVE Sound'
<1> USE DEF Sound, TypeOK, PCs, FileOfResponse, HandlingState, SendingState,
            request_vars, send_vars, world_vars, history_vars
<1>1. CASE BuildHeaders
  BY <1>1 DEF BuildHeaders
<1>2. ASSUME NEW n \in 1 .. Len(out), SendAll(n) PROVE Sound'
  BY <1>2 DEF SendAll, AfterSent, Transmit
<1>3. CASE SendAllFails
  BY <1>3 DEF SendAllFails, GivesUp, Transmit
<1>4. CASE OpenFileFails
  BY <1>4 DEF OpenFileFails, GivesUp, Transmit
<1>5. CASE OpenFile
  <2>1. files[response.file_path_requested] \in Nat
    BY <1>5 DEF OpenFile
  <2> QED
    BY <1>5, <2>1, ResponseAssumption DEF OpenFile
<1>6. ASSUME NEW n \in 0 .. response.sent_file_size, SendFile(n) PROVE Sound'
  BY <1>6 DEF SendFile, Transmit
<1>7. CASE SendFileAgain
  BY <1>7, ResponseAssumption DEF SendFileAgain, Again, Transmit
<1>8. CASE SendFileFails
  BY <1>8 DEF SendFileFails, GivesUp, Transmit
<1>9. CASE CloseFile
  BY <1>9 DEF CloseFile
<1>10. CASE Destroy
  <2>1. response'.should_use_sendfile = FALSE /\ response'.file_path_requested = NULL
        /\ IsResponse(response')
    <3>1. response' = NewResponse
      BY <1>10 DEF Destroy
    <3> QED
      BY <3>1 DEF NewResponse, IsResponse
  <2>2. /\ pc' \in {"receive", "returned"} /\ request' = NULL /\ req_keep_alive' = FALSE
        /\ attempt_counter' = 0
        /\ UNCHANGED <<requests, out, open_file, world_vars, history_vars>>
    BY <1>10 DEF Destroy
  <2>3. TypeOK'
    <3>1. 0 \in 0 .. MAX_RESEND_ATTEMPTS
      BY ResponseAssumption
    <3> QED
      BY <2>1, <2>2, <3>1
  <2>4. FileOfResponse' /\ HandlingState' /\ SendingState'
    BY <2>1, <2>2
  <2> QED
    BY <2>1, <2>2, <2>3, <2>4
<1> QED
  BY <1>1, <1>2, <1>3, <1>4, <1>5, <1>6, <1>7, <1>8, <1>9, <1>10 DEF Sender

(* Whoever changes the files has nothing of the server's.                  *)
LEMMA WorldSound ==
  ASSUME Sound, NEW p \in Paths, NEW size \in FileSizes, ChangeFile(p, size)
  PROVE  Sound'
<1> USE DEF Sound, TypeOK, FileOfResponse, HandlingState, SendingState, request_vars,
            send_vars, history_vars
<1>1. size \in Nat \cup {Absent} /\ size # Directory
  BY ResponseAssumption, FilesAssumption
<1>2. /\ files' \in [Paths -> Nat \cup {Absent, Directory}]
      /\ \A o \in Paths : files[o] # Directory => files'[o] # Directory
  BY <1>1 DEF ChangeFile
<1>3. open_file' \in Nat \cup {Absent} /\ changes' \in 0 .. MaxChanges
  BY <1>1, ResponseAssumption DEF ChangeFile
<1> QED
  BY <1>2, <1>3, FilesAssumption DEF ChangeFile

(* Every step keeps it.                                                    *)
LEMMA NextSound == Sound /\ [Next]_vars => Sound'
<1>1. Sound /\ Next => Sound'
  BY ReceiveSound, PageSound, StaticSound, FileSound, SendSound, WorldSound DEF Next, Handler
<1>2. Sound /\ UNCHANGED vars => Sound'
  BY DEF Sound, TypeOK, FileOfResponse, HandlingState, SendingState, vars, request_vars,
         send_vars, world_vars, history_vars
<1> QED
  BY <1>1, <1>2

(* Whatever fails and whoever changes the files: the attempts at a file    *)
(* stay within their limit, and a response that is to be sent with sendfile *)
(* always has the path of a file.                                          *)
THEOREM ResponseIsTyped == Spec => []TypeOK
<1>1. Sound => TypeOK
  BY DEF Sound
<1> QED
  BY InitSound, NextSound, <1>1, PTL DEF Spec

--------------------------------------------------------------------------------
(* String builders.                                                        *)

Doubling == INSTANCE FoldProofs WITH Op <- Times

Printing == INSTANCE FoldProofs WITH Op <- SprintfCell

(* A power is a fold of products: what is known of folds is known of it.   *)
LEMMA PowerIsFold ==
  ASSUME NEW b, NEW k
  PROVE  Power(b, k) = Doubling!Fold(1, [n \in 1 .. k |-> b])
  BY DEF Power, FoldLeft, MapThenFoldSet, Max, Doubling!Fold, Doubling!FoldLeft,
         Doubling!MapThenFoldSet, Doubling!Max

(* The recursion of powers of two: its beginning,                          *)
LEMMA PowerZero == Power(2, 0) = 1
<1>1. [n \in 1 .. 0 |-> 2] = <<>>
  OBVIOUS
<1> QED
  BY <1>1, PowerIsFold, Doubling!FoldEmpty

(* and its step.                                                           *)
LEMMA PowerNext ==
  ASSUME NEW k \in Nat
  PROVE  Power(2, k + 1) = Power(2, k) * 2
<1> DEFINE s == [n \in 1 .. k |-> 2]
           t == [n \in 1 .. k + 1 |-> 2]
<1>1. s \in Seq({2}) /\ 2 \in {2} /\ t = Append(s, 2)
  OBVIOUS
<1> HIDE DEF s, t
<1>2. Doubling!Fold(1, Append(s, 2)) = Times(Doubling!Fold(1, s), 2)
  BY <1>1, Doubling!FoldAppend
<1> QED
  BY <1>1, <1>2, PowerIsFold DEF Times, s, t

(* Doubling gets beyond every number.                                      *)
LEMMA PowerIsAbove ==
  ASSUME NEW k \in Nat
  PROVE  Power(2, k) \in Nat /\ k < Power(2, k)
<1> DEFINE S == {n \in Nat : Power(2, n) \in Nat /\ n < Power(2, n)}
<1>1. 0 \in S
  BY PowerZero
<1>2. ASSUME NEW n \in Nat, n \in S PROVE n + 1 \in S
  BY <1>2, PowerNext
<1> HIDE DEF S
<1>3. k \in S
  BY <1>1, <1>2, Doubling!NatSetInduction
<1> QED
  BY <1>3 DEF S

(* Doubling comes to an end: there is a capacity that is large enough.     *)
LEMMA NewCapacity ==
  ASSUME NEW c \in Nat, NEW n \in Nat
  PROVE  NewCapacityZ(c, n) \in Nat /\ NewCapacityZ(c, n) >= n + 1
<1> DEFINE S == {z \in {(c + 1) * Power(2, k) : k \in 1 .. n + 1} : z >= n + 1}
<1>1. ASSUME NEW k \in 1 .. n + 1 PROVE (c + 1) * Power(2, k) \in Nat
  <2>1. Power(2, k) \in Nat
    BY PowerIsAbove
  <2> QED
    BY <2>1
<1>2. S \in SUBSET Nat
  BY <1>1
<1>3. (c + 1) * Power(2, n + 1) \in S
  <2> DEFINE p == Power(2, n + 1)
  <2>1. p \in Nat /\ n + 1 < p
    BY PowerIsAbove
  <2> HIDE DEF p
  <2>2. c * p \in Nat /\ (c + 1) * p = c * p + p
    BY <2>1
  <2>3. (c + 1) * p >= n + 1
    BY <2>1, <2>2
  <2> QED
    BY <2>3 DEF p
<1>4. NewCapacityZ(c, n) = Min(S)
  BY DEF NewCapacityZ
<1> HIDE DEF S
<1>5. \E z \in S : \A y \in S : z <= y
  <2>1. S # {}
    BY <1>3
  <2> QED
    BY <1>2, <2>1, Doubling!LeastNat
<1>6. Min(S) \in S
  BY <1>5 DEF Min
<1> QED
  BY <1>2, <1>4, <1>6 DEF S

\* The cells 0 .. c and no others.
Spans(d, c) == d = [i \in 0 .. c |-> d[i]]

\* A builder, and the text it keeps; between the two writings of a text that did
\* not fit, what follows that text is no terminator.
IsBuilder(sb) ==
  /\ sb = [Data |-> sb.Data, Length |-> sb.Length, Capacity_ |-> sb.Capacity_]
  /\ sb.Capacity_ \in Nat
  /\ Spans(sb.Data, sb.Capacity_)

Keeps(sb, text) ==
  /\ IsBuilder(sb)
  /\ text \in Seq(Cells)
  /\ sb.Length = Len(text) /\ Len(text) <= sb.Capacity_
  /\ \A i \in 1 .. Len(text) : sb.Data[i - 1] = text[i]

Whole(sb, text) == Keeps(sb, text) /\ sb.Data[sb.Length] = NUL

(* A whole builder holds its text, as Holds says it.                       *)
LEMMA WholeHolds ==
  ASSUME NEW sb, NEW text, Whole(sb, text)
  PROVE  Holds(sb, text) /\ Text(sb) = text
<1>1. /\ DOMAIN sb.Data = 0 .. sb.Capacity_ /\ sb.Length = Len(text) /\ text \in Seq(Cells)
      /\ \A i \in 1 .. Len(text) : sb.Data[i - 1] = text[i]
  BY DEF Whole, Keeps, IsBuilder, Spans
<1>2. Text(sb) = [i \in 1 .. Len(text) |-> text[i]]
  BY <1>1 DEF Text
<1>3. Text(sb) = text
  BY <1>1, <1>2
<1> QED
  BY <1>1, <1>3 DEF Whole, Keeps, Holds

\* The three fields at once: what the operators do to a builder.
Made(data, length, capacity) ==
  [Data |-> data, Length |-> length, Capacity_ |-> capacity]

(* One field of a builder is replaced at a time: the cells,                *)
LEMMA DataPut ==
  ASSUME NEW d, NEW l, NEW c, NEW e
  PROVE  [Made(d, l, c) EXCEPT !.Data = e] = Made(e, l, c)
  BY DEF Made

(* The fields of a builder that is put together.                           *)
LEMMA MadeFields ==
  ASSUME NEW d, NEW l, NEW c
  PROVE  Made(d, l, c).Data = d /\ Made(d, l, c).Length = l /\ Made(d, l, c).Capacity_ = c
  BY DEF Made

(* A new builder is whole and empty.                                       *)
LEMMA NewBuilderWhole == Whole(NewBuilder, <<>>)
<1> DEFINE d == [i \in 0 .. INITIAL_CAPACITY |-> Junk]
           e == Memcpy(d, 0, <<NUL>>)
           sb == Made(e, 0, INITIAL_CAPACITY)
<1>1. NewBuilder = sb
  BY MadeFields, DataPut DEF NewBuilder, EnsureNullTerminated, Made
<1>2. INITIAL_CAPACITY \in Nat
  BY BuilderAssumption
<1>3. Spans(e, INITIAL_CAPACITY) /\ e[0] = NUL
  <2>1. DOMAIN <<NUL>> = {1} /\ DOMAIN d = 0 .. INITIAL_CAPACITY
    OBVIOUS
  <2>2. 0 - 0 + 1 = 1 /\ 0 \in DOMAIN d
    BY <1>2
  <2> QED
    BY <2>1, <2>2 DEF Memcpy, Spans
<1> HIDE DEF e
<1>4. /\ sb.Data = e /\ sb.Length = 0 /\ sb.Capacity_ = INITIAL_CAPACITY
      /\ sb = [Data |-> sb.Data, Length |-> sb.Length, Capacity_ |-> sb.Capacity_]
  BY DEF Made
<1>5. <<>> \in Seq(Cells) /\ Len(<<>>) = 0
  OBVIOUS
<1> HIDE DEF sb
<1> QED
  BY <1>1, <1>2, <1>3, <1>4, <1>5 DEF Whole, Keeps, IsBuilder

\* e is d with s written at a place, as far as it has room.
Written(e, d, c, at, s) ==
  /\ Spans(e, c)
  /\ \A i \in 0 .. c : i < at => e[i] = d[i]
  /\ \A k \in 1 .. Len(s) : at + k - 1 <= c => e[at + k - 1] = s[k]

(* memcpy changes the cells it writes and no others.                       *)
LEMMA MemcpyIs ==
  ASSUME NEW c \in Nat, NEW d, Spans(d, c), NEW at \in Nat, NEW S,
         NEW s \in Seq(S), NEW e, e = Memcpy(d, at, s)
  PROVE  Written(e, d, c, at, s)
<1>1. DOMAIN d = 0 .. c /\ DOMAIN s = 1 .. Len(s) /\ Len(s) \in Nat
  BY DEF Spans
<1>2. e = [i \in 0 .. c |-> IF i - at + 1 \in 1 .. Len(s) THEN s[i - at + 1] ELSE d[i]]
  BY <1>1 DEF Memcpy
<1>3. ASSUME NEW i \in 0 .. c, i < at PROVE e[i] = d[i]
  BY <1>1, <1>2, <1>3
<1>4. ASSUME NEW k \in 1 .. Len(s), at + k - 1 <= c PROVE e[at + k - 1] = s[k]
  <2>1. at + k - 1 \in 0 .. c /\ (at + k - 1) - at + 1 = k
    BY <1>1, <1>4
  <2> QED
    BY <1>2, <2>1
<1>5. Spans(e, c)
  BY <1>2 DEF Spans
<1> QED
  BY <1>3, <1>4, <1>5 DEF Written

(* The fields of a builder that keeps a text.                              *)
LEMMA KeepsFields ==
  ASSUME NEW sb, NEW text, Keeps(sb, text)
  PROVE  /\ sb.Capacity_ \in Nat /\ text \in Seq(Cells)
         /\ sb.Length = Len(text) /\ Len(text) <= sb.Capacity_ /\ Len(text) \in Nat
         /\ Spans(sb.Data, sb.Capacity_)
         /\ \A i \in 1 .. Len(text) : sb.Data[i - 1] = text[i]
  BY DEF Keeps, IsBuilder

(* the length,                                                             *)
LEMMA LengthPut ==
  ASSUME NEW d, NEW l, NEW c, NEW e
  PROVE  [Made(d, l, c) EXCEPT !.Length = e] = Made(d, e, c)
  BY DEF Made

(* and the capacity.                                                       *)
LEMMA CapacityPut ==
  ASSUME NEW d, NEW l, NEW c, NEW e
  PROVE  [Made(d, l, c) EXCEPT !.Capacity_ = e] = Made(d, l, e)
  BY DEF Made

(* A builder is put together from its fields.                              *)
LEMMA BuilderIsMade ==
  ASSUME NEW sb, IsBuilder(sb)
  PROVE  sb = Made(sb.Data, sb.Length, sb.Capacity_)
  BY DEF IsBuilder, Made

(* What has been made keeps the text when its cells do.                    *)
LEMMA MadeKeeps ==
  ASSUME NEW d, NEW c \in Nat, NEW text \in Seq(Cells), Len(text) <= c,
         Spans(d, c),
         \A i \in 1 .. Len(text) : d[i - 1] = text[i]
  PROVE  Keeps(Made(d, Len(text), c), text)
<1> DEFINE sb == Made(d, Len(text), c)
<1>1. /\ sb.Data = d /\ sb.Length = Len(text) /\ sb.Capacity_ = c
      /\ sb = [Data |-> sb.Data, Length |-> sb.Length, Capacity_ |-> sb.Capacity_]
  BY DEF Made
<1> HIDE DEF sb
<1>2. IsBuilder(sb)
  BY <1>1 DEF IsBuilder
<1>3. Keeps(sb, text)
  BY <1>1, <1>2 DEF Keeps
<1> QED
  BY <1>3 DEF sb

(* AllocateFreeSpace keeps the text and makes the room that is needed.     *)
LEMMA AllocateKeeps ==
  ASSUME NEW sb, NEW text, Keeps(sb, text), NEW n \in Nat
  PROVE  LET r == AllocateFreeSpace(sb, n)
         IN  Keeps(r, text) /\ r.Capacity_ >= n
<1> DEFINE r == AllocateFreeSpace(sb, n)
           c == sb.Capacity_
           z == NewCapacityZ(c, n)
           e == Realloc(sb.Data, z)
<1>0. /\ c \in Nat /\ text \in Seq(Cells) /\ sb.Length = Len(text) /\ Len(text) <= c
      /\ Spans(sb.Data, c)
      /\ \A i \in 1 .. Len(text) : sb.Data[i - 1] = text[i]
  BY DEF Keeps, IsBuilder
<1>1. CASE n <= c
  BY <1>1 DEF AllocateFreeSpace
<1>2. CASE ~(n <= c)
  <2>1. z \in Nat /\ z >= n + 1
    BY <1>0, NewCapacity
  <2> HIDE DEF z
  <2>2. z - 1 \in Nat /\ Len(text) <= z - 1 /\ z - 1 >= n
    BY <1>0, <1>2, <2>1
  <2>3. r = Made(e, Len(text), z - 1)
    <3>1. r = [[sb EXCEPT !.Data = e] EXCEPT !.Capacity_ = z - 1]
      BY <1>2 DEF AllocateFreeSpace, z
    <3>2. sb = Made(sb.Data, Len(text), c)
      BY <1>0, BuilderIsMade DEF Keeps
    <3>3. [sb EXCEPT !.Data = e] = Made(e, Len(text), c)
      <4>1. [Made(sb.Data, Len(text), c) EXCEPT !.Data = e] = Made(e, Len(text), c)
        BY ONLY DataPut
      <4> QED
        BY ONLY <3>2, <4>1
    <3>4. [Made(e, Len(text), c) EXCEPT !.Capacity_ = z - 1] = Made(e, Len(text), z - 1)
      BY ONLY CapacityPut
    <3> QED
      BY ONLY <3>1, <3>3, <3>4
  <2>4. /\ Spans(e, z - 1)
        /\ \A i \in 1 .. Len(text) : e[i - 1] = text[i]
    <3>1. \A i \in 1 .. Len(text) : i - 1 \in 0 .. c /\ i - 1 \in 0 .. z - 1
      BY <1>0, <2>2
    <3>2. DOMAIN sb.Data = 0 .. c
      BY <1>0 DEF Spans
    <3> QED
      BY <1>0, <3>1, <3>2 DEF Realloc, Spans
  <2> HIDE DEF r, e
  <2>5. Keeps(r, text)
    BY <1>0, <2>2, <2>3, <2>4, MadeKeeps
  <2>6. r.Capacity_ = z - 1
    BY <2>3, MadeFields
  <2> QED
    BY <2>2, <2>5, <2>6 DEF r
<1> QED
  BY <1>1, <1>2

(* A terminator behind the text makes it whole.                            *)
LEMMA TerminatedIsWhole ==
  ASSUME NEW sb, NEW text, Keeps(sb, text)
  PROVE  Whole(EnsureNullTerminated(sb), text)
<1> DEFINE c == sb.Capacity_
           l == Len(text)
<1>0. /\ c \in Nat /\ text \in Seq(Cells) /\ sb.Length = l /\ l <= c /\ l \in Nat
      /\ Spans(sb.Data, c)
      /\ \A i \in 1 .. l : sb.Data[i - 1] = text[i]
  BY DEF Keeps, IsBuilder
<1>1. <<NUL>> \in Seq({NUL}) /\ Len(<<NUL>>) = 1 /\ <<NUL>>[1] = NUL
  OBVIOUS
<1>m. PICK e : e = Memcpy(sb.Data, sb.Length, <<NUL>>)
  OBVIOUS
<1>w. Written(e, sb.Data, c, l, <<NUL>>)
  BY ONLY <1>0, <1>1, <1>m, MemcpyIs
<1>2. /\ Spans(e, c)
      /\ \A i \in 0 .. c : i < l => e[i] = sb.Data[i]
      /\ \A k \in 1 .. 1 : l + k - 1 <= c => e[l + k - 1] = <<NUL>>[k]
  BY ONLY <1>0, <1>1, <1>w DEF Written
<1>3. EnsureNullTerminated(sb) = Made(e, l, c)
  <2>1. EnsureNullTerminated(sb) = [sb EXCEPT !.Data = e]
    BY <1>m DEF EnsureNullTerminated
  <2>2. sb = Made(sb.Data, l, c)
    BY <1>0, BuilderIsMade DEF Keeps
  <2>3. [Made(sb.Data, l, c) EXCEPT !.Data = e] = Made(e, l, c)
    BY ONLY DataPut
  <2> QED
    BY ONLY <2>1, <2>2, <2>3
<1>4. e[l] = NUL
  BY <1>0, <1>1, <1>2
<1>5. ASSUME NEW i \in 1 .. l PROVE e[i - 1] = text[i]
  <2>1. i - 1 \in 0 .. c /\ i - 1 < l
    BY <1>0
  <2> QED
    BY <1>0, <1>2, <2>1
<1>6. Keeps(Made(e, l, c), text)
  BY <1>0, <1>2, <1>5, MadeKeeps
<1> QED
  BY <1>3, <1>4, <1>6, MadeFields DEF Whole

(* What is written behind the text, as far as there is room, belongs to it. *)
LEMMA WrittenKeeps ==
  ASSUME NEW sb, NEW text, Keeps(sb, text), NEW s \in Seq(Cells), NEW S, NEW w \in Seq(S),
         Len(s) <= Len(w), \A k \in 1 .. Len(s) : w[k] = s[k],
         Len(text) + Len(s) <= sb.Capacity_, NEW e, e = Memcpy(sb.Data, sb.Length, w)
  PROVE  Keeps(Made(e, Len(text) + Len(s), sb.Capacity_), text \o s)
<1> DEFINE c == sb.Capacity_
           l == Len(text)
           whole == text \o s
<1>1. /\ c \in Nat /\ text \in Seq(Cells) /\ sb.Length = l /\ l <= c /\ l \in Nat
      /\ Spans(sb.Data, c)
      /\ \A i \in 1 .. l : sb.Data[i - 1] = text[i]
  BY KeepsFields
<1>2. /\ s \in Seq(Cells) /\ w \in Seq(S) /\ l + Len(s) <= c
      /\ Len(s) \in Nat /\ Len(w) \in Nat
      /\ Len(s) <= Len(w) /\ \A k \in 1 .. Len(s) : w[k] = s[k]
      /\ e = Memcpy(sb.Data, sb.Length, w)
  OBVIOUS
<1>3. Written(e, sb.Data, c, l, w)
  BY ONLY <1>1, <1>2, MemcpyIs
<1>4. /\ Spans(e, c)
      /\ \A i \in 0 .. c : i < l => e[i] = sb.Data[i]
      /\ \A k \in 1 .. Len(w) : l + k - 1 <= c => e[l + k - 1] = w[k]
  BY ONLY <1>3 DEF Written
<1>5. /\ whole \in Seq(Cells) /\ Len(whole) = l + Len(s)
      /\ \A i \in 1 .. l + Len(s) : whole[i] = IF i <= l THEN text[i] ELSE s[i - l]
  BY <1>1
<1> HIDE DEF whole
<1>6. ASSUME NEW i \in 1 .. Len(whole) PROVE e[i - 1] = whole[i]
  <2>1. CASE i <= l
    <3>1. i - 1 \in 0 .. c /\ i - 1 < l /\ i \in 1 .. l /\ i \in 1 .. l + Len(s)
      BY <1>1, <1>2, <2>1
    <3> QED
      BY <1>1, <1>4, <1>5, <2>1, <3>1
  <2>2. CASE i > l
    <3>1. /\ i - l \in 1 .. Len(s) /\ i - l \in 1 .. Len(w)
          /\ l + (i - l) - 1 = i - 1 /\ i - 1 <= c /\ i \in 1 .. l + Len(s) /\ ~(i <= l)
      BY <1>1, <1>2, <1>5, <2>2
    <3>2. e[l + (i - l) - 1] = w[i - l]
      BY <1>4, <3>1
    <3> QED
      BY <1>2, <1>5, <3>1, <3>2
  <2> QED
    BY <1>1, <1>5, <2>1, <2>2
<1>7. Keeps(Made(e, Len(whole), c), whole)
  BY <1>1, <1>2, <1>4, <1>5, <1>6, MadeKeeps
<1> QED
  BY <1>5, <1>7 DEF whole

(* AppendBuf appends, whatever the capacity was.                           *)
LEMMA Appends ==
  ASSUME NEW sb, NEW text, Keeps(sb, text), NEW s \in Seq(Cells)
  PROVE  Whole(AppendBuf(sb, s), text \o s)
<1> DEFINE room == AllocateFreeSpace(sb, sb.Length + Len(s))
           c == room.Capacity_
           l == Len(text)
           e == Memcpy(room.Data, sb.Length, s)
<1>0. sb.Length = l /\ l \in Nat /\ Len(s) \in Nat
  BY DEF Keeps
<1>1. Keeps(room, text) /\ room.Capacity_ >= l + Len(s)
  <2>1. Keeps(sb, text) /\ sb.Length + Len(s) \in Nat
    BY <1>0
  <2> QED
    BY ONLY <1>0, <2>1, AllocateKeeps
<1> HIDE DEF room
<1>2. room.Length = l /\ c \in Nat
  BY <1>1 DEF Keeps, IsBuilder
<1>3. Keeps(Made(e, l + Len(s), c), text \o s)
  <2>1. PICK d : d = e
    OBVIOUS
  <2>2. /\ s \in Seq(Cells) /\ Len(s) <= Len(s) /\ \A k \in 1 .. Len(s) : s[k] = s[k]
        /\ Len(text) + Len(s) <= room.Capacity_ /\ d = Memcpy(room.Data, room.Length, s)
    BY <1>0, <1>1, <1>2, <2>1
  <2>3. Keeps(Made(d, Len(text) + Len(s), room.Capacity_), text \o s)
    BY ONLY <1>1, <2>2, WrittenKeeps
  <2> QED
    BY ONLY <2>1, <2>3
<1>4. AppendBuf(sb, s) = EnsureNullTerminated(Made(e, l + Len(s), c))
  <2>1. AppendBuf(sb, s) =
          EnsureNullTerminated([[room EXCEPT !.Data = e] EXCEPT !.Length = @ + Len(s)])
    BY DEF AppendBuf, room
  <2>2. room = Made(room.Data, l, c)
    BY <1>1, <1>2, BuilderIsMade DEF Keeps
  <2>3. [room EXCEPT !.Data = e] = Made(e, l, c)
    <3>1. [Made(room.Data, l, c) EXCEPT !.Data = e] = Made(e, l, c)
      BY ONLY DataPut
    <3> QED
      BY ONLY <2>2, <3>1
  <2>4. [Made(e, l, c) EXCEPT !.Length = @ + Len(s)] = Made(e, l + Len(s), c)
    <3>1. [Made(e, l, c) EXCEPT !.Length = @ + Len(s)]
            = [Made(e, l, c) EXCEPT !.Length = l + Len(s)]
      BY DEF Made
    <3>2. [Made(e, l, c) EXCEPT !.Length = l + Len(s)] = Made(e, l + Len(s), c)
      BY ONLY LengthPut
    <3> QED
      BY ONLY <3>1, <3>2
  <2> QED
    BY ONLY <2>1, <2>3, <2>4
<1> QED
  BY <1>3, <1>4, TerminatedIsWhole

(* vsnprintf keeps the text; and when the new one fits, it follows the     *)
(* text, with its terminator.                                              *)
LEMMA VsprintfKeeps ==
  ASSUME NEW sb, NEW text, Keeps(sb, text), NEW s \in Seq(Cells)
  PROVE  /\ Len(s) <= FreeSpace(sb) => Whole(VsprintfImpl(sb, s), text \o s)
         /\ ~(Len(s) <= FreeSpace(sb)) => Keeps(VsprintfImpl(sb, s), text)
<1> DEFINE c == sb.Capacity_
           l == Len(text)
           free == FreeSpace(sb)
           w == Append(SubSeq(s, 1, Min({Len(s), (free + 1) - 1})), NUL)
           e == Memcpy(sb.Data, sb.Length, w)
           after == IF Len(s) <= free THEN l + Len(s) ELSE l
<1>1. /\ c \in Nat /\ text \in Seq(Cells) /\ sb.Length = l /\ l <= c /\ l \in Nat
      /\ Spans(sb.Data, c)
      /\ \A i \in 1 .. l : sb.Data[i - 1] = text[i]
  BY KeepsFields
<1>2. /\ Len(s) \in Nat /\ free = c - l /\ free \in Nat /\ (free + 1) - 1 = free
      /\ FreeSpace(sb) = free
  BY <1>1 DEF FreeSpace
<1>3. VsprintfImpl(sb, s) = Made(e, after, c)
  <2>1. VsprintfImpl(sb, s) = [[sb EXCEPT !.Data = e] EXCEPT !.Length =
                                 IF Len(s) <= free THEN @ + Len(s) ELSE @]
    BY DEF VsprintfImpl, Vsnprintf
  <2>2. sb = Made(sb.Data, l, c)
    BY <1>1, BuilderIsMade DEF Keeps
  <2> HIDE DEF e
  <2>3. [sb EXCEPT !.Data = e] = Made(e, l, c)
    <3>1. [Made(sb.Data, l, c) EXCEPT !.Data = e] = Made(e, l, c)
      BY ONLY DataPut
    <3> QED
      BY ONLY <2>2, <3>1
  <2>4. [Made(e, l, c) EXCEPT !.Length = IF Len(s) <= free THEN @ + Len(s) ELSE @]
          = Made(e, after, c)
    <3>1. [Made(e, l, c) EXCEPT !.Length = IF Len(s) <= free THEN @ + Len(s) ELSE @]
            = [Made(e, l, c) EXCEPT !.Length = after]
      BY DEF Made
    <3>2. [Made(e, l, c) EXCEPT !.Length = after] = Made(e, after, c)
      BY ONLY LengthPut
    <3> QED
      BY ONLY <3>1, <3>2
  <2> QED
    BY ONLY <2>1, <2>3, <2>4
<1>4. Min({Len(s), free}) = IF Len(s) <= free THEN Len(s) ELSE free
  <2> DEFINE m == IF Len(s) <= free THEN Len(s) ELSE free
  <2>1. /\ m \in {Len(s), free} /\ \A y \in {Len(s), free} : m <= y
        /\ \A x \in {Len(s), free} : (\A y \in {Len(s), free} : x <= y) => x = m
    BY <1>2
  <2> QED
    BY <2>1 DEF Min
<1> HIDE DEF free
<1>7. w = Append(SubSeq(s, 1, IF Len(s) <= free THEN Len(s) ELSE free), NUL)
  <2>1. Min({Len(s), (free + 1) - 1}) = Min({Len(s), free})
    BY <1>2
  <2> QED
    BY <1>4, <2>1
<1>5. CASE Len(s) <= free
  <2>1. SubSeq(s, 1, Len(s)) = s
    OBVIOUS
  <2>0. w = Append(s, NUL)
    BY <1>5, <1>7, <2>1, Zenon
  <2> HIDE DEF w
  <2>2. /\ w \in Seq(Cells \cup {NUL}) /\ Len(w) = Len(s) + 1
        /\ \A k \in 1 .. Len(s) : w[k] = s[k]
        /\ w[Len(s) + 1] = NUL
    BY <1>2, <2>0
  <2>3. PICK d : d = e
    OBVIOUS
  <2>4. /\ s \in Seq(Cells) /\ w \in Seq(Cells \cup {NUL}) /\ Len(s) <= Len(w)
        /\ \A k \in 1 .. Len(s) : w[k] = s[k]
        /\ Len(text) + Len(s) <= sb.Capacity_ /\ d = Memcpy(sb.Data, sb.Length, w)
        /\ Keeps(sb, text)
    BY <1>1, <1>2, <1>5, <2>2, <2>3
  <2>5. Keeps(Made(d, Len(text) + Len(s), sb.Capacity_), text \o s)
    BY ONLY <2>4, WrittenKeeps
  <2>6. Written(d, sb.Data, c, l, w)
    BY ONLY <1>1, <2>4, MemcpyIs
  <2>7. d[l + Len(s)] = NUL
    <3>1. Len(s) + 1 \in 1 .. Len(w) /\ l + (Len(s) + 1) - 1 = l + Len(s) /\ l + Len(s) <= c
      BY <1>1, <1>2, <1>5, <2>2
    <3>2. \A k \in 1 .. Len(w) : l + k - 1 <= c => d[l + k - 1] = w[k]
      BY ONLY <2>6 DEF Written
    <3> QED
      BY <2>2, <3>1, <3>2
  <2>8. Whole(Made(d, l + Len(s), c), text \o s)
    BY <2>5, <2>7, MadeFields DEF Whole
  <2> QED
    BY <1>2, <1>3, <1>5, <2>3, <2>8
<1>6. CASE ~(Len(s) <= free)
  <2>1. SubSeq(s, 1, free) \in Seq(Cells)
    BY <1>2, <1>6
  <2>0. w = Append(SubSeq(s, 1, free), NUL)
    BY <1>6, <1>7, Zenon
  <2> HIDE DEF w
  <2>2. w \in Seq(Cells \cup {NUL})
    BY <2>0, <2>1
  <2>3. PICK d : d = e
    OBVIOUS
  <2>4. /\ <<>> \in Seq(Cells) /\ Len(<<>>) = 0 /\ Len(<<>>) <= Len(w)
        /\ w \in Seq(Cells \cup {NUL})
        /\ \A k \in 1 .. Len(<<>>) : w[k] = <<>>[k]
        /\ Len(text) + Len(<<>>) <= sb.Capacity_ /\ d = Memcpy(sb.Data, sb.Length, w)
        /\ Keeps(sb, text) /\ Len(text) + Len(<<>>) = l /\ text \o <<>> = text
    BY <1>1, <1>2, <2>2, <2>3
  <2>5. Keeps(Made(d, Len(text) + Len(<<>>), sb.Capacity_), text \o <<>>)
    BY ONLY <2>4, WrittenKeeps
  <2>6. Keeps(Made(d, l, c), text)
    BY ONLY <2>4, <2>5
  <2> QED
    BY <1>2, <1>3, <1>6, <2>3, <2>6
<1> QED
  BY <1>5, <1>6

(* Sprintf prints, whether the text has to be written twice or not.        *)
LEMMA Prints ==
  ASSUME NEW sb, NEW text, Keeps(sb, text), NEW s \in Seq(Cells)
  PROVE  Whole(Sprintf(sb, s), text \o s)
<1>1. CASE Len(s) <= FreeSpace(sb)
  BY <1>1, VsprintfKeeps DEF Sprintf
<1>2. CASE ~(Len(s) <= FreeSpace(sb))
  <2> DEFINE tried == VsprintfImpl(sb, s)
             room == AllocateFreeSpace(tried, sb.Length + Len(s))
  <2>1. Keeps(tried, text)
    BY <1>2, VsprintfKeeps
  <2>2. sb.Length = Len(text) /\ Len(text) \in Nat /\ Len(s) \in Nat
        /\ sb.Length + Len(s) \in Nat
    BY KeepsFields
  <2> HIDE DEF tried
  <2>3. Keeps(room, text) /\ room.Capacity_ >= sb.Length + Len(s)
    BY ONLY <2>1, <2>2, AllocateKeeps
  <2> HIDE DEF room
  <2>4. room.Length = Len(text) /\ room.Capacity_ \in Nat
    BY <2>3, KeepsFields
  <2>5. Len(s) <= FreeSpace(room)
    BY <2>2, <2>3, <2>4 DEF FreeSpace
  <2>6. Whole(VsprintfImpl(room, s), text \o s)
    BY <2>3, <2>5, VsprintfKeeps
  <2> QED
    BY <1>2, <2>6 DEF Sprintf, room, tried
<1> QED
  BY <1>1, <1>2

(* Clear leaves a whole builder with nothing in it, whatever was there.    *)
LEMMA ClearIsEmpty ==
  ASSUME NEW sb, NEW text, Keeps(sb, text)
  PROVE  Whole(Clear(sb), <<>>)
<1> DEFINE c == sb.Capacity_
           d == sb.Data
<1>1. c \in Nat /\ Spans(d, c)
  BY KeepsFields
<1>2. <<>> \in Seq(Cells) /\ Len(<<>>) = 0 /\ Len(<<>>) <= c
      /\ \A i \in 1 .. Len(<<>>) : d[i - 1] = <<>>[i]
  BY <1>1
<1>3. Keeps(Made(d, Len(<<>>), c), <<>>)
  BY <1>1, <1>2, MadeKeeps DEF Spans
<1>4. Clear(sb) = EnsureNullTerminated(Made(d, Len(<<>>), c))
  <2>1. sb = Made(d, sb.Length, c)
    BY BuilderIsMade DEF Keeps
  <2>2. [Made(d, sb.Length, c) EXCEPT !.Length = 0] = Made(d, 0, c)
    BY ONLY LengthPut
  <2>3. [sb EXCEPT !.Length = 0] = Made(d, 0, c)
    BY ONLY <2>1, <2>2
  <2> QED
    BY <1>2, <2>3 DEF Clear
<1> QED
  BY <1>3, <1>4, TerminatedIsWhole

(* Printing cell after cell is a fold.                                     *)
LEMMA PrintingIsFold ==
  ASSUME NEW sb, NEW cells
  PROVE  SprintfAll(sb, cells) = Printing!Fold(sb, cells)
  BY DEF SprintfAll, FoldLeft, MapThenFoldSet, Max, Printing!Fold, Printing!FoldLeft,
         Printing!MapThenFoldSet, Printing!Max

(* So does one printing after another.                                     *)
LEMMA PrintsAll ==
  ASSUME NEW sb, NEW text, Whole(sb, text), NEW cells \in Seq(Cells)
  PROVE  Whole(SprintfAll(sb, cells), text \o cells)
<1> DEFINE After(k) == Printing!Fold(sb, SubSeq(cells, 1, k))
           S == {k \in Nat : k <= Len(cells) => Whole(After(k), text \o SubSeq(cells, 1, k))}
<1>0. text \in Seq(Cells) /\ Len(cells) \in Nat
  BY DEF Whole, Keeps
<1>1. 0 \in S
  <2>1. SubSeq(cells, 1, 0) = <<>> /\ text \o <<>> = text
    BY <1>0
  <2>2. Printing!Fold(sb, <<>>) = sb
    BY Printing!FoldEmpty
  <2> QED
    BY <2>1, <2>2
<1>2. ASSUME NEW k \in Nat, k \in S PROVE k + 1 \in S
  <2> SUFFICES ASSUME k + 1 <= Len(cells)
               PROVE  Whole(After(k + 1), text \o SubSeq(cells, 1, k + 1))
    OBVIOUS
  <2> DEFINE p == SubSeq(cells, 1, k)
             q == SubSeq(cells, 1, k + 1)
             x == cells[k + 1]
  <2>1. k + 1 \in 1 .. Len(cells) /\ (k + 1) - 1 = k /\ cells \in Seq(Cells)
    BY <1>0
  <2>2. After(k + 1) = SprintfCell(After(k), x)
    BY ONLY <2>1, Printing!FoldPrefix
  <2>3. Whole(After(k), text \o p)
    BY <1>2, <2>1
  <2>4. p \in Seq(Cells) /\ x \in Cells /\ <<x>> \in Seq(Cells) /\ q = p \o <<x>>
    BY <2>1
  <2> HIDE DEF p, q, x, After
  <2>5. Whole(SprintfCell(After(k), x), (text \o p) \o <<x>>)
    BY <2>3, <2>4, Prints DEF SprintfCell, Whole
  <2>6. (text \o p) \o <<x>> = text \o q
    <3>1. PICK t : t = <<x>>
      OBVIOUS
    <3>2. text \in Seq(Cells) /\ p \in Seq(Cells) /\ t \in Seq(Cells)
      BY <1>0, <2>4, <3>1
    <3>3. (text \o p) \o t = text \o (p \o t)
      BY ONLY <3>2, ConcatAssociative
    <3> QED
      BY <2>4, <3>1, <3>3
  <2> QED
    BY <2>2, <2>5, <2>6 DEF q
<1> HIDE DEF S
<1>3. Len(cells) \in S
  BY <1>0, <1>1, <1>2, Printing!NatSetInduction
<1>4. SubSeq(cells, 1, Len(cells)) = cells
  OBVIOUS
<1>5. Whole(After(Len(cells)), text \o SubSeq(cells, 1, Len(cells)))
  BY <1>0, <1>3 DEF S
<1> QED
  BY <1>4, <1>5, PrintingIsFold

--------------------------------------------------------------------------------
(* Pages.                                                                  *)

LEMMA PageCells ==
  /\ Html \in Cells /\ FileByte \in Cells /\ HeaderLine \in Cells /\ Blank \in Cells
  /\ \A n \in Int : /\ PageNo(n) \in Cells /\ Image(n) \in Cells /\ PageLink(n) \in Cells
                    /\ Bitmap(n) \in Cells /\ Entry(n) \in Cells /\ Error(n) \in Cells
                    /\ <<"status", n>> \in Cells /\ <<"length", n>> \in Cells
<1>1. ASSUME NEW s \in Kinds, NEW n \in Int PROVE <<s, n>> \in Cells
  BY DEF Cells
<1>2. /\ "html" \in Kinds /\ "page" \in Kinds /\ "image" \in Kinds /\ "link" \in Kinds
      /\ "bitmap" \in Kinds /\ "entry" \in Kinds /\ "error" \in Kinds /\ "file" \in Kinds
      /\ "header" \in Kinds /\ "blank" \in Kinds /\ "status" \in Kinds
      /\ "length" \in Kinds
  BY DEF Kinds
<1>3. Html \in Cells /\ FileByte \in Cells /\ HeaderLine \in Cells /\ Blank \in Cells
  <2>1. 0 \in Int
    OBVIOUS
  <2> QED
    BY <1>1, <1>2, <2>1 DEF Html, FileByte, HeaderLine, Blank
<1>4. ASSUME NEW n \in Int
      PROVE  /\ PageNo(n) \in Cells /\ Image(n) \in Cells /\ PageLink(n) \in Cells
             /\ Bitmap(n) \in Cells /\ Entry(n) \in Cells /\ Error(n) \in Cells
             /\ <<"status", n>> \in Cells /\ <<"length", n>> \in Cells
  BY <1>1, <1>2 DEF PageNo, Image, PageLink, Bitmap, Entry, Error
<1> QED
  BY <1>3, <1>4

\* The sizes of the index.
LEMMA PageNumbers ==
  /\ CIFAR_IMG_PER_PAGE \in Nat \ {0} /\ CIFAR_NUM_PAGES \in Nat \ {0}
  /\ CIFAR_NUM_IMAGES = CIFAR_NUM_PAGES * CIFAR_IMG_PER_PAGE
<1> DEFINE m == CIFAR_IMG_PER_PAGE
           k == CIFAR_NUM_PAGES
           n == CIFAR_NUM_IMAGES
<1>1. m \in Nat \ {0}
  <2>1. \A t \in Nat \ {0} : t * t \in Nat \ {0}
    OBVIOUS
  <2> QED
    BY <2>1, ResourcesAssumption DEF CIFAR_IMG_PER_PAGE
<1>2. n \in Nat \ {0} /\ n % m = 0 /\ k = n \div m
  BY ResourcesAssumption, PicturesAssumption DEF CIFAR_NUM_PAGES
<1> HIDE DEF m, k, n
<1>3. k \in Nat /\ n = m * k + (n % m)
  BY <1>1, <1>2
<1>4. n = m * k
  BY <1>1, <1>2, <1>3
<1>5. k # 0
  BY <1>1, <1>2, <1>4
<1>6. m * k = k * m
  BY <1>1, <1>3
<1> QED
  BY <1>1, <1>3, <1>4, <1>5, <1>6 DEF m, k, n

(* The pages before and after a page are pages, in a circle.               *)
LEMMA Neighbours ==
  ASSUME NEW p \in 0 .. CIFAR_NUM_PAGES - 1
  PROVE  /\ PreviousPage(p) = (p - 1) % CIFAR_NUM_PAGES
         /\ NextPage(p) = (p + 1) % CIFAR_NUM_PAGES
         /\ PreviousPage(p) \in 0 .. CIFAR_NUM_PAGES - 1
         /\ NextPage(p) \in 0 .. CIFAR_NUM_PAGES - 1
<1> DEFINE k == CIFAR_NUM_PAGES
<1>1. k \in Nat \ {0}
  BY PageNumbers
<1> HIDE DEF k
<1>2. p \in 0 .. k - 1
  BY DEF k
<1>3. (p - 1) % k = IF p > 0 THEN p - 1 ELSE k - 1
  <2>1. CASE p > 0
    BY <1>1, <1>2, <2>1
  <2>2. CASE p = 0
    BY <1>1, <2>2
  <2> QED
    BY <1>2, <2>1, <2>2
<1>4. (p + 1) % k = IF p + 1 < k THEN p + 1 ELSE 0
  <2>1. CASE p + 1 < k
    BY <1>1, <1>2, <2>1
  <2>2. CASE p + 1 = k
    BY <1>1, <2>2
  <2> QED
    BY <1>1, <1>2, <2>1, <2>2
<1> QED
  BY <1>1, <1>2, <1>3, <1>4 DEF PreviousPage, NextPage, k

(* Sequences with the same elements at the same places are equal.          *)
LEMMA SameElements ==
  ASSUME NEW S, NEW s \in Seq(S), NEW T, NEW t \in Seq(T), Len(s) = Len(t),
         \A i \in 1 .. Len(s) : s[i] = t[i]
  PROVE  s = t
  OBVIOUS

(* A text that is put together from its pieces.                            *)
LEMMA PiecedHead ==
  ASSUME NEW a \in Cells, NEW b \in Cells
  PROVE  (<<>> \o <<a>>) \o <<b>> = <<a, b>>
<1>1. <<a>> \in Seq(Cells) /\ <<>> \o <<a>> = <<a>>
  BY ConcatEmptySeq
<1>2. <<a>> \o <<b>> = <<a, b>>
  <2> DEFINE u == <<a>> \o <<b>>
  <2>1. u \in Seq(Cells) /\ Len(u) = 2 /\ u[1] = a /\ u[2] = b
    <3>1. <<a>> \in Seq(Cells) /\ <<b>> \in Seq(Cells) /\ Len(<<a>>) = 1 /\ Len(<<b>>) = 1
      OBVIOUS
    <3> QED
      BY <3>1
  <2> HIDE DEF u
  <2>2. <<a, b>> \in Seq(Cells) /\ Len(<<a, b>>) = 2
    OBVIOUS
  <2>3. u = <<a, b>>
    BY <2>1, <2>2
  <2> QED
    BY <2>3 DEF u
<1> QED
  BY <1>1, <1>2

PieceByPiece(a, b, t, c, d, e) ==
  (((((<<>> \o <<a>>) \o <<b>>) \o t) \o <<c>>) \o <<d>>) \o <<e>>

Framed(a, b, t, c, d, e) == (<<a, b>> \o t) \o <<c, d, e>>

(* Two cells, a row of them, and what comes behind.                        *)
LEMMA Pieced ==
  ASSUME NEW t \in Seq(Cells), NEW a \in Cells, NEW b \in Cells, NEW c \in Cells,
         NEW d \in Cells, NEW e \in Cells
  PROVE  PieceByPiece(a, b, t, c, d, e) = Framed(a, b, t, c, d, e)
<1>1. (<<>> \o <<a>>) \o <<b>> = <<a, b>>
  BY PiecedHead
<1> DEFINE x == <<a, b>> \o t
<1>2. x \in Seq(Cells)
  OBVIOUS
<1> HIDE DEF x
<1>3. ((x \o <<c>>) \o <<d>>) \o <<e>> = x \o <<c, d, e>>
  <2> DEFINE u == ((x \o <<c>>) \o <<d>>) \o <<e>>
             v == x \o <<c, d, e>>
  <2>1. /\ u \in Seq(Cells) /\ Len(u) = Len(x) + 3 /\ Len(x) \in Nat
        /\ \A i \in 1 .. Len(x) : u[i] = x[i]
        /\ u[Len(x) + 1] = c /\ u[Len(x) + 2] = d /\ u[Len(x) + 3] = e
    <3> DEFINE y == x \o <<c>>
               z == y \o <<d>>
    <3>1. /\ y \in Seq(Cells) /\ Len(y) = Len(x) + 1 /\ Len(x) \in Nat
          /\ \A i \in 1 .. Len(x) : y[i] = x[i]
          /\ y[Len(x) + 1] = c
      BY <1>2
    <3> HIDE DEF y
    <3>2. /\ z \in Seq(Cells) /\ Len(z) = Len(x) + 2
          /\ \A i \in 1 .. Len(x) : z[i] = x[i]
          /\ z[Len(x) + 1] = c /\ z[Len(x) + 2] = d
      BY <3>1
    <3> HIDE DEF z
    <3>3. /\ z \o <<e>> \in Seq(Cells) /\ Len(z \o <<e>>) = Len(x) + 3
          /\ \A i \in 1 .. Len(x) : (z \o <<e>>)[i] = x[i]
          /\ (z \o <<e>>)[Len(x) + 1] = c /\ (z \o <<e>>)[Len(x) + 2] = d
          /\ (z \o <<e>>)[Len(x) + 3] = e
      BY <3>1, <3>2
    <3> QED
      BY <3>1, <3>3 DEF y, z
  <2>2. /\ v \in Seq(Cells) /\ Len(v) = Len(x) + 3
        /\ \A i \in 1 .. Len(x) : v[i] = x[i]
        /\ v[Len(x) + 1] = c /\ v[Len(x) + 2] = d /\ v[Len(x) + 3] = e
    <3>1. <<c, d, e>> \in Seq(Cells) /\ Len(<<c, d, e>>) = 3
      OBVIOUS
    <3> QED
      BY <1>2, <3>1
  <2> HIDE DEF u, v
  <2>3. ASSUME NEW i \in 1 .. Len(u) PROVE u[i] = v[i]
    <3>1. i \in 1 .. Len(x) \/ i = Len(x) + 1 \/ i = Len(x) + 2 \/ i = Len(x) + 3
      BY <2>1
    <3> QED
      BY <2>1, <2>2, <3>1
  <2>4. Len(u) = Len(v)
    BY <2>1, <2>2
  <2>5. u = v
    BY <2>1, <2>2, <2>3, <2>4, SameElements
  <2> QED
    BY <2>5 DEF u, v
<1> QED
  BY <1>1, <1>3 DEF x, PieceByPiece, Framed

(* The page of an error is the error, whatever there was of another page.  *)
LEMMA ErrorBody ==
  ASSUME NEW sb, NEW text, Keeps(sb, text), NEW code \in Int
  PROVE  Whole(Sprintf(Clear(sb), <<Error(code)>>), <<Error(code)>>)
<1> DEFINE e == <<Error(code)>>
<1>1. e \in Seq(Cells) /\ <<>> \o e = e
  <2>1. Error(code) \in Cells
    BY PageCells
  <2>2. e \in Seq(Cells)
    BY <2>1
  <2> QED
    BY <2>2, ConcatEmptySeq
<1> HIDE DEF e
<1>2. Keeps(Clear(sb), <<>>)
  BY ClearIsEmpty DEF Whole
<1>3. Whole(Sprintf(Clear(sb), e), <<>> \o e)
  BY ONLY <1>1, <1>2, Prints
<1> QED
  BY <1>1, <1>3 DEF e

(* A picture is put into a body that is cleared first.                     *)
LEMMA BitmapBodyIs ==
  ASSUME NEW sb, NEW text, Keeps(sb, text), NEW n \in Int
  PROVE  Whole(AppendBuf(Clear(sb), <<Bitmap(n)>>), <<Bitmap(n)>>)
<1> DEFINE e == <<Bitmap(n)>>
<1>1. e \in Seq(Cells) /\ <<>> \o e = e
  <2>1. Bitmap(n) \in Cells
    BY PageCells
  <2>2. e \in Seq(Cells)
    BY <2>1
  <2> QED
    BY <2>2, ConcatEmptySeq
<1> HIDE DEF e
<1>2. Keeps(Clear(sb), <<>>)
  BY ClearIsEmpty DEF Whole
<1>3. Whole(AppendBuf(Clear(sb), e), <<>> \o e)
  BY ONLY <1>1, <1>2, Appends
<1> QED
  BY <1>1, <1>3 DEF e

(* One cell more, printed or appended.                                     *)
LEMMA OneCell ==
  ASSUME NEW sb, NEW text, Whole(sb, text), NEW x \in Cells
  PROVE  Whole(Sprintf(sb, <<x>>), text \o <<x>>) /\ Whole(AppendBuf(sb, <<x>>), text \o <<x>>)
<1>1. <<x>> \in Seq(Cells)
  OBVIOUS
<1>2. Keeps(sb, text)
  BY DEF Whole
<1> QED
  BY ONLY <1>1, <1>2, Prints, Appends

(* A table of cells between a head and a foot.                             *)
LEMMA ListingBodyIs ==
  ASSUME NEW sb, Whole(sb, <<>>), NEW n \in Nat
  PROVE  Whole(ListingBody(sb, n), ListingText(n))
<1> DEFINE h == Html
           p == PageNo(0)
           t == [i \in 1 .. n |-> Entry(i)]
           s1 == AppendBuf(sb, <<h>>)
           s2 == Sprintf(s1, <<p>>)
           s3 == SprintfAll(s2, t)
           s4 == AppendBuf(s3, <<h>>)
<1>1. h \in Cells /\ p \in Cells /\ t \in Seq(Cells)
  <2>1. ASSUME NEW i \in 1 .. n PROVE Entry(i) \in Cells
    <3>1. i \in Int
      OBVIOUS
    <3> QED
      BY <3>1, PageCells
  <2>2. 0 \in Int /\ t \in Seq(Cells)
    BY <2>1
  <2> QED
    BY <2>2, PageCells
<1>2. ListingBody(sb, n) = s4 /\ ListingText(n) = (<<h, p>> \o t) \o <<h>>
  BY DEF ListingBody, ListingText
<1> HIDE DEF h, p, t, s1, s2, s3, s4
<1>3. Whole(s1, <<>> \o <<h>>)
  BY <1>1, OneCell DEF s1
<1>4. Whole(s2, (<<>> \o <<h>>) \o <<p>>)
  BY <1>1, <1>3, OneCell DEF s2
<1>5. Whole(s3, ((<<>> \o <<h>>) \o <<p>>) \o t)
  BY <1>1, <1>4, PrintsAll DEF s3
<1>6. Whole(s4, (((<<>> \o <<h>>) \o <<p>>) \o t) \o <<h>>)
  BY <1>1, <1>5, OneCell DEF s4
<1>7. (((<<>> \o <<h>>) \o <<p>>) \o t) \o <<h>> = (<<h, p>> \o t) \o <<h>>
  BY <1>1, PiecedHead
<1> QED
  BY <1>2, <1>6, <1>7

(* The body of an index page is its text, whole.                           *)
LEMMA IndexBodyIs ==
  ASSUME NEW sb, Whole(sb, <<>>), NEW page \in 0 .. CIFAR_NUM_PAGES - 1
  PROVE  Whole(IndexBody(sb, page), IndexText(page))
<1> DEFINE h == Html
           p == PageNo(page)
           t == [i \in 1 .. CIFAR_IMG_PER_PAGE |-> Image(page * CIFAR_IMG_PER_PAGE + i - 1)]
           l == PageLink(PreviousPage(page))
           r == PageLink(NextPage(page))
           s1 == AppendBuf(sb, <<h>>)
           s2 == Sprintf(s1, <<p>>)
           s3 == SprintfAll(s2, t)
           s4 == Sprintf(s3, <<l>>)
           s5 == Sprintf(s4, <<r>>)
           s6 == AppendBuf(s5, <<h>>)
<1>1. h \in Cells /\ p \in Cells /\ l \in Cells /\ r \in Cells /\ t \in Seq(Cells)
  <2>1. ASSUME NEW i \in 1 .. CIFAR_IMG_PER_PAGE
        PROVE  Image(page * CIFAR_IMG_PER_PAGE + i - 1) \in Cells
    <3>1. page \in Int /\ CIFAR_IMG_PER_PAGE \in Int /\ i \in Int
      BY PageNumbers
    <3>2. page * CIFAR_IMG_PER_PAGE + i - 1 \in Int
      BY <3>1
    <3> QED
      BY <3>2, PageCells
  <2>2. page \in Int /\ PreviousPage(page) \in Int /\ NextPage(page) \in Int
    BY Neighbours, PageNumbers
  <2>3. t \in Seq(Cells)
    BY <2>1, PageNumbers
  <2> QED
    BY <2>2, <2>3, PageCells
<1>2. /\ IndexBody(sb, page) = s6
      /\ IndexText(page) = Framed(h, p, t, l, r, h)
  BY Neighbours DEF IndexBody, IndexText, Framed
<1> HIDE DEF h, p, t, l, r, s1, s2, s3, s4, s5, s6
<1>3. Whole(s1, <<>> \o <<h>>)
  BY <1>1, OneCell DEF s1
<1>4. Whole(s2, (<<>> \o <<h>>) \o <<p>>)
  BY <1>1, <1>3, OneCell DEF s2
<1>5. Whole(s3, ((<<>> \o <<h>>) \o <<p>>) \o t)
  BY <1>1, <1>4, PrintsAll DEF s3
<1>6. Whole(s4, (((<<>> \o <<h>>) \o <<p>>) \o t) \o <<l>>)
  BY <1>1, <1>5, OneCell DEF s4
<1>7. Whole(s5, ((((<<>> \o <<h>>) \o <<p>>) \o t) \o <<l>>) \o <<r>>)
  BY <1>1, <1>6, OneCell DEF s5
<1>8. Whole(s6, (((((<<>> \o <<h>>) \o <<p>>) \o t) \o <<l>>) \o <<r>>) \o <<h>>)
  BY <1>1, <1>7, OneCell DEF s6
<1>9. PieceByPiece(h, p, t, l, r, h) = Framed(h, p, t, l, r, h)
  BY ONLY <1>1, Pieced
<1> QED
  BY <1>2, <1>8, <1>9 DEF PieceByPiece

--------------------------------------------------------------------------------
(* What is in the body of a response.                                      *)

Codes == {200, 400, 404, 405, 500}

Shows(r, code, text) == r.Code = code /\ Whole(r.Body, text)

FileText(n) == [i \in 1 .. n |-> FileByte]

BuildingPCs == {"receive", "handle", "stat", "open_page"}
SendingPCs == {"build", "headers", "body", "open", "sendfile", "close", "destroy"}

\* A good answer is to a good request.
Answers200 ==
  /\ request \in Requests /\ request.route \in {"index", "image", "static"}
  /\ request.route = "index" => request.arg \in 0 .. CIFAR_NUM_PAGES - 1
  /\ request.route = "image" =>
       /\ PictureInRange(request.arg)
       /\ \/ WholeInFile(request.arg, pictures_size)
          \/ /\ build.USING_MMAP_INSTEAD_READ
             /\ ~LoadRefuses(request.arg, pictures_size)

\* A file that sendfile is to send is the one that was asked for, and has no body.
SendsFileAskedFor ==
  /\ Shows(response, 200, <<>>)
  /\ request.route = "static" /\ response.file_path_requested = request.arg
  /\ response.sent_file_size \in Nat

Content ==
  /\ response.Code \in Codes
  /\ pc \in BuildingPCs => Shows(response, 200, <<>>)
  /\ pc = "read" => Shows(response, 200, FileText(response.Body.Length))
  /\ pc \in SendingPCs =>
       /\ IF response.should_use_sendfile THEN SendsFileAskedFor
          ELSE Shows(response, response.Code, Page(request, response))
       /\ response.Code = 200 => Answers200

(* An error page shows its code, whatever was in the body.                 *)
LEMMA ErrorShows ==
  ASSUME NEW r, NEW text, IsResponse(r), Keeps(r.Body, text), NEW code \in Int
  PROVE  Shows(CreateErrorPage(r, code), code, <<Error(code)>>)
<1> DEFINE body == Sprintf(Clear(r.Body), <<Error(code)>>)
<1>1. Whole(body, <<Error(code)>>)
  BY ErrorBody
<1> HIDE DEF body
<1>2. CreateErrorPage(r, code) = Recoded(r, code, body)
  BY DEF CreateErrorPage, Recoded, body
<1>3. Recoded(r, code, body).Body = body /\ Recoded(r, code, body).Code = code
  BY CodeKeepsFile
<1> QED
  BY <1>1, <1>2, <1>3 DEF Shows

(* An index page shows its text; a page that is none is an error.          *)
LEMMA IndexShows ==
  ASSUME NEW r, IsResponse(r), Shows(r, 200, <<>>), NEW page \in Int
  PROVE  IF page \in 0 .. CIFAR_NUM_PAGES - 1
         THEN Shows(CreateIndexPage(r, page), 200, IndexText(page))
         ELSE Shows(CreateIndexPage(r, page), 404, <<Error(404)>>)
<1>1. CASE page \in 0 .. CIFAR_NUM_PAGES - 1
  <2> DEFINE body == IndexBody(r.Body, page)
  <2>1. Whole(body, IndexText(page))
    BY <1>1, IndexBodyIs DEF Shows
  <2> HIDE DEF body
  <2>2. [r EXCEPT !.Body = body].Body = body /\ [r EXCEPT !.Body = body].Code = r.Code
    BY BodyKeepsFile
  <2>3. CreateIndexPage(r, page) = [r EXCEPT !.Body = body]
    BY <1>1, PageNumbers DEF CreateIndexPage, body
  <2> QED
    BY <1>1, <2>1, <2>2, <2>3 DEF Shows
<1>2. CASE page \notin 0 .. CIFAR_NUM_PAGES - 1
  <2>1. CreateIndexPage(r, page) = CreateErrorPage(r, 404)
    BY <1>2, PageNumbers DEF CreateIndexPage
  <2>2. Keeps(r.Body, <<>>) /\ 404 \in Int
    BY DEF Shows, Whole
  <2> QED
    BY <1>2, <2>1, <2>2, ErrorShows
<1> QED
  BY <1>1, <1>2

(* A listing shows its entries.                                            *)
LEMMA ListingShows ==
  ASSUME NEW r, IsResponse(r), Shows(r, 200, <<>>), NEW n \in Nat
  PROVE  Shows(DirListing(r, n), 200, ListingText(n))
<1> DEFINE body == ListingBody(r.Body, n)
<1>1. Whole(body, ListingText(n))
  BY ListingBodyIs DEF Shows
<1> HIDE DEF body
<1>2. [r EXCEPT !.Body = body].Body = body /\ [r EXCEPT !.Body = body].Code = r.Code
  BY BodyKeepsFile
<1> QED
  BY <1>1, <1>2 DEF Shows, DirListing, body

(* The answer with a picture shows the picture.                            *)
LEMMA BitmapShows ==
  ASSUME NEW r, IsResponse(r), Shows(r, 200, <<>>), NEW n \in Int
  PROVE  Shows(BitmapBody(r, n), 200, <<Bitmap(n)>>)
<1> DEFINE body == AppendBuf(Clear(r.Body), <<Bitmap(n)>>)
<1>1. Whole(body, <<Bitmap(n)>>)
  BY BitmapBodyIs DEF Shows, Whole
<1> HIDE DEF body
<1>2. [r EXCEPT !.Body = body].Body = body /\ [r EXCEPT !.Body = body].Code = r.Code
  BY BodyKeepsFile
<1>3. BitmapBody(r, n) = [r EXCEPT !.Body = body]
  BY DEF BitmapBody, body
<1> QED
  BY <1>1, <1>2, <1>3 DEF Shows

(* The page that is due, in each case.                                     *)
LEMMA PageIs ==
  ASSUME NEW q, NEW r
  PROVE  /\ r.Code # 200 => Page(q, r) = <<Error(r.Code)>>
         /\ r.Code = 200 /\ q.route = "index" => Page(q, r) = IndexText(q.arg)
         /\ r.Code = 200 /\ q.route = "image" =>
              Page(q, r) = <<Bitmap(PictureRead(q.arg, pictures_size))>>
         /\ r.Code = 200 /\ q.route = "static" /\ files[q.arg] # Directory =>
              Page(q, r) = FileText(ContentLength(r))
         /\ r.Code = 200 /\ q.route = "static" /\ files[q.arg] = Directory =>
              Page(q, r) = ListingText(ENTRIES)
<1> DEFINE error == <<Error(r.Code)>>
           index == IndexText(q.arg)
           bitmap == <<Bitmap(PictureRead(q.arg, pictures_size))>>
           file == [i \in 1 .. ContentLength(r) |-> FileByte]
           listing == ListingText(ENTRIES)
<1>1. Page(q, r) =
        CASE r.Code # 200 -> error
          [] r.Code = 200 /\ q.route = "index" -> index
          [] r.Code = 200 /\ q.route = "image" -> bitmap
          [] r.Code = 200 /\ q.route = "static" /\ files[q.arg] # Directory -> file
          [] OTHER -> listing
  BY DEF Page
<1>2. file = FileText(ContentLength(r))
  BY DEF FileText
<1> HIDE DEF error, index, bitmap, file, listing
<1>3. CASE r.Code # 200
  <2>1. Page(q, r) = error
    BY <1>1, <1>3
  <2> QED
    BY <1>3, <2>1 DEF error
<1>4. CASE r.Code = 200 /\ q.route = "index"
  <2>1. Page(q, r) = index
    BY <1>1, <1>4
  <2> QED
    BY <1>4, <2>1 DEF index
<1>5. CASE r.Code = 200 /\ q.route = "image"
  <2>1. Page(q, r) = bitmap
    BY <1>1, <1>5
  <2> QED
    BY <1>5, <2>1 DEF bitmap
<1>6. CASE r.Code = 200 /\ q.route = "static" /\ files[q.arg] # Directory
  <2>1. Page(q, r) = file
    BY <1>1, <1>6
  <2> QED
    BY <1>2, <1>6, <2>1
<1>7. CASE r.Code = 200 /\ q.route = "static" /\ files[q.arg] = Directory
  <2>1. Page(q, r) = listing
    BY <1>1, <1>7
  <2> QED
    BY <1>7, <2>1 DEF listing
<1>8. CASE r.Code = 200 /\ q.route \notin {"index", "image", "static"}
  BY <1>8
<1> QED
  BY <1>3, <1>4, <1>5, <1>6, <1>7, <1>8

(* The first response is empty and good.                                   *)
LEMMA InitContent == Init => Content
<1> SUFFICES ASSUME Init PROVE Content
  OBVIOUS
<1>1. pc = "receive" /\ response = NewResponse
  BY DEF Init
<1>2. NewResponse.Body = NewBuilder /\ NewResponse.Code = 200
  BY DEF NewResponse
<1> QED
  BY <1>1, <1>2, NewBuilderWhole DEF Content, Codes, Shows, BuildingPCs, SendingPCs

(* A response that is ready, and shows the page that is due.               *)
LEMMA BuildContent ==
  ASSUME Sound, NEW r, Build(r), ~r.should_use_sendfile,
         r.Code \in Codes,
         NEW text, Shows(r, r.Code, text), text = Page(request, r),
         r.Code = 200 => Answers200
  PROVE  Content'
<1>1. /\ pc' = "build" /\ response' = r /\ request' = request /\ files' = files
      /\ pictures_size' = pictures_size /\ build' = build
  BY DEF Build, request_vars, world_vars
<1>2. Page(request, response)' = Page(request, r)
  BY <1>1 DEF Page
<1>3. Shows(r, r.Code, Page(request, response)')
  BY <1>2
<1>4. Answers200 => Answers200'
  BY <1>1 DEF Answers200
<1> QED
  BY <1>1, <1>3, <1>4 DEF Content, Shows, BuildingPCs, SendingPCs

(* An error page is the page that is due when its code is not 200.         *)
LEMMA BuildError ==
  ASSUME Sound, NEW r, NEW old, NEW code \in Codes \ {200}, NEW text,
         Build(r), r = CreateErrorPage(old, code),
         SameFile(response, old), Keeps(old.Body, text), ~response.should_use_sendfile
  PROVE  Content'
<1>1. code \in Int
  BY DEF Codes
<1>2. Shows(r, code, <<Error(code)>>)
  BY <1>1, ErrorShows DEF SameFile
<1>3. ~r.should_use_sendfile
  BY ErrorPageKeepsFile DEF SameFile
<1>4. r.Code = code
  BY <1>2 DEF Shows
<1>5. <<Error(code)>> = Page(request, r)
  BY <1>4, PageIs
<1> QED
  BY <1>2, <1>3, <1>4, <1>5, BuildContent

\* While a response is being made it keeps a text that can be thrown away.
LEMMA StillKeeps ==
  ASSUME Sound, Content, pc \in BuildingPCs \cup {"read"}
  PROVE  /\ \E text : Keeps(response.Body, text)
         /\ SameFile(response, response) /\ ~response.should_use_sendfile
         /\ IsResponse(response)
         /\ pc \in BuildingPCs => Shows(response, 200, <<>>) /\ Keeps(response.Body, <<>>)
<1>1. \E text : Keeps(response.Body, text)
  <2>1. CASE pc \in BuildingPCs
    BY <2>1 DEF Content, Shows, Whole
  <2>2. CASE pc = "read"
    BY <2>2 DEF Content, Shows, Whole
  <2> QED
    BY <2>1, <2>2
<1>2. pc \in BuildingPCs => Shows(response, 200, <<>>) /\ Keeps(response.Body, <<>>)
  BY DEF Content, Shows, Whole
<1> QED
  BY <1>1, <1>2 DEF Sound, SameFile, HandlingState, BuildingPCs

(* The same when it takes the place of what was being made.                *)
LEMMA ErrorContent ==
  ASSUME Sound, Content, pc \in BuildingPCs \cup {"read"},
         NEW code \in Codes \ {200}, Build(CreateErrorPage(response, code))
  PROVE  Content'
<1>1. PICK text : Keeps(response.Body, text)
  BY StillKeeps
<1> DEFINE r == CreateErrorPage(response, code)
<1>2. r = CreateErrorPage(response, code) /\ Build(r)
  OBVIOUS
<1> HIDE DEF r
<1>3. SameFile(response, response) /\ ~response.should_use_sendfile
  BY StillKeeps
<1> QED
  BY <1>1, <1>2, <1>3, BuildError

(* Receiving: the response is empty, or an error page.                     *)
LEMMA ReceiveContent ==
  ASSUME Sound, Content,
         \/ \E q \in Requests, keep \in BOOLEAN : Receive(q, keep)
         \/ \E code \in {400, 500} : ReceiveFails(code)
         \/ ReceiveDisconnected
  PROVE  Content'
<1>1. ASSUME NEW q \in Requests, NEW keep \in BOOLEAN, Receive(q, keep) PROVE Content'
  BY <1>1 DEF Receive, Content, BuildingPCs, SendingPCs
<1>2. ASSUME NEW code \in {400, 500}, ReceiveFails(code) PROVE Content'
  <2>1. pc \in BuildingPCs /\ code \in Codes \ {200}
    BY <1>2 DEF ReceiveFails, BuildingPCs, Codes
  <2> QED
    BY <1>2, <2>1, ErrorContent DEF ReceiveFails
<1>3. CASE ReceiveDisconnected
  BY <1>3 DEF ReceiveDisconnected, Content, BuildingPCs, SendingPCs
<1> QED
  BY <1>1, <1>2, <1>3

(* The routes that make their page at once.                                *)
LEMMA PageContent ==
  ASSUME Sound, Content,
         \/ HandleMethod \/ HandleUnknown \/ HandleIndex
         \/ ImageOutOfRange \/ ImageFails \/ SendImage \/ ImageCrashes
  PROVE  Content'
<1>0. /\ pc = "handle" /\ pc \in BuildingPCs /\ request \in Requests
      /\ IsResponse(response) /\ Shows(response, 200, <<>>)
      /\ ~response.should_use_sendfile
  <2>1. pc = "handle"
    BY DEF HandleMethod, HandleUnknown, HandleIndex, ImageOutOfRange, ImageFails, SendImage,
           ImageCrashes, HandleImage, Handling
  <2> QED
    BY <2>1 DEF Content, BuildingPCs, Sound, HandlingState
<1>1. ASSUME NEW code \in {404, 405, 500}, Build(CreateErrorPage(response, code))
      PROVE  Content'
  <2>1. code \in Codes \ {200}
    BY DEF Codes
  <2> QED
    BY <1>0, <1>1, <2>1, ErrorContent
<1>2. CASE HandleMethod \/ HandleUnknown \/ ImageOutOfRange \/ ImageFails
  BY <1>1, <1>2 DEF HandleMethod, HandleUnknown, ImageOutOfRange, ImageFails
<1>3. CASE HandleIndex
  <2> DEFINE r == CreateIndexPage(response, request.arg)
  <2>1. request.route = "index" /\ request.arg \in Int /\ Build(r)
    BY <1>0, <1>3, FilesAssumption DEF HandleIndex, Handling
  <2>2. ~r.should_use_sendfile
    BY <1>0, PagesKeepFile DEF SameFile
  <2>3. IF request.arg \in 0 .. CIFAR_NUM_PAGES - 1
        THEN Shows(r, 200, IndexText(request.arg))
        ELSE Shows(r, 404, <<Error(404)>>)
    BY <1>0, <2>1, IndexShows
  <2> HIDE DEF r
  <2>4. CASE request.arg \in 0 .. CIFAR_NUM_PAGES - 1
    <3>1. r.Code = 200 /\ Shows(r, r.Code, IndexText(request.arg))
      BY <2>3, <2>4 DEF Shows
    <3>2. IndexText(request.arg) = Page(request, r)
      BY <2>1, <3>1, PageIs
    <3>3. r.Code \in Codes /\ Answers200
      BY <1>0, <2>1, <2>4, <3>1 DEF Codes, Answers200
    <3> QED
      BY <2>1, <2>2, <3>1, <3>2, <3>3, BuildContent
  <2>5. CASE request.arg \notin 0 .. CIFAR_NUM_PAGES - 1
    <3>1. r.Code = 404 /\ Shows(r, r.Code, <<Error(404)>>)
      BY <2>3, <2>5 DEF Shows
    <3>2. <<Error(404)>> = Page(request, r)
      BY <3>1, PageIs
    <3>3. r.Code \in Codes /\ r.Code # 200
      BY <3>1 DEF Codes
    <3> QED
      BY <2>1, <2>2, <3>1, <3>2, <3>3, BuildContent
  <2> QED
    BY <2>4, <2>5
<1>4. CASE SendImage
  <2> DEFINE n == PictureRead(request.arg, pictures_size)
             r == BitmapBody(response, n)
  <2>1. /\ request.route = "image" /\ Build(r)
        /\ PictureInRange(request.arg)
    BY <1>4 DEF SendImage, HandleImage, Handling
  <2>2. n \in Int
    BY <2>1, PicturesAssumption DEF PictureRead, PictureInRange
  <2>3. Answers200
    BY <1>0, <1>4, <2>1 DEF SendImage, Answers200
  <2>4. ~r.should_use_sendfile
    BY <1>0, PagesKeepFile DEF SameFile
  <2>5. Shows(r, 200, <<Bitmap(n)>>)
    <3> HIDE DEF n
    <3> QED
      BY <1>0, <2>2, BitmapShows
  <2> HIDE DEF r
  <2>6. r.Code = 200 /\ r.Code \in Codes /\ Shows(r, r.Code, <<Bitmap(n)>>)
    BY <2>5 DEF Shows, Codes
  <2>7. <<Bitmap(n)>> = Page(request, r)
    BY <2>1, <2>6, PageIs
  <2> QED
    BY <2>1, <2>3, <2>4, <2>6, <2>7, BuildContent
<1>5. CASE ImageCrashes
  BY <1>5 DEF ImageCrashes, Content, BuildingPCs, SendingPCs
<1> QED
  BY <1>2, <1>3, <1>4, <1>5

(* The ends of SendStaticFile: an error page, a listing, or the file that  *)
(* was read into the body.                                                 *)
LEMMA StaticContent ==
  ASSUME Sound, Content,
         \/ \E code \in {400, 404, 500} : StaticRefused(code)
         \/ StatFails \/ ListDir
         \/ \E n \in 0 .. ENTRIES : ListDirFails(n)
         \/ OpenPageFails \/ ReadWholeFileEnds \/ ReadWholeFileFails
  PROVE  Content'
<1>0. /\ pc \in {"stat", "open_page", "read"} =>
           request \in Requests /\ request.route = "static"
      /\ pc \in {"open_page", "read"} => files[request.arg] # Directory
      /\ 404 \in Codes \ {200} /\ 400 \in Codes \ {200} /\ 500 \in Codes \ {200}
  BY DEF Sound, HandlingState, Codes
<1>1. ASSUME NEW code \in {400, 404, 500}, StaticRefused(code) PROVE Content'
  <2>1. pc \in BuildingPCs /\ code \in Codes \ {200}
    BY <1>1 DEF StaticRefused, Handling, BuildingPCs, Codes
  <2> QED
    BY <1>1, <2>1, ErrorContent DEF StaticRefused
<1>2. CASE StatFails
  BY <1>0, <1>2, ErrorContent DEF StatFails, Statting, BuildingPCs
<1>3. CASE ListDir
  <2> DEFINE r == DirListing(response, ENTRIES)
  <2>1. /\ pc = "stat" /\ pc \in BuildingPCs /\ files[request.arg] = Directory
        /\ Build(r)
    BY <1>3 DEF ListDir, Statting, BuildingPCs
  <2>2. IsResponse(response) /\ Shows(response, 200, <<>>) /\ ~response.should_use_sendfile
    BY <2>1, StillKeeps
  <2>3. ~r.should_use_sendfile
    BY <2>2, PagesKeepFile DEF SameFile
  <2>4. Shows(r, 200, ListingText(ENTRIES))
    BY <2>2, ListingShows, ResponseAssumption
  <2> HIDE DEF r
  <2>5. r.Code = 200 /\ r.Code \in Codes /\ Shows(r, r.Code, ListingText(ENTRIES))
    BY <2>4 DEF Shows, Codes
  <2>6. ListingText(ENTRIES) = Page(request, r)
    BY <1>0, <2>1, <2>5, PageIs
  <2>7. Answers200
    BY <1>0, <2>1 DEF Answers200
  <2> QED
    BY <2>1, <2>3, <2>5, <2>6, <2>7, BuildContent
<1>4. ASSUME NEW n \in 0 .. ENTRIES, ListDirFails(n) PROVE Content'
  <2> DEFINE old == DirListing(response, n)
             r == CreateErrorPage(old, 500)
  <2>1. pc = "stat" /\ pc \in BuildingPCs /\ Build(r)
    BY <1>4 DEF ListDirFails, Statting, BuildingPCs
  <2>2. IsResponse(response) /\ Shows(response, 200, <<>>) /\ ~response.should_use_sendfile
    BY <2>1, StillKeeps
  <2>3. n \in Nat
    BY ResponseAssumption
  <2>4. SameFile(response, old) /\ Keeps(old.Body, ListingText(n))
    BY <2>2, <2>3, PagesKeepFile, ListingShows DEF Shows, Whole
  <2>5. r = CreateErrorPage(old, 500)
    OBVIOUS
  <2> HIDE DEF r, old
  <2> QED
    BY <1>0, <2>1, <2>2, <2>4, <2>5, BuildError
<1>5. CASE OpenPageFails
  BY <1>0, <1>5, ErrorContent DEF OpenPageFails, BuildingPCs
<1>6. CASE ReadWholeFileEnds
  <2> DEFINE r == response
  <2>1. pc = "read" /\ Build(r)
    BY <1>6 DEF ReadWholeFileEnds
  <2>2. ~r.should_use_sendfile
    BY <2>1, StillKeeps
  <2>3. /\ r.Code = 200 /\ r.Code \in Codes
        /\ Shows(r, r.Code, FileText(r.Body.Length))
    BY <2>1 DEF Content, Shows, Codes
  <2>4. FileText(r.Body.Length) = Page(request, r)
    BY <1>0, <2>1, <2>2, <2>3, PageIs DEF ContentLength
  <2>5. Answers200
    BY <1>0, <2>1 DEF Answers200
  <2> HIDE DEF r
  <2> QED
    BY <2>1, <2>2, <2>3, <2>4, <2>5, BuildContent
<1>7. CASE ReadWholeFileFails
  BY <1>0, <1>7, ErrorContent DEF ReadWholeFileFails
<1> QED
  BY <1>1, <1>2, <1>3, <1>4, <1>5, <1>6, <1>7

(* The rest of a response when a file is put with it.                      *)
LEMMA FileWithIt ==
  ASSUME NEW r, NEW flag, NEW path, NEW size, IsResponse(r)
  PROVE  LET s == WithFile(r, flag, path, size)
         IN  /\ s.Code = r.Code /\ s.Body = r.Body /\ s.sent_file_size = size
             /\ s.should_use_sendfile = flag /\ s.file_path_requested = path
<1> DEFINE flagged == [r EXCEPT !.should_use_sendfile = flag]
           named == [flagged EXCEPT !.file_path_requested = path]
           s == [named EXCEPT !.sent_file_size = size]
<1>1. flagged = [Code |-> r.Code, Body |-> r.Body, should_use_sendfile |-> flag,
                 file_path_requested |-> r.file_path_requested,
                 sent_file_size |-> r.sent_file_size]
  BY DEF IsResponse
<1>2. named = [Code |-> r.Code, Body |-> r.Body, should_use_sendfile |-> flag,
               file_path_requested |-> path, sent_file_size |-> r.sent_file_size]
  <2> HIDE DEF flagged
  <2> QED
    BY <1>1 DEF named
<1>3. s = [Code |-> r.Code, Body |-> r.Body, should_use_sendfile |-> flag,
           file_path_requested |-> path, sent_file_size |-> size]
  <2> HIDE DEF named
  <2> QED
    BY <1>2 DEF s
<1>4. WithFile(r, flag, path, size) = s
  BY DEF WithFile
<1> HIDE DEF s
<1> QED
  BY <1>3, <1>4

(* The text of a file, a part of it behind another.                        *)
LEMMA FileTextGrows ==
  ASSUME NEW l \in Nat, NEW n \in Nat
  PROVE  /\ FileText(l) \in Seq(Cells) /\ Len(FileText(l)) = l
         /\ FileText(l) \o FileText(n) = FileText(l + n)
         /\ FileText(0) = <<>>
<1>1. ASSUME NEW k \in Nat
      PROVE  /\ FileText(k) \in Seq(Cells) /\ Len(FileText(k)) = k
             /\ \A i \in 1 .. k : FileText(k)[i] = FileByte
  <2>1. FileByte \in Cells
    BY PageCells
  <2> QED
    BY <2>1 DEF FileText
<1> DEFINE u == FileText(l) \o FileText(n)
<1>2. u \in Seq(Cells) /\ Len(u) = l + n /\ \A i \in 1 .. l + n : u[i] = FileByte
  <2> DEFINE a == FileText(l)
             b == FileText(n)
  <2>1. /\ a \in Seq(Cells) /\ Len(a) = l /\ \A i \in 1 .. l : a[i] = FileByte
        /\ b \in Seq(Cells) /\ Len(b) = n /\ \A i \in 1 .. n : b[i] = FileByte
    BY <1>1
  <2> HIDE DEF a, b
  <2>2. /\ a \o b \in Seq(Cells) /\ Len(a \o b) = l + n
        /\ \A i \in 1 .. l + n : (a \o b)[i] = IF i <= l THEN a[i] ELSE b[i - l]
    BY <2>1
  <2>3. ASSUME NEW i \in 1 .. l + n PROVE (a \o b)[i] = FileByte
    <3>1. CASE i <= l
      <4>1. i \in 1 .. l
        BY <3>1
      <4>2. (a \o b)[i] = a[i]
        BY <2>2, <3>1, Zenon
      <4> QED
        BY <2>1, <4>1, <4>2
    <3>2. CASE ~(i <= l)
      <4>1. i - l \in 1 .. n
        BY <3>2
      <4>2. (a \o b)[i] = b[i - l]
        BY <2>2, <3>2, Zenon
      <4> QED
        BY <2>1, <4>1, <4>2
    <3> QED
      BY <3>1, <3>2
  <2> QED
    BY <2>2, <2>3 DEF a, b
<1> HIDE DEF u
<1>3. l + n \in Nat
  OBVIOUS
<1>4. u = FileText(l + n)
  <2> DEFINE v == FileText(l + n)
  <2>1. v \in Seq(Cells) /\ Len(v) = l + n /\ \A i \in 1 .. l + n : v[i] = FileByte
    BY <1>1, <1>3
  <2> HIDE DEF v
  <2>2. u = v
    BY <1>2, <2>1, SameElements
  <2> QED
    BY <2>2 DEF v
<1>5. FileText(0) = <<>>
  BY <1>1
<1> QED
  BY <1>1, <1>4, <1>5 DEF u

(* The steps of SendStaticFile on the way: to sendfile with an empty body, *)
(* or reading, with as much of the file as has been read.                  *)
LEMMA FileContent ==
  ASSUME Sound, Content,
         \/ StaticResolved \/ StatFile \/ StatFileToRead \/ OpenPage
         \/ \E n \in 1 .. BUFSIZE : ReadWholeFile(n)
  PROVE  Content'
<1>1. CASE StaticResolved \/ StatFileToRead
  BY <1>1 DEF StaticResolved, StatFileToRead, Handling, Statting, Content, BuildingPCs,
              SendingPCs
<1>2. CASE StatFile
  <2>1. /\ pc = "stat" /\ files[request.arg] \in Nat /\ pc' = "build"
        /\ response' = WithFile(response, TRUE, request.arg, files[request.arg])
        /\ request' = request /\ files' = files /\ pictures_size' = pictures_size
        /\ build' = build
    BY <1>2 DEF StatFile, Statting, Build, WithFile, request_vars, world_vars
  <2>2. /\ IsResponse(response) /\ Shows(response, 200, <<>>)
        /\ request \in Requests /\ request.route = "static"
    BY <2>1 DEF Content, BuildingPCs, Sound, HandlingState
  <2>3. /\ response'.Code = response.Code /\ response'.Body = response.Body
        /\ response'.sent_file_size = files[request.arg]
        /\ response'.should_use_sendfile = TRUE
        /\ response'.file_path_requested = request.arg
    <3>1. PICK size : size = files[request.arg]
      OBVIOUS
    <3>2. PICK flag : flag = TRUE
      OBVIOUS
    <3> DEFINE s == WithFile(response, flag, request.arg, size)
    <3>3. /\ s.Code = response.Code /\ s.Body = response.Body /\ s.sent_file_size = size
          /\ s.should_use_sendfile = flag /\ s.file_path_requested = request.arg
      BY ONLY <2>2, FileWithIt
    <3>4. response' = s
      BY <2>1, <3>1, <3>2
    <3> QED
      BY ONLY <3>1, <3>2, <3>3, <3>4
  <2>4. SendsFileAskedFor'
    BY <2>1, <2>2, <2>3 DEF SendsFileAskedFor, Shows
  <2>5. Answers200'
    BY <2>1, <2>2 DEF Answers200
  <2> QED
    BY <2>1, <2>2, <2>3, <2>4, <2>5 DEF Content, Shows, Codes, BuildingPCs, SendingPCs
<1>3. CASE OpenPage
  <2>1. pc = "open_page" /\ pc' = "read" /\ response' = response
    BY <1>3 DEF OpenPage
  <2>2. Shows(response, 200, <<>>) /\ response.Body.Length = 0
    BY <2>1 DEF Content, BuildingPCs, Shows, Whole, Keeps
  <2>3. FileText(0) = <<>>
    BY FileTextGrows
  <2> QED
    BY <2>1, <2>2, <2>3 DEF Content, BuildingPCs, SendingPCs
<1>4. ASSUME NEW n \in 1 .. BUFSIZE, ReadWholeFile(n) PROVE Content'
  <2> DEFINE l == response.Body.Length
             body == AppendBuf(response.Body, FileText(n))
  <2>1. pc = "read" /\ pc' = "read" /\ response' = [response EXCEPT !.Body = body]
    BY <1>4 DEF ReadWholeFile, FileText
  <2>2. IsResponse(response) /\ response.Code = 200 /\ Whole(response.Body, FileText(l))
    BY <2>1 DEF Content, Shows, Sound
  <2>3. l \in Nat /\ n \in Nat
    BY <2>2, ResponseAssumption DEF Whole, Keeps
  <2>4. Whole(body, FileText(l) \o FileText(n))
    <3>1. FileText(n) \in Seq(Cells) /\ Keeps(response.Body, FileText(l))
      BY <2>2, <2>3, FileTextGrows DEF Whole
    <3> QED
      BY ONLY <3>1, Appends
  <2>5. FileText(l) \o FileText(n) = FileText(l + n) /\ Len(FileText(l + n)) = l + n
    <3>1. l + n \in Nat
      BY <2>3
    <3> HIDE DEF l
    <3> QED
      BY ONLY <2>3, <3>1, FileTextGrows
  <2> HIDE DEF body
  <2>6. response'.Body = body /\ response'.Code = 200
    BY <2>1, <2>2, BodyKeepsFile
  <2>7. body.Length = l + n
    BY <2>4, <2>5 DEF Whole, Keeps
  <2> QED
    BY <2>1, <2>4, <2>5, <2>6, <2>7 DEF Content, Shows, Codes, BuildingPCs, SendingPCs
<1> QED
  BY <1>1, <1>2, <1>3, <1>4

(* What is sent does not change.                                           *)
LEMMA SentStays ==
  ASSUME Sound, Content, pc \in SendingPCs, pc' \in SendingPCs,
         response' = response, request' = request, pictures_size' = pictures_size,
         build' = build,
         \A p \in Paths : (files'[p] = Directory) <=> (files[p] = Directory)
  PROVE  Content'
<1>1. response.Code = 200 => Answers200 /\ Answers200'
  BY DEF Content, Answers200
<1>2. CASE response.should_use_sendfile
  BY <1>1, <1>2 DEF Content, SendsFileAskedFor, Shows, BuildingPCs, SendingPCs
<1>3. CASE ~response.should_use_sendfile
  <2>1. Page(request, response)' = Page(request, response)
    <3>1. CASE response.Code # 200
      BY <3>1 DEF Page
    <3>2. CASE response.Code = 200
      <4>1. request.route = "static" => request.arg \in Paths
        BY <1>1, <3>2, FilesAssumption DEF Answers200
      <4>2. request.route = "static" =>
              ((files'[request.arg] = Directory) <=> (files[request.arg] = Directory))
        BY <4>1
      <4>3. ContentLength(response)' = ContentLength(response)
        BY DEF ContentLength
      <4>4. CASE request.route = "index"
        BY <3>2, <4>4 DEF Page
      <4>5. CASE request.route = "image"
        BY <3>2, <4>5 DEF Page
      <4>6. CASE request.route = "static"
        BY <3>2, <4>2, <4>3, <4>6 DEF Page
      <4> QED
        BY <1>1, <3>2, <4>4, <4>5, <4>6 DEF Answers200
    <3> QED
      BY <3>1, <3>2
  <2>2. Shows(response, response.Code, Page(request, response))
    BY <1>3 DEF Content
  <2> QED
    BY <1>1, <1>3, <2>1, <2>2 DEF Content, Shows, BuildingPCs, SendingPCs
<1> QED
  BY <1>2, <1>3

(* Sending changes nothing of it, and then the response is a new one.      *)
LEMMA SendContent == ASSUME Sound, Content, Sender PROVE Content'
<1>1. CASE Destroy
  <2>1. response' = NewResponse /\ pc' \in {"receive", "returned"}
    BY <1>1 DEF Destroy
  <2>2. NewResponse.Body = NewBuilder /\ NewResponse.Code = 200
    BY DEF NewResponse
  <2> QED
    BY <2>1, <2>2, NewBuilderWhole DEF Content, Codes, Shows, BuildingPCs, SendingPCs
<1>2. CASE ~Destroy
  <2>1. pc \in SendingPCs /\ pc' \in SendingPCs
    BY <1>2 DEF Sender, BuildHeaders, SendAll, AfterSent, SendAllFails, OpenFile,
                OpenFileFails, SendFile, SendFileAgain, SendFileFails, CloseFile, GivesUp, Again,
                SendingPCs
  <2>2. UNCHANGED <<response, request_vars, world_vars>>
    BY <1>2 DEF Sender, BuildHeaders, SendAll, SendAllFails, OpenFile, OpenFileFails,
                SendFile, SendFileAgain, SendFileFails, CloseFile, GivesUp, Again
  <2> QED
    BY <2>1, <2>2, SentStays DEF request_vars, world_vars
<1> QED
  BY <1>1, <1>2

(* A file that is changed is not turned into a directory or out of one, so *)
(* the page that is due stays what it was.                                 *)
LEMMA WorldContent ==
  ASSUME Sound, Content, NEW p \in Paths, NEW size \in FileSizes, ChangeFile(p, size)
  PROVE  Content'
<1>1. /\ pc' = pc /\ response' = response /\ request' = request
      /\ pictures_size' = pictures_size /\ build' = build
  BY DEF ChangeFile, request_vars
<1>2. \A o \in Paths : (files'[o] = Directory) <=> (files[o] = Directory)
  <2>1. size # Directory /\ files[p] # Directory /\ files' = [files EXCEPT ![p] = size]
    BY ResponseAssumption, FilesAssumption DEF ChangeFile
  <2>2. DOMAIN files = Paths
    BY DEF Sound
  <2> QED
    BY <2>1, <2>2
<1>3. CASE pc \in SendingPCs
  BY <1>1, <1>2, <1>3, SentStays
<1>4. CASE pc \notin SendingPCs
  BY <1>1, <1>4 DEF Content
<1> QED
  BY <1>3, <1>4

(* Every step leaves the page that is due in the body.                     *)
LEMMA NextContent == Sound /\ Content /\ [Next]_vars => Content'
<1>1. Sound /\ Content /\ Next => Content'
  BY ReceiveContent, PageContent, StaticContent, FileContent, SendContent, WorldContent
     DEF Next, Handler
<1>2. Content /\ UNCHANGED vars => Content'
  BY DEF Content, SendsFileAskedFor, Answers200, Page, ContentLength, vars, request_vars,
         send_vars, world_vars
<1> QED
  BY <1>1, <1>2

(* Whatever a builder had to grow, however often a text was printed again, *)
(* and whatever happened to the files: the body that is sent is the page   *)
(* that is due, whole and terminated.                                      *)
THEOREM BodiesArePages == Spec => []BodyIsThePage
<1>1. Content => BodyIsThePage
  <2> SUFFICES ASSUME Content, pc = "build", ~response.should_use_sendfile
               PROVE  Holds(response.Body, Page(request, response))
    BY DEF BodyIsThePage
  <2>1. Whole(response.Body, Page(request, response))
    BY DEF Content, SendingPCs, Shows
  <2> QED
    BY <2>1, WholeHolds
<1> QED
  BY InitSound, NextSound, InitContent, NextContent, <1>1, PTL DEF Spec

--------------------------------------------------------------------------------
(* The links of the index.                                                 *)

(* A text behind another one, place by place.                              *)
LEMMA Behind ==
  ASSUME NEW S, NEW s \in Seq(S), NEW t \in Seq(S), NEW m \in Nat, Len(s) = m
  PROVE  /\ s \o t \in Seq(S) /\ Len(s \o t) = m + Len(t)
         /\ \A i \in 1 .. m : (s \o t)[i] = s[i]
         /\ \A i \in 1 .. Len(t) : (s \o t)[m + i] = t[i]
  OBVIOUS

(* The cells of an index page, place by place.                             *)
LEMMA IndexCells ==
  ASSUME NEW p \in 0 .. CIFAR_NUM_PAGES - 1
  PROVE  LET s == IndexText(p)
             m == CIFAR_IMG_PER_PAGE
         IN  /\ s \in Seq(Cells) /\ Len(s) = m + 5
             /\ s[1] = Html /\ s[2] = PageNo(p)
             /\ \A i \in 1 .. m : s[2 + i] = Image(p * m + i - 1)
             /\ s[m + 3] = PageLink(PreviousPage(p)) /\ s[m + 4] = PageLink(NextPage(p))
             /\ s[m + 5] = Html
<1> DEFINE m == CIFAR_IMG_PER_PAGE
           a == <<Html, PageNo(p)>>
           t == [i \in 1 .. m |-> Image(p * m + i - 1)]
           u == <<PageLink(PreviousPage(p)), PageLink(NextPage(p)), Html>>
           x == a \o t
           s == x \o u
<1>1. IndexText(p) = s
  BY Neighbours DEF IndexText
<1>2. m \in Nat /\ CIFAR_NUM_PAGES \in Nat /\ p \in Int
  BY PageNumbers
<1>3. a \in Seq(Cells) /\ Len(a) = 2 /\ a[1] = Html /\ a[2] = PageNo(p)
  <2>1. Html \in Cells /\ PageNo(p) \in Cells
    BY <1>2, PageCells
  <2> QED
    BY <2>1
<1>4. t \in Seq(Cells) /\ Len(t) = m /\ \A i \in 1 .. m : t[i] = Image(p * m + i - 1)
  <2>1. ASSUME NEW i \in 1 .. m PROVE Image(p * m + i - 1) \in Cells
    <3> HIDE DEF m
    <3>1. p * m + i - 1 \in Int
      BY <1>2
    <3> QED
      BY <3>1, PageCells
  <2> HIDE DEF m
  <2> QED
    BY <1>2, <2>1
<1>5. /\ u \in Seq(Cells) /\ Len(u) = 3
      /\ u[1] = PageLink(PreviousPage(p)) /\ u[2] = PageLink(NextPage(p)) /\ u[3] = Html
  <2>1. PreviousPage(p) \in Int /\ NextPage(p) \in Int
    BY <1>2, Neighbours
  <2>2. Html \in Cells /\ PageLink(PreviousPage(p)) \in Cells /\ PageLink(NextPage(p)) \in Cells
    BY <2>1, PageCells
  <2> QED
    BY <2>2
<1> HIDE DEF m, a, t, u
<1>6. /\ x \in Seq(Cells) /\ Len(x) = 2 + m
      /\ x[1] = Html /\ x[2] = PageNo(p)
      /\ \A i \in 1 .. m : x[2 + i] = Image(p * m + i - 1)
  <2>0. PICK two \in Nat : two = 2
    OBVIOUS
  <2>1. a \in Seq(Cells) /\ t \in Seq(Cells) /\ Len(a) = two
    BY <1>3, <1>4, <2>0
  <2>2. /\ x \in Seq(Cells) /\ Len(x) = two + Len(t)
        /\ \A i \in 1 .. two : x[i] = a[i]
        /\ \A i \in 1 .. Len(t) : x[two + i] = t[i]
    BY ONLY <2>1, Behind
  <2> HIDE DEF x
  <2>3. x \in Seq(Cells) /\ Len(x) = 2 + m
    BY <1>4, <2>0, <2>2
  <2>4. x[1] = Html /\ x[2] = PageNo(p)
    <3>1. 1 \in 1 .. two /\ 2 \in 1 .. two
      BY <2>0
    <3> QED
      BY ONLY <1>3, <2>2, <3>1
  <2>5. \A i \in 1 .. m : x[2 + i] = Image(p * m + i - 1)
    BY ONLY <1>4, <2>0, <2>2
  <2> QED
    BY <2>3, <2>4, <2>5
<1> HIDE DEF x
<1>7. /\ s \in Seq(Cells) /\ Len(s) = m + 5
      /\ s[1] = Html /\ s[2] = PageNo(p)
      /\ \A i \in 1 .. m : s[2 + i] = Image(p * m + i - 1)
      /\ s[m + 3] = PageLink(PreviousPage(p)) /\ s[m + 4] = PageLink(NextPage(p))
      /\ s[m + 5] = Html
  <2>1. x \in Seq(Cells) /\ u \in Seq(Cells) /\ 2 + m \in Nat /\ Len(x) = 2 + m
    BY <1>2, <1>5, <1>6
  <2>2. /\ s \in Seq(Cells) /\ Len(s) = 2 + m + Len(u)
        /\ \A i \in 1 .. 2 + m : s[i] = x[i]
        /\ \A i \in 1 .. Len(u) : s[2 + m + i] = u[i]
    BY ONLY <2>1, Behind
  <2> HIDE DEF s
  <2>3. \A i \in 1 .. m : 2 + i \in 1 .. 2 + m
    BY <1>2
  <2>4. 1 \in 1 .. 2 + m /\ 2 \in 1 .. 2 + m
    BY <1>2
  <2>5. 2 + m + 1 = m + 3 /\ 2 + m + 2 = m + 4 /\ 2 + m + 3 = m + 5
    BY <1>2
  <2>6. s[m + 3] = u[1] /\ s[m + 4] = u[2] /\ s[m + 5] = u[3]
    BY <1>5, <2>2, <2>5
  <2>7. Len(s) = m + 5
    BY <1>2, <1>5, <2>2
  <2>8. \A i \in 1 .. m : s[2 + i] = x[2 + i]
    BY ONLY <2>2, <2>3
  <2>9. s[1] = x[1] /\ s[2] = x[2]
    BY ONLY <2>2, <2>4
  <2> QED
    BY <1>5, <1>6, <2>2, <2>6, <2>7, <2>8, <2>9
<1> HIDE DEF s
<1> QED
  BY <1>1, <1>7 DEF m

(* A new response is good and shows nothing.                               *)
LEMMA NewResponseShows ==
  IsResponse(NewResponse) /\ Shows(NewResponse, 200, <<>>)
<1>1. NewResponse.Body = NewBuilder /\ NewResponse.Code = 200 /\ IsResponse(NewResponse)
  BY DEF NewResponse, IsResponse
<1> QED
  BY <1>1, NewBuilderWhole DEF Shows

(* The pictures of a page, and its neighbours.                             *)
LEMMA LinksAre ==
  ASSUME NEW p \in 0 .. CIFAR_NUM_PAGES - 1
  PROVE  /\ Links(p, "image") =
              {p * CIFAR_IMG_PER_PAGE + i - 1 : i \in 1 .. CIFAR_IMG_PER_PAGE}
         /\ Links(p, "link") = {PreviousPage(p), NextPage(p)}
<1> DEFINE m == CIFAR_IMG_PER_PAGE
           s == IndexText(p)
           cells == ToSet(s)
<1>1. p \in Int /\ m \in Nat
  BY PageNumbers
<1>2. Text(CreateIndexPage(NewResponse, p).Body) = s
  BY <1>1, NewResponseShows, IndexShows, WholeHolds DEF Shows
<1>3. \A kind : Links(p, kind) = {cell[2] : cell \in {c \in cells : c[1] = kind}}
  BY <1>2 DEF Links
<1>4. /\ DOMAIN s = 1 .. m + 5
      /\ s[1] = Html /\ s[2] = PageNo(p)
      /\ \A i \in 1 .. m : s[2 + i] = Image(p * m + i - 1)
      /\ s[m + 3] = PageLink(PreviousPage(p)) /\ s[m + 4] = PageLink(NextPage(p))
      /\ s[m + 5] = Html
  <2>1. s \in Seq(Cells) /\ Len(s) = m + 5
    BY IndexCells
  <2>2. DOMAIN s = 1 .. m + 5
    <3> HIDE DEF s, m
    <3> QED
      BY <2>1
  <2> QED
    BY <2>2, IndexCells
<1> HIDE DEF m, s
<1>5. cells = {Html, PageNo(p), PageLink(PreviousPage(p)), PageLink(NextPage(p))}
                \cup {Image(p * m + i - 1) : i \in 1 .. m}
  <2>1. ASSUME NEW j \in 1 .. m + 5
        PROVE  s[j] \in {Html, PageNo(p), PageLink(PreviousPage(p)), PageLink(NextPage(p))}
                          \cup {Image(p * m + i - 1) : i \in 1 .. m}
    <3>1. CASE j \in 3 .. m + 2
      <4>1. j - 2 \in 1 .. m /\ 2 + (j - 2) = j
        BY <1>1, <3>1
      <4>2. s[2 + (j - 2)] = Image(p * m + (j - 2) - 1)
        BY ONLY <1>4, <4>1
      <4> QED
        BY <4>1, <4>2
    <3>2. CASE j \notin 3 .. m + 2
      <4>1. j = 1 \/ j = 2 \/ j = m + 3 \/ j = m + 4 \/ j = m + 5
        BY <1>1, <3>2
      <4> QED
        BY <1>4, <4>1
    <3> QED
      BY <3>1, <3>2
  <2>2. ASSUME NEW i \in 1 .. m PROVE Image(p * m + i - 1) \in cells
    <3>1. 2 + i \in 1 .. m + 5 /\ s[2 + i] = Image(p * m + i - 1)
      BY <1>1, <1>4
    <3> QED
      BY <1>4, <3>1 DEF ToSet
  <2>3. /\ Html \in cells /\ PageNo(p) \in cells
        /\ PageLink(PreviousPage(p)) \in cells /\ PageLink(NextPage(p)) \in cells
    <3>1. 1 \in 1 .. m + 5 /\ 2 \in 1 .. m + 5 /\ m + 3 \in 1 .. m + 5 /\ m + 4 \in 1 .. m + 5
      BY <1>1
    <3> QED
      BY <1>4, <3>1 DEF ToSet
  <2>4. cells = {s[j] : j \in 1 .. m + 5}
    BY <1>4 DEF ToSet
  <2> HIDE DEF cells
  <2> QED
    BY <2>1, <2>2, <2>3, <2>4
<1> HIDE DEF cells
<1>6. /\ \A n : Image(n)[1] = "image" /\ Image(n)[2] = n
      /\ \A n : PageLink(n)[1] = "link" /\ PageLink(n)[2] = n
      /\ \A n : PageNo(n)[1] = "page"
      /\ Html[1] = "html"
  BY DEF Image, PageLink, PageNo, Html
<1>7. Links(p, "image") = {p * m + i - 1 : i \in 1 .. m}
  <2> DEFINE images == {c \in cells : c[1] = "image"}
  <2>1. \A c \in images : \E i \in 1 .. m : c = Image(p * m + i - 1)
    BY <1>5, <1>6
  <2>2. \A i \in 1 .. m : Image(p * m + i - 1) \in images
    BY <1>5, <1>6
  <2>3. Links(p, "image") = {c[2] : c \in images}
    BY <1>3
  <2> HIDE DEF images
  <2>4. \A n \in {c[2] : c \in images} : n \in {p * m + i - 1 : i \in 1 .. m}
    BY <1>6, <2>1
  <2>5. ASSUME NEW i \in 1 .. m PROVE p * m + i - 1 \in {c[2] : c \in images}
    <3>1. Image(p * m + i - 1) \in images /\ Image(p * m + i - 1)[2] = p * m + i - 1
      BY <1>6, <2>2
    <3> QED
      BY <3>1
  <2> QED
    BY <2>3, <2>4, <2>5
<1>8. Links(p, "link") = {PreviousPage(p), NextPage(p)}
  <2> DEFINE links == {c \in cells : c[1] = "link"}
  <2>1. \A c \in links : c \in {PageLink(PreviousPage(p)), PageLink(NextPage(p))}
    BY <1>5, <1>6
  <2>2. PageLink(PreviousPage(p)) \in links /\ PageLink(NextPage(p)) \in links
    BY <1>5, <1>6
  <2>3. Links(p, "link") = {c[2] : c \in links}
    BY <1>3
  <2> HIDE DEF links
  <2>4. \A n \in {c[2] : c \in links} : n \in {PreviousPage(p), NextPage(p)}
    BY <1>6, <2>1
  <2>5. PreviousPage(p) \in {c[2] : c \in links} /\ NextPage(p) \in {c[2] : c \in links}
    BY <1>6, <2>2
  <2> QED
    BY <2>3, <2>4, <2>5
<1> QED
  BY <1>7, <1>8 DEF m

--------------------------------------------------------------------------------
(* Going on with Next.                                                     *)

\* The page that is a pages after the first one.
Wrapped(a) == IF a < CIFAR_NUM_PAGES THEN a ELSE a - CIFAR_NUM_PAGES

\* The function that PageAfter is a value of.
IsAfter(f, p, k) == f = [i \in 0 .. k |-> IF i = 0 THEN p ELSE NextPage(f[i - 1])]

(* One step with Next, from wherever the reader is.                        *)
LEMMA NextWraps ==
  ASSUME NEW a \in 0 .. 2 * CIFAR_NUM_PAGES - 2
  PROVE  NextPage(Wrapped(a)) = Wrapped(a + 1)
<1> DEFINE n == CIFAR_NUM_PAGES
<1>1. n \in Nat \ {0}
  BY PageNumbers
<1>2. \A b : NextPage(b) = IF b + 1 < n THEN b + 1 ELSE 0
  BY DEF NextPage
<1>3. \A b : Wrapped(b) = IF b < n THEN b ELSE b - n
  BY DEF Wrapped
<1>4. a \in 0 .. 2 * n - 2
  OBVIOUS
<1> HIDE DEF n
<1>5. CASE a + 1 < n
  BY <1>1, <1>2, <1>3, <1>4, <1>5
<1>6. CASE a + 1 = n
  <2>1. Wrapped(a) = a /\ Wrapped(a + 1) = 0
    BY <1>1, <1>3, <1>4, <1>6
  <2> QED
    BY <1>1, <1>2, <1>4, <1>6, <2>1
<1>7. CASE a + 1 > n
  <2>1. Wrapped(a) = a - n /\ Wrapped(a + 1) = a + 1 - n
    BY <1>1, <1>3, <1>4, <1>7
  <2>2. (a - n) + 1 < n /\ (a - n) + 1 = a + 1 - n
    BY <1>1, <1>4
  <2> QED
    BY <1>2, <2>1, <2>2
<1> QED
  BY <1>1, <1>4, <1>5, <1>6, <1>7

(* The pages follow each other round the whole of them.                    *)
LEMMA AfterIs ==
  ASSUME NEW p \in 0 .. CIFAR_NUM_PAGES - 1, NEW k \in 0 .. CIFAR_NUM_PAGES - 1
  PROVE  PageAfter(p, k) = Wrapped(p + k)
<1>1. CIFAR_NUM_PAGES \in Nat \ {0} /\ p \in Nat /\ k \in Nat
  BY PageNumbers
<1>2. ASSUME NEW i \in 1 .. k PROVE NextPage(Wrapped(p + (i - 1))) = Wrapped(p + i)
  <2>1. p + (i - 1) \in 0 .. 2 * CIFAR_NUM_PAGES - 2 /\ p + (i - 1) + 1 = p + i
    BY <1>1
  <2> QED
    BY <2>1, NextWraps
<1>3. Wrapped(p + 0) = p
  BY <1>1 DEF Wrapped
<1>4. \E f : IsAfter(f, p, k)
  <2> DEFINE f == [i \in 0 .. k |-> Wrapped(p + i)]
  <2>1. \A i \in 0 .. k : i # 0 => i - 1 \in 0 .. k
    BY <1>1
  <2>2. \A i \in 0 .. k : f[i] = IF i = 0 THEN p ELSE NextPage(f[i - 1])
    <3>1. ASSUME NEW i \in 0 .. k, i # 0 PROVE f[i] = NextPage(f[i - 1])
      <4>1. i \in 1 .. k
        BY <1>1, <3>1
      <4>2. f[i] = Wrapped(p + i) /\ f[i - 1] = Wrapped(p + (i - 1))
        BY <2>1, <3>1
      <4> QED
        BY <1>2, <4>1, <4>2
    <3>2. 0 \in 0 .. k
      BY <1>1
    <3>3. f[0] = p
      BY <1>3, <3>2
    <3> QED
      BY <3>1, <3>3
  <2>3. f = [i \in 0 .. k |-> f[i]]
    OBVIOUS
  <2> HIDE DEF f
  <2>4. f = [i \in 0 .. k |-> IF i = 0 THEN p ELSE NextPage(f[i - 1])]
    BY <2>2, <2>3
  <2>5. IsAfter(f, p, k)
    BY <2>4 DEF IsAfter
  <2> QED
    BY <2>5
<1> DEFINE g == CHOOSE g : IsAfter(g, p, k)
<1>5. IsAfter(g, p, k)
  BY <1>4
<1>6. PageAfter(p, k) = g[k]
  BY DEF PageAfter, IsAfter
<1> HIDE DEF g
<1>7. \A i \in 0 .. k : g[i] = IF i = 0 THEN p ELSE NextPage(g[i - 1])
  <2> DEFINE f == [i \in 0 .. k |-> IF i = 0 THEN p ELSE NextPage(g[i - 1])]
  <2>1. g = f
    BY <1>5 DEF IsAfter
  <2>2. \A i \in 0 .. k : f[i] = IF i = 0 THEN p ELSE NextPage(g[i - 1])
    OBVIOUS
  <2> HIDE DEF f
  <2> QED
    BY <2>1, <2>2
<1> DEFINE S == {i \in Nat : i <= k => g[i] = Wrapped(p + i)}
<1>8. 0 \in S
  <2>1. 0 \in 0 .. k
    BY <1>1
  <2> QED
    BY <1>3, <1>7, <2>1
<1>9. ASSUME NEW i \in Nat, i \in S PROVE i + 1 \in S
  <2> SUFFICES ASSUME i + 1 <= k PROVE g[i + 1] = Wrapped(p + (i + 1))
    OBVIOUS
  <2>1. i + 1 \in 0 .. k /\ i + 1 # 0 /\ i + 1 \in 1 .. k /\ (i + 1) - 1 = i /\ i <= k
    BY <1>1
  <2>2. g[i] = Wrapped(p + i)
    BY <1>9, <2>1
  <2>3. g[i + 1] = NextPage(g[i])
    BY <1>7, <2>1
  <2> QED
    BY <1>2, <2>1, <2>2, <2>3
<1> HIDE DEF S
<1>10. k \in S
  BY <1>1, <1>8, <1>9, Doubling!NatSetInduction
<1> QED
  BY <1>1, <1>6, <1>10 DEF S

(* The pictures of a page are pictures,                                    *)
LEMMA PicturesOfAPage ==
  ASSUME NEW p \in 0 .. CIFAR_NUM_PAGES - 1, NEW i \in 1 .. CIFAR_IMG_PER_PAGE
  PROVE  p * CIFAR_IMG_PER_PAGE + i - 1 \in 0 .. CIFAR_NUM_IMAGES - 1
<1> DEFINE m == CIFAR_IMG_PER_PAGE
           n == CIFAR_NUM_PAGES
<1>1. m \in Nat \ {0} /\ n \in Nat \ {0} /\ CIFAR_NUM_IMAGES = n * m
  BY PageNumbers
<1>2. p \in 0 .. n - 1 /\ i \in 1 .. m
  OBVIOUS
<1> HIDE DEF m, n
<1>3. p * m \in Nat
  BY <1>1, <1>2
<1>4. (n - 1 - p) * m \in Nat
  BY <1>1, <1>2
<1>5. n * m = p * m + (n - 1 - p) * m + m
  BY <1>1, <1>2
<1>6. p * m + i - 1 \in 0 .. n * m - 1
  <2> DEFINE a == p * m
             b == (n - 1 - p) * m
             c == n * m
  <2>1. a \in Nat /\ b \in Nat /\ c = a + b + m
    BY <1>3, <1>4, <1>5
  <2> HIDE DEF a, b, c
  <2>2. a + i - 1 \in 0 .. c - 1
    BY <1>1, <1>2, <2>1
  <2> QED
    BY ONLY <2>2 DEF a, c
<1> QED
  BY <1>1, <1>6 DEF m

(* and every picture is on a page.                                         *)
LEMMA PictureHasAPage ==
  ASSUME NEW n \in 0 .. CIFAR_NUM_IMAGES - 1
  PROVE  \E p \in 0 .. CIFAR_NUM_PAGES - 1, i \in 1 .. CIFAR_IMG_PER_PAGE :
           n = p * CIFAR_IMG_PER_PAGE + i - 1
<1> DEFINE m == CIFAR_IMG_PER_PAGE
           c == CIFAR_NUM_PAGES
           q == n \div m
           r == n % m
<1>1. m \in Nat \ {0} /\ c \in Nat \ {0} /\ CIFAR_NUM_IMAGES = c * m
  BY PageNumbers
<1>2. n \in 0 .. c * m - 1
  BY <1>1
<1> HIDE DEF m, c
<1>3. n \in Nat /\ q \in Nat /\ r \in 0 .. m - 1 /\ n = m * q + r
  BY <1>1, <1>2
<1> HIDE DEF q, r
<1>4. q <= c - 1
  <2> SUFFICES ASSUME q >= c PROVE FALSE
    BY <1>1, <1>3
  <2>1. (q - c) * m \in Nat
    BY <1>1, <1>3
  <2>2. m * q = (q - c) * m + c * m
    BY <1>1, <1>3
  <2> DEFINE a == (q - c) * m
             b == c * m
             d == m * q
  <2>3. a \in Nat /\ d = a + b /\ n = d + r /\ n \in 0 .. b - 1 /\ b \in Int
    BY <1>1, <1>2, <1>3, <2>1, <2>2
  <2> HIDE DEF a, b, d
  <2> QED
    BY <1>1, <1>3, <2>3
<1>5. q \in 0 .. c - 1 /\ r + 1 \in 1 .. m
  BY <1>1, <1>3, <1>4
<1>6. n = q * m + (r + 1) - 1
  <2>1. m * q = q * m /\ q * m \in Int
    BY <1>1, <1>3
  <2> QED
    BY <1>1, <1>3, <2>1
<1>7. \E p \in 0 .. c - 1, i \in 1 .. m : n = p * m + i - 1
  BY <1>5, <1>6
<1> QED
  BY <1>7 DEF m, c

(* Whoever goes on with Next sees all of the pictures.                     *)
LEMMA NextLeadsEverywhere ==
  ASSUME NEW p \in 0 .. CIFAR_NUM_PAGES - 1
  PROVE  UNION {Links(PageAfter(p, k), "image") : k \in 0 .. CIFAR_NUM_PAGES - 1}
           = 0 .. CIFAR_NUM_IMAGES - 1
<1> DEFINE c == CIFAR_NUM_PAGES
           m == CIFAR_IMG_PER_PAGE
           all == UNION {Links(PageAfter(p, k), "image") : k \in 0 .. c - 1}
<1>1. c \in Nat \ {0}
  BY PageNumbers
<1>2. \A k \in 0 .. c - 1 : PageAfter(p, k) = Wrapped(p + k)
  BY AfterIs
<1>3. \A q \in 0 .. c - 1 : Links(q, "image") = {q * m + i - 1 : i \in 1 .. m}
  BY LinksAre
<1>4. \A q \in 0 .. c - 1, i \in 1 .. m : q * m + i - 1 \in 0 .. CIFAR_NUM_IMAGES - 1
  BY PicturesOfAPage
<1>5. \A n \in 0 .. CIFAR_NUM_IMAGES - 1 :
        \E q \in 0 .. c - 1, i \in 1 .. m : n = q * m + i - 1
  BY PictureHasAPage
<1>6. \A a : Wrapped(a) = IF a < c THEN a ELSE a - c
  BY DEF Wrapped
<1>7. p \in 0 .. c - 1
  OBVIOUS
<1> HIDE DEF c, m
<1>8. ASSUME NEW n \in all PROVE n \in 0 .. CIFAR_NUM_IMAGES - 1
  <2>1. PICK k \in 0 .. c - 1 : n \in Links(PageAfter(p, k), "image")
    OBVIOUS
  <2>2. PICK q \in 0 .. c - 1 : q = Wrapped(p + k)
    BY <1>1, <1>6, <1>7
  <2>3. n \in {q * m + i - 1 : i \in 1 .. m}
    BY <1>2, <1>3, <2>1, <2>2
  <2> QED
    BY <1>4, <2>3
<1>9. ASSUME NEW n \in 0 .. CIFAR_NUM_IMAGES - 1 PROVE n \in all
  <2>1. PICK q \in 0 .. c - 1, i \in 1 .. m : n = q * m + i - 1
    BY <1>5
  <2>2. PICK k \in 0 .. c - 1 : q = Wrapped(p + k)
    <3>1. CASE q >= p
      <4>1. q - p \in 0 .. c - 1 /\ p + (q - p) = q /\ q < c
        BY <1>1, <1>7, <3>1
      <4> QED
        BY <1>6, <4>1
    <3>2. CASE q < p
      <4>1. /\ q - p + c \in 0 .. c - 1 /\ p + (q - p + c) = q + c
            /\ ~(q + c < c) /\ (q + c) - c = q
        BY <1>1, <1>7, <3>2
      <4> QED
        BY <1>6, <4>1
    <3> QED
      BY <1>7, <3>1, <3>2
  <2>3. n \in Links(PageAfter(p, k), "image")
    BY <1>2, <1>3, <2>1, <2>2
  <2> QED
    BY <2>3
<1>10. all = 0 .. CIFAR_NUM_IMAGES - 1
  <2> HIDE DEF all
  <2> QED
    BY <1>8, <1>9
<1> QED
  BY <1>10 DEF c

(* An index page of the server leads to pictures it has and to pages it    *)
(* has, and going on with Next to all of them: IndexLeadsEverywhere, for   *)
(* any number of pictures that fills whole pages of any size.              *)
THEOREM IndexIsComplete == Spec => []IndexLeadsEverywhere
<1>1. Sound /\ Content => IndexLeadsEverywhere
  <2> SUFFICES ASSUME Content, pc = "build", request.route = "index", response.Code = 200
               PROVE  LET a == request.arg
                      IN  /\ \A n \in Links(a, "image") : PictureInRange(n)
                          /\ \A p \in Links(a, "link") :
                               CreateIndexPage(NewResponse, p).Code = 200
                          /\ UNION {Links(PageAfter(a, k), "image") :
                                      k \in 0 .. CIFAR_NUM_PAGES - 1}
                               = 0 .. CIFAR_NUM_IMAGES - 1
    BY DEF IndexLeadsEverywhere
  <2>1. PICK a \in 0 .. CIFAR_NUM_PAGES - 1 : a = request.arg
    BY DEF Content, SendingPCs, Answers200
  <2>2. \A n \in Links(a, "image") : PictureInRange(n)
    BY LinksAre, PicturesOfAPage DEF PictureInRange
  <2>3. ASSUME NEW p \in Links(a, "link") PROVE CreateIndexPage(NewResponse, p).Code = 200
    <3>1. p \in 0 .. CIFAR_NUM_PAGES - 1
      BY LinksAre, Neighbours
    <3> QED
      BY <3>1, NewResponseShows, IndexShows DEF Shows
  <2>4. UNION {Links(PageAfter(a, k), "image") : k \in 0 .. CIFAR_NUM_PAGES - 1}
          = 0 .. CIFAR_NUM_IMAGES - 1
    BY NextLeadsEverywhere
  <2> QED
    BY <2>1, <2>2, <2>3, <2>4
<1> QED
  BY <1>1, InitSound, NextSound, InitContent, NextContent, PTL DEF Spec

--------------------------------------------------------------------------------
(* The peer, and where it is in what it is sent.                           *)

\* What the peer is to be sent after the headers.
Due(r) == IF r.should_use_sendfile THEN FileText(r.sent_file_size) ELSE Text(r.Body)

HeaderCells(r) ==
  <<<<"status", r.Code>>, HeaderLine, HeaderLine>>
  \o (IF r.should_use_sendfile THEN <<HeaderLine>> ELSE <<>>)
  \o <<<<"length", ContentLength(r)>>>> \o <<Blank>>

\* The peer, field by field,
ReaderOf(last, status, length, body, lost) ==
  [last |-> last, status |-> status, length |-> length, body |-> body, lost |-> lost]

\* and in the middle of a response.
Reader(status, length, body) == ReaderOf(NULL, status, length, body, FALSE)

\* The peer after k cells of a body,
AfterBody(code, text, k) ==
  IF k < Len(text) THEN Reader(code, Len(text), SubSeq(text, 1, k))
  ELSE ReaderOf(<<code, text>>, 0, 0, NULL, FALSE)

\* and after k of h headers.
AfterHeaders(code, text, h, k) ==
  IF k = 0 THEN NothingRead
  ELSE IF k < h - 1 THEN Reader(code, 0, NULL)
  ELSE IF k = h - 1 THEN Reader(code, Len(text), NULL)
  ELSE AfterBody(code, text, 0)

\* A status, lines, the length, a blank line.
AreHeaders(hs, code, length) ==
  /\ hs \in Seq(Cells) /\ Len(hs) >= 4
  /\ hs[1] = <<"status", code>>
  /\ \A i \in 2 .. Len(hs) - 2 : hs[i] = HeaderLine
  /\ hs[Len(hs) - 1] = <<"length", length>> /\ hs[Len(hs)] = Blank

\* s is what is left of all after its first k cells.
IsRest(s, all, k) ==
  /\ s \in Seq(Cells) /\ k + Len(s) = Len(all)
  /\ \A i \in 1 .. Len(s) : s[i] = all[k + i]

Reading == INSTANCE FoldProofs WITH Op <- ReadCell

(* Reading cell after cell is a fold.                                      *)
LEMMA ReadingIsFold ==
  ASSUME NEW r, NEW cells
  PROVE  FoldLeft(ReadCell, r, cells) = Reading!Fold(r, cells)
  BY DEF FoldLeft, MapThenFoldSet, Max, Reading!Fold, Reading!FoldLeft,
         Reading!MapThenFoldSet, Reading!Max

(* The fields of a peer that is put together.                              *)
LEMMA ReaderFields ==
  ASSUME NEW a, NEW s, NEW l, NEW b, NEW x
  PROVE  /\ ReaderOf(a, s, l, b, x).last = a /\ ReaderOf(a, s, l, b, x).status = s
         /\ ReaderOf(a, s, l, b, x).length = l /\ ReaderOf(a, s, l, b, x).body = b
         /\ ReaderOf(a, s, l, b, x).lost = x
  BY DEF ReaderOf

(* They are replaced one at a time: the last response,                     *)
LEMMA LastPut ==
  ASSUME NEW a, NEW s, NEW l, NEW b, NEW x, NEW y
  PROVE  [ReaderOf(a, s, l, b, x) EXCEPT !.last = y] = ReaderOf(y, s, l, b, x)
  BY DEF ReaderOf

(* the status,                                                             *)
LEMMA StatusPut ==
  ASSUME NEW a, NEW s, NEW l, NEW b, NEW x, NEW y
  PROVE  [ReaderOf(a, s, l, b, x) EXCEPT !.status = y] = ReaderOf(a, y, l, b, x)
  BY DEF ReaderOf

(* the length,                                                             *)
LEMMA ReadLengthPut ==
  ASSUME NEW a, NEW s, NEW l, NEW b, NEW x, NEW y
  PROVE  [ReaderOf(a, s, l, b, x) EXCEPT !.length = y] = ReaderOf(a, s, y, b, x)
  BY DEF ReaderOf

(* the body,                                                               *)
LEMMA ReadBodyPut ==
  ASSUME NEW a, NEW s, NEW l, NEW b, NEW x, NEW y
  PROVE  [ReaderOf(a, s, l, b, x) EXCEPT !.body = y] = ReaderOf(a, s, l, y, x)
  BY DEF ReaderOf

(* and whether the peer is lost.                                           *)
LEMMA LostPut ==
  ASSUME NEW a, NEW s, NEW l, NEW b, NEW x, NEW y
  PROVE  [ReaderOf(a, s, l, b, x) EXCEPT !.lost = y] = ReaderOf(a, s, l, b, y)
  BY DEF ReaderOf

(* A peer in the middle of a response is not lost and has no last one.     *)
LEMMA InTheMiddle ==
  ASSUME NEW s, NEW l, NEW b
  PROVE  /\ Reader(s, l, b).last = NULL /\ Reader(s, l, b).status = s
         /\ Reader(s, l, b).length = l /\ Reader(s, l, b).body = b
         /\ ~Reader(s, l, b).lost
<1>1. PICK x : x = FALSE
  OBVIOUS
<1>2. Reader(s, l, b) = ReaderOf(NULL, s, l, b, x)
  BY <1>1 DEF Reader
<1> QED
  BY <1>1, <1>2, ReaderFields

(* The peer at the very start.                                             *)
LEMMA NothingReadIs == NothingRead = ReaderOf(NULL, 0, 0, NULL, FALSE)
  BY DEF NothingRead, ReaderOf

(* A peer that has read a response to its end.                             *)
LEMMA DoneIs ==
  ASSUME NEW last
  PROVE  /\ [NothingRead EXCEPT !.last = last] = ReaderOf(last, 0, 0, NULL, FALSE)
         /\ [NothingRead EXCEPT !.last = last, !.lost = FALSE]
              = ReaderOf(last, 0, 0, NULL, FALSE)
<1> DEFINE r == ReaderOf(last, 0, 0, NULL, FALSE)
<1>1. [ReaderOf(NULL, 0, 0, NULL, FALSE) EXCEPT !.last = last] = r
  <2>1. PICK x : x = FALSE
    OBVIOUS
  <2>2. PICK z : z = 0
    OBVIOUS
  <2>3. [ReaderOf(NULL, z, z, NULL, x) EXCEPT !.last = last] = ReaderOf(last, z, z, NULL, x)
    BY ONLY LastPut
  <2> QED
    BY ONLY <2>1, <2>2, <2>3
<1>2. [r EXCEPT !.lost = FALSE] = r
  <2>1. PICK x : x = FALSE
    OBVIOUS
  <2>2. PICK z : z = 0
    OBVIOUS
  <2>3. [ReaderOf(last, z, z, NULL, x) EXCEPT !.lost = x] = ReaderOf(last, z, z, NULL, x)
    BY ONLY LostPut
  <2> QED
    BY ONLY <2>1, <2>2, <2>3
<1>3. [NothingRead EXCEPT !.last = last, !.lost = FALSE]
        = [[NothingRead EXCEPT !.last = last] EXCEPT !.lost = FALSE]
  OBVIOUS
<1> HIDE DEF r
<1>4. [NothingRead EXCEPT !.last = last] = r
  BY ONLY <1>1, NothingReadIs
<1>5. [[NothingRead EXCEPT !.last = last] EXCEPT !.lost = FALSE] = r
  BY ONLY <1>2, <1>4
<1> QED
  BY <1>3, <1>4, <1>5 DEF r

(* One line of the headers.                                                *)
LEMMA ReadHeader ==
  ASSUME NEW s, NEW l, NEW n
  PROVE  /\ ReadCell(NothingRead, <<"status", n>>) = Reader(n, 0, NULL)
         /\ ReadCell(Reader(s, l, NULL), HeaderLine) = Reader(s, l, NULL)
         /\ ReadCell(Reader(s, l, NULL), <<"length", n>>) = Reader(s, n, NULL)
         /\ ReadCell(Reader(s, l, NULL), Blank) = Completed(Reader(s, l, <<>>))
<1>1. PICK x : x = FALSE
  OBVIOUS
<1>2. PICK z : z = 0
  OBVIOUS
<1>3. NothingRead = ReaderOf(NULL, z, z, NULL, x)
  BY <1>1, <1>2, NothingReadIs
<1>4. \A st, le, bo : Reader(st, le, bo) = ReaderOf(NULL, st, le, bo, x)
  BY <1>1 DEF Reader
<1>5. HeaderLine[1] = "header" /\ Blank[1] = "blank" /\ HeaderLine # Blank
  BY DEF HeaderLine, Blank
<1>6. ReadCell(NothingRead, <<"status", n>>) = Reader(n, 0, NULL)
  <2> DEFINE r == ReaderOf(NULL, z, z, NULL, x)
  <2>1. r.body = NULL
    BY ReaderFields
  <2>2. ReadCell(r, <<"status", n>>) = [[r EXCEPT !.status = n] EXCEPT !.last = NULL]
    <3>1. PICK cell : cell = <<"status", n>>
      OBVIOUS
    <3>2. cell[1] = "status" /\ cell[2] = n /\ cell # Blank /\ cell # HeaderLine
      BY <1>5, <3>1
    <3> HIDE DEF r
    <3>3. ReadCell(r, cell) = [r EXCEPT !.status = cell[2], !.last = NULL]
      BY ONLY <2>1, <3>2 DEF ReadCell
    <3>4. [r EXCEPT !.status = cell[2], !.last = NULL]
            = [[r EXCEPT !.status = cell[2]] EXCEPT !.last = NULL]
      OBVIOUS
    <3> QED
      BY ONLY <3>1, <3>2, <3>3, <3>4
  <2>3. [r EXCEPT !.status = n] = ReaderOf(NULL, n, z, NULL, x)
    BY ONLY StatusPut
  <2>4. [ReaderOf(NULL, n, z, NULL, x) EXCEPT !.last = NULL] = ReaderOf(NULL, n, z, NULL, x)
    BY ONLY LastPut
  <2> HIDE DEF r
  <2> QED
    BY <1>2, <1>3, <1>4, <2>2, <2>3, <2>4 DEF r
<1> DEFINE r == ReaderOf(NULL, s, l, NULL, x)
<1>7. r.body = NULL /\ Reader(s, l, NULL) = r
  BY <1>4, ReaderFields
<1>8. [r EXCEPT !.length = n] = Reader(s, n, NULL)
  <2>1. [r EXCEPT !.length = n] = ReaderOf(NULL, s, n, NULL, x)
    BY ONLY ReadLengthPut
  <2> QED
    BY <1>4, <2>1
<1>9. [r EXCEPT !.body = <<>>] = Reader(s, l, <<>>)
  <2>1. PICK y : y = <<>>
    OBVIOUS
  <2>2. [r EXCEPT !.body = y] = ReaderOf(NULL, s, l, y, x)
    BY ONLY ReadBodyPut
  <2> QED
    BY <1>4, <2>1, <2>2
<1> HIDE DEF r
<1>10. ReadCell(r, HeaderLine) = r
  BY <1>5, <1>7 DEF ReadCell
<1>11. ReadCell(r, <<"length", n>>) = [r EXCEPT !.length = n]
  <2>1. PICK cell : cell = <<"length", n>>
    OBVIOUS
  <2>2. cell[1] = "length" /\ cell[2] = n /\ cell # Blank /\ cell # HeaderLine
    BY <1>5, <2>1
  <2>3. ReadCell(r, cell) = [r EXCEPT !.length = cell[2]]
    BY ONLY <1>7, <2>2 DEF ReadCell
  <2> QED
    BY ONLY <2>1, <2>2, <2>3
<1>12. ReadCell(r, Blank) = Completed([r EXCEPT !.body = <<>>])
  BY <1>5, <1>7 DEF ReadCell
<1> QED
  BY <1>6, <1>7, <1>8, <1>9, <1>10, <1>11, <1>12

(* A reader who has part of a body goes on, and one who has all of it is   *)
(* done.                                                                   *)
LEMMA CompletedIs ==
  ASSUME NEW code, NEW text \in Seq(Cells), NEW k \in 0 .. Len(text)
  PROVE  Completed(Reader(code, Len(text), SubSeq(text, 1, k))) = AfterBody(code, text, k)
<1>1. PICK b, l : b = SubSeq(text, 1, k) /\ l = Len(text)
  OBVIOUS
<1>2. PICK x : x = FALSE
  OBVIOUS
<1> DEFINE r == ReaderOf(NULL, code, l, b, x)
<1>3. /\ r.body = SubSeq(text, 1, k) /\ r.length = Len(text) /\ r.status = code
      /\ r.lost = x
  <2>1. r.body = b /\ r.length = l /\ r.status = code /\ r.lost = x
    BY ONLY ReaderFields
  <2> HIDE DEF r
  <2> QED
    BY ONLY <1>1, <2>1
<1>4. Len(SubSeq(text, 1, k)) = k /\ Len(text) \in Nat
  OBVIOUS
<1>5. ASSUME k < Len(text) PROVE Completed(r) = AfterBody(code, text, k)
  <2>1. Completed(r) = r
    BY <1>3, <1>4, <1>5 DEF Completed
  <2> QED
    BY <1>1, <1>5, <1>2, <2>1 DEF AfterBody, Reader
<1>6. ASSUME k = Len(text) PROVE Completed(r) = AfterBody(code, text, k)
  <2>1. SubSeq(text, 1, k) = text
    BY <1>6
  <2>2. Completed(r) = [NothingRead EXCEPT !.last = <<code, text>>, !.lost = r.lost]
    <3> HIDE DEF r
    <3>1. ~(Len(r.body) < r.length) /\ r.status = code /\ r.body = text
      BY <1>3, <1>4, <1>6, <2>1
    <3>2. Completed(r) = [NothingRead EXCEPT !.last = <<r.status, r.body>>, !.lost = r.lost]
      BY ONLY <3>1 DEF Completed
    <3> QED
      BY ONLY <3>1, <3>2
  <2>3. Completed(r) = ReaderOf(<<code, text>>, 0, 0, NULL, FALSE)
    <3>1. PICK last : last = <<code, text>>
      OBVIOUS
    <3>2. [NothingRead EXCEPT !.last = last, !.lost = x]
            = ReaderOf(last, 0, 0, NULL, FALSE)
      BY <1>2, DoneIs
    <3> HIDE DEF r
    <3> QED
      BY ONLY <1>3, <2>2, <3>1, <3>2
  <2>4. ~(k < Len(text))
    BY <1>4, <1>6
  <2>5. AfterBody(code, text, k) = ReaderOf(<<code, text>>, 0, 0, NULL, FALSE)
    BY <2>4 DEF AfterBody
  <2> HIDE DEF r
  <2> QED
    BY ONLY <2>3, <2>5
<1>7. Completed(r) = AfterBody(code, text, k)
  <2>1. k < Len(text) \/ k = Len(text)
    BY <1>4
  <2> QED
    BY <1>5, <1>6, <2>1, Zenon
<1> QED
  BY <1>1, <1>7, <1>2 DEF Reader

(* Reading one header takes the peer from its place to the next one,       *)
LEMMA HeaderStep ==
  ASSUME NEW code, NEW text \in Seq(Cells), NEW hs, AreHeaders(hs, code, Len(text)),
         NEW k \in 1 .. Len(hs)
  PROVE  ReadCell(AfterHeaders(code, text, Len(hs), k - 1), hs[k])
           = AfterHeaders(code, text, Len(hs), k)
<1> DEFINE h == Len(hs)
           After(i) == AfterHeaders(code, text, h, i)
           l == Len(text)
<1>1. /\ h \in Nat /\ h >= 4
      /\ hs[1] = <<"status", code>>
      /\ \A i \in 2 .. h - 2 : hs[i] = HeaderLine
      /\ hs[h - 1] = <<"length", l>> /\ hs[h] = Blank
  BY DEF AreHeaders
<1>2. k \in 1 .. h
  OBVIOUS
<1>3. Completed(Reader(code, l, <<>>)) = AfterBody(code, text, 0)
  <2>1. 0 \in 0 .. Len(text) /\ SubSeq(text, 1, 0) = <<>>
    OBVIOUS
  <2> QED
    BY <2>1, CompletedIs
<1> HIDE DEF h, l
<1>4. /\ After(0) = NothingRead
      /\ \A i \in 1 .. h - 2 : After(i) = Reader(code, 0, NULL)
      /\ After(h - 1) = Reader(code, l, NULL)
      /\ After(h) = AfterBody(code, text, 0)
  <2>1. ASSUME NEW i \in 1 .. h - 2 PROVE After(i) = Reader(code, 0, NULL)
    <3>1. i # 0 /\ i < h - 1
      BY <1>1
    <3> QED
      BY <3>1 DEF AfterHeaders
  <2>2. h - 1 # 0 /\ ~(h - 1 < h - 1) /\ h # 0 /\ ~(h < h - 1) /\ h # h - 1
    BY <1>1
  <2> QED
    BY <2>1, <2>2 DEF AfterHeaders, l
<1> SUFFICES ReadCell(After(k - 1), hs[k]) = After(k)
  BY DEF h
<1> HIDE DEF After
<1>5. CASE k = 1
  <2>1. k - 1 = 0 /\ 1 \in 1 .. h - 2
    BY <1>1, <1>5
  <2> QED
    BY <1>1, <1>4, <1>5, <2>1, ReadHeader
<1>6. CASE k \in 2 .. h - 2
  <2>1. k - 1 \in 1 .. h - 2 /\ k \in 1 .. h - 2
    BY <1>1, <1>6
  <2> QED
    BY <1>1, <1>4, <1>6, <2>1, ReadHeader
<1>7. CASE k = h - 1
  <2>1. k - 1 \in 1 .. h - 2
    BY <1>1, <1>7
  <2>2. After(k - 1) = Reader(code, 0, NULL) /\ hs[k] = <<"length", l>>
        /\ After(k) = Reader(code, l, NULL)
    BY <1>1, <1>4, <1>7, <2>1
  <2>3. ReadCell(Reader(code, 0, NULL), <<"length", l>>) = Reader(code, l, NULL)
    <3>1. PICK z : z = 0
      OBVIOUS
    <3>2. ReadCell(Reader(code, z, NULL), <<"length", l>>) = Reader(code, l, NULL)
      BY ONLY ReadHeader
    <3> QED
      BY <3>1, <3>2
  <2> QED
    BY <2>2, <2>3
<1>8. CASE k = h
  <2>1. After(k - 1) = Reader(code, l, NULL)
    BY <1>4, <1>8
  <2> QED
    BY <1>1, <1>3, <1>4, <1>8, <2>1, ReadHeader
<1>9. k = 1 \/ k \in 2 .. h - 2 \/ k = h - 1 \/ k = h
  BY <1>1, <1>2
<1> QED
  BY <1>5, <1>6, <1>7, <1>8, <1>9

(* and so does reading one cell of the body.                               *)
LEMMA BodyStep ==
  ASSUME NEW code, NEW text \in Seq(Cells), NEW k \in 1 .. Len(text)
  PROVE  ReadCell(AfterBody(code, text, k - 1), text[k]) = AfterBody(code, text, k)
<1> DEFINE b == SubSeq(text, 1, k - 1)
           l == Len(text)
           r == Reader(code, l, b)
<1>1. b \in Seq(Cells) /\ Append(b, text[k]) = SubSeq(text, 1, k)
  OBVIOUS
<1>2. k - 1 < l /\ k \in 0 .. l
  OBVIOUS
<1>3. AfterBody(code, text, k - 1) = r
  BY <1>2 DEF AfterBody
<1>4. r.body = b /\ b # NULL
  <2>1. r.body = b
    <3>1. PICK x, y : x = l /\ y = b
      OBVIOUS
    <3>2. Reader(code, x, y).body = y
      BY ONLY InTheMiddle
    <3> QED
      BY <3>1, <3>2
  <2> HIDE DEF r, b
  <2> QED
    BY <1>1, <2>1, ResourcesAssumption
<1>5. ReadCell(r, text[k]) = Completed([r EXCEPT !.body = Append(@, text[k])])
  <2> HIDE DEF r, b
  <2> QED
    BY <1>4 DEF ReadCell
<1>6. [r EXCEPT !.body = Append(@, text[k])] = Reader(code, l, Append(b, text[k]))
  <2>1. PICK x : x = FALSE
    OBVIOUS
  <2>2. PICK y : y = Append(b, text[k])
    OBVIOUS
  <2>3. [ReaderOf(NULL, code, l, b, x) EXCEPT !.body = y] = ReaderOf(NULL, code, l, y, x)
    BY ONLY ReadBodyPut
  <2>4. r = ReaderOf(NULL, code, l, b, x) /\ Reader(code, l, y) = ReaderOf(NULL, code, l, y, x)
    BY <2>1 DEF Reader
  <2>5. [r EXCEPT !.body = Append(@, text[k])] = [r EXCEPT !.body = y]
    <3> HIDE DEF r, b
    <3> QED
      BY <1>4, <2>2
  <2> HIDE DEF r, b, l
  <2> QED
    BY <2>2, <2>3, <2>4, <2>5
<1> QED
  BY <1>1, <1>2, <1>3, <1>5, <1>6, CompletedIs

(* A part of a response of any length, read in one go.                     *)
LEMMA ReadsHeaders ==
  ASSUME NEW code, NEW text \in Seq(Cells), NEW hs, AreHeaders(hs, code, Len(text)),
         NEW k \in Nat, NEW s \in Seq(Cells), k + Len(s) <= Len(hs),
         \A i \in 1 .. Len(s) : s[i] = hs[k + i]
  PROVE  FoldLeft(ReadCell, AfterHeaders(code, text, Len(hs), k), s)
           = AfterHeaders(code, text, Len(hs), k + Len(s))
<1> DEFINE After(i) == AfterHeaders(code, text, Len(hs), i)
           n == Len(s)
           g == [i \in 0 .. n |-> After(k + i)]
<1>1. n \in Nat /\ Len(hs) \in Nat
  BY DEF AreHeaders
<1>2. ASSUME NEW i \in 1 .. n PROVE g[i] = ReadCell(g[i - 1], s[i])
  <2>1. /\ k + i \in 1 .. Len(hs) /\ (k + i) - 1 = k + (i - 1)
        /\ i \in 0 .. n /\ i - 1 \in 0 .. n
    BY <1>1
  <2>2. ReadCell(After((k + i) - 1), hs[k + i]) = After(k + i)
    BY <2>1, HeaderStep
  <2>3. g[i] = After(k + i) /\ g[i - 1] = After(k + (i - 1))
    BY <2>1
  <2> HIDE DEF After, g
  <2> QED
    BY <2>1, <2>2, <2>3
<1>3. g[0] = After(k + 0) /\ g[n] = After(k + n) /\ k + 0 = k
  BY <1>1
<1> HIDE DEF g
<1>4. \A i \in 1 .. Len(s) : g[i] = ReadCell(g[i - 1], s[i])
  BY <1>2
<1>5. Reading!Fold(g[0], s) = g[Len(s)]
  BY <1>4, Reading!FoldFollows
<1> QED
  BY <1>3, <1>5, ReadingIsFold

(* and so is the body.                                                     *)
LEMMA ReadsBody ==
  ASSUME NEW code, NEW text \in Seq(Cells),
         NEW k \in Nat, NEW s \in Seq(Cells), k + Len(s) <= Len(text),
         \A i \in 1 .. Len(s) : s[i] = text[k + i]
  PROVE  FoldLeft(ReadCell, AfterBody(code, text, k), s) = AfterBody(code, text, k + Len(s))
<1> DEFINE After(i) == AfterBody(code, text, i)
           n == Len(s)
           g == [i \in 0 .. n |-> After(k + i)]
<1>1. n \in Nat /\ Len(text) \in Nat
  OBVIOUS
<1>2. ASSUME NEW i \in 1 .. n PROVE g[i] = ReadCell(g[i - 1], s[i])
  <2>1. /\ k + i \in 1 .. Len(text) /\ (k + i) - 1 = k + (i - 1)
        /\ i \in 0 .. n /\ i - 1 \in 0 .. n
    BY <1>1
  <2>2. ReadCell(After((k + i) - 1), text[k + i]) = After(k + i)
    BY <2>1, BodyStep
  <2>3. g[i] = After(k + i) /\ g[i - 1] = After(k + (i - 1))
    BY <2>1
  <2> HIDE DEF After, g
  <2> QED
    BY <2>1, <2>2, <2>3
<1>3. g[0] = After(k + 0) /\ g[n] = After(k + n) /\ k + 0 = k
  BY <1>1
<1> HIDE DEF g
<1>4. \A i \in 1 .. Len(s) : g[i] = ReadCell(g[i - 1], s[i])
  BY <1>2
<1>5. Reading!Fold(g[0], s) = g[Len(s)]
  BY <1>4, Reading!FoldFollows
<1> QED
  BY <1>3, <1>5, ReadingIsFold

(* What send() takes of the rest, and what it leaves.                      *)
LEMMA RestSplits ==
  ASSUME NEW all, NEW k \in Nat, NEW s, IsRest(s, all, k), NEW n \in 1 .. Len(s)
  PROVE  /\ SubSeq(s, 1, n) \in Seq(Cells) /\ Len(SubSeq(s, 1, n)) = n
         /\ \A i \in 1 .. n : SubSeq(s, 1, n)[i] = all[k + i]
         /\ IsRest(SubSeq(s, n + 1, Len(s)), all, k + n)
<1>1. s \in Seq(Cells) /\ k + Len(s) = Len(all) /\ \A i \in 1 .. Len(s) : s[i] = all[k + i]
  BY DEF IsRest
<1>2. /\ SubSeq(s, 1, n) \in Seq(Cells) /\ Len(SubSeq(s, 1, n)) = n
      /\ \A i \in 1 .. n : SubSeq(s, 1, n)[i] = s[i]
  BY <1>1
<1>3. \A i \in 1 .. n : i \in 1 .. Len(s)
  BY <1>1
<1> DEFINE t == SubSeq(s, n + 1, Len(s))
<1>4. /\ t \in Seq(Cells) /\ Len(t) = Len(s) - n
      /\ \A i \in 1 .. Len(s) - n : t[i] = s[n + i]
  BY <1>1
<1> HIDE DEF t
<1>5. ASSUME NEW i \in 1 .. Len(s) - n PROVE t[i] = all[(k + n) + i]
  <2>1. n + i \in 1 .. Len(s) /\ k + (n + i) = (k + n) + i
    BY <1>1
  <2> QED
    BY <1>1, <1>4, <2>1
<1>6. (k + n) + Len(t) = Len(all)
  <2>1. Len(s) \in Nat /\ Len(t) = Len(s) - n /\ k + Len(s) = Len(all)
    BY <1>1, <1>4
  <2> QED
    BY <2>1
<1> QED
  BY <1>1, <1>2, <1>3, <1>4, <1>5, <1>6 DEF IsRest, t

(* The headers of a response are headers.                                  *)
LEMMA HeadersAre ==
  ASSUME NEW r, r.Code \in Int, ContentLength(r) \in Int
  PROVE  /\ AreHeaders(HeaderCells(r), r.Code, ContentLength(r))
         /\ Text(Headers(r)) = HeaderCells(r)
<1> DEFINE a == <<"status", r.Code>>
           e == <<"length", ContentLength(r)>>
           first == <<a, HeaderLine, HeaderLine>>
           extra == IF r.should_use_sendfile THEN <<HeaderLine>> ELSE <<>>
           lines == (first \o extra) \o <<e>>
           all == lines \o <<Blank>>
<1>1. a \in Cells /\ e \in Cells /\ HeaderLine \in Cells /\ Blank \in Cells
  BY PageCells
<1>2. HeaderCells(r) = all
  BY DEF HeaderCells
<1>3. Headers(r) = AppendBuf(SprintfAll(NewBuilder, lines), <<Blank>>)
  BY DEF Headers
<1> HIDE DEF a, e
<1>4. /\ first \in Seq(Cells) /\ Len(first) = 3 /\ first[1] = a
      /\ first[2] = HeaderLine /\ first[3] = HeaderLine
  BY <1>1
<1>5. /\ extra \in Seq(Cells) /\ Len(extra) \in 0 .. 1
      /\ \A i \in 1 .. Len(extra) : extra[i] = HeaderLine
  BY <1>1
<1> HIDE DEF first, extra
<1>6. PICK three \in Nat : three = 3
  OBVIOUS
<1>7. PICK x : x = first \o extra
  OBVIOUS
<1>8. /\ x \in Seq(Cells) /\ Len(x) = three + Len(extra)
      /\ \A i \in 1 .. three : x[i] = first[i]
      /\ \A i \in 1 .. Len(extra) : x[three + i] = extra[i]
  <2>1. first \in Seq(Cells) /\ extra \in Seq(Cells) /\ Len(first) = three
    BY <1>4, <1>5, <1>6
  <2> QED
    BY ONLY <1>7, <2>1, Behind
<1>9. PICK l \in Nat : l = Len(x)
  BY <1>8
<1>10. l \in 3 .. 4 /\ x[1] = a /\ \A i \in 2 .. l : x[i] = HeaderLine
  <2>1. l = 3 + Len(extra) /\ l \in 3 .. 4
    BY <1>5, <1>6, <1>8, <1>9
  <2>2. ASSUME NEW i \in 2 .. l PROVE x[i] = HeaderLine
    <3>1. CASE i = 2 \/ i = 3
      BY <1>4, <1>6, <1>8, <3>1
    <3>2. CASE i > 3
      <4>1. i - 3 \in 1 .. Len(extra) /\ 3 + (i - 3) = i
        BY <1>5, <2>1, <3>2
      <4> QED
        BY <1>5, <1>6, <1>8, <4>1
    <3> QED
      BY <2>1, <3>1, <3>2
  <2> QED
    BY <1>4, <1>6, <1>8, <2>1, <2>2
<1>11. PICK se : se = <<e>>
  OBVIOUS
<1>12. PICK sb : sb = <<Blank>>
  OBVIOUS
<1>13. /\ se \in Seq(Cells) /\ Len(se) = 1 /\ se[1] = e
       /\ sb \in Seq(Cells) /\ Len(sb) = 1 /\ sb[1] = Blank
  BY <1>1, <1>11, <1>12
<1>14. PICK y : y = x \o se
  OBVIOUS
<1>15. /\ y \in Seq(Cells) /\ Len(y) = l + Len(se)
       /\ \A i \in 1 .. l : y[i] = x[i]
       /\ \A i \in 1 .. Len(se) : y[l + i] = se[i]
  <2>1. x \in Seq(Cells) /\ se \in Seq(Cells) /\ l \in Nat /\ Len(x) = l
    BY <1>8, <1>9, <1>13
  <2> QED
    BY ONLY <1>14, <2>1, Behind
<1>16. PICK m \in Nat : m = l + 1
  OBVIOUS
<1>17. PICK z : z = y \o sb
  OBVIOUS
<1>18. /\ z \in Seq(Cells) /\ Len(z) = m + Len(sb)
       /\ \A i \in 1 .. m : z[i] = y[i]
       /\ \A i \in 1 .. Len(sb) : z[m + i] = sb[i]
  <2>1. y \in Seq(Cells) /\ sb \in Seq(Cells) /\ m \in Nat /\ Len(y) = m
    BY <1>13, <1>15, <1>16
  <2> QED
    BY ONLY <1>17, <2>1, Behind
<1>19. lines = y /\ all = z
  BY <1>7, <1>11, <1>12, <1>14, <1>17
<1>20. AreHeaders(z, r.Code, ContentLength(r))
  <2>1. Len(z) = l + 2 /\ Len(z) - 1 = l + 1 /\ Len(z) - 2 = l /\ Len(z) >= 4
    BY <1>10, <1>13, <1>16, <1>18
  <2>2. z[1] = a /\ \A i \in 2 .. l : z[i] = HeaderLine
    BY <1>10, <1>15, <1>16, <1>18
  <2>3. z[l + 1] = e /\ z[l + 2] = Blank
    <3>1. z[m] = y[m] /\ y[m] = e
      BY <1>13, <1>15, <1>16, <1>18
    <3>2. z[m + 1] = Blank /\ m + 1 = l + 2
      BY <1>13, <1>16, <1>18
    <3> QED
      BY <1>16, <3>1, <3>2
  <2> QED
    BY <1>18, <2>1, <2>2, <2>3 DEF AreHeaders, a, e
<1>21. Text(Headers(r)) = z
  <2> HIDE DEF lines, all
  <2>1. Whole(SprintfAll(NewBuilder, y), <<>> \o y)
    BY ONLY <1>15, NewBuilderWhole, PrintsAll
  <2>2. <<>> \o y = y
    BY <1>15, ConcatEmptySeq
  <2>3. Keeps(SprintfAll(NewBuilder, y), y)
    BY <2>1, <2>2 DEF Whole
  <2>4. Whole(AppendBuf(SprintfAll(NewBuilder, y), sb), y \o sb)
    BY ONLY <1>13, <2>3, Appends
  <2>5. Headers(r) = AppendBuf(SprintfAll(NewBuilder, y), sb)
    BY <1>3, <1>12, <1>19
  <2> QED
    BY <1>17, <2>4, <2>5, WholeHolds
<1> QED
  BY <1>2, <1>19, <1>20, <1>21

--------------------------------------------------------------------------------
(* The peer and the server.                                                *)

HeadersPCs == {"headers", "body", "open", "sendfile", "close", "destroy"}

Code == response.Code
DueText == Due(response)
HeaderCount == Len(HeaderCells(response))

\* How far the peer has come, if nothing has been cut short.
PeerFollows ==
  /\ pc = "headers" =>
       \E k \in Nat : /\ IsRest(out, HeaderCells(response), k)
                      /\ k < HeaderCount
                      /\ peer = AfterHeaders(Code, DueText, HeaderCount, k)
  /\ pc = "body" =>
       \E k \in Nat : /\ IsRest(out, DueText, k)
                      /\ k < Len(DueText)
                      /\ peer = AfterBody(Code, DueText, k)
  /\ pc \in {"open", "sendfile"} => peer = AfterBody(Code, DueText, 0)
  /\ pc \notin {"headers", "body", "open", "sendfile"} =>
       peer = [NothingRead EXCEPT !.last = promised]

Followed ==
  /\ pc \in HeadersPCs => promised = <<Code, DueText>>
  /\ pc = "body" => ~response.should_use_sendfile
  /\ ~cut => PeerFollows

(* Nothing has been promised, and nothing read.                            *)
LEMMA InitFollowed == Init => Followed
<1> SUFFICES ASSUME Init PROVE Followed
  OBVIOUS
<1>1. pc = "receive" /\ peer = NothingRead /\ promised = NULL
  BY DEF Init
<1>2. peer = [NothingRead EXCEPT !.last = promised]
  BY <1>1, DoneIs, NothingReadIs
<1> QED
  BY <1>1, <1>2 DEF Followed, PeerFollows, HeadersPCs

(* What is due is the page, and as long as the headers say.                *)
LEMMA DueIs ==
  ASSUME Sound, Content, pc \in SendingPCs
  PROVE  /\ DueText \in Seq(Cells) /\ Len(DueText) = ContentLength(response)
         /\ Code \in Int /\ ContentLength(response) \in Nat
         /\ DueText = Page(request, response)
         /\ response.Body.Length =
              IF response.should_use_sendfile THEN 0 ELSE Len(DueText)
<1>1. Code \in Int
  BY DEF Content, Codes, Code
<1>2. CASE response.should_use_sendfile
  <2> DEFINE n == response.sent_file_size
  <2>1. /\ n \in Nat /\ Shows(response, 200, <<>>)
        /\ request.route = "static" /\ response.file_path_requested = request.arg
    BY <1>2 DEF Content, SendsFileAskedFor
  <2>2. DueText = FileText(n) /\ ContentLength(response) = n
    BY <1>2 DEF DueText, Due, ContentLength
  <2>3. FileText(n) \in Seq(Cells) /\ Len(FileText(n)) = n
    BY <2>1, FileTextGrows
  <2>4. files[request.arg] # Directory
    BY <1>2, <2>1 DEF Sound, FileOfResponse
  <2>5. response.Code = 200 /\ response.Body.Length = 0
    BY <2>1 DEF Shows, Whole, Keeps
  <2>6. Page(request, response) = FileText(n)
    BY <2>1, <2>2, <2>4, <2>5, PageIs
  <2> QED
    BY <1>1, <1>2, <2>1, <2>2, <2>3, <2>5, <2>6
<1>3. CASE ~response.should_use_sendfile
  <2>1. Whole(response.Body, Page(request, response))
    BY <1>3 DEF Content, Shows
  <2>2. Text(response.Body) = Page(request, response)
    BY <2>1, WholeHolds
  <2>3. DueText = Page(request, response) /\ ContentLength(response) = response.Body.Length
    BY <1>3, <2>2 DEF DueText, Due, ContentLength
  <2>4. /\ Page(request, response) \in Seq(Cells)
        /\ response.Body.Length = Len(Page(request, response))
    BY <2>1 DEF Whole, Keeps
  <2> QED
    BY <1>1, <1>3, <2>3, <2>4
<1> QED
  BY <1>2, <1>3

(* Nothing is sent, and nothing is promised.                               *)
LEMMA StillFollowed ==
  ASSUME Followed, pc \notin HeadersPCs, pc' \notin HeadersPCs,
         UNCHANGED <<peer, promised, cut>>
  PROVE  Followed'
BY DEF Followed, PeerFollows, HeadersPCs

(* The same, while a response is being sent.                               *)
LEMMA SameFollowed ==
  ASSUME Followed, UNCHANGED <<pc, response, out, peer, promised, cut>>
  PROVE  Followed'
BY DEF Followed, PeerFollows, Code, DueText, HeaderCount, Due, HeaderCells, ContentLength

(* The headers are built: the page that is due is promised, and the peer   *)
(* is at their start.                                                      *)
LEMMA HeadersFollowed == ASSUME Sound, Content, Followed, BuildHeaders PROVE Followed'
<1>1. /\ pc = "build" /\ pc' = "headers" /\ out' = Text(Headers(response))
      /\ promised' = <<response.Code, Page(request, response)>>
      /\ peer' = [peer EXCEPT !.last = NULL]
      /\ UNCHANGED <<response, cut>>
  BY DEF BuildHeaders, world_vars
<1>2. /\ DueText \in Seq(Cells) /\ Len(DueText) = ContentLength(response)
      /\ Code \in Int /\ ContentLength(response) \in Nat
      /\ DueText = Page(request, response)
  BY <1>1, DueIs DEF SendingPCs
<1>3. /\ AreHeaders(HeaderCells(response), Code, ContentLength(response))
      /\ out' = HeaderCells(response)
  BY <1>1, <1>2, HeadersAre DEF Code
<1>4. /\ Code' = Code /\ DueText' = DueText /\ HeaderCells(response)' = HeaderCells(response)
      /\ HeaderCount' = HeaderCount
  BY <1>1 DEF Code, DueText, HeaderCount, Due, HeaderCells, ContentLength
<1>5. HeaderCount \in Nat /\ HeaderCount >= 4
      /\ IsRest(HeaderCells(response), HeaderCells(response), 0)
  <2>1. HeaderCells(response) \in Seq(Cells) /\ Len(HeaderCells(response)) >= 4
    BY <1>3 DEF AreHeaders
  <2> QED
    BY <2>1 DEF IsRest, HeaderCount
<1>6. ~cut => peer' = NothingRead
  <2> SUFFICES ASSUME ~cut PROVE peer' = NothingRead
    OBVIOUS
  <2>1. \E last : peer = [NothingRead EXCEPT !.last = last]
    BY <1>1 DEF Followed, PeerFollows
  <2>2. PICK last : peer = [NothingRead EXCEPT !.last = last]
    BY <2>1
  <2>3. PICK x, z : x = FALSE /\ z = 0
    OBVIOUS
  <2>4. peer = ReaderOf(last, z, z, NULL, x)
    BY <2>2, <2>3, DoneIs
  <2>5. [ReaderOf(last, z, z, NULL, x) EXCEPT !.last = NULL] = ReaderOf(NULL, z, z, NULL, x)
    BY ONLY LastPut
  <2> QED
    BY <1>1, <2>3, <2>4, <2>5, NothingReadIs
<1>7. AfterHeaders(Code, DueText, HeaderCount, 0) = NothingRead
  BY DEF AfterHeaders
<1>8. ~cut' => PeerFollows'
  BY <1>1, <1>3, <1>4, <1>5, <1>6, <1>7 DEF PeerFollows
<1>9. promised' = <<Code', DueText'>>
  BY <1>1, <1>2, <1>4 DEF Code
<1> QED
  BY <1>1, <1>8, <1>9 DEF Followed

(* send() takes a part of the headers or of the body, or the rest of it.   *)
LEMMA PartFollowed ==
  ASSUME Sound, Content, Followed, NEW n \in 1 .. Len(out), SendAll(n)
  PROVE  Followed'
<1>1. /\ pc \in {"headers", "body"} /\ cut' = cut
      /\ peer' = IF cut THEN NothingRead
                 ELSE FoldLeft(ReadCell, peer, SubSeq(out, 1, n))
      /\ IF n < Len(out) THEN pc' = pc /\ out' = SubSeq(out, n + 1, Len(out)) ELSE AfterSent
      /\ UNCHANGED <<response, promised>>
  BY DEF SendAll, Transmit, world_vars
<1>2. pc' \in HeadersPCs
  BY <1>1 DEF AfterSent, HeadersPCs
<1>3. /\ DueText \in Seq(Cells) /\ Len(DueText) = ContentLength(response)
      /\ Code \in Int /\ ContentLength(response) \in Nat
      /\ response.Body.Length =
           IF response.should_use_sendfile THEN 0 ELSE Len(DueText)
  BY <1>1, DueIs DEF SendingPCs
<1>4. /\ Code' = Code /\ DueText' = DueText /\ HeaderCells(response)' = HeaderCells(response)
      /\ HeaderCount' = HeaderCount
  BY <1>1 DEF Code, DueText, HeaderCount, Due, HeaderCells, ContentLength
<1>5. promised = <<Code, DueText>>
  BY <1>1 DEF Followed, HeadersPCs
<1>6. pc' = "body" => ~response'.should_use_sendfile
  BY <1>1, <1>3 DEF AfterSent, Followed
<1>7. ASSUME ~cut PROVE PeerFollows'
  <2>1. PeerFollows /\ peer' = FoldLeft(ReadCell, peer, SubSeq(out, 1, n))
    BY <1>1, <1>7 DEF Followed
  <2>2. CASE pc = "headers"
    <3> DEFINE hs == HeaderCells(response)
    <3>1. PICK k \in Nat : /\ IsRest(out, hs, k) /\ k < HeaderCount
                           /\ peer = AfterHeaders(Code, DueText, HeaderCount, k)
      BY <2>1, <2>2 DEF PeerFollows
    <3>2. AreHeaders(hs, Code, Len(DueText))
      BY <1>3, HeadersAre DEF Code
    <3>3. /\ SubSeq(out, 1, n) \in Seq(Cells) /\ Len(SubSeq(out, 1, n)) = n
          /\ \A i \in 1 .. n : SubSeq(out, 1, n)[i] = hs[k + i]
          /\ IsRest(SubSeq(out, n + 1, Len(out)), hs, k + n)
      BY <3>1, RestSplits
    <3>4. k + Len(out) = HeaderCount /\ Len(out) \in Nat /\ HeaderCount = Len(hs)
          /\ k + n \in Nat
      BY <3>1 DEF IsRest, HeaderCount
    <3>5. peer' = AfterHeaders(Code, DueText, HeaderCount, k + n)
      <4>1. PICK s : s = SubSeq(out, 1, n)
        OBVIOUS
      <4>2. /\ s \in Seq(Cells) /\ Len(s) = n /\ k + Len(s) <= Len(hs)
            /\ \A i \in 1 .. Len(s) : s[i] = hs[k + i]
        BY <3>3, <3>4, <4>1
      <4> HIDE DEF hs
      <4>3. FoldLeft(ReadCell, AfterHeaders(Code, DueText, Len(hs), k), s)
              = AfterHeaders(Code, DueText, Len(hs), k + Len(s))
        BY ONLY <1>3, <3>1, <3>2, <4>2, ReadsHeaders
      <4> QED
        BY <2>1, <3>1, <3>4, <4>1, <4>2, <4>3
    <3>6. CASE n < Len(out)
      <4>1. pc' = "headers" /\ out' = SubSeq(out, n + 1, Len(out)) /\ k + n < HeaderCount
        BY <1>1, <2>2, <3>4, <3>6
      <4>2. IsRest(out', hs, k + n)
        BY <3>3, <4>1
      <4> QED
        BY <1>4, <3>4, <3>5, <4>1, <4>2 DEF PeerFollows
    <3>7. CASE n = Len(out)
      <4>1. peer' = AfterBody(Code, DueText, 0)
        <5>1. k + n = HeaderCount /\ HeaderCount >= 4 /\ HeaderCount \in Nat
          BY <3>2, <3>4, <3>7 DEF AreHeaders
        <5> QED
          BY <3>5, <5>1 DEF AfterHeaders
      <4>2. AfterSent
        BY <1>1, <3>4, <3>7
      <4>3. CASE response.Body.Length # 0
        <5>1. pc' = "body" /\ out' = DueText /\ Len(DueText) > 0
          BY <1>3, <2>2, <4>2, <4>3 DEF AfterSent, DueText, Due
        <5>2. IsRest(DueText, DueText, 0)
          BY <1>3 DEF IsRest
        <5> QED
          BY <1>4, <4>1, <5>1, <5>2 DEF PeerFollows
      <4>4. CASE response.Body.Length = 0
        <5>1. pc' = IF response.should_use_sendfile THEN "open" ELSE "destroy"
          BY <2>2, <4>2, <4>4 DEF AfterSent
        <5>2. CASE response.should_use_sendfile
          BY <1>4, <4>1, <5>1, <5>2 DEF PeerFollows
        <5>3. CASE ~response.should_use_sendfile
          <6>1. ~(0 < Len(DueText))
            BY <1>3, <4>4, <5>3
          <6>2. peer' = [NothingRead EXCEPT !.last = promised]
            BY <1>5, <4>1, <6>1, DoneIs DEF AfterBody
          <6> QED
            BY <1>1, <5>1, <5>3, <6>2 DEF PeerFollows
        <5> QED
          BY <5>2, <5>3
      <4> QED
        BY <4>3, <4>4
    <3> QED
      BY <3>4, <3>6, <3>7
  <2>3. CASE pc = "body"
    <3>1. PICK k \in Nat : /\ IsRest(out, DueText, k) /\ k < Len(DueText)
                           /\ peer = AfterBody(Code, DueText, k)
      BY <2>1, <2>3 DEF PeerFollows
    <3>2. ~response.should_use_sendfile
      BY <2>3 DEF Followed
    <3>3. /\ SubSeq(out, 1, n) \in Seq(Cells) /\ Len(SubSeq(out, 1, n)) = n
          /\ \A i \in 1 .. n : SubSeq(out, 1, n)[i] = DueText[k + i]
          /\ IsRest(SubSeq(out, n + 1, Len(out)), DueText, k + n)
      BY <3>1, RestSplits
    <3>4. k + Len(out) = Len(DueText) /\ Len(out) \in Nat /\ k + n \in Nat
      BY <3>1 DEF IsRest
    <3>5. peer' = AfterBody(Code, DueText, k + n)
      <4>1. PICK s : s = SubSeq(out, 1, n)
        OBVIOUS
      <4>2. /\ s \in Seq(Cells) /\ Len(s) = n /\ k + Len(s) <= Len(DueText)
            /\ \A i \in 1 .. Len(s) : s[i] = DueText[k + i]
        BY <3>3, <3>4, <4>1
      <4>3. FoldLeft(ReadCell, AfterBody(Code, DueText, k), s)
              = AfterBody(Code, DueText, k + Len(s))
        BY ONLY <1>3, <3>1, <4>2, ReadsBody
      <4> QED
        BY <2>1, <3>1, <4>1, <4>2, <4>3
    <3>6. CASE n < Len(out)
      <4>1. pc' = "body" /\ out' = SubSeq(out, n + 1, Len(out)) /\ k + n < Len(DueText)
        BY <1>1, <2>3, <3>4, <3>6
      <4>2. IsRest(out', DueText, k + n)
        BY <3>3, <4>1
      <4> QED
        BY <1>4, <3>4, <3>5, <4>1, <4>2 DEF PeerFollows
    <3>7. CASE n = Len(out)
      <4>1. pc' = "destroy"
        BY <1>1, <2>3, <3>2, <3>4, <3>7 DEF AfterSent
      <4>2. ~(k + n < Len(DueText))
        BY <3>4, <3>7
      <4>3. peer' = [NothingRead EXCEPT !.last = promised]
        BY <1>5, <3>5, <4>2, DoneIs DEF AfterBody
      <4> QED
        BY <1>1, <4>1, <4>3 DEF PeerFollows
    <3> QED
      BY <3>4, <3>6, <3>7
  <2> QED
    BY <1>1, <2>2, <2>3
<1>8. ~cut' => PeerFollows'
  BY <1>1, <1>7
<1> QED
  BY <1>1, <1>2, <1>4, <1>5, <1>6, <1>8 DEF Followed

(* A file is sent in one call, or not to its end.                          *)
LEMMA FileFollowed ==
  ASSUME Sound, Content, Followed,
         \/ OpenFile \/ SendFileAgain \/ CloseFile
         \/ \E n \in 0 .. response.sent_file_size : SendFile(n)
  PROVE  Followed'
<1>1. /\ pc \in {"open", "sendfile", "close"} /\ pc' \in {"sendfile", "close", "destroy"}
      /\ UNCHANGED <<response, promised>>
  BY DEF OpenFile, SendFileAgain, Again, CloseFile, SendFile, world_vars, history_vars
<1>2. response.should_use_sendfile
  BY <1>1 DEF Sound, SendingState
<1>3. /\ DueText \in Seq(Cells) /\ Len(DueText) = ContentLength(response)
      /\ Code \in Int /\ ContentLength(response) \in Nat
  BY <1>1, DueIs DEF SendingPCs
<1>4. Code' = Code /\ DueText' = DueText
  BY <1>1 DEF Code, DueText, Due
<1>5. promised = <<Code, DueText>>
  BY <1>1 DEF Followed, HeadersPCs
<1>6. ASSUME ~cut' PROVE PeerFollows'
  <2>1. CASE OpenFile
    <3>1. pc = "open" /\ pc' = "sendfile" /\ UNCHANGED <<peer, cut>>
      BY <2>1 DEF OpenFile, history_vars
    <3> QED
      BY <1>1, <1>4, <1>6, <3>1 DEF Followed, PeerFollows
  <2>2. CASE CloseFile
    <3>1. pc = "close" /\ pc' = "destroy" /\ UNCHANGED <<peer, cut>>
      BY <2>2 DEF CloseFile, history_vars
    <3> QED
      BY <1>1, <1>4, <1>6, <3>1 DEF Followed, PeerFollows
  <2>3. CASE SendFileAgain
    <3>1. /\ pc = "sendfile" /\ pc' \in {"sendfile", "close"} /\ ~cut
          /\ pc' = "sendfile"
          /\ peer' = FoldLeft(ReadCell, peer, <<>>)
      BY <1>6, <2>3 DEF SendFileAgain, Again, Transmit
    <3>2. FoldLeft(ReadCell, peer, <<>>) = peer
      BY ReadingIsFold, Reading!FoldEmpty
    <3> QED
      BY <1>1, <1>4, <3>1, <3>2 DEF Followed, PeerFollows
  <2>4. ASSUME NEW n \in 0 .. response.sent_file_size, SendFile(n)
        PROVE  PeerFollows'
    <3> DEFINE size == response.sent_file_size
    <3>1. /\ pc = "sendfile" /\ pc' = "close" /\ ~cut /\ ~(n < size)
          /\ peer' = FoldLeft(ReadCell, peer, [i \in 1 .. n |-> FileByte])
      BY <1>6, <2>4 DEF SendFile, Transmit
    <3>2. size \in Nat /\ DueText = FileText(size) /\ ContentLength(response) = size
      BY <1>2, <1>3 DEF DueText, Due, ContentLength
    <3>3. n = size
      BY <3>1, <3>2
    <3>4. peer' = [NothingRead EXCEPT !.last = promised]
      <4>1. PICK s : s = FileText(size)
        OBVIOUS
      <4>2. /\ s \in Seq(Cells) /\ Len(s) = size /\ DueText = s
            /\ peer' = FoldLeft(ReadCell, peer, s)
        BY <1>3, <3>1, <3>2, <3>3, <4>1 DEF FileText
      <4>3. peer = AfterBody(Code, s, 0)
        BY <3>1, <4>2 DEF Followed, PeerFollows
      <4>4. PICK z \in Nat : z = 0
        OBVIOUS
      <4>5. /\ z + Len(s) <= Len(s) /\ \A i \in 1 .. Len(s) : s[i] = s[z + i]
            /\ z + Len(s) = size
        BY <3>2, <4>2, <4>4
      <4>6. FoldLeft(ReadCell, AfterBody(Code, s, z), s) = AfterBody(Code, s, z + Len(s))
        BY ONLY <4>2, <4>4, <4>5, ReadsBody
      <4>7. ~(size < Len(s))
        BY <3>2, <4>2
      <4>8. AfterBody(Code, s, size) = ReaderOf(<<Code, s>>, 0, 0, NULL, FALSE)
        BY <4>7 DEF AfterBody
      <4>9. peer' = ReaderOf(promised, 0, 0, NULL, FALSE)
        BY ONLY <1>5, <4>2, <4>3, <4>4, <4>5, <4>6, <4>8
      <4> QED
        BY <4>9, DoneIs
    <3> QED
      BY <1>1, <3>1, <3>4 DEF PeerFollows
  <2> QED
    BY <2>1, <2>2, <2>3, <2>4
<1>7. pc' \in HeadersPCs /\ pc' # "body"
  BY <1>1 DEF HeadersPCs
<1> QED
  BY <1>1, <1>4, <1>5, <1>6, <1>7 DEF Followed

(* The whole of THttpResponse_Send; a response that is given up is cut.    *)
LEMMA SenderFollowed == ASSUME Sound, Content, Followed, Sender PROVE Followed'
<1>1. ASSUME SendAllFails \/ OpenFileFails \/ SendFileFails PROVE Followed'
  <2>1. /\ pc \in HeadersPCs /\ pc' \in {"close", "destroy"} /\ cut' = TRUE
        /\ UNCHANGED <<response, promised>>
    BY <1>1 DEF SendAllFails, OpenFileFails, SendFileFails, GivesUp, HeadersPCs
  <2>2. Code' = Code /\ DueText' = DueText
    BY <2>1 DEF Code, DueText, Due
  <2> QED
    BY <2>1, <2>2 DEF Followed
<1>2. CASE Destroy
  <2>1. pc = "destroy" /\ pc' \in {"receive", "returned"}
        /\ UNCHANGED <<peer, promised, cut>>
    BY <1>2 DEF Destroy, world_vars, history_vars
  <2> QED
    BY <2>1 DEF Followed, PeerFollows, HeadersPCs
<1> QED
  BY <1>1, <1>2, HeadersFollowed, PartFollowed, FileFollowed DEF Sender

(* Every step leaves the peer where the server has got to.                 *)
LEMMA NextFollowed == Sound /\ Content /\ Followed /\ [Next]_vars => Followed'
<1>1. ASSUME Followed,
             \/ \E q \in Requests, keep \in BOOLEAN : Receive(q, keep)
             \/ \E code \in {400, 500} : ReceiveFails(code)
             \/ ReceiveDisconnected
             \/ Handler
      PROVE  Followed'
  <2>1. pc \notin HeadersPCs /\ pc' \notin HeadersPCs
        /\ UNCHANGED <<peer, promised, cut>>
    BY <1>1
       DEF Receive, ReceiveFails, ReceiveDisconnected, Handler, HandleMethod, HandleUnknown,
           HandleIndex, ImageOutOfRange, ImageFails, SendImage, ImageCrashes, HandleImage,
           StaticRefused, StaticResolved, StatFails, StatFile, ListDir, ListDirFails,
           StatFileToRead, OpenPage, OpenPageFails, ReadWholeFile, ReadWholeFileEnds,
           ReadWholeFileFails, Handling, Statting, Build, world_vars,
           history_vars, HeadersPCs
  <2> QED
    BY <1>1, <2>1, StillFollowed
<1>2. ASSUME Followed, NEW p \in Paths, NEW size \in FileSizes, ChangeFile(p, size)
      PROVE  Followed'
  BY <1>2, SameFollowed DEF ChangeFile, history_vars
<1>3. CASE Followed /\ UNCHANGED vars
  BY <1>3, SameFollowed DEF vars, send_vars, world_vars, history_vars
<1> QED
  BY <1>1, <1>2, <1>3, SenderFollowed DEF Next

(* In whatever parts send() and sendfile() take a response, and whatever   *)
(* happens to the files: a peer that goes by Content-Length reads exactly  *)
(* the page that is due, and never part of one response as another.        *)
THEOREM PeersReadPages == Spec => []PeerReadsThePage
<1>1. Sound /\ Content /\ Followed => PeerReadsThePage
  <2> SUFFICES ASSUME Sound, Content, Followed, ~cut
               PROVE  /\ ~peer.lost
                      /\ peer.last # NULL => peer.last = promised
                      /\ pc = "receive" => peer = [NothingRead EXCEPT !.last = promised]
    BY DEF PeerReadsThePage
  <2>1. ASSUME NEW last, peer = [NothingRead EXCEPT !.last = last]
        PROVE  ~peer.lost /\ peer.last = last
    <3>1. PICK x, z : x = FALSE /\ z = 0
      OBVIOUS
    <3>2. peer = ReaderOf(last, z, z, NULL, x)
      BY <2>1, <3>1, DoneIs
    <3> QED
      BY <3>1, <3>2, ReaderFields
  <2>2. ASSUME NEW s, NEW l, NEW b, peer = Reader(s, l, b)
        PROVE  ~peer.lost /\ peer.last = NULL
    BY <2>2, InTheMiddle
  <2>3. PeerFollows
    BY DEF Followed
  <2>4. CASE pc \notin {"headers", "body", "open", "sendfile"}
    BY <2>1, <2>3, <2>4 DEF PeerFollows
  <2>5. CASE pc \in {"headers", "body", "open", "sendfile"}
    <3>1. promised = <<Code, DueText>>
      BY <2>5 DEF Followed, HeadersPCs
    <3>2. ASSUME NEW k, peer = AfterBody(Code, DueText, k)
          PROVE  ~peer.lost /\ (peer.last # NULL => peer.last = promised)
      <4>1. CASE k < Len(DueText)
        <5>1. peer = Reader(Code, Len(DueText), SubSeq(DueText, 1, k))
          BY <3>2, <4>1 DEF AfterBody
        <5> QED
          BY <2>2, <5>1
      <4>2. CASE ~(k < Len(DueText))
        <5>1. peer = [NothingRead EXCEPT !.last = promised]
          BY <3>1, <3>2, <4>2, DoneIs DEF AfterBody
        <5> QED
          BY <2>1, <5>1
      <4> QED
        BY <4>1, <4>2
    <3>3. CASE pc = "headers"
      <4>1. PICK k \in Nat : peer = AfterHeaders(Code, DueText, HeaderCount, k)
        BY <2>3, <3>3 DEF PeerFollows
      <4>2. \/ peer = [NothingRead EXCEPT !.last = NULL]
            \/ peer = Reader(Code, 0, NULL)
            \/ peer = Reader(Code, Len(DueText), NULL)
            \/ peer = AfterBody(Code, DueText, 0)
        <5>1. NothingRead = [NothingRead EXCEPT !.last = NULL]
          BY DoneIs, NothingReadIs
        <5> QED
          BY <4>1, <5>1 DEF AfterHeaders
      <4> QED
        BY <2>1, <2>2, <3>2, <3>3, <4>2
    <3>4. CASE pc = "body"
      BY <2>3, <3>2, <3>4 DEF PeerFollows
    <3>5. CASE pc \in {"open", "sendfile"}
      BY <2>3, <3>2, <3>5 DEF PeerFollows
    <3> QED
      BY <2>5, <3>3, <3>4, <3>5
  <2> QED
    BY <2>4, <2>5
<1> QED
  BY <1>1, InitSound, NextSound, InitContent, NextContent, InitFollowed, NextFollowed, PTL
     DEF Spec
================================================================================
