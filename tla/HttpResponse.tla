------------------------------ MODULE HttpResponse ------------------------------
(***************************************************************************)
(* Handle (handler.c) with the resources, and THttpResponse_Send with      *)
(* SendAll and sendfile (http_response.c, io.c), on one connection.        *)
(* THttpRequest_Receive is reduced to its result and the request it finds; *)
(* HttpConnection has the rest of it.  The static files may be changed by  *)
(* somebody else between any two system calls; the file of pictures is not.*)
(***************************************************************************)
EXTENDS Resources

CONSTANTS
  MAX_RESEND_ATTEMPTS,
  BUFSIZE,         \* how much of a file is read at a time
  Builds,          \* records with USING_MMAP_INSTEAD_READ and USING_SENDFILE
  ENTRIES,         \* how many entries a directory has
  Requests,        \* records with a route and an argument
  Outside,         \* paths that are not below ./static
  Absent,          \* in the place of a size: there is no such file
  Directory,       \* in the place of a size: it is a directory
  Files,           \* what the paths may be at the start
  FileSizes,       \* what a file may be changed to
  PictureSizes,    \* sizes the file of pictures may have
  MaxRequests,     \* how many requests arrive
  MaxChanges       \* how often the files are changed

ASSUME ResponseAssumption ==
  /\ MAX_RESEND_ATTEMPTS \in Nat \ {0} /\ BUFSIZE \in Nat \ {0} /\ ENTRIES \in Nat
  /\ FileSizes \subseteq Nat \cup {Absent} /\ PictureSizes \subseteq Nat
  /\ MaxRequests \in Nat /\ MaxChanges \in Nat

Paths == UNION {DOMAIN f : f \in Files}

ASSUME FilesAssumption ==
  /\ Absent \notin Nat /\ Directory \notin Nat \cup {Absent}
  /\ Files \subseteq [Paths -> Nat \cup {Absent, Directory}]
  /\ NULL \notin Requests
  /\ \A q \in Requests :
       /\ q.route \in {"method", "unknown", "index", "image", "static"}
       /\ q.route \in {"index", "image"} => q.arg \in Int
       /\ q.route = "static" => q.arg \in Paths \ {NULL}

VARIABLES
  pc,
  request,
  req_keep_alive,      \* the request's should_keep_alive
  response,
  out,                 \* what SendAll still has to send
  attempt_counter,     \* of send_with_sendfile
  open_file,           \* the size of the file behind the open descriptor, or Absent
  build,               \* how the server was built
  pictures_size,       \* g_mapped_pictures_size
  files,               \* the static files: path to size, Absent or Directory
  peer,                \* what the peer has made of what it has been sent
  promised,            \* history: the code and the page of the response, or NULL
  cut,                 \* history: a response was not sent to its end
  requests, changes    \* history: counters of the bounds

request_vars == <<request, req_keep_alive, requests>>
send_vars == <<out, attempt_counter, open_file>>
world_vars == <<build, pictures_size, files, changes>>
history_vars == <<peer, promised, cut>>
vars == <<pc, request_vars, response, send_vars, world_vars, history_vars>>

PCs == {"receive", "handle", "stat", "open_page", "read", "build", "headers", "body", "open",
        "sendfile", "close", "destroy", "returned", "crashed"}

TypeOK ==
  /\ pc \in PCs
  /\ request \in Requests \cup {NULL}
  /\ req_keep_alive \in BOOLEAN
  /\ response.should_use_sendfile => response.file_path_requested \in Paths
  /\ attempt_counter \in 0 .. MAX_RESEND_ATTEMPTS
  /\ open_file \in Nat \cup {Absent}
  /\ requests \in 0 .. MaxRequests
  /\ changes \in 0 .. MaxChanges

--------------------------------------------------------------------------------
(* A peer reads the headers of a response and then as many cells as they   *)
(* say.  It keeps the last response it has read to its end.                *)

NothingRead == [last |-> NULL, status |-> 0, length |-> 0, body |-> NULL, lost |-> FALSE]

Completed(r) ==
  IF Len(r.body) < r.length THEN r
  ELSE [NothingRead EXCEPT !.last = <<r.status, r.body>>, !.lost = r.lost]

ReadCell(r, cell) ==
  CASE r.body # NULL -> Completed([r EXCEPT !.body = Append(@, cell)])
    [] r.body = NULL /\ cell[1] = "status" -> [r EXCEPT !.status = cell[2], !.last = NULL]
    [] r.body = NULL /\ cell[1] = "length" -> [r EXCEPT !.length = cell[2]]
    [] r.body = NULL /\ cell = Blank -> Completed([r EXCEPT !.body = <<>>])
    [] r.body = NULL /\ cell = HeaderLine -> r
    [] OTHER -> [r EXCEPT !.lost = TRUE]

\* What is sent is followed until a response was cut short.
Transmit(cells) == peer' = IF cut' THEN NothingRead ELSE FoldLeft(ReadCell, peer, cells)

Init ==
  /\ pc = "receive"
  /\ request = NULL
  /\ req_keep_alive = FALSE
  /\ response = NewResponse
  /\ out = <<>>
  /\ attempt_counter = 0
  /\ open_file = Absent
  /\ build \in Builds
  /\ pictures_size \in PictureSizes
  /\ files \in Files
  /\ peer = NothingRead /\ promised = NULL /\ cut = FALSE
  /\ requests = 0 /\ changes = 0

--------------------------------------------------------------------------------
(* ServeClient around Handle.                                              *)

Receive(q, keep) ==
  /\ pc = "receive" /\ requests < MaxRequests
  /\ pc' = "handle"
  /\ request' = q
  /\ req_keep_alive' = keep
  /\ requests' = requests + 1
  /\ UNCHANGED <<response, send_vars, world_vars, history_vars>>

\* The response r is ready to be sent.
Build(r) ==
  /\ pc' = "build"
  /\ response' = r
  /\ open_file' = Absent
  /\ UNCHANGED <<request_vars, out, attempt_counter, world_vars, history_vars>>

\* A bad request (400) or a failing receive (500), answered without Handle.
ReceiveFails(code) == pc = "receive" /\ Build(CreateErrorPage(response, code))

\* ServeClient returns at once.
ReceiveDisconnected ==
  /\ pc = "receive"
  /\ pc' = "returned"
  /\ UNCHANGED <<request_vars, response, send_vars, world_vars, history_vars>>

Handling(route) == pc = "handle" /\ request.route = route

HandleMethod == Handling("method") /\ Build(CreateErrorPage(response, 405))

HandleUnknown == Handling("unknown") /\ Build(CreateErrorPage(response, 404))

HandleIndex == Handling("index") /\ Build(CreateIndexPage(response, request.arg))

HandleImage == Handling("image") /\ PictureInRange(request.arg)

ImageOutOfRange ==
  /\ Handling("image")
  /\ ~PictureInRange(request.arg)
  /\ Build(CreateErrorPage(response, 404))

\* Load refuses, or malloc fails.
ImageFails == HandleImage /\ Build(CreateErrorPage(response, 500))

SendImage ==
  /\ HandleImage
  /\ IF build.USING_MMAP_INSTEAD_READ THEN ~LoadRefuses(request.arg, pictures_size)
     ELSE WholeInFile(request.arg, pictures_size)
  /\ Build(BitmapBody(response, PictureRead(request.arg, pictures_size)))

\* The copy runs over the last page of the mapped file, and there may be no memory.
ImageCrashes ==
  /\ HandleImage /\ build.USING_MMAP_INSTEAD_READ
  /\ ~LoadRefuses(request.arg, pictures_size)
  /\ LeavesPages(request.arg, pictures_size)
  /\ pc' = "crashed"
  /\ UNCHANGED <<request_vars, response, send_vars, world_vars, history_vars>>

--------------------------------------------------------------------------------
(* SendStaticFile: realpath, then stat.                                    *)

\* The real path is not there (404), or not below ./static (400), which may be
\* missing itself (500).
StaticRefused(code) ==
  /\ Handling("static")
  /\ (code = 404) <=> (files[request.arg] = Absent)
  /\ code = 400 => request.arg \in Outside
  /\ Build(CreateErrorPage(response, code))

StaticResolved ==
  /\ Handling("static")
  /\ files[request.arg] # Absent
  /\ request.arg \notin Outside
  /\ pc' = "stat"
  /\ UNCHANGED <<request_vars, response, send_vars, world_vars, history_vars>>

Statting(found) == pc = "stat" /\ files[request.arg] \in found

StatFails == Statting({Absent}) /\ Build(CreateErrorPage(response, 500))

ListDir == Statting({Directory}) /\ Build(DirListing(response, ENTRIES))

\* The directory cannot be listed, or one below it: what was listed before that is
\* dropped.
ListDirFails(n) ==
  /\ Statting({Directory})
  /\ Build(CreateErrorPage(DirListing(response, n), 500))

StatFile ==
  /\ Statting(Nat) /\ build.USING_SENDFILE
  /\ Build([response EXCEPT !.should_use_sendfile = TRUE,
                            !.file_path_requested = request.arg,
                            !.sent_file_size = files[request.arg]])

\* The other build reads the file into the body.
StatFileToRead ==
  /\ Statting(Nat) /\ ~build.USING_SENDFILE
  /\ pc' = "open_page"
  /\ UNCHANGED <<request_vars, response, send_vars, world_vars, history_vars>>

OpenPageFails == pc = "open_page" /\ Build(CreateErrorPage(response, 404))

OpenPage ==
  /\ pc = "open_page"
  /\ files[request.arg] # Absent
  /\ pc' = "read"
  /\ open_file' = files[request.arg]
  /\ UNCHANGED <<request_vars, response, out, attempt_counter, world_vars, history_vars>>

ReadWholeFile(n) ==
  /\ pc = "read"
  /\ response.Body.Length + n <= open_file
  /\ response' = [response EXCEPT !.Body = AppendBuf(@, [k \in 1 .. n |-> FileByte])]
  /\ UNCHANGED <<pc, request_vars, send_vars, world_vars, history_vars>>

ReadWholeFileEnds == pc = "read" /\ response.Body.Length >= open_file /\ Build(response)

ReadWholeFileFails == pc = "read" /\ Build(CreateErrorPage(response, 500))

Handler ==
  \/ HandleMethod \/ HandleUnknown \/ HandleIndex
  \/ ImageOutOfRange \/ ImageFails \/ SendImage \/ ImageCrashes
  \/ \E code \in {400, 404, 500} : StaticRefused(code)
  \/ StaticResolved \/ StatFails \/ StatFile
  \/ ListDir \/ \E n \in 0 .. ENTRIES : ListDirFails(n)
  \/ StatFileToRead \/ OpenPage \/ OpenPageFails
  \/ \E n \in 1 .. BUFSIZE : ReadWholeFile(n)
  \/ ReadWholeFileEnds \/ ReadWholeFileFails

--------------------------------------------------------------------------------
(* THttpResponse_Send.                                                     *)

\* Mutant: the length is the body's even when a file is sent.
ContentLengthOfBody(r) == r.Body.Length

ContentLength(r) == IF r.should_use_sendfile THEN r.sent_file_size ELSE r.Body.Length

\* Keep-alive and the warm-up line, the date of a file, the length, a blank line.
Headers(r) ==
  LET lines == <<<<"status", r.Code>>, HeaderLine, HeaderLine>>
               \o (IF r.should_use_sendfile THEN <<HeaderLine>> ELSE <<>>)
               \o <<<<"length", ContentLength(r)>>>>
  IN  AppendBuf(SprintfAll(NewBuilder, lines), <<Blank>>)

\* The page that is due, piece by piece.
Page(q, r) ==
  CASE r.Code # 200 -> <<Error(r.Code)>>
    [] r.Code = 200 /\ q.route = "index" -> IndexText(q.arg)
    [] r.Code = 200 /\ q.route = "image" -> <<Bitmap(PictureRead(q.arg, pictures_size))>>
    [] r.Code = 200 /\ q.route = "static" /\ files[q.arg] # Directory ->
         [i \in 1 .. ContentLength(r) |-> FileByte]
    [] OTHER -> ListingText(ENTRIES)

BuildHeaders ==
  /\ pc = "build"
  /\ pc' = "headers"
  /\ out' = Text(Headers(response))
  /\ promised' = <<response.Code, Page(request, response)>>
  /\ peer' = [peer EXCEPT !.last = NULL]
  /\ UNCHANGED <<request_vars, response, attempt_counter, open_file, world_vars, cut>>

AfterSent ==
  IF pc = "headers" /\ response.Body.Length # 0
  THEN pc' = "body" /\ out' = Text(response.Body)
  ELSE pc' = (IF response.should_use_sendfile THEN "open" ELSE "destroy") /\ out' = <<>>

\* send() takes any part.  EINTR and EAGAIN repeat the call and leave the state
\* as it was.  When all is sent the body follows, then the file.
SendAll(n) ==
  /\ pc \in {"headers", "body"}
  /\ n <= Len(out)
  /\ UNCHANGED cut
  /\ Transmit(SubSeq(out, 1, n))
  /\ IF n < Len(out) THEN pc' = pc /\ out' = SubSeq(out, n + 1, Len(out)) ELSE AfterSent
  /\ UNCHANGED <<request_vars, response, attempt_counter, open_file, world_vars, promised>>

\* The sending gives up; what is left of the response is not sent.
GivesUp(next) ==
  /\ pc' = next
  /\ out' = <<>>
  /\ cut' = TRUE
  /\ Transmit(<<>>)
  /\ UNCHANGED <<request_vars, response, attempt_counter, open_file, world_vars, promised>>

\* Any error but EINTR and EAGAIN: the peer has gone, or there is no socket.
SendAllFails == pc \in {"headers", "body"} /\ GivesUp("destroy")

\* The file has gone since its stat, or there is no descriptor: the headers have
\* been sent already.
OpenFileFails == pc = "open" /\ GivesUp("destroy")

OpenFile ==
  /\ pc = "open"
  /\ files[response.file_path_requested] # Absent
  /\ pc' = "sendfile"
  /\ open_file' = files[response.file_path_requested]
  /\ UNCHANGED <<request_vars, response, out, attempt_counter, world_vars, history_vars>>

\* One call, and whatever it has sent is taken for the whole.
SendFile(n) ==
  /\ pc = "sendfile"
  /\ n <= open_file
  /\ n = 0 => response.sent_file_size = 0 \/ open_file = 0
  /\ pc' = "close"
  /\ cut' = (cut \/ n < response.sent_file_size)
  /\ Transmit([i \in 1 .. n |-> FileByte])
  /\ UNCHANGED <<request_vars, response, send_vars, world_vars, promised>>

\* The peer has gone, or the file cannot be read.
SendFileFails == pc = "sendfile" /\ GivesUp("close")

\* Another turn of the loop after EINTR or EAGAIN.
Again(counter, go_on) ==
  /\ pc = "sendfile"
  /\ attempt_counter' = counter
  /\ pc' = IF go_on THEN "sendfile" ELSE "close"
  /\ cut' = (cut \/ ~go_on)
  /\ Transmit(<<>>)
  /\ UNCHANGED <<request_vars, response, out, open_file, world_vars, promised>>

\* Mutant: one attempt too many.
SendFileAgainLate == Again(attempt_counter + 1, attempt_counter + 1 <= MAX_RESEND_ATTEMPTS)

SendFileAgain == Again(attempt_counter + 1, attempt_counter + 1 < MAX_RESEND_ATTEMPTS)

CloseFile ==
  /\ pc = "close"
  /\ pc' = "destroy"
  /\ open_file' = Absent
  /\ UNCHANGED <<request_vars, response, out, attempt_counter, world_vars, history_vars>>

\* The result of the sending is not looked at.
Destroy ==
  /\ pc = "destroy"
  /\ pc' = IF req_keep_alive THEN "receive" ELSE "returned"
  /\ request' = NULL
  /\ req_keep_alive' = FALSE
  /\ response' = NewResponse
  /\ attempt_counter' = 0
  /\ UNCHANGED <<requests, out, open_file, world_vars, history_vars>>

Sender ==
  \/ BuildHeaders \/ \E n \in 1 .. Len(out) : SendAll(n)
  \/ SendAllFails \/ OpenFile \/ OpenFileFails
  \/ \E n \in 0 .. response.sent_file_size : SendFile(n)
  \/ SendFileAgain \/ SendFileFails \/ CloseFile \/ Destroy

--------------------------------------------------------------------------------
(* Whoever looks after the files.                                          *)

\* A file is written, or another one put in its place; an open one stays open.
ChangeFile(p, size) ==
  /\ changes < MaxChanges
  /\ files[p] \notin {Directory, size}
  /\ files' = [files EXCEPT ![p] = size]
  /\ changes' = changes + 1
  /\ \/ UNCHANGED open_file
     \/ /\ open_file # Absent /\ size # Absent
        /\ p = request.arg
        /\ open_file' = size
  /\ UNCHANGED <<pc, request_vars, response, out, attempt_counter, build, pictures_size,
                 history_vars>>

Next ==
  \/ \E q \in Requests, keep \in BOOLEAN : Receive(q, keep)
  \/ \E code \in {400, 500} : ReceiveFails(code)
  \/ ReceiveDisconnected
  \/ Handler \/ Sender
  \/ \E p \in Paths, size \in FileSizes : ChangeFile(p, size)

Spec == Init /\ [][Next]_vars

--------------------------------------------------------------------------------
(* While a response is being built its body is the page, in a builder that *)
(* is whole: whatever had to grow or be written twice on the way.          *)
BodyIsThePage ==
  pc = "build" /\ ~response.should_use_sendfile =>
    Holds(response.Body, Page(request, response))

(* A peer that goes by Content-Length reads exactly the response, with its *)
(* page, and is at the start of the next one when the server is; unless a  *)
(* response has been cut short after its headers had been sent.            *)
PeerReadsThePage ==
  ~cut =>
    /\ ~peer.lost
    /\ peer.last # NULL => peer.last = promised
    /\ pc = "receive" => peer = [NothingRead EXCEPT !.last = promised]

(* No link of an index page is a dead one, and a reader who goes on with   *)
(* Next sees all of the pictures.                                          *)
IndexLeadsEverywhere ==
  pc = "build" /\ request # NULL /\ request.route = "index" /\ response.Code = 200 =>
    /\ \A n \in Links(request.arg, "image") : PictureInRange(n)
    /\ \A p \in Links(request.arg, "link") : CreateIndexPage(NewResponse, p).Code = 200
    /\ UNION {Links(PageAfter(request.arg, k), "image") : k \in 0 .. CIFAR_NUM_PAGES - 1}
         = 0 .. CIFAR_NUM_IMAGES - 1
================================================================================
