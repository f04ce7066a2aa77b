----------------------------- MODULE HttpConnection -----------------------------
(***************************************************************************)
(* One connection of the cifar-server: the loop of ServeClient (handler.c) *)
(* with THttpRequest_Receive and its parser (http_request.c).  What the    *)
(* client sends is a stream of atoms: a word of a line (a space separates  *)
(* it from the next), CR or LF.  recv() returns any part of what has       *)
(* arrived, which may cut a line anywhere between two atoms.  CR comes     *)
(* before LF only; LF may come alone.                                      *)
(***************************************************************************)
EXTENDS Integers, Sequences, SequencesExt

CONSTANTS
  Words,           \* the words of requests
  CR, LF,
  NULL,
  RECV_BUF_SIZE,
  Texts,           \* what the client may send in one go
  MaxTexts,        \* how often it sends
  MaxErrors        \* how often poll or recv may fail

ASSUME HttpAssumption ==
  /\ {"GET", "Connection:", "keep-alive"} \subseteq Words
  /\ CR \notin Words /\ LF \notin Words /\ CR # LF
  /\ NULL \notin Seq(Words \cup {CR, LF})
  /\ RECV_BUF_SIZE \in Nat \ {0}
  /\ Texts \subseteq Seq(Words \cup {CR, LF})
  /\ MaxTexts \in Nat /\ MaxErrors \in Nat

Atoms == Words \cup {CR, LF}

Tokens == Seq(Atoms) \cup {NULL}

Results == {"SUCCESS", "DISCONNECTED", "ERROR", "BAD_REQUEST"}

Codes == {200, 400, 404, 405, 500}

VARIABLES
  pc,                 \* "poll", "recv", "serve", "send", "returned" or "crashed"
  parser,             \* THttpRequestParser and the THttpRequest it fills
  result,             \* the result of THttpRequest_Receive
  should_keep_alive,  \* the loop condition of ServeClient
  code,               \* the code of the response
  to_server,          \* atoms on their way to the server
  client_eof,         \* TRUE once the client has closed the connection
  responses,          \* the codes of the responses sent
  texts,              \* history: how often the client has sent
  errors,             \* history: how often poll or recv have failed
  received,           \* history: what this call of Receive has read
  answered            \* history: what the calls before it have read

server_vars == <<pc, parser, result, should_keep_alive, code>>
client_vars == <<to_server, client_eof, texts>>
vars == <<server_vars, client_vars, responses, errors, received, answered>>

\* THttpRequestParser_Init and THttpRequest_Init.
NewParser ==
  [Line |-> <<>>, LineNum |-> 0, Complete |-> FALSE, Invalid |-> FALSE,
   Method |-> NULL, Path |-> NULL, should_keep_alive |-> FALSE, consumed |-> 0]

Parsers ==
  [Line : Seq(Words \cup {CR}), LineNum : Nat, Complete : BOOLEAN,
   Invalid : BOOLEAN, Method : Tokens, Path : Tokens,
   should_keep_alive : BOOLEAN, consumed : Nat]

TypeOK ==
  /\ pc \in {"poll", "recv", "serve", "send", "returned", "crashed"}
  /\ parser \in Parsers
  /\ result \in Results
  /\ should_keep_alive \in BOOLEAN
  /\ code \in Codes
  /\ to_server \in Seq(Atoms)
  /\ client_eof \in BOOLEAN
  /\ responses \in Seq(Codes)
  /\ texts \in 0 .. MaxTexts
  /\ errors \in 0 .. MaxErrors
  /\ received \in Seq(Atoms)
  /\ answered \in Seq(Atoms)

Init ==
  /\ pc = "poll"
  /\ parser = NewParser
  /\ result = "SUCCESS"
  /\ should_keep_alive = TRUE
  /\ code = 200
  /\ to_server = <<>>
  /\ client_eof = FALSE
  /\ responses = <<>>
  /\ texts = 0
  /\ errors = 0
  /\ received = <<>>
  /\ answered = <<>>

--------------------------------------------------------------------------------
(* The parser.                                                             *)

\* TStringBuilder_ChopSuffix(line, "\r\n"): a lone LF stays.
Chop(line) ==
  IF IsSuffix(<<CR, LF>>, line) THEN SubSeq(line, 1, Len(line) - 2) ELSE line

\* The i-th token strtok_r finds; a LF that was not chopped is part of it.
LineToken(line, i) ==
  SubSeq(line, i, IF i < Len(line) /\ line[i + 1] = LF THEN i + 1 ELSE i)

\* The method, then the path; without a path the request is invalid.
ParseRequestLine(p, line) ==
  LET q == [p EXCEPT !.Method = LineToken(line, 1)]
  IN  IF Len(line) >= 2 /\ line[2] \in Words
      THEN [q EXCEPT !.Path = LineToken(line, 2)]
      ELSE [q EXCEPT !.Invalid = TRUE]

\* Only one header is known, and only in one spelling.
ParseHeaderLine(p, line) ==
  IF line = <<"Connection:", "keep-alive">>
  THEN [p EXCEPT !.should_keep_alive = TRUE] ELSE p

\* Mutant: the line is not cleared.
ProcessLineKept(p) ==
  LET line == Chop(p.Line)
  IN  CASE line = <<>> -> [p EXCEPT !.Complete = TRUE]
        [] line # <<>> /\ p.LineNum = 0 -> ParseRequestLine(p, line)
        [] OTHER -> ParseHeaderLine(p, line)

ProcessLine(p) ==
  LET line == Chop(p.Line)
      q == CASE line = <<>> -> [p EXCEPT !.Complete = TRUE]
             [] line # <<>> /\ p.LineNum = 0 -> ParseRequestLine(p, line)
             [] OTHER -> ParseHeaderLine(p, line)
  IN  [q EXCEPT !.Line = <<>>]

\* One atom of the data: LF ends a line, and an empty line the request, after
\* which nothing more is consumed.
Take(p, a) ==
  IF p.Complete THEN p
  ELSE LET q == [p EXCEPT !.Line = Append(@, a), !.consumed = @ + 1]
       IN  IF a = LF THEN [ProcessLine(q) EXCEPT !.LineNum = @ + 1] ELSE q

\* Mutant: the count goes on from the last call.
ConsumeOn(p, data) == FoldLeft(Take, p, data)

Consume(p, data) == FoldLeft(Take, [p EXCEPT !.consumed = 0], data)

\* Mutant: what follows the request in the buffer is dropped.
AfterRecvLenient(p, data) == Consume(p, data)

\* A request that is not the end of what was received is invalid.
AfterRecv(p, data) ==
  LET q == Consume(p, data)
  IN  IF q.consumed # Len(data) THEN [q EXCEPT !.Invalid = TRUE] ELSE q

--------------------------------------------------------------------------------
(* THttpRequest_Receive.  A line that is invalid makes the whole request   *)
(* invalid, however the receiving ends.                                    *)

ReceiveReturns(p, r) ==
  /\ pc' = "serve"
  /\ result' = IF p.Invalid THEN "BAD_REQUEST" ELSE r

PollReady ==
  /\ pc = "poll"
  /\ to_server # <<>> \/ client_eof
  /\ pc' = "recv"
  /\ result' = "SUCCESS"
  /\ UNCHANGED <<parser, should_keep_alive, code, client_vars, responses, errors,
                 received, answered>>

\* Mutant: the loop is not left after a timeout.
PollTimeoutGoesOn ==
  /\ pc = "poll"
  /\ to_server = <<>>
  /\ ~client_eof
  /\ result' = "DISCONNECTED"
  /\ UNCHANGED <<pc, parser, should_keep_alive, code, client_vars, responses, errors,
                 received, answered>>

\* Nothing has come for TIMEOUT_FOR_KEEP_ALIVE_CONNECTIONS.
PollTimeout ==
  /\ pc = "poll"
  /\ to_server = <<>>
  /\ ~client_eof
  /\ ReceiveReturns(parser, "DISCONNECTED")
  /\ UNCHANGED <<parser, should_keep_alive, code, client_vars, responses, errors,
                 received, answered>>

\* poll fails (a signal is enough), or recv does.
ReceiveFails ==
  /\ pc \in {"poll", "recv"}
  /\ errors < MaxErrors
  /\ errors' = errors + 1
  /\ ReceiveReturns(parser, "ERROR")
  /\ UNCHANGED <<parser, should_keep_alive, code, client_vars, responses,
                 received, answered>>

\* EINTR or EAGAIN: the loop goes round again.
RecvInterrupted ==
  /\ pc = "recv"
  /\ errors < MaxErrors
  /\ errors' = errors + 1
  /\ pc' = "poll"
  /\ UNCHANGED <<parser, result, should_keep_alive, code, client_vars, responses,
                 received, answered>>

RecvEof ==
  /\ pc = "recv"
  /\ to_server = <<>>
  /\ ReceiveReturns(parser, "DISCONNECTED")
  /\ UNCHANGED <<parser, should_keep_alive, code, client_vars, responses, errors,
                 received, answered>>

\* recv returns n atoms.
Recv(n) ==
  /\ pc = "recv"
  /\ n \in 1 .. RECV_BUF_SIZE
  /\ n <= Len(to_server)
  /\ LET data == SubSeq(to_server, 1, n)
     IN  /\ parser' = AfterRecv(parser, data)
         /\ received' = received \o data
  /\ to_server' = SubSeq(to_server, n + 1, Len(to_server))
  /\ IF parser'.Complete
     THEN ReceiveReturns(parser', result)
     ELSE pc' = "poll" /\ UNCHANGED result
  /\ UNCHANGED <<should_keep_alive, code, client_eof, texts, responses, errors, answered>>

--------------------------------------------------------------------------------
(* ServeClient and Handle.                                                 *)

Respond(c, keep) ==
  /\ pc' = "send"
  /\ code' = c
  /\ should_keep_alive' = (should_keep_alive /\ keep)

\* A good request is handled.  Handle compares the method first, and there is
\* none when the request began with an empty line.
ServeGood(c) ==
  /\ pc = "serve"
  /\ result = "SUCCESS"
  /\ parser.Method # NULL
  /\ c \in IF parser.Method = <<"GET">> THEN Codes \ {405} ELSE {405}
  /\ Respond(c, parser.should_keep_alive)
  /\ UNCHANGED <<parser, result, client_vars, responses, errors, received, answered>>

ServeGoodCrashes ==
  /\ pc = "serve"
  /\ result = "SUCCESS"
  /\ parser.Method = NULL
  /\ pc' = "crashed"
  /\ UNCHANGED <<parser, result, should_keep_alive, code, client_vars, responses, errors,
                 received, answered>>

\* Mutant: the connection is kept although the rest of it makes no sense.
ServeBadKeepAlive ==
  /\ pc = "serve"
  /\ result = "BAD_REQUEST"
  /\ Respond(400, TRUE)
  /\ UNCHANGED <<parser, result, client_vars, responses, errors, received, answered>>

ServeBad ==
  /\ pc = "serve"
  /\ result = "BAD_REQUEST"
  /\ Respond(400, FALSE)
  /\ UNCHANGED <<parser, result, client_vars, responses, errors, received, answered>>

ServeError ==
  /\ pc = "serve"
  /\ result = "ERROR"
  /\ Respond(500, FALSE)
  /\ UNCHANGED <<parser, result, client_vars, responses, errors, received, answered>>

\* The socket is closed here, and again by the caller.
ServeDisconnected ==
  /\ pc = "serve"
  /\ result = "DISCONNECTED"
  /\ pc' = "returned"
  /\ UNCHANGED <<parser, result, should_keep_alive, code, client_vars, responses, errors,
                 received, answered>>

\* THttpResponse_Send, whose result is not looked at, the two Destroy calls and
\* the head of the loop.
Send ==
  /\ pc = "send"
  /\ responses' = IF client_eof THEN responses ELSE Append(responses, code)
  /\ pc' = IF should_keep_alive THEN "poll" ELSE "returned"
  /\ parser' = NewParser
  /\ result' = "SUCCESS"
  /\ code' = 200
  /\ answered' = answered \o received
  /\ received' = <<>>
  /\ UNCHANGED <<should_keep_alive, client_vars, errors>>

Server ==
  \/ PollReady \/ PollTimeout \/ RecvEof
  \/ \E n \in 1 .. RECV_BUF_SIZE : Recv(n)
  \/ \E c \in Codes : ServeGood(c)
  \/ ServeGoodCrashes \/ ServeBad \/ ServeError \/ ServeDisconnected
  \/ Send

--------------------------------------------------------------------------------
(* The client, which need not wait for a response before it goes on.       *)

SendText(t) ==
  /\ ~client_eof
  /\ texts < MaxTexts
  /\ to_server' = to_server \o t
  /\ texts' = texts + 1
  /\ UNCHANGED <<server_vars, client_eof, responses, errors, received, answered>>

Hangup ==
  /\ ~client_eof
  /\ client_eof' = TRUE
  /\ UNCHANGED <<server_vars, to_server, texts, responses, errors, received, answered>>

Next ==
  \/ Server
  \/ ReceiveFails \/ RecvInterrupted
  \/ \E t \in Texts : SendText(t)
  \/ Hangup

Spec == Init /\ [][Next]_vars

\* The thread is scheduled, and poll gives up in the end when nothing comes.
\* Nothing has to fail.
FairSpec == Spec /\ WF_vars(Server)

--------------------------------------------------------------------------------
(* What a request is, told from the whole text of it.                      *)

EmptyLineEndsAt(t, i) ==
  /\ i >= 2 /\ t[i] = LF /\ t[i - 1] = CR
  /\ i = 2 \/ t[i - 2] = LF

RequestEnds(t) == {i \in 1 .. Len(t) : EmptyLineEndsAt(t, i)}

OneRequest(t) == RequestEnds(t) = {Len(t)}

HasRequestLine(t) == t[1] \in Words /\ t[2] \in Words

HasKeepAlive(t) ==
  \E i \in 1 .. Len(t) - 4 :
    SubSeq(t, i, i + 4) = <<LF, "Connection:", "keep-alive", CR, LF>>

(* However it arrives, what is handled as a good request is exactly one    *)
(* request, with the method, path and keep-alive header it has.            *)
GoodRequestIsWhatWasSent ==
  pc = "serve" /\ result = "SUCCESS" =>
    /\ OneRequest(received)
    /\ parser.should_keep_alive = HasKeepAlive(received)
    /\ parser.Method # NULL =>
         parser.Method[1] = received[1] /\ parser.Path[1] = received[2]

(* A request is refused only for a reason: its first line is not one, or   *)
(* something follows it in the same buffer.                                *)
BadRequestIsBad ==
  pc = "serve" /\ result = "BAD_REQUEST" =>
    \/ ~HasRequestLine(received)
    \/ \E i \in RequestEnds(received) : i < Len(received)

(* On a connection that goes on, every request read so far has had its     *)
(* response, and the next one starts where the last one ended.             *)
ResponsesMatchRequests ==
  pc = "poll" /\ received = <<>> /\ ~client_eof =>
    /\ Len(responses) = Cardinality(RequestEnds(answered))
    /\ answered # <<>> => Len(answered) \in RequestEnds(answered)

(* "received good request, now handling it" (handler.c:79): a good request *)
(* has a method and a path to handle.                                      *)
GoodRequestHasMethod ==
  pc = "serve" /\ result = "SUCCESS" =>
    parser.Method # NULL /\ parser.Path # NULL

(* ServeClient returns (or brings the process down): a client that has no  *)
(* more to send does not keep its worker.                                  *)
ServeClientReturns == <>(pc \in {"returned", "crashed"})
================================================================================
