-------------------------------- MODULE GuessGame --------------------------------
(***************************************************************************)
(* One game of hw5/server.c: a child (ServeSingleClient) and its client on *)
(* the two streams of a connection.  A guess is GUESS_BYTES bytes, most    *)
(* significant first, and recv() may return any part of what has arrived;  *)
(* an answer is one byte.                                                  *)
(***************************************************************************)
EXTENDS NumberSource, Powers

CONSTANTS
  GUESS_BYTES,    \* sizeof(uint32_t)
  BASE,           \* how many values a byte has
  MAX_ATTEMPTS,
  MaxInFlight     \* how many guesses the client sends ahead of the answers

ASSUME GameAssumption ==
  /\ GUESS_BYTES \in Nat \ {0}
  /\ BASE \in Nat \ {0, 1}
  /\ MAX < Power(BASE, GUESS_BYTES)
  /\ MAX_ATTEMPTS \in Nat
  /\ MaxInFlight \in Nat \ {0}

\* There are 32 attempts, and the numbers go up to 10^9.
ASSUME AttemptsAssumption == MAX + 1 < Power(2, MAX_ATTEMPTS)

Bytes == 0 .. BASE - 1

Guesses == 0 .. Power(BASE, GUESS_BYTES) - 1

Answers == {">", "<", "="}

VARIABLES
  game_number, \* the argument number: the number to guess
  pc,          \* the child: "recv", "send", "close", "closed" or "killed"
  attempt,     \* the loop counter
  buffer,      \* the bytes of the guess received so far
  to_server,   \* bytes on their way to the child
  client_eof,  \* TRUE once the client has closed the connection
  answers,     \* what the client has been sent
  sent         \* history: the guesses the client has sent

game_vars == <<game_number, pc, attempt, buffer, to_server, client_eof, answers, sent>>

GameTypeOK ==
  /\ game_number \in 0 .. MAX
  /\ pc \in {"recv", "send", "close", "closed", "killed"}
  /\ attempt \in 1 .. MAX_ATTEMPTS + 1
  /\ buffer \in Seq(Bytes) /\ Len(buffer) <= GUESS_BYTES
  /\ to_server \in Seq(Bytes)
  /\ client_eof \in BOOLEAN
  /\ answers \in Seq(Answers) /\ Len(answers) <= MAX_ATTEMPTS
  /\ sent \in Seq(Guesses)

GameInit ==
  /\ game_number \in 0 .. MAX
  /\ pc = IF MAX_ATTEMPTS = 0 THEN "close" ELSE "recv"
  /\ attempt = 1
  /\ buffer = <<>>
  /\ to_server = <<>>
  /\ client_eof = FALSE
  /\ answers = <<>>
  /\ sent = <<>>

--------------------------------------------------------------------------------
(* The child, ServeSingleClient.                                           *)

RespondToGuess(x, guess) ==
  CASE x > guess -> ">" [] x < guess -> "<" [] x = guess -> "="

\* ntohl of a complete buffer.
NextByte(n, b) == n * BASE + b

NetworkOrder(bytes) == FoldLeft(NextByte, 0, bytes)

\* Mutant: whatever recv() returns is a guess.
ReceivedAny(bytes) == bytes # <<>>

Received(bytes) == Len(bytes) = GUESS_BYTES

\* One recv() of RecvAll: k bytes of what is still missing.
Recv(k) ==
  /\ pc = "recv"
  /\ k \in 1 .. GUESS_BYTES - Len(buffer)
  /\ k <= Len(to_server)
  /\ buffer' = buffer \o SubSeq(to_server, 1, k)
  /\ to_server' = SubSeq(to_server, k + 1, Len(to_server))
  /\ pc' = IF Received(buffer') THEN "send" ELSE "recv"
  /\ UNCHANGED <<game_number, attempt, client_eof, answers, sent>>

\* recv() returns 0 or fails: the game ends, with a guess half read or not.
RecvFails ==
  /\ pc = "recv"
  /\ client_eof
  /\ to_server = <<>>
  /\ pc' = "close"
  /\ UNCHANGED <<game_number, attempt, buffer, to_server, client_eof, answers, sent>>

\* Mutant: the last attempt is not made.
OutOfAttemptsEarly(n) == n > MAX_ATTEMPTS - 1

OutOfAttempts(n) == n > MAX_ATTEMPTS

\* The answer is sent and the next attempt begins.
Send ==
  /\ pc = "send"
  /\ ~client_eof
  /\ answers' = Append(answers, RespondToGuess(game_number, NetworkOrder(buffer)))
  /\ buffer' = <<>>
  /\ attempt' = attempt + 1
  /\ pc' = IF OutOfAttempts(attempt') THEN "close" ELSE "recv"
  /\ UNCHANGED <<game_number, to_server, client_eof, sent>>

\* The client has gone: send() raises SIGPIPE, which nobody handles.
SendKills ==
  /\ pc = "send"
  /\ client_eof
  /\ pc' = "killed"
  /\ UNCHANGED <<game_number, attempt, buffer, to_server, client_eof, answers, sent>>

CloseSocket ==
  /\ pc = "close"
  /\ pc' = "closed"
  /\ UNCHANGED <<game_number, attempt, buffer, to_server, client_eof, answers, sent>>

Child ==
  \/ \E k \in 1 .. GUESS_BYTES : Recv(k)
  \/ RecvFails \/ Send \/ SendKills \/ CloseSocket

--------------------------------------------------------------------------------
(* The client.                                                             *)

HtonlBytes(g) ==
  [i \in 1 .. GUESS_BYTES |-> (g \div Power(BASE, GUESS_BYTES - i)) % BASE]

SendGuess(g) ==
  /\ ~client_eof
  /\ pc \notin {"closed", "killed"}
  /\ Len(sent) <= MAX_ATTEMPTS
  /\ Len(sent) - Len(answers) < MaxInFlight
  /\ to_server' = to_server \o HtonlBytes(g)
  /\ sent' = Append(sent, g)
  /\ UNCHANGED <<game_number, pc, attempt, buffer, client_eof, answers>>

\* The client leaves, and may have written only a part of its last guess.
Hangup(k) ==
  /\ ~client_eof
  /\ k \in 0 .. GUESS_BYTES - 1
  /\ k <= Len(to_server)
  /\ client_eof' = TRUE
  /\ to_server' = SubSeq(to_server, 1, Len(to_server) - k)
  /\ UNCHANGED <<game_number, pc, attempt, buffer, answers, sent>>

Client == (\E g \in Guesses : SendGuess(g)) \/ (\E k \in 0 .. GUESS_BYTES - 1 : Hangup(k))

GameNext == Child \/ Client

GameSpec == GameInit /\ [][GameNext]_game_vars

--------------------------------------------------------------------------------
(* What a client may conclude from the answers it has, the i-th taken as   *)
(* the answer to the i-th guess it has sent.                               *)
Fits(x, guess, answer) ==
  \/ answer = ">" /\ x > guess
  \/ answer = "<" /\ x < guess
  \/ answer = "=" /\ x = guess

\* The numbers the first n answers leave.
Candidates(n) ==
  {x \in 0 .. MAX : \A i \in 1 .. n : Fits(x, sent[i], answers[i])}

(* However the bytes of the guesses are cut up and however far the client  *)
(* runs ahead, the answers never exclude the number.                       *)
NeverMisled ==
  Len(answers) <= Len(sent) /\ game_number \in Candidates(Len(answers))

IsMiddle(m, S) ==
  /\ m \in S
  /\ Cardinality({x \in S : x < m}) = (Cardinality(S) - 1) \div 2

HasHalved ==
  \A i \in 1 .. Len(answers) : IsMiddle(sent[i], Candidates(i - 1))

(* MAX_ATTEMPTS is enough: a client that has always guessed the number in  *)
(* the middle of those that were left has found it when it is sent away.   *)
HalvingClientWins ==
  pc = "closed" /\ ~client_eof /\ HasHalved =>
    \E i \in 1 .. Len(answers) : answers[i] = "="
================================================================================
