------------------------------ MODULE NumberSource ------------------------------
(***************************************************************************)
(* hw5/numbers.c: the numbers to guess, read from a file when the server   *)
(* starts and given out in a ring, or random when the file has none.  A    *)
(* file is the count that stands first in it and the tokens after that.    *)
(***************************************************************************)
EXTENDS Integers, Sequences

CONSTANTS
  MAX,           \* the largest number to guess
  Unreadable     \* a token fscanf cannot read as a number

ASSUME NumberAssumption == MAX \in Nat /\ Unreadable \notin Nat

\* fscanf leaves an unreadable token where it is, so nothing after it is read.
Readable(file) ==
  {i \in 1 .. Len(file.tokens) :
     /\ i <= file.n
     /\ \A j \in 1 .. i : file.tokens[j] # Unreadable}

\* What the file leaves in Data: the numbers up to MAX among the first n.
NumberSourceInit(file) ==
  SelectSeq([i \in Readable(file) |-> file.tokens[i]], LAMBDA x : x <= MAX)

\* What NumberSourceGet may return, and where the position is afterwards.
Numbers(data, pos) == IF data = <<>> THEN 0 .. MAX ELSE {data[pos + 1]}

NextPos(data, pos) ==
  IF data = <<>> THEN pos ELSE (pos + 1) % Len(data)
================================================================================
