-------------------------------- MODULE FdTable --------------------------------
(***************************************************************************)
(* The descriptor table the kernel keeps for a process, as accept() and    *)
(* close() change it.  Only the descriptors of accepted connections are    *)
(* in it; the standard streams and the listening socket never move.        *)
(* Threads of one process share one table, and a descriptor is a number    *)
(* that is used again as soon as it has been closed.                       *)
(***************************************************************************)
EXTENDS Integers

CONSTANTS
  Connections,    \* the connections clients can open
  NoConnection,   \* what an unused descriptor refers to
  OPEN_MAX        \* how many descriptors the process may have open

ASSUME FdAssumption ==
  /\ OPEN_MAX \in Nat \ {0}
  /\ NoConnection \notin Connections

Fds == 0 .. OPEN_MAX - 1

Tables == [Fds -> Connections \cup {NoConnection}]

EmptyTable == [d \in Fds |-> NoConnection]

\* What descriptor d refers to; -1, the "no descriptor" of the code, and every
\* other number outside the table refer to nothing.
Referent(table, d) == IF d \in Fds THEN table[d] ELSE NoConnection

IsOpen(table, c) == \E d \in Fds : table[d] = c

\* accept() takes the lowest unused descriptor.
IsLowestFree(table, d) ==
  /\ d \in Fds
  /\ table[d] = NoConnection
  /\ \A e \in Fds : table[e] = NoConnection => d <= e

Install(table, d, c) == [table EXCEPT ![d] = c]

\* close() frees the descriptor, whatever it refers to by now; on a number that
\* is not open it fails with EBADF, which no caller in the code looks at.
Close(table, d) == IF d \in Fds THEN [table EXCEPT ![d] = NoConnection] ELSE table

================================================================================
