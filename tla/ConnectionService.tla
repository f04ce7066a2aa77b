---------------------------- MODULE ConnectionService ----------------------------
(***************************************************************************)
(* What a server promises its clients, however it runs ServeClient: a      *)
(* connection waits in the listen queue, is accepted, is served once and   *)
(* is closed, and then the client may come again.  Connections are         *)
(* accepted one at a time.  A server that cannot start whatever is to      *)
(* serve a connection may leave it open for good, and is owed nothing more *)
(* by the kernel when it has done so with as many as it may have open.     *)
(***************************************************************************)
EXTENDS FiniteSets, Naturals

CONSTANTS
  Connections,
  Room       \* how many connections the server may have open at a time

VARIABLE conn      \* the stage each connection is at

Stages == {"away", "queued", "accepted", "served", "stranded"}

ServiceTypeOK == conn \in [Connections -> Stages]

Init == conn = [c \in Connections |-> "away"]

Moves(c, from, to) ==
  /\ conn[c] = from
  /\ conn' = [conn EXCEPT ![c] = to]

Arrive(c) == Moves(c, "away", "queued")

Exhausted == Cardinality({c \in Connections : conn[c] = "stranded"}) >= Room

Accept(c) ==
  /\ \A b \in Connections : conn[b] # "accepted"
  /\ Moves(c, "queued", "accepted")

Serve(c) == Moves(c, "accepted", "served")

Strand(c) == Moves(c, "accepted", "stranded")

Finish(c) == Moves(c, "served", "away")

Next ==
  \E c \in Connections :
    Arrive(c) \/ Accept(c) \/ Serve(c) \/ Strand(c) \/ Finish(c)

Spec == Init /\ [][Next]_conn

\* No client is owed its arrival; everything else is the server's duty, but that
\* of accepting only while there is room.
FairSpec ==
  /\ Spec
  /\ \A c \in Connections : /\ SF_conn(~Exhausted /\ Accept(c))
                            /\ WF_conn(Serve(c) \/ Strand(c))
                            /\ WF_conn(Finish(c))
================================================================================
