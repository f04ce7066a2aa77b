------------------------------- MODULE ForkServer -------------------------------
(***************************************************************************)
(* The build of cifar-server/server.c without threads: a process per       *)
(* connection.  fork() copies the descriptor table, so a connection stays  *)
(* open until every process that has it has closed it or has exited.       *)
(* SIGCHLD is ignored (RunServer), so a child that exits is gone at once.  *)
(***************************************************************************)
EXTENDS FdTable, FiniteSets, Sequences

CONSTANTS
  BACKLOG,       \* places in the listen queue
  Children,      \* the processes the system can give to the server at a time
  MaxFailures    \* how often fork may fail

ASSUME ForkAssumption ==
  /\ BACKLOG \in Nat \ {0}
  /\ MaxFailures \in Nat

VARIABLES
  queue,         \* the listen queue
  main_pc,       \* where the parent is: "accept", "fork" or "close"
  newfd,         \* the descriptor accept() returned
  fd_table,      \* the parent's descriptor table
  cpc,           \* where each child is
  serve_fd,      \* the child's copy of newfd
  child_table,   \* the child's descriptor table
  listeners,     \* the children that still hold the listening socket
  leaked         \* history: the parent's descriptors no process was created for

parent_vars == <<main_pc, newfd>>
child_vars == <<cpc, serve_fd, child_table, listeners>>
vars == <<queue, parent_vars, fd_table, child_vars, leaked>>

TypeOK ==
  /\ queue \in Seq(Connections) /\ Len(queue) <= BACKLOG
  /\ main_pc \in {"accept", "fork", "close"}
  /\ newfd \in Fds \cup (IF main_pc = "accept" THEN {-1} ELSE {})
  /\ fd_table \in Tables
  /\ cpc \in [Children -> {"none", "born", "serving", "exit"}]
  /\ serve_fd \in [Children -> Fds \cup {-1}]
  /\ child_table \in [Children -> Tables]
  /\ listeners \in SUBSET Children
  /\ leaked \in SUBSET Fds

\* listen() has succeeded.
Init ==
  /\ queue = <<>>
  /\ main_pc = "accept"
  /\ newfd = -1
  /\ fd_table = EmptyTable
  /\ cpc = [p \in Children |-> "none"]
  /\ serve_fd = [p \in Children |-> -1]
  /\ child_table = [p \in Children |-> EmptyTable]
  /\ listeners = {}
  /\ leaked = {}

--------------------------------------------------------------------------------
(* The parent, RunServerImpl.                                              *)

\* Mutant: the result of accept() is not looked at.
AcceptUnchecked(d) ==
  /\ main_pc = "accept"
  /\ queue # <<>>
  /\ newfd' = -1
  /\ queue' = Tail(queue)
  /\ main_pc' = "fork"
  /\ UNCHANGED <<fd_table, child_vars, leaked>>

\* A failed accept() is repeated, which leaves the state as it was.
Accept(d) ==
  /\ main_pc = "accept"
  /\ queue # <<>>
  /\ IsLowestFree(fd_table, d)
  /\ newfd' = d
  /\ fd_table' = Install(fd_table, d, Head(queue))
  /\ queue' = Tail(queue)
  /\ main_pc' = "fork"
  /\ UNCHANGED <<child_vars, leaked>>

\* A child is born with a copy of the table.
Birth(p, table) ==
  /\ cpc[p] = "none"
  /\ cpc' = [cpc EXCEPT ![p] = "born"]
  /\ serve_fd' = [serve_fd EXCEPT ![p] = newfd]
  /\ child_table' = [child_table EXCEPT ![p] = table]
  /\ listeners' = listeners \cup {p}

\* Mutant: the parent closes its descriptor before it forks.
CloseBeforeFork(p) ==
  /\ main_pc = "fork"
  /\ Birth(p, Close(fd_table, newfd))
  /\ fd_table' = Close(fd_table, newfd)
  /\ main_pc' = "close"
  /\ UNCHANGED <<queue, newfd, leaked>>

Fork(p) ==
  /\ main_pc = "fork"
  /\ Birth(p, fd_table)
  /\ main_pc' = "close"
  /\ UNCHANGED <<queue, newfd, fd_table, leaked>>

\* Back to accept() at once: nobody closes the descriptor.
ForkFails ==
  /\ main_pc = "fork"
  /\ Cardinality(leaked) < MaxFailures
  /\ leaked' = leaked \cup {newfd}
  /\ newfd' = -1
  /\ main_pc' = "accept"
  /\ UNCHANGED <<queue, fd_table, child_vars>>

\* Mutant: the parent keeps the descriptor.
ParentCloseForgotten ==
  /\ main_pc = "close"
  /\ newfd' = -1
  /\ main_pc' = "accept"
  /\ UNCHANGED <<queue, fd_table, child_vars, leaked>>

ParentClose ==
  /\ main_pc = "close"
  /\ fd_table' = Close(fd_table, newfd)
  /\ newfd' = -1
  /\ main_pc' = "accept"
  /\ UNCHANGED <<queue, child_vars, leaked>>

Parent ==
  \/ \E d \in Fds : Accept(d)
  \/ \E p \in Children : Fork(p)
  \/ ForkFails
  \/ ParentClose

--------------------------------------------------------------------------------
(* A child.                                                                *)

CloseListener(p) ==
  /\ cpc[p] = "born"
  /\ cpc' = [cpc EXCEPT ![p] = "serving"]
  /\ listeners' = listeners \ {p}
  /\ UNCHANGED <<queue, parent_vars, fd_table, serve_fd, child_table, leaked>>

\* ServeClient finds the peer gone, or out of time, and closes the descriptor.
ServeClientDisconnected(p) ==
  /\ cpc[p] = "serving"
  /\ cpc' = [cpc EXCEPT ![p] = "exit"]
  /\ child_table' = [child_table EXCEPT ![p] = Close(@, serve_fd[p])]
  /\ UNCHANGED <<queue, parent_vars, fd_table, serve_fd, listeners, leaked>>

ServeClientDone(p) ==
  /\ cpc[p] = "serving"
  /\ cpc' = [cpc EXCEPT ![p] = "exit"]
  /\ UNCHANGED <<queue, parent_vars, fd_table, serve_fd, child_table, listeners, leaked>>

\* exit(0): the kernel closes what the child has open.
Exit(p) ==
  /\ cpc[p] = "exit"
  /\ cpc' = [cpc EXCEPT ![p] = "none"]
  /\ serve_fd' = [serve_fd EXCEPT ![p] = -1]
  /\ child_table' = [child_table EXCEPT ![p] = EmptyTable]
  /\ UNCHANGED <<queue, parent_vars, fd_table, listeners, leaked>>

Child(p) ==
  CloseListener(p) \/ ServeClientDisconnected(p) \/ ServeClientDone(p) \/ Exit(p)

--------------------------------------------------------------------------------
(* The clients.                                                            *)

\* Some process has the connection open.
IsHeld(c) ==
  IsOpen(fd_table, c) \/ \E p \in Children : IsOpen(child_table[p], c)

Queued(c) == \E i \in 1 .. Len(queue) : queue[i] = c

\* A connection beyond the backlog is not taken in.
Connect(c) ==
  /\ ~Queued(c) /\ ~IsHeld(c)
  /\ Len(queue) < BACKLOG
  /\ queue' = Append(queue, c)
  /\ UNCHANGED <<parent_vars, fd_table, child_vars, leaked>>

Next ==
  \/ Parent
  \/ \E p \in Children : Child(p)
  \/ \E c \in Connections : Connect(c)

Spec == Init /\ [][Next]_vars

(***************************************************************************)
(* Every process is scheduled, and ServeClient returns (poll() gives up    *)
(* after ten seconds without a request, and a client has finitely many to  *)
(* send).  No fairness is needed of the clients or of failures.            *)
(***************************************************************************)
FairSpec ==
  /\ Spec
  /\ WF_vars(Parent)
  /\ \A p \in Children : WF_vars(Child(p))

--------------------------------------------------------------------------------
(* "parent doesn't need this" (server.c:358): no process has a connection  *)
(* open that is neither its own nor one that a failed fork has left open.  *)
HoldsOnlyItsOwn ==
  \A d \in Fds :
    /\ fd_table[d] # NoConnection => d \in leaked \cup {newfd}
    /\ \A p \in Children :
         child_table[p][d] # NoConnection => d \in leaked \cup {serve_fd[p]}

(* The processes together keep the promise of ConnectionService: the       *)
(* connection is served while some process has it open.                    *)
Stage(c) ==
  CASE Queued(c) -> "queued"
    [] \E d \in leaked : fd_table[d] = c -> "stranded"
    [] main_pc = "fork" /\ fd_table[newfd] = c -> "accepted"
    [] ~Queued(c) /\ ~IsHeld(c) -> "away"
    [] OTHER -> "served"

Service == INSTANCE ConnectionService WITH Room <- OPEN_MAX,
             conn <- [c \in Connections |-> Stage(c)]

(* A queued connection is accepted, and served to its end or left open by  *)
(* a failed fork, until failed forks (server.c:343) have left open as many *)
(* connections as there are descriptors: from then on accept() fails for   *)
(* ever and those who wait are never accepted.  No step of any process     *)
(* skips a stage or goes back.                                             *)
ImplementsService == Service!FairSpec
================================================================================
