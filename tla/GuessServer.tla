------------------------------ MODULE GuessServer ------------------------------
(***************************************************************************)
(* The process side of hw5/server.c: the parent takes a number from the    *)
(* source for every client it accepts and forks a child to play with it;   *)
(* the SIGCHLD handler reaps the children that have ended.  A signal that  *)
(* is pending already is not queued again, and the handler is not entered  *)
(* while it runs.  The game is GuessGame; here a child plays or has ended. *)
(***************************************************************************)
EXTENDS NumberSource

CONSTANTS
  MAX_CONNECTIONS,   \* places in the listen queue
  Children,          \* the processes the system can give to the server at a time
  Files,             \* the number files the server may be started with
  MaxClients         \* how many clients come

ASSUME GuessAssumption ==
  /\ MAX_CONNECTIONS \in Nat \ {0}
  /\ MaxClients \in Nat

\* Whatever stands in a file, what it leaves is a sequence of numbers.
ASSUME FilesAssumption ==
  \A file \in Files : NumberSourceInit(file) \in Seq(0 .. MAX)

VARIABLES
  data,          \* Data and Count of the number source
  pos,           \* Pos of the number source
  main_pc,       \* the parent: "accept", "get", "fork", "close" or "exited"
  number,        \* the number of the client being accepted
  handler,       \* TRUE while the parent is in SigchldHandler
  sigchld,       \* TRUE while SIGCHLD is pending
  cpc,           \* each child: "none", "born", "playing" or "zombie"
  child_number,  \* the number the child's client has to guess
  queue,         \* how many clients are in the listen queue
  clients,       \* history: how many clients have come
  turn,          \* history: how many clients have been accepted
  child_turn     \* history: which of them the child plays with

parent_vars == <<data, pos, main_pc, number>>
signal_vars == <<handler, sigchld>>
child_vars == <<cpc, child_number, child_turn>>
client_vars == <<queue, clients, turn>>
vars == <<parent_vars, signal_vars, child_vars, client_vars>>

TypeOK ==
  /\ data \in Seq(0 .. MAX)
  /\ pos = 0 \/ pos \in 0 .. Len(data) - 1
  /\ main_pc \in {"accept", "get", "fork", "close", "exited"}
  /\ number \in 0 .. MAX
  /\ handler \in BOOLEAN
  /\ sigchld \in BOOLEAN
  /\ cpc \in [Children -> {"none", "born", "playing", "zombie"}]
  /\ child_number \in [Children -> 0 .. MAX]
  /\ queue \in 0 .. MAX_CONNECTIONS
  /\ clients \in 0 .. MaxClients
  /\ turn \in 0 .. MaxClients
  /\ child_turn \in [Children -> 0 .. MaxClients]

\* The numbers are read, the handler is installed and the socket listens.
Init ==
  /\ \E file \in Files : data = NumberSourceInit(file)
  /\ pos = 0
  /\ main_pc = "accept"
  /\ number = 0
  /\ handler = FALSE
  /\ sigchld = FALSE
  /\ cpc = [p \in Children |-> "none"]
  /\ child_number = [p \in Children |-> 0]
  /\ queue = 0
  /\ clients = 0
  /\ turn = 0
  /\ child_turn = [p \in Children |-> 0]

--------------------------------------------------------------------------------
(* The parent, the loop of RunMain.  It stands still in the handler.       *)

MainGoes(from, to) ==
  /\ ~handler
  /\ main_pc = from
  /\ main_pc' = to

Accept ==
  /\ MainGoes("accept", "get")
  /\ queue > 0
  /\ queue' = queue - 1
  /\ turn' = turn + 1
  /\ UNCHANGED <<data, pos, number, signal_vars, child_vars, clients>>

GetNumber ==
  /\ MainGoes("get", "fork")
  /\ number' \in Numbers(data, pos)
  /\ pos' = NextPos(data, pos)
  /\ UNCHANGED <<data, signal_vars, child_vars, client_vars>>

\* A child is born to play with the client accepted last.
Birth(p, x) ==
  /\ cpc[p] = "none"
  /\ cpc' = [cpc EXCEPT ![p] = "born"]
  /\ child_number' = [child_number EXCEPT ![p] = x]
  /\ child_turn' = [child_turn EXCEPT ![p] = turn]

\* Mutant: the number is the child's to take, from its own copy of the source.
ForkThenGet(p) ==
  /\ MainGoes("fork", "close")
  /\ \E x \in Numbers(data, 0) : Birth(p, x)
  /\ UNCHANGED <<data, pos, number, signal_vars, client_vars>>

Fork(p) ==
  /\ MainGoes("fork", "close")
  /\ Birth(p, number)
  /\ UNCHANGED <<data, pos, number, signal_vars, client_vars>>

CloseNewFd ==
  /\ MainGoes("close", "accept")
  /\ number' = 0
  /\ UNCHANGED <<data, pos, signal_vars, child_vars, client_vars>>

\* accept or fork fails and the server exits: init takes over its children and
\* reaps the dead ones, and nobody is in the listen queue any more.
ServerExits ==
  /\ MainGoes("accept", "exited") \/ MainGoes("fork", "exited")
  /\ cpc' = [p \in Children |-> IF cpc[p] = "zombie" THEN "none" ELSE cpc[p]]
  /\ sigchld' = FALSE
  /\ queue' = 0
  /\ UNCHANGED <<data, pos, number, handler, child_number, child_turn, clients, turn>>

Main ==
  Accept \/ GetNumber \/ (\E p \in Children : Fork(p)) \/ CloseNewFd

--------------------------------------------------------------------------------
(* SigchldHandler, run by the parent between any two of its steps.         *)

EnterHandler ==
  /\ sigchld
  /\ ~handler
  /\ main_pc # "exited"
  /\ handler' = TRUE
  /\ sigchld' = FALSE
  /\ UNCHANGED <<parent_vars, child_vars, client_vars>>

\* Mutant: one waitpid for a signal.
ReapOne(p) ==
  /\ handler
  /\ cpc[p] = "zombie"
  /\ cpc' = [cpc EXCEPT ![p] = "none"]
  /\ handler' = FALSE
  /\ UNCHANGED <<parent_vars, sigchld, child_number, child_turn, client_vars>>

\* waitpid returns a child that has ended.
Reap(p) ==
  /\ handler
  /\ cpc[p] = "zombie"
  /\ cpc' = [cpc EXCEPT ![p] = "none"]
  /\ UNCHANGED <<parent_vars, signal_vars, child_number, child_turn, client_vars>>

\* Mutant: the signal is taken off at the end of the handler.
LeaveHandlerClearing ==
  /\ handler
  /\ handler' = FALSE
  /\ sigchld' = FALSE
  /\ UNCHANGED <<parent_vars, child_vars, client_vars>>

\* waitpid finds no child that has ended.
LeaveHandler ==
  /\ handler
  /\ \A p \in Children : cpc[p] # "zombie"
  /\ handler' = FALSE
  /\ UNCHANGED <<parent_vars, sigchld, child_vars, client_vars>>

Handler == EnterHandler \/ (\E p \in Children : Reap(p)) \/ LeaveHandler

--------------------------------------------------------------------------------
(* A child, and the clients.                                               *)

CloseListener(p) ==
  /\ cpc[p] = "born"
  /\ cpc' = [cpc EXCEPT ![p] = "playing"]
  /\ UNCHANGED <<parent_vars, signal_vars, child_number, child_turn, client_vars>>

\* The child returns from main or is killed by SIGPIPE.
ChildEnds(p) ==
  /\ cpc[p] = "playing"
  /\ IF main_pc = "exited"
     THEN cpc' = [cpc EXCEPT ![p] = "none"] /\ UNCHANGED sigchld
     ELSE cpc' = [cpc EXCEPT ![p] = "zombie"] /\ sigchld' = TRUE
  /\ UNCHANGED <<parent_vars, handler, child_number, child_turn, client_vars>>

Connect ==
  /\ main_pc # "exited"
  /\ clients < MaxClients
  /\ queue < MAX_CONNECTIONS
  /\ queue' = queue + 1
  /\ clients' = clients + 1
  /\ UNCHANGED <<parent_vars, signal_vars, child_vars, turn>>

Next ==
  \/ Main
  \/ ServerExits
  \/ Handler
  \/ \E p \in Children : CloseListener(p) \/ ChildEnds(p)
  \/ Connect

Spec == Init /\ [][Next]_vars

\* The kernel delivers a pending signal and runs the parent.  Nothing is asked
\* of the children (a client may keep its child in recv() for ever) and nobody
\* makes the server exit.
FairSpec ==
  /\ Spec
  /\ WF_vars(Main)
  /\ WF_vars(Handler)

--------------------------------------------------------------------------------
(* The clients get the numbers of the file in turn, whichever child plays  *)
(* with which and whenever they end.                                       *)
NumbersInTurn ==
  \A p \in Children :
    cpc[p] # "none" /\ data # <<>> =>
      child_number[p] = data[((child_turn[p] - 1) % Len(data)) + 1]

(* "reap all dead processes" (server.c:33): a dead child is one the        *)
(* handler will see, in this run of it or in one that is still to come.    *)
ZombieIsNoticed ==
  (\E p \in Children : cpc[p] = "zombie") => sigchld \/ handler

(* And it is reaped, however many die at the same time.                    *)
ZombiesAreReaped ==
  \A p \in Children : cpc[p] = "zombie" ~> cpc[p] # "zombie"
================================================================================
