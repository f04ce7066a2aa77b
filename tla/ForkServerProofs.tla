---------------------------- MODULE ForkServerProofs ----------------------------
(***************************************************************************)
(* What holds of the server that forks, for every number of children,      *)
(* descriptors, connections and failures, and of its way to listen(), for  *)
(* every command line and whatever addresses the host has.                 *)
(***************************************************************************)
EXTENDS CifarServer, TLAPS

\* Between two connections the parent has none in hand.
AcceptsWithNoneInHand == main_pc = "accept" => newfd = -1

OwnTables == TypeOK /\ HoldsOnlyItsOwn /\ AcceptsWithNoneInHand

(* The server starts with nothing open.                                    *)
LEMMA InitOwnTables == Init => OwnTables
<1> SUFFICES ASSUME Init PROVE OwnTables
  OBVIOUS
<1>1. TypeOK
  BY ForkAssumption DEF EmptyTable, Tables, Init, TypeOK
<1>2. HoldsOnlyItsOwn
  BY DEF Init, HoldsOnlyItsOwn, EmptyTable
<1>3. AcceptsWithNoneInHand
  BY DEF Init, AcceptsWithNoneInHand
<1> QED
  BY <1>1, <1>2, <1>3 DEF OwnTables

(* accept() opens the one descriptor that is in hand afterwards; fork      *)
(* copies what the parent may have; a failed fork leaves its descriptor.   *)
LEMMA ParentOwnTables == OwnTables /\ Parent => OwnTables'
<1> SUFFICES ASSUME OwnTables, Parent PROVE OwnTables'
  OBVIOUS
<1> USE DEF OwnTables, TypeOK, HoldsOnlyItsOwn, AcceptsWithNoneInHand
<1>1. ASSUME NEW d \in Fds, Accept(d) PROVE OwnTables'
  <2> USE <1>1 DEF Accept, child_vars
  <2>0. \A e \in Fds : fd_table[e] # NoConnection => e \in leaked
    BY FdAssumption DEF Fds
  <2>1. queue' \in Seq(Connections) /\ Len(queue') <= BACKLOG
    BY ForkAssumption
  <2>2. Head(queue) \in Connections
    OBVIOUS
  <2>3. fd_table' \in Tables
    BY <2>2 DEF Install, Tables
  <2>4. TypeOK'
    BY <2>1, <2>3
  <2>5. ASSUME NEW e \in Fds, fd_table'[e] # NoConnection
        PROVE  e \in (leaked \cup {newfd})'
    <3>1. CASE e = d
      BY <3>1
    <3>2. CASE e # d
      BY <2>0, <2>5, <3>2 DEF Install, Tables
    <3> QED
      BY <3>1, <3>2
  <2>6. HoldsOnlyItsOwn'
    BY <2>5
  <2> QED
    BY <2>4, <2>6
<1>2. ASSUME NEW p \in Children, Fork(p) PROVE OwnTables'
  <2> USE <1>2 DEF Fork, Birth
  <2>1. TypeOK'
    OBVIOUS
  <2>2. HoldsOnlyItsOwn'
    OBVIOUS
  <2> QED
    BY <2>1, <2>2
<1>3. CASE ForkFails
  BY <1>3 DEF ForkFails, child_vars
<1>4. CASE ParentClose
  <2> USE <1>4 DEF ParentClose, child_vars
  <2>1. TypeOK'
    BY DEF Close, Tables
  <2>2. HoldsOnlyItsOwn'
    BY DEF Close, Tables
  <2> QED
    BY <2>1, <2>2
<1> QED
  BY <1>1, <1>2, <1>3, <1>4 DEF Parent

(* A child only ever closes.                                               *)
LEMMA ChildOwnTables ==
  ASSUME OwnTables, NEW p \in Children, Child(p) PROVE OwnTables'
<1> USE DEF OwnTables, TypeOK, HoldsOnlyItsOwn, AcceptsWithNoneInHand, parent_vars
<1>1. CASE CloseListener(p)
  BY <1>1 DEF CloseListener
<1>2. CASE ServeClientDisconnected(p)
  <2> USE <1>2 DEF ServeClientDisconnected
  <2>1. TypeOK'
    BY DEF Close, Tables
  <2>2. HoldsOnlyItsOwn'
    BY DEF Close, Tables
  <2> QED
    BY <2>1, <2>2
<1>3. CASE ServeClientDone(p)
  BY <1>3 DEF ServeClientDone
<1>4. CASE Exit(p)
  <2> USE <1>4 DEF Exit
  <2>1. TypeOK'
    BY DEF EmptyTable, Tables
  <2>2. HoldsOnlyItsOwn'
    BY DEF EmptyTable
  <2> QED
    BY <2>1, <2>2
<1> QED
  BY <1>1, <1>2, <1>3, <1>4 DEF Child

(* A client changes the listen queue and nothing else.                     *)
LEMMA ConnectOwnTables ==
  ASSUME OwnTables, NEW c \in Connections, Connect(c) PROVE OwnTables'
<1> USE DEF OwnTables, Connect, parent_vars, child_vars
<1>1. queue' \in Seq(Connections) /\ Len(queue') <= BACKLOG
  BY ForkAssumption DEF TypeOK
<1>2. TypeOK'
  BY <1>1 DEF TypeOK
<1>3. HoldsOnlyItsOwn' /\ AcceptsWithNoneInHand'
  BY DEF HoldsOnlyItsOwn, AcceptsWithNoneInHand
<1> QED
  BY <1>2, <1>3

LEMMA NextOwnTables == OwnTables /\ [Next]_vars => OwnTables'
<1> SUFFICES ASSUME OwnTables, [Next]_vars PROVE OwnTables'
  OBVIOUS
<1>1. CASE Parent
  BY <1>1, ParentOwnTables
<1>2. ASSUME NEW p \in Children, Child(p) PROVE OwnTables'
  BY <1>2, ChildOwnTables
<1>3. ASSUME NEW c \in Connections, Connect(c) PROVE OwnTables'
  BY <1>3, ConnectOwnTables
<1>4. CASE UNCHANGED vars
  BY <1>4 DEF vars, parent_vars, child_vars, OwnTables, TypeOK, HoldsOnlyItsOwn,
              AcceptsWithNoneInHand
<1> QED
  BY <1>1, <1>2, <1>3, <1>4 DEF Next

(* "parent doesn't need this" (server.c:358): in every behaviour, failed   *)
(* forks included, a process has only its own connection open and those    *)
(* failed forks have left.                                                 *)
THEOREM NobodyKeepsAStranger == Spec => [](TypeOK /\ HoldsOnlyItsOwn)
<1>1. OwnTables => TypeOK /\ HoldsOnlyItsOwn
  BY DEF OwnTables
<1> QED
  BY InitOwnTables, NextOwnTables, <1>1, PTL DEF Spec

--------------------------------------------------------------------------------
(* The options that have been looked at.                                   *)
OptionsSoFar ==
  /\ \A k \in 1 .. optind - 1 : command_line[k] # Invalid
  /\ port = IF optind = 1 THEN DEFAULT_PORT ELSE command_line[optind - 1] % PORTS
  /\ start_pc \notin {"options", "exited"} => optind = Len(command_line) + 1

PicturesSoFar ==
  /\ start_pc \in {"options", "open"} => pictures = "none"
  /\ start_pc \in {"open", "stat", "mmap"} => start_build.USING_MMAP_INSTEAD_READ
  /\ start_pc \notin {"options", "open", "stat", "mmap", "exited"} =>
       pictures = IF start_build.USING_MMAP_INSTEAD_READ THEN "mapped" ELSE "none"

SignalsSoFar ==
  /\ start_pc = "sigpipe" => "SIGCHLD" \in ignored
  /\ start_pc \in {"getaddrinfo", "socket", "reuseaddr", "cork", "bind", "listen", "serving"} =>
       ignored = {"SIGCHLD", "SIGPIPE"}

\* There is a socket only while it is being set up, and afterwards.
SocketsSoFar ==
  /\ start_pc \notin {"socket", "reuseaddr", "cork", "bind", "listen", "serving", "exited"} =>
       candidate = 1
  /\ IF start_pc \in {"reuseaddr", "cork", "bind", "listen", "serving"}
     THEN candidate <= Len(servinfo) /\ sockets = {Current}
     ELSE sockets = {}

SoFar ==
  StartupTypeOK /\ OptionsSoFar /\ PicturesSoFar /\ SignalsSoFar /\ SocketsSoFar

LEMMA CommandLineType ==
  ASSUME NEW line \in CommandLines
  PROVE  /\ Len(line) \in Nat /\ DOMAIN line = 1 .. Len(line)
         /\ \A k \in 1 .. Len(line) : line[k] # Invalid => line[k] \in Int
  BY StartupAssumption

LEMMA AddressListType ==
  ASSUME NEW list \in AddressLists \cup {<<>>}
  PROVE  Len(list) \in Nat
<1>1. CASE list = <<>>
  BY <1>1
<1>2. CASE list \in AddressLists
  <2>1. list \in Seq({list[i] : i \in DOMAIN list})
    BY <1>2, StartupAssumption
  <2> QED
    BY <2>1
<1> QED
  BY <1>1, <1>2

(* sscanf with %hu.                                                        *)
LEMMA PortType ==
  ASSUME NEW n \in Int
  PROVE  n % PORTS \in 0 .. PORTS - 1 /\ (n \in 0 .. PORTS - 1 => n % PORTS = n)
  BY StartupAssumption

LEMMA InitSoFar == StartupInit => SoFar
  BY StartupAssumption, CommandLineType
     DEF StartupInit, SoFar, StartupTypeOK, OptionsSoFar, PicturesSoFar, SignalsSoFar,
         SocketsSoFar

LEMMA OptionsKeepSoFar ==
  SoFar /\ (ParseOption \/ OptionInvalid \/ OptionsParsed) => SoFar'
<1> SUFFICES ASSUME SoFar, ParseOption \/ OptionInvalid \/ OptionsParsed PROVE SoFar'
  OBVIOUS
<1> USE DEF SoFar, StartupTypeOK, OptionsSoFar, PicturesSoFar, SignalsSoFar, SocketsSoFar,
            Goes, option_vars, socket_vars
<1>0. Len(command_line) \in Nat
  BY CommandLineType
<1>1. CASE ParseOption
  <2>1. command_line[optind] \in Int
    BY <1>0, <1>1, CommandLineType DEF ParseOption
  <2>2. port' \in 0 .. PORTS - 1
    BY <1>1, <2>1, PortType DEF ParseOption
  <2>3. optind' \in 1 .. Len(command_line) + 1 /\ optind' # 1 /\ optind' - 1 = optind
    BY <1>0, <1>1 DEF ParseOption
  <2>4. StartupTypeOK'
    BY <1>1, <2>2, <2>3 DEF ParseOption
  <2>5. OptionsSoFar'
    BY <1>0, <1>1, <2>3 DEF ParseOption
  <2>6. PicturesSoFar' /\ SignalsSoFar' /\ SocketsSoFar'
    BY <1>1 DEF ParseOption, Current
  <2> QED
    BY <2>4, <2>5, <2>6
<1>2. CASE OptionInvalid
  BY <1>0, <1>2 DEF OptionInvalid, Fails, Current
<1>3. CASE OptionsParsed
  BY <1>0, <1>3 DEF OptionsParsed, Current
<1> QED
  BY <1>1, <1>2, <1>3

LEMMA PreloadKeepsSoFar ==
  /\ SoFar
  /\ \/ OpenPictures \/ StatPictures \/ MapPictures
     \/ OpenPicturesFails \/ StatPicturesFails \/ MapPicturesFails
  => SoFar'
<1> USE DEF SoFar, StartupTypeOK, OptionsSoFar, PicturesSoFar, SignalsSoFar, SocketsSoFar,
            Goes, option_vars, socket_vars, Current
<1>1. SoFar /\ (OpenPictures \/ StatPictures \/ MapPictures) => SoFar'
  BY DEF OpenPictures, StatPictures, MapPictures, Preload
<1>2. SoFar /\ (OpenPicturesFails \/ StatPicturesFails) => SoFar'
  BY DEF OpenPicturesFails, StatPicturesFails, Fails
<1>3. SoFar /\ MapPicturesFails => SoFar'
  BY DEF MapPicturesFails, Preload
<1> QED
  BY <1>1, <1>2, <1>3

LEMMA SignalsKeepSoFar ==
  SoFar /\ (IgnoreSigchld \/ IgnoreSigpipe \/ IgnoreSignalFails) => SoFar'
<1> USE DEF SoFar, StartupTypeOK, OptionsSoFar, PicturesSoFar, SignalsSoFar, SocketsSoFar,
            Goes, option_vars, socket_vars, Current
<1>1. SoFar /\ (IgnoreSigchld \/ IgnoreSigpipe) => SoFar'
  BY DEF IgnoreSigchld, IgnoreSigpipe, IgnoreSignal
<1>2. SoFar /\ IgnoreSignalFails => SoFar'
  BY DEF IgnoreSignalFails, Fails
<1> QED
  BY <1>1, <1>2

(* Whatever happens to an address, its socket is closed before the next    *)
(* one is tried.                                                           *)
LEMMA AddressesKeepSoFar ==
  /\ SoFar
  /\ \/ \E list \in AddressLists : Resolve(list)
     \/ ResolveFails \/ NoAddressLeft
     \/ Socket \/ SocketFails \/ Setsockopt \/ SetsockoptFails
     \/ Bind \/ BindFails \/ Listen \/ ListenFails
  => SoFar'
<1> USE DEF SoFar, StartupTypeOK, OptionsSoFar, PicturesSoFar, SignalsSoFar, SocketsSoFar,
            Goes, option_vars, socket_vars
<1>0. SoFar => Len(servinfo) \in Nat
  BY AddressListType
<1>1. ASSUME SoFar, NEW list \in AddressLists, Resolve(list) PROVE SoFar'
  <2>1. Len(list) \in Nat /\ Len(list) >= 1
    <3>1. list # <<>> /\ list \in Seq({list[i] : i \in DOMAIN list})
      BY StartupAssumption
    <3> QED
      BY ONLY <3>1
  <2>2. candidate = 1
    BY <1>1 DEF Resolve
  <2> QED
    BY <1>1, <2>1, <2>2 DEF Resolve, Current
<1>2. ASSUME SoFar, ResolveFails \/ NoAddressLeft PROVE SoFar'
  BY <1>0, <1>2 DEF ResolveFails, NoAddressLeft, Fails, Current
<1>3. ASSUME SoFar, Socket \/ Setsockopt \/ Bind \/ Listen PROVE SoFar'
  <2>1. CASE Socket
    BY <1>0, <1>3, <2>1 DEF Socket, Try, Trying, Current
  <2>2. CASE Setsockopt
    BY <1>0, <1>3, <2>2 DEF Setsockopt, Try, Trying, Current
  <2>3. CASE Bind \/ Listen
    BY <1>0, <1>3, <2>3 DEF Bind, Listen, Try, Trying, Current
  <2> QED
    BY <1>3, <2>1, <2>2, <2>3
<1>4. ASSUME SoFar, SocketFails \/ SetsockoptFails \/ BindFails PROVE SoFar'
  <2>1. PICK from \in {"socket", "reuseaddr", "cork", "bind"}, open \in {{}} :
          Continue(from, open)
    <3>1. CASE SocketFails
      BY <1>4, <3>1 DEF SocketFails, Continue, Trying
    <3>2. CASE SetsockoptFails
      BY <1>4, <3>2 DEF SetsockoptFails, Continue, Trying
    <3>3. CASE BindFails
      BY <1>4, <3>3 DEF BindFails, Continue, Trying
    <3> QED
      BY <1>4, <3>1, <3>2, <3>3
  <2>2. /\ start_pc = from /\ start_pc' = "socket"
        /\ candidate <= Len(servinfo) /\ candidate' = candidate + 1 /\ sockets' = {}
        /\ UNCHANGED <<start_build, command_line, optind, port, pictures, ignored, servinfo>>
    BY <2>1 DEF Continue, Trying
  <2>3. StartupTypeOK'
    BY <1>0, <1>4, <2>1, <2>2
  <2> QED
    BY <1>4, <2>1, <2>2, <2>3
<1>5. ASSUME SoFar, ListenFails PROVE SoFar'
  BY <1>0, <1>5 DEF ListenFails, Try, Trying, Current
<1> QED
  BY <1>1, <1>2, <1>3, <1>4, <1>5

LEMMA StartKeepsSoFar == SoFar /\ [Start]_startup_vars => SoFar'
<1>1. SoFar /\ Start => SoFar'
  BY OptionsKeepSoFar, PreloadKeepsSoFar, SignalsKeepSoFar, AddressesKeepSoFar DEF Start
<1>2. SoFar /\ UNCHANGED startup_vars => SoFar'
  BY DEF SoFar, StartupTypeOK, OptionsSoFar, PicturesSoFar, SignalsSoFar, SocketsSoFar,
         startup_vars, option_vars, socket_vars, Current
<1> QED
  BY <1>1, <1>2

LEMMA SoFarIsReady == SoFar => ServesOnlyWhenReady
<1> SUFFICES ASSUME SoFar, Serving PROVE ServesOnlyWhenReady
  BY DEF ServesOnlyWhenReady
<1> USE DEF SoFar, StartupTypeOK, OptionsSoFar, PicturesSoFar, SignalsSoFar, SocketsSoFar,
            Serving
<1>1. Len(command_line) \in Nat /\ optind = Len(command_line) + 1
  BY CommandLineType
<1>2. PortIsTheOneAsked
  BY <1>1, PortType DEF PortIsTheOneAsked
<1> QED
  BY <1>2 DEF ServesOnlyWhenReady

(* What is proved of the parts holds of the whole process: it serves only  *)
(* when it is ready, whatever fails on the way and however often, and then *)
(* nobody keeps a connection that is not its own.                          *)
THEOREM WholeServerIsSafe ==
  ServerSpec => [](ServesOnlyWhenReady /\ TypeOK /\ HoldsOnlyItsOwn)
<1>1. ServerInit => SoFar /\ OwnTables
  BY InitSoFar, InitOwnTables DEF ServerInit
<1>2. SoFar /\ OwnTables /\ [ServerNext]_server_vars => SoFar' /\ OwnTables'
  <2>1. [ServerNext]_server_vars => [Start]_startup_vars /\ [Next]_vars
    BY DEF ServerNext, ServeStep, server_vars
  <2> QED
    BY <2>1, StartKeepsSoFar, NextOwnTables
<1>3. SoFar /\ OwnTables => ServesOnlyWhenReady /\ TypeOK /\ HoldsOnlyItsOwn
  BY SoFarIsReady DEF OwnTables
<1> QED
  BY <1>1, <1>2, <1>3, PTL DEF ServerSpec

--------------------------------------------------------------------------------
(***************************************************************************)
(* The server that forks implements the safety part of ConnectionService,  *)
(* for every number of children, descriptors, connections and failing      *)
(* forks: no step of any process skips a stage or goes back.               *)
(***************************************************************************)

\* Who is queued is queued once, and nobody holds it.
QueueApart ==
  /\ \A i, j \in 1 .. Len(queue) : queue[i] = queue[j] => i = j
  /\ \A i \in 1 .. Len(queue) : ~IsHeld(queue[i])

\* The parent has a connection at one descriptor only, and never forgets one.
ParentApart ==
  /\ \A d, e \in Fds : fd_table[d] = fd_table[e] /\ fd_table[d] # NoConnection => d = e
  /\ \A d \in leaked : fd_table[d] # NoConnection
  /\ main_pc # "accept" => newfd \notin leaked /\ fd_table[newfd] # NoConnection

\* What a child has besides its own connection the parent has for good.
ChildrenApart ==
  \A p \in Children :
    /\ cpc[p] = "none" => child_table[p] = EmptyTable
    /\ \A d \in Fds :
         child_table[p][d] # NoConnection /\ d # serve_fd[p] =>
           d \in leaked /\ child_table[p][d] = fd_table[d]

Apart == OwnTables /\ QueueApart /\ ParentApart /\ ChildrenApart

LEMMA InitApart == Init => Apart
<1> SUFFICES ASSUME Init PROVE Apart
  OBVIOUS
<1>1. OwnTables
  BY InitOwnTables
<1>2. QueueApart /\ ParentApart /\ ChildrenApart
  BY DEF Init, QueueApart, ParentApart, ChildrenApart, EmptyTable
<1> QED
  BY <1>1, <1>2 DEF Apart

--------------------------------------------------------------------------------
(* Each operation keeps them apart.                                        *)

LEMMA AcceptApart ==
  ASSUME Apart, NEW d \in Fds, Accept(d) PROVE Apart'
<1> USE DEF Apart, Accept, child_vars
<1> DEFINE c == Head(queue)
<1>1. OwnTables'
  BY ParentOwnTables DEF Parent
<1>2. /\ queue \in Seq(Connections) /\ queue # <<>> /\ queue' = Tail(queue)
      /\ fd_table \in Tables /\ fd_table' = [fd_table EXCEPT ![d] = c]
      /\ fd_table[d] = NoConnection
  BY DEF OwnTables, TypeOK, Install, IsLowestFree
<1>3. /\ c = queue[1] /\ c \in Connections /\ Len(queue) \in Nat \ {0}
      /\ Len(queue') = Len(queue) - 1
      /\ \A i \in 1 .. Len(queue') : queue'[i] = queue[i + 1]
  BY <1>2
<1>4. ~IsHeld(c)
  BY <1>3 DEF QueueApart
<1>5. \A e \in Fds : fd_table'[e] = IF e = d THEN c ELSE fd_table[e]
  BY <1>2 DEF Tables
<1>6. \A i \in 1 .. Len(queue') : i + 1 \in 1 .. Len(queue) /\ queue'[i] # c
  BY <1>3 DEF QueueApart
<1> HIDE DEF c
<1>7. QueueApart'
  <2>1. \A i, j \in 1 .. Len(queue') : queue'[i] = queue'[j] => i = j
    BY <1>3, <1>6 DEF QueueApart
  <2>2. ASSUME NEW i \in 1 .. Len(queue') PROVE ~IsHeld(queue[i])'
    <3>1. queue'[i] = queue[i + 1] /\ queue[i + 1] # c /\ ~IsHeld(queue[i + 1])
      BY <1>3, <1>6 DEF QueueApart
    <3> QED
      BY <1>5, <3>1 DEF IsHeld, IsOpen
  <2> QED
    BY <2>1, <2>2 DEF QueueApart
<1>8. ParentApart'
  <2>1. d \notin leaked
    BY <1>2 DEF ParentApart
  <2>2. \A e \in Fds : fd_table[e] # c
    BY <1>4 DEF IsHeld, IsOpen
  <2>3. leaked \subseteq Fds /\ c # NoConnection
    BY <1>3, FdAssumption DEF OwnTables, TypeOK
  <2> QED
    BY <1>5, <2>1, <2>2, <2>3 DEF ParentApart
<1>9. ChildrenApart'
  BY <1>2, <1>5 DEF ParentApart, ChildrenApart
<1> QED
  BY <1>1, <1>7, <1>8, <1>9

LEMMA ForkApart ==
  ASSUME Apart, NEW p \in Children, Fork(p) PROVE Apart'
<1> USE DEF Apart, Fork, Birth
<1>1. OwnTables'
  BY ParentOwnTables DEF Parent
<1>2. /\ child_table' = [child_table EXCEPT ![p] = fd_table]
      /\ child_table \in [Children -> Tables]
  BY DEF OwnTables, TypeOK
<1>3. \A c : IsHeld(c)' => IsHeld(c)
  BY <1>2 DEF IsHeld, IsOpen
<1>4. QueueApart' /\ ParentApart'
  BY <1>3 DEF QueueApart, ParentApart
<1>5. ChildrenApart'
  BY DEF ChildrenApart, OwnTables, TypeOK, HoldsOnlyItsOwn
<1> QED
  BY <1>1, <1>4, <1>5

LEMMA ForkFailsApart == Apart /\ ForkFails => Apart'
<1> SUFFICES ASSUME Apart, ForkFails PROVE Apart'
  OBVIOUS
<1> USE DEF Apart, ForkFails, child_vars
<1>1. OwnTables'
  BY ParentOwnTables DEF Parent
<1>2. QueueApart' /\ ParentApart' /\ ChildrenApart'
  BY DEF QueueApart, ParentApart, ChildrenApart, IsHeld, IsOpen
<1> QED
  BY <1>1, <1>2

LEMMA ParentCloseApart == Apart /\ ParentClose => Apart'
<1> SUFFICES ASSUME Apart, ParentClose PROVE Apart'
  OBVIOUS
<1> USE DEF Apart, ParentClose, child_vars
<1>1. OwnTables'
  BY ParentOwnTables DEF Parent
<1>2. newfd \in Fds /\ fd_table \in Tables /\ newfd \notin leaked /\ leaked \subseteq Fds
  BY DEF OwnTables, TypeOK, ParentApart
<1>3. \A e \in Fds : fd_table'[e] = IF e = newfd THEN NoConnection ELSE fd_table[e]
  BY <1>2 DEF Close, Tables
<1>4. QueueApart'
  <2>1. \A c \in Connections : IsHeld(c)' => IsHeld(c)
    BY <1>3, FdAssumption DEF IsHeld, IsOpen
  <2>2. \A i \in 1 .. Len(queue) : queue[i] \in Connections
    BY DEF OwnTables, TypeOK
  <2> QED
    BY <2>1, <2>2 DEF QueueApart
<1>5. ParentApart'
  BY <1>2, <1>3 DEF ParentApart
<1>6. ChildrenApart'
  BY <1>2, <1>3 DEF ChildrenApart
<1> QED
  BY <1>1, <1>4, <1>5, <1>6

LEMMA ChildApart ==
  ASSUME Apart, NEW p \in Children, Child(p) PROVE Apart'
<1>1. OwnTables'
  BY ChildOwnTables DEF Apart
<1>2. /\ UNCHANGED <<queue, parent_vars, fd_table, leaked>>
      /\ \A q \in Children, d \in Fds :
           child_table'[q][d] # NoConnection =>
             child_table'[q][d] = child_table[q][d] /\ serve_fd'[q] = serve_fd[q]
      /\ \A q \in Children : cpc'[q] = "none" => child_table'[q] = EmptyTable
  <2> USE DEF Apart, OwnTables, TypeOK, ChildrenApart, parent_vars
  <2>1. CASE CloseListener(p)
    BY <2>1 DEF CloseListener, parent_vars
  <2>2. CASE ServeClientDisconnected(p)
    BY <2>2 DEF ServeClientDisconnected, Close, Tables
  <2>3. CASE ServeClientDone(p)
    BY <2>3 DEF ServeClientDone
  <2>4. CASE Exit(p)
    BY <2>4 DEF Exit, EmptyTable
  <2> QED
    BY <2>1, <2>2, <2>3, <2>4 DEF Child
<1>3. \A i \in 1 .. Len(queue) : queue[i] \in Connections
  BY DEF Apart, OwnTables, TypeOK
<1>4. \A c \in Connections : IsHeld(c)' => IsHeld(c)
  BY <1>2, FdAssumption DEF IsHeld, IsOpen
<1>5. QueueApart' /\ ParentApart'
  BY <1>2, <1>3, <1>4 DEF Apart, QueueApart, ParentApart, parent_vars
<1>6. ChildrenApart'
  BY <1>2 DEF Apart, ChildrenApart
<1> QED
  BY <1>1, <1>5, <1>6 DEF Apart

LEMMA ConnectApart ==
  ASSUME Apart, NEW c \in Connections, Connect(c) PROVE Apart'
<1> USE DEF Apart, Connect, parent_vars, child_vars
<1>1. OwnTables'
  BY ConnectOwnTables
<1>2. /\ Len(queue) \in Nat /\ Len(queue') = Len(queue) + 1
      /\ \A i \in 1 .. Len(queue') :
           queue'[i] = IF i = Len(queue) + 1 THEN c ELSE queue[i]
  BY DEF OwnTables, TypeOK
<1>3. \A b : IsHeld(b)' <=> IsHeld(b)
  BY DEF IsHeld, IsOpen
<1>4. \A i \in 1 .. Len(queue) : queue[i] # c
  BY DEF Queued
<1>5. QueueApart'
  BY <1>2, <1>3, <1>4 DEF QueueApart
<1>6. ParentApart' /\ ChildrenApart'
  BY DEF ParentApart, ChildrenApart
<1> QED
  BY <1>1, <1>5, <1>6

LEMMA NextApart == Apart /\ [Next]_vars => Apart'
<1> SUFFICES ASSUME Apart, [Next]_vars PROVE Apart'
  OBVIOUS
<1>1. CASE Parent
  BY <1>1, AcceptApart, ForkApart, ForkFailsApart, ParentCloseApart DEF Parent
<1>2. ASSUME NEW p \in Children, Child(p) PROVE Apart'
  BY <1>2, ChildApart
<1>3. ASSUME NEW c \in Connections, Connect(c) PROVE Apart'
  BY <1>3, ConnectApart
<1>4. CASE UNCHANGED vars
  <2>1. OwnTables'
    BY <1>4, NextOwnTables DEF Apart
  <2> QED
    BY <1>4, <2>1 DEF Apart, vars, parent_vars, child_vars, QueueApart, ParentApart,
                      ChildrenApart, IsHeld, IsOpen
<1> QED
  BY <1>1, <1>2, <1>3, <1>4 DEF Next

--------------------------------------------------------------------------------
(* The steps, as ConnectionService sees them.                              *)

Stages == [c \in Connections |-> Stage(c)]

SameStage(c) == Stage(c)' = Stage(c)

LEMMA StagesStay ==
  ASSUME \A c \in Connections : SameStage(c) PROVE UNCHANGED Stages
  BY DEF Stages, SameStage

LEMMA OneMoves ==
  ASSUME NEW c \in Connections, NEW from, NEW to, Stage(c) = from, Stage(c)' = to,
         \A b \in Connections \ {c} : SameStage(b)
  PROVE  Service!Moves(c, from, to)
  BY DEF Service!Moves, SameStage

\* What Stage says, case by case.
StageIsRight(c) ==
  /\ Stage(c) \in {"away", "queued", "accepted", "served", "stranded"}
  /\ Stage(c) = "queued" <=> Queued(c)
  /\ Stage(c) = "stranded" <=> ~Queued(c) /\ \E d \in leaked : fd_table[d] = c
  /\ Stage(c) = "accepted" <=> main_pc = "fork" /\ fd_table[newfd] = c
  /\ Stage(c) = "away" <=> ~Queued(c) /\ ~IsHeld(c)

StagesAreRight == \A c \in Connections : StageIsRight(c)

LEMMA StageCases == Apart => StagesAreRight
<1> SUFFICES ASSUME Apart, NEW c \in Connections PROVE StageIsRight(c)
  BY DEF StagesAreRight
<1>1. main_pc = "fork" => newfd \in Fds
  BY DEF Apart, OwnTables, TypeOK
<1>2. Queued(c) => ~IsHeld(c)
  BY DEF Apart, QueueApart, Queued
<1>3. leaked \subseteq Fds
  BY DEF Apart, OwnTables, TypeOK
<1>4. ~IsHeld(c) => \A d \in Fds : fd_table[d] # c
  BY DEF IsHeld, IsOpen
<1>5. main_pc = "fork" /\ fd_table[newfd] = c => \A d \in leaked : fd_table[d] # c
  BY <1>1, <1>3 DEF Apart, ParentApart
<1> QED
  BY <1>1, <1>2, <1>3, <1>4, <1>5 DEF Stage, StageIsRight

LEMMA StageCasesNext == Apart' => StagesAreRight'
  BY StageCases, PTL

(* Where nothing changes for a connection, it stays where it is.           *)
LEMMA StageStays ==
  ASSUME StagesAreRight, StagesAreRight', NEW c \in Connections,
         Queued(c)' <=> Queued(c),
         (\E d \in leaked : fd_table[d] = c)' <=> \E d \in leaked : fd_table[d] = c,
         (main_pc = "fork" /\ fd_table[newfd] = c)' <=> main_pc = "fork" /\ fd_table[newfd] = c,
         IsHeld(c)' <=> IsHeld(c)
  PROVE  SameStage(c)
  BY DEF StagesAreRight, StageIsRight, SameStage

(* accept() takes the first in the queue, when nobody else is accepted.    *)
LEMMA AcceptIsAccept ==
  ASSUME Apart, Apart', NEW d \in Fds, Accept(d)
  PROVE  \E c \in Connections : Service!Accept(c)
<1> USE DEF Accept, child_vars
<1>0. PICK c \in Connections : c = Head(queue)
  BY DEF Apart, OwnTables, TypeOK
<1>1. StagesAreRight /\ StagesAreRight'
  BY StageCases, StageCasesNext
<1>2. /\ queue \in Seq(Connections) /\ queue # <<>> /\ queue' = Tail(queue)
      /\ fd_table \in Tables /\ fd_table' = [fd_table EXCEPT ![d] = c]
      /\ fd_table[d] = NoConnection /\ newfd' = d /\ leaked \subseteq Fds
  BY <1>0 DEF Apart, OwnTables, TypeOK, Install, IsLowestFree
<1>3. /\ c = queue[1] /\ Len(queue) \in Nat \ {0}
      /\ Len(queue') = Len(queue) - 1
      /\ \A i \in 1 .. Len(queue') : queue'[i] = queue[i + 1]
  BY <1>0, <1>2
<1>4. \A e \in Fds : fd_table'[e] = IF e = d THEN c ELSE fd_table[e]
  BY <1>2 DEF Tables
<1>5. Stage(c) = "queued" /\ Stage(c)' = "accepted"
  BY <1>1, <1>2, <1>3, <1>4 DEF StagesAreRight, StageIsRight, Queued
<1>6. ASSUME NEW b \in Connections \ {c} PROVE SameStage(b)
  <2>1. Queued(b)' <=> Queued(b)
    <3>1. ASSUME NEW i \in 1 .. Len(queue), queue[i] = b PROVE Queued(b)'
      <4>1. i - 1 \in 1 .. Len(queue') /\ queue'[i - 1] = b
        BY <1>3, <3>1
      <4> QED
        BY <4>1 DEF Queued
    <3>2. ASSUME NEW i \in 1 .. Len(queue'), queue'[i] = b PROVE Queued(b)
      BY <1>3, <3>2 DEF Queued
    <3> QED
      BY <3>1, <3>2 DEF Queued
  <2>2. \A e \in Fds : fd_table'[e] = b <=> fd_table[e] = b
    BY <1>2, <1>4, FdAssumption
  <2>3. IsHeld(b)' <=> IsHeld(b)
    BY <2>2 DEF IsHeld, IsOpen
  <2> QED
    BY <1>1, <1>2, <1>4, <2>1, <2>2, <2>3, StageStays
<1>7. \A b \in Connections : Stage(b) # "accepted"
  BY <1>1 DEF StagesAreRight, StageIsRight
<1> QED
  BY <1>5, <1>6, <1>7, OneMoves DEF Service!Accept

(* fork() gives the connection in hand to a child.                         *)
LEMMA ForkIsServe ==
  ASSUME Apart, Apart', NEW p \in Children, Fork(p)
  PROVE  \E c \in Connections : Service!Serve(c)
<1> USE DEF Fork, Birth
<1>0. PICK c \in Connections : c = fd_table[newfd]
  BY DEF Apart, OwnTables, TypeOK, ParentApart, Tables
<1>1. StagesAreRight /\ StagesAreRight'
  BY StageCases, StageCasesNext
<1>2. /\ newfd \in Fds /\ fd_table \in Tables
      /\ child_table' = [child_table EXCEPT ![p] = fd_table]
      /\ child_table \in [Children -> Tables] /\ child_table[p] = EmptyTable
  BY DEF Apart, OwnTables, TypeOK, ParentApart, ChildrenApart, Tables
<1>3. ASSUME NEW b \in Connections PROVE IsHeld(b)' <=> IsHeld(b)
  <2>1. \A e \in Fds : child_table[p][e] # b
    BY <1>2, FdAssumption DEF EmptyTable
  <2> QED
    BY <1>2, <2>1 DEF IsHeld, IsOpen
<1>4. \A b \in Connections : Queued(b)' <=> Queued(b)
  BY DEF Queued
<1>5. Stage(c) = "accepted" /\ Stage(c)' = "served"
  <2>1. Stage(c) = "accepted"
    BY <1>0, <1>1, <1>2 DEF StagesAreRight, StageIsRight
  <2>2. IsHeld(c) /\ ~Queued(c) /\ ~\E d \in leaked : fd_table[d] = c
    BY <1>0, <1>1, <1>2, <2>1 DEF StagesAreRight, StageIsRight, IsHeld, IsOpen
  <2> QED
    BY <1>0, <1>1, <1>2, <1>3, <1>4, <2>1, <2>2 DEF StagesAreRight, StageIsRight
<1>6. ASSUME NEW b \in Connections \ {c} PROVE SameStage(b)
  BY <1>0, <1>1, <1>3, <1>4, StageStays
<1> QED
  BY <1>5, <1>6, OneMoves DEF Service!Serve

(* A failed fork() strands it.                                             *)
LEMMA ForkFailsIsStrand ==
  ASSUME Apart, Apart', ForkFails
  PROVE  \E c \in Connections : Service!Strand(c)
<1> USE DEF ForkFails, child_vars
<1>0. PICK c \in Connections : c = fd_table[newfd]
  BY DEF Apart, OwnTables, TypeOK, ParentApart, Tables
<1>1. StagesAreRight /\ StagesAreRight'
  BY StageCases, StageCasesNext
<1>2. newfd \in Fds /\ fd_table \in Tables
  BY DEF Apart, OwnTables, TypeOK, ParentApart, Tables
<1>3. \A b \in Connections : (IsHeld(b)' <=> IsHeld(b)) /\ (Queued(b)' <=> Queued(b))
  BY DEF IsHeld, IsOpen, Queued
<1>4. Stage(c) = "accepted" /\ Stage(c)' = "stranded"
  <2>1. Stage(c) = "accepted"
    BY <1>0, <1>1, <1>2 DEF StagesAreRight, StageIsRight
  <2>2. ~Queued(c)
    BY <1>0, <1>1, <1>2, <2>1 DEF StagesAreRight, StageIsRight
  <2> QED
    BY <1>0, <1>1, <1>2, <1>3, <2>2 DEF StagesAreRight, StageIsRight
<1>5. ASSUME NEW b \in Connections \ {c} PROVE SameStage(b)
  BY <1>0, <1>1, <1>3, StageStays
<1> QED
  BY <1>4, <1>5, OneMoves DEF Service!Strand

(* When a descriptor is closed, a connection nobody holds any more is over. *)
LEMMA ClosingFinishes ==
  ASSUME StagesAreRight, StagesAreRight', NEW c \in Connections,
         Queued(c)' <=> Queued(c),
         (\E d \in leaked : fd_table[d] = c)' <=> \E d \in leaked : fd_table[d] = c,
         (main_pc = "fork" /\ fd_table[newfd] = c)' <=> main_pc = "fork" /\ fd_table[newfd] = c,
         IsHeld(c)' => IsHeld(c),
         \A b \in Connections \ {c} : SameStage(b)
  PROVE  Service!Finish(c) \/ UNCHANGED Stages
<1>1. CASE SameStage(c)
  BY <1>1, StagesStay
<1>2. CASE ~SameStage(c)
  <2>1. IsHeld(c) /\ ~IsHeld(c)'
    BY <1>2, StageStays
  <2>2. Stage(c) = "served" /\ Stage(c)' = "away"
    BY <1>2, <2>1 DEF StagesAreRight, StageIsRight, SameStage
  <2> QED
    BY <2>2, OneMoves DEF Service!Finish
<1> QED
  BY <1>1, <1>2

LEMMA ParentCloseMayFinish ==
  ASSUME Apart, Apart', ParentClose
  PROVE  (\E c \in Connections : Service!Finish(c)) \/ UNCHANGED Stages
<1> USE DEF ParentClose, child_vars
<1>0. PICK c \in Connections : c = fd_table[newfd]
  BY DEF Apart, OwnTables, TypeOK, ParentApart, Tables
<1>1. StagesAreRight /\ StagesAreRight'
  BY StageCases, StageCasesNext
<1>2. /\ newfd \in Fds /\ newfd \notin leaked /\ leaked \subseteq Fds
      /\ \A e \in Fds : fd_table'[e] = IF e = newfd THEN NoConnection ELSE fd_table[e]
  BY DEF Apart, OwnTables, TypeOK, ParentApart, Close, Tables
<1>3. \A b \in Connections :
        /\ Queued(b)' <=> Queued(b)
        /\ (\E d \in leaked : fd_table[d] = b)' <=> \E d \in leaked : fd_table[d] = b
        /\ ~(main_pc = "fork" /\ fd_table[newfd] = b)'
        /\ ~(main_pc = "fork" /\ fd_table[newfd] = b)
        /\ IsHeld(b)' => IsHeld(b)
        /\ b # c => (IsHeld(b)' <=> IsHeld(b))
  <2>1. \A b \in Connections, e \in Fds : fd_table'[e] = b => fd_table[e] = b
    BY <1>2, FdAssumption
  <2>2. \A b \in Connections, e \in Fds : fd_table[e] = b /\ b # c => fd_table'[e] = b
    BY <1>0, <1>2
  <2>3. \A b \in Connections : (Queued(b)' <=> Queued(b)) /\ (IsHeld(b)' => IsHeld(b))
    BY <2>1 DEF Queued, IsHeld, IsOpen
  <2>4. \A b \in Connections : b # c => (IsHeld(b)' <=> IsHeld(b))
    BY <2>1, <2>2 DEF IsHeld, IsOpen
  <2> QED
    BY <1>2, <2>3, <2>4
<1>4. \A b \in Connections \ {c} : SameStage(b)
  BY <1>1, <1>3, StageStays
<1> QED
  BY <1>1, <1>3, <1>4, ClosingFinishes

\* The child's own connection.
LEMMA ChildMayFinish ==
  ASSUME Apart, Apart', NEW p \in Children, Child(p)
  PROVE  (\E c \in Connections : Service!Finish(c)) \/ UNCHANGED Stages
<1>1. StagesAreRight /\ StagesAreRight'
  BY StageCases, StageCasesNext
<1>2. /\ UNCHANGED <<queue, main_pc, newfd, fd_table, leaked>>
      /\ \A q \in Children, d \in Fds : child_table'[q][d] \in {NoConnection, child_table[q][d]}
      /\ \A q \in Children \ {p} : child_table'[q] = child_table[q]
      /\ (\A d \in Fds \ {serve_fd[p]} : child_table'[p][d] = child_table[p][d])
           \/ child_table'[p] = EmptyTable
  <2> USE DEF Apart, OwnTables, TypeOK, parent_vars
  <2>1. CASE CloseListener(p)
    BY <2>1 DEF CloseListener
  <2>2. CASE ServeClientDisconnected(p)
    BY <2>2 DEF ServeClientDisconnected, Close, Tables
  <2>3. CASE ServeClientDone(p)
    BY <2>3 DEF ServeClientDone
  <2>4. CASE Exit(p)
    BY <2>4 DEF Exit, EmptyTable
  <2> QED
    BY <2>1, <2>2, <2>3, <2>4 DEF Child
<1>3. ASSUME NEW b \in Connections
      PROVE  /\ Queued(b)' <=> Queued(b)
             /\ (\E d \in leaked : fd_table[d] = b)' <=> \E d \in leaked : fd_table[d] = b
             /\ (main_pc = "fork" /\ fd_table[newfd] = b)' <=>
                  main_pc = "fork" /\ fd_table[newfd] = b
             /\ IsHeld(b)' => IsHeld(b)
  BY <1>2, FdAssumption DEF Queued, IsHeld, IsOpen
<1>4. ASSUME NEW b \in Connections, serve_fd[p] \in Fds => child_table[p][serve_fd[p]] # b,
             IsHeld(b)
      PROVE  IsHeld(b)'
  <2>1. CASE IsOpen(fd_table, b)
    BY <1>2, <2>1 DEF IsHeld, IsOpen
  <2>2. CASE \E d \in Fds : child_table[p][d] = b
    <3>1. PICK d \in Fds : child_table[p][d] = b
      BY <2>2
    <3>2. fd_table[d] = b
      BY <1>4, <3>1, FdAssumption DEF Apart, ChildrenApart
    <3> QED
      BY <1>2, <3>2 DEF IsHeld, IsOpen
  <2>3. CASE \E q \in Children \ {p} : IsOpen(child_table[q], b)
    BY <1>2, <2>3 DEF IsHeld, IsOpen
  <2> QED
    BY <1>4, <2>1, <2>2, <2>3 DEF IsHeld, IsOpen
<1>5. CASE serve_fd[p] \in Fds /\ child_table[p][serve_fd[p]] \in Connections
  <2>1. PICK c \in Connections : c = child_table[p][serve_fd[p]]
    BY <1>5
  <2>2. \A b \in Connections \ {c} : SameStage(b)
    BY <1>1, <1>3, <1>4, <2>1, StageStays
  <2> QED
    BY <1>1, <1>3, <2>2, ClosingFinishes
<1>6. CASE ~(serve_fd[p] \in Fds /\ child_table[p][serve_fd[p]] \in Connections)
  <2>1. \A b \in Connections : SameStage(b)
    BY <1>1, <1>3, <1>4, <1>6, StageStays
  <2> QED
    BY <2>1, StagesStay
<1> QED
  BY <1>5, <1>6

LEMMA ConnectIsArrive ==
  ASSUME Apart, Apart', NEW c \in Connections, Connect(c)
  PROVE  Service!Arrive(c)
<1> USE DEF Connect, parent_vars, child_vars
<1>1. StagesAreRight /\ StagesAreRight'
  BY StageCases, StageCasesNext
<1>2. /\ Len(queue) \in Nat /\ Len(queue') = Len(queue) + 1
      /\ \A i \in 1 .. Len(queue') :
           queue'[i] = IF i = Len(queue) + 1 THEN c ELSE queue[i]
  BY DEF Apart, OwnTables, TypeOK
<1>3. \A b \in Connections : Queued(b)' <=> Queued(b) \/ b = c
  BY <1>2 DEF Queued
<1>4. \A b \in Connections : IsHeld(b)' <=> IsHeld(b)
  BY DEF IsHeld, IsOpen
<1>5. Stage(c) = "away" /\ Stage(c)' = "queued"
  BY <1>1, <1>3 DEF StagesAreRight, StageIsRight
<1>6. ASSUME NEW b \in Connections \ {c} PROVE SameStage(b)
  BY <1>1, <1>3, <1>4, StageStays
<1> QED
  BY <1>5, <1>6, OneMoves DEF Service!Arrive

--------------------------------------------------------------------------------
LEMMA InitServes == Init => Service!Init
<1> SUFFICES ASSUME Init PROVE Service!Init
  OBVIOUS
<1>1. StagesAreRight
  BY InitApart, StageCases
<1>2. ASSUME NEW c \in Connections PROVE Stage(c) = "away"
  <2>1. ~Queued(c) /\ ~IsHeld(c)
    BY FdAssumption DEF Init, Queued, IsHeld, IsOpen, EmptyTable
  <2> QED
    BY <1>1, <2>1 DEF StagesAreRight, StageIsRight
<1> QED
  BY <1>2 DEF Service!Init

LEMMA NextServes == Apart /\ Apart' /\ [Next]_vars => [Service!Next]_Stages
<1> SUFFICES ASSUME Apart, Apart', [Next]_vars PROVE Service!Next \/ UNCHANGED Stages
  OBVIOUS
<1>1. ASSUME NEW d \in Fds, Accept(d) PROVE Service!Next
  BY <1>1, AcceptIsAccept DEF Service!Next
<1>2. ASSUME NEW p \in Children, Fork(p) PROVE Service!Next
  BY <1>2, ForkIsServe DEF Service!Next
<1>3. CASE ForkFails
  BY <1>3, ForkFailsIsStrand DEF Service!Next
<1>4. CASE ParentClose
  BY <1>4, ParentCloseMayFinish DEF Service!Next
<1>5. ASSUME NEW p \in Children, Child(p) PROVE Service!Next \/ UNCHANGED Stages
  BY <1>5, ChildMayFinish DEF Service!Next
<1>6. ASSUME NEW c \in Connections, Connect(c) PROVE Service!Next
  BY <1>6, ConnectIsArrive DEF Service!Next
<1>7. CASE UNCHANGED vars
  <2>1. \A c \in Connections : SameStage(c)
    BY <1>7 DEF vars, parent_vars, child_vars, SameStage, Stage, Queued, IsHeld, IsOpen
  <2> QED
    BY <2>1, StagesStay
<1> QED
  BY <1>1, <1>2, <1>3, <1>4, <1>5, <1>6, <1>7 DEF Next, Parent

(* No step of the parent, a child or a client skips a stage of a           *)
(* connection or goes back, whatever fails (server.c:326-360); what the    *)
(* run fork checks with the liveness, here for every size.                 *)
THEOREM ForkServerServes == Spec => Service!Spec
<1>1. Apart /\ [Next]_vars => Apart'
  BY NextApart
<1> QED
  BY InitApart, InitServes, NextServes, <1>1, PTL DEF Spec, Service!Spec, Stages

(* And of the whole process, which accepts nobody before it is ready.      *)
THEOREM WholeServerServes == ServerSpec => Service!Spec
<1>1. ServerInit => Init
  BY DEF ServerInit
<1>2. [ServerNext]_server_vars => [Next]_vars
  BY DEF ServerNext, ServeStep, server_vars
<1> QED
  BY <1>1, <1>2, ForkServerServes, PTL DEF ServerSpec, Spec
================================================================================
