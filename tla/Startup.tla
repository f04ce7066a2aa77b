-------------------------------- MODULE Startup --------------------------------
(***************************************************************************)
(* cifar-server until it serves: the options of main.c, preload_pictures   *)
(* (resources.c), the signals and the listening socket (server.c).  Every  *)
(* system call may fail.  The process either serves in the end or exits,   *)
(* always with EXIT_FAILURE.                                               *)
(***************************************************************************)
EXTENDS Integers, Sequences

CONSTANTS
  PORTS,           \* how many port numbers there are
  DEFAULT_PORT,
  Invalid,         \* an option that is no -p with a number
  CommandLines,    \* sequences of Invalid and of numbers given to -p
  AddressLists,    \* what getaddrinfo may find
  StartBuilds      \* records with USING_MMAP_INSTEAD_READ and SHOULD_USE_TCP_CORK

ASSUME StartupAssumption ==
  /\ PORTS \in Nat \ {0} /\ DEFAULT_PORT \in 0 .. PORTS - 1
  /\ Invalid \notin Int
  /\ CommandLines \subseteq Seq(Int \cup {Invalid})
  /\ \A list \in AddressLists : list # <<>> /\ list \in Seq({list[i] : i \in DOMAIN list})

VARIABLES
  start_pc,        \* the next system call, or "options", "serving" or "exited"
  start_build,
  command_line,
  optind,          \* the next option
  port,
  pictures,        \* "none", "open" or "mapped"
  ignored,         \* the signals that are ignored
  servinfo,        \* the addresses
  candidate,       \* the one that is tried, p in the code
  sockets          \* the addresses that have an open socket

option_vars == <<start_build, command_line, optind, port>>
socket_vars == <<servinfo, candidate, sockets>>
startup_vars == <<start_pc, option_vars, pictures, ignored, socket_vars>>

StartupTypeOK ==
  /\ start_pc \in {"options", "open", "stat", "mmap", "sigchld", "sigpipe", "getaddrinfo",
                   "socket", "reuseaddr", "cork", "bind", "listen", "serving", "exited"}
  /\ start_build \in StartBuilds
  /\ command_line \in CommandLines
  /\ optind \in 1 .. Len(command_line) + 1
  /\ port \in 0 .. PORTS - 1
  /\ pictures \in {"none", "open", "mapped"}
  /\ ignored \subseteq {"SIGCHLD", "SIGPIPE"}
  /\ servinfo \in AddressLists \cup {<<>>}
  /\ candidate \in 1 .. Len(servinfo) + 1

StartupInit ==
  /\ start_pc = "options"
  /\ start_build \in StartBuilds
  /\ command_line \in CommandLines
  /\ optind = 1
  /\ port = DEFAULT_PORT
  /\ pictures = "none"
  /\ ignored = {}
  /\ servinfo = <<>> /\ candidate = 1
  /\ sockets = {}

Goes(from, to) == start_pc = from /\ start_pc' = to

\* Nothing has to be undone.
Fails(from) ==
  Goes(from, "exited") /\ UNCHANGED <<option_vars, pictures, ignored, socket_vars>>

--------------------------------------------------------------------------------
(* ParseOptions.                                                           *)

\* sscanf with %hu keeps what fits in a port.
ParseOption ==
  /\ Goes("options", "options")
  /\ optind <= Len(command_line) /\ command_line[optind] # Invalid
  /\ port' = command_line[optind] % PORTS
  /\ optind' = optind + 1
  /\ UNCHANGED <<start_build, command_line, pictures, ignored, socket_vars>>

OptionInvalid ==
  optind <= Len(command_line) /\ command_line[optind] = Invalid /\ Fails("options")

\* The build that reads has no pictures to preload.
OptionsParsed ==
  /\ optind > Len(command_line)
  /\ Goes("options", IF start_build.USING_MMAP_INSTEAD_READ THEN "open" ELSE "sigchld")
  /\ UNCHANGED <<option_vars, pictures, ignored, socket_vars>>

--------------------------------------------------------------------------------
(* preload_pictures, and the signals.                                      *)

Preload(from, to, state) ==
  /\ Goes(from, to)
  /\ pictures' = state
  /\ UNCHANGED <<option_vars, ignored, socket_vars>>

OpenPictures == Preload("open", "stat", "open")
StatPictures == Preload("stat", "mmap", "open")
MapPictures == Preload("mmap", "sigchld", "mapped")   \* and close the file
OpenPicturesFails == Fails("open")
StatPicturesFails == Fails("stat")                    \* the file stays open
MapPicturesFails == Preload("mmap", "exited", "none")

IgnoreSignal(from, to, sigNum) ==
  /\ Goes(from, to)
  /\ ignored' = ignored \cup {sigNum}
  /\ UNCHANGED <<option_vars, pictures, socket_vars>>

IgnoreSigchld == IgnoreSignal("sigchld", "sigpipe", "SIGCHLD")
IgnoreSigpipe == IgnoreSignal("sigpipe", "getaddrinfo", "SIGPIPE")
IgnoreSignalFails == Fails("sigchld") \/ Fails("sigpipe")

--------------------------------------------------------------------------------
(* CreateSocketToListen: the first address a socket can be bound to.       *)

Resolve(list) ==
  /\ Goes("getaddrinfo", "socket")
  /\ servinfo' = list
  /\ UNCHANGED <<option_vars, pictures, ignored, candidate, sockets>>

ResolveFails == Fails("getaddrinfo")

Current == servinfo[candidate]

Trying(from, to, open) ==
  /\ Goes(from, to)
  /\ candidate <= Len(servinfo)
  /\ sockets' = open
  /\ UNCHANGED <<option_vars, pictures, ignored, servinfo>>

Try(from, to, open) == Trying(from, to, open) /\ UNCHANGED candidate

\* On to the next address.
Continue(from, open) == Trying(from, "socket", open) /\ candidate' = candidate + 1

Socket == Try("socket", "reuseaddr", sockets \cup {Current})

SocketFails == Continue("socket", sockets)

Setsockopt ==
  \/ Try("reuseaddr", IF start_build.SHOULD_USE_TCP_CORK THEN "cork" ELSE "bind", sockets)
  \/ Try("cork", "bind", sockets)

SetsockoptFails ==
  \E from \in {"reuseaddr", "cork"} : Continue(from, sockets \ {Current})

Bind == Try("bind", "listen", sockets)

\* Mutant: the socket is not closed.
BindFailsOpen == Continue("bind", sockets)

\* Mutant: the same address is tried again.
BindFailsAgain == Try("bind", "socket", sockets \ {Current})

BindFails == Continue("bind", sockets \ {Current})

NoAddressLeft == candidate > Len(servinfo) /\ Fails("socket")

Listen == Try("listen", "serving", sockets)

\* RunServer closes the socket.
ListenFails == Try("listen", "exited", sockets \ {Current})

Start ==
  \/ ParseOption \/ OptionInvalid \/ OptionsParsed
  \/ OpenPictures \/ StatPictures \/ MapPictures
  \/ OpenPicturesFails \/ StatPicturesFails \/ MapPicturesFails
  \/ IgnoreSigchld \/ IgnoreSigpipe \/ IgnoreSignalFails
  \/ \E list \in AddressLists : Resolve(list)
  \/ ResolveFails
  \/ Socket \/ SocketFails \/ Setsockopt \/ SetsockoptFails \/ Bind \/ BindFails
  \/ NoAddressLeft \/ Listen \/ ListenFails

--------------------------------------------------------------------------------
Serving == start_pc = "serving"

\* The last option counts, and if it is a port it is the one.
PortIsTheOneAsked ==
  LET n == Len(command_line)
  IN  /\ \A k \in 1 .. n : command_line[k] # Invalid
      /\ n = 0 => port = DEFAULT_PORT
      /\ n > 0 /\ command_line[n] \in 0 .. PORTS - 1 => port = command_line[n]

(* "server: waiting for connections" (server.c:390) is true: a server that  *)
(* serves is at the port that was asked for, has the pictures its build     *)
(* needs and has closed their file, ignores both signals, and whatever      *)
(* failed on the way, its one open socket is the one it accepts from.       *)
ServesOnlyWhenReady ==
  Serving =>
    /\ PortIsTheOneAsked
    /\ pictures = IF start_build.USING_MMAP_INSTEAD_READ THEN "mapped" ELSE "none"
    /\ ignored = {"SIGCHLD", "SIGPIPE"}
    /\ candidate <= Len(servinfo) /\ sockets = {Current}

(* The loop over the addresses comes to an end, and the server serves or    *)
(* exits without a socket.                                                  *)
StartupEnds == <>(Serving \/ (start_pc = "exited" /\ sockets = {}))
================================================================================
