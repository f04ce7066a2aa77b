------------------------------ MODULE CifarServer ------------------------------
(***************************************************************************)
(* The whole process of the build that forks: main and RunServer as far as *)
(* listen() (Startup), then RunServerImpl with its children (ForkServer).  *)
(* Clients find nobody before that.                                        *)
(***************************************************************************)
EXTENDS Startup, ForkServer

ServerInit == StartupInit /\ Init

ServeStep(step) == Serving /\ step /\ UNCHANGED startup_vars

ServerNext ==
  \/ Start /\ UNCHANGED vars
  \/ ServeStep(Next)

server_vars == <<startup_vars, vars>>

ServerSpec == ServerInit /\ [][ServerNext]_server_vars

\* The process is scheduled before it serves as it is afterwards.
FairServerSpec ==
  /\ ServerSpec
  /\ WF_server_vars(Start /\ UNCHANGED vars)
  /\ WF_server_vars(ServeStep(Parent))
  /\ \A c \in Children : WF_server_vars(ServeStep(Child(c)))
================================================================================
