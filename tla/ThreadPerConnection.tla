--------------------------- MODULE ThreadPerConnection ---------------------------
(***************************************************************************)
(* The build of cifar-server/server.c without the pool (SHOULD_USE_THREADS *)
(* and not USING_THREAD_POOL): a thread per connection and a ring of       *)
(* NUM_THREADS slots.  Only the main thread touches the ring; a started    *)
(* thread reads its descriptor through a pointer into it.                  *)
(*                                                                         *)
(* Before a slot is used again the thread in it is to be joined, but the   *)
(* call passes the pthread_t * of the slot where pthread_join takes a      *)
(* pthread_t.  That is undefined; the outcomes kept here are a return that *)
(* has waited for nobody (the result is only printed) and no return.       *)
(***************************************************************************)
EXTENDS FdTable

CONSTANTS
  NUM_THREADS,      \* length of the ring
  ThreadIds         \* the threads the system can give to the process at a time

ASSUME RingAssumption == NUM_THREADS \in Nat \ {0}

Slots == 0 .. NUM_THREADS - 1

VARIABLES
  created_threads,          \* TRUE where the slot points to a pthread_t
  created_thread_fd_args,   \* the descriptor the slot's thread is to read
  thread_array_index,       \* the slot to use next
  newfd,                    \* the descriptor accept() returned
  main_pc,                  \* "accept" or "slot", the loop that finds a slot
  tpc,                      \* where each thread is
  slot,                     \* the slot each thread was given the address of
  serve_fd,                 \* the descriptor the thread has read
  pending,                  \* connections in the listen queue
  fd_table,                 \* the process's descriptor table
  given,                    \* history: the descriptor each thread was created for
  age,                      \* history: slots used since, NUM_THREADS at most
  abandoned                 \* history: descriptors no thread will close

ring_vars == <<created_threads, created_thread_fd_args, thread_array_index>>
main_vars == <<newfd, main_pc>>
socket_vars == <<pending, fd_table>>
history_vars == <<given, age, abandoned>>
vars == <<ring_vars, main_vars, tpc, slot, serve_fd, socket_vars, history_vars>>

TypeOK ==
  /\ created_threads \in [Slots -> BOOLEAN]
  /\ created_thread_fd_args \in [Slots -> Fds \cup {-1}]
  /\ thread_array_index \in Slots
  /\ newfd \in Fds \cup {-1}
  /\ main_pc \in {"accept", "slot"}
  /\ tpc \in [ThreadIds -> {"none", "start", "serving", "close"}]
  /\ slot \in [ThreadIds -> Slots]
  /\ serve_fd \in [ThreadIds -> Fds \cup {-1}]
  /\ pending \in SUBSET Connections
  /\ fd_table \in Tables
  /\ given \in [ThreadIds -> Fds \cup {-1}]
  /\ age \in [ThreadIds -> 0 .. NUM_THREADS]
  /\ abandoned \in SUBSET Fds

\* created_thread_fd_args is not initialised; no slot is read before it is
\* written, so -1 stands for what is on the stack.
Init ==
  /\ created_threads = [s \in Slots |-> FALSE]
  /\ created_thread_fd_args = [s \in Slots |-> -1]
  /\ thread_array_index = 0
  /\ newfd = -1
  /\ main_pc = "accept"
  /\ tpc = [t \in ThreadIds |-> "none"]
  /\ slot = [t \in ThreadIds |-> 0]
  /\ serve_fd = [t \in ThreadIds |-> -1]
  /\ pending = {}
  /\ fd_table = EmptyTable
  /\ given = [t \in ThreadIds |-> -1]
  /\ age = [t \in ThreadIds |-> 0]
  /\ abandoned = {}

--------------------------------------------------------------------------------
(* The main thread, RunServerImpl.                                         *)

SetFdArg(s, d) ==
  created_thread_fd_args' = [created_thread_fd_args EXCEPT ![s] = d]

SetCreated(s, b) ==
  created_threads' = [created_threads EXCEPT ![s] = b]

\* Mutant: the index runs off the end of the ring.
NextSlotUnwrapped(s) == s + 1

NextSlot(s) == (s + 1) % NUM_THREADS

\* Every live thread sees one more slot used.
Older ==
  [t \in ThreadIds |->
     IF tpc[t] = "none" \/ age[t] = NUM_THREADS THEN age[t] ELSE age[t] + 1]

\* A failed accept() is repeated, which leaves the state as it was.
Accept(c, d) ==
  /\ main_pc = "accept"
  /\ c \in pending
  /\ IsLowestFree(fd_table, d)
  /\ newfd' = d
  /\ fd_table' = Install(fd_table, d, c)
  /\ pending' = pending \ {c}
  /\ main_pc' = "slot"
  /\ UNCHANGED <<ring_vars, tpc, slot, serve_fd, history_vars>>

\* The slot at the index is free.
SlotIsFree(s) ==
  /\ main_pc = "slot"
  /\ s = thread_array_index
  /\ ~created_threads[s]

\* Store the descriptor in the slot and start a thread on it.
CreateThread(s, t) ==
  /\ SlotIsFree(s)
  /\ tpc[t] = "none"
  /\ SetCreated(s, TRUE)
  /\ SetFdArg(s, newfd)
  /\ tpc' = [tpc EXCEPT ![t] = "start"]
  /\ slot' = [slot EXCEPT ![t] = s]
  /\ thread_array_index' = NextSlot(s)
  /\ newfd' = -1
  /\ main_pc' = "accept"
  /\ given' = [given EXCEPT ![t] = newfd]
  /\ age' = [Older EXCEPT ![t] = 0]
  /\ UNCHANGED <<serve_fd, socket_vars, abandoned>>

\* Mutant: after a failure the ring is started over.
CreateThreadFailsRestart(s) ==
  /\ SlotIsFree(s)
  /\ SetFdArg(s, -1)
  /\ thread_array_index' = 0
  /\ newfd' = -1
  /\ main_pc' = "accept"
  /\ age' = Older
  /\ abandoned' = abandoned \cup {newfd}
  /\ UNCHANGED <<created_threads, tpc, slot, serve_fd, socket_vars, given>>

\* pthread_create fails: the slot is freed and the index moves on all the same.
\* Nobody closes the descriptor.
CreateThreadFails(s) ==
  /\ SlotIsFree(s)
  /\ SetFdArg(s, -1)
  /\ thread_array_index' = NextSlot(s)
  /\ newfd' = -1
  /\ main_pc' = "accept"
  /\ age' = Older
  /\ abandoned' = abandoned \cup {newfd}
  /\ UNCHANGED <<created_threads, tpc, slot, serve_fd, socket_vars, given>>

\* The slot is in use: the join returns, the slot is freed and looked at again.
Join(s) ==
  /\ main_pc = "slot"
  /\ s = thread_array_index
  /\ created_threads[s]
  /\ SetCreated(s, FALSE)
  /\ SetFdArg(s, -1)
  /\ UNCHANGED <<thread_array_index, main_vars, tpc, slot, serve_fd, socket_vars,
                 history_vars>>

Main ==
  \/ \E c \in Connections, d \in Fds : Accept(c, d)
  \/ \E s \in Slots : \/ \E t \in ThreadIds : CreateThread(s, t)
                      \/ CreateThreadFails(s)
                      \/ Join(s)

--------------------------------------------------------------------------------
(* The thread of a connection, server_thread_main.                         *)

ReadFdArg(t) ==
  /\ tpc[t] = "start"
  /\ tpc' = [tpc EXCEPT ![t] = "serving"]
  /\ serve_fd' = [serve_fd EXCEPT ![t] = created_thread_fd_args[slot[t]]]
  /\ abandoned' = abandoned \cup ({given[t]} \ {serve_fd'[t]})
  /\ UNCHANGED <<ring_vars, main_vars, slot, socket_vars, given, age>>

\* ServeClient finds the peer gone, or out of time, and closes the descriptor.
ServeClientDisconnected(t) ==
  /\ tpc[t] = "serving"
  /\ tpc' = [tpc EXCEPT ![t] = "close"]
  /\ fd_table' = Close(fd_table, serve_fd[t])
  /\ abandoned' = abandoned \ {serve_fd[t]}
  /\ UNCHANGED <<ring_vars, main_vars, slot, serve_fd, pending, given, age>>

ServeClientDone(t) ==
  /\ tpc[t] = "serving"
  /\ tpc' = [tpc EXCEPT ![t] = "close"]
  /\ UNCHANGED <<ring_vars, main_vars, slot, serve_fd, socket_vars, history_vars>>

\* The thread and what is remembered of it are gone.
Ends(t) ==
  /\ tpc[t] = "close"
  /\ tpc' = [tpc EXCEPT ![t] = "none"]
  /\ slot' = [slot EXCEPT ![t] = 0]
  /\ serve_fd' = [serve_fd EXCEPT ![t] = -1]
  /\ given' = [given EXCEPT ![t] = -1]
  /\ age' = [age EXCEPT ![t] = 0]
  /\ UNCHANGED <<ring_vars, main_vars, pending>>

\* Mutant: the thread ends with its descriptor open.
EndWithoutClose(t) ==
  /\ Ends(t)
  /\ UNCHANGED <<fd_table, abandoned>>

CloseAndEnd(t) ==
  /\ Ends(t)
  /\ fd_table' = Close(fd_table, serve_fd[t])
  /\ abandoned' = abandoned \ {serve_fd[t]}

Thread(t) ==
  \/ ReadFdArg(t) \/ ServeClientDisconnected(t) \/ ServeClientDone(t)
  \/ CloseAndEnd(t)

--------------------------------------------------------------------------------
(* The clients.                                                            *)

Connect(c) ==
  /\ c \notin pending
  /\ ~IsOpen(fd_table, c)
  /\ pending' = pending \cup {c}
  /\ UNCHANGED <<ring_vars, main_vars, tpc, slot, serve_fd, fd_table, history_vars>>

Next ==
  \/ Main
  \/ \E t \in ThreadIds : Thread(t)
  \/ \E c \in Connections : Connect(c)

Spec == Init /\ [][Next]_vars

--------------------------------------------------------------------------------
(* "passing fd %d to thread" (server.c:153).  The join waits for nobody,   *)
(* but so much the ring gives without it: a thread that starts before the  *)
(* other slots have all been used reads the descriptor it was created for. *)
PromptThreadReadsOwnDescriptor ==
  \A t \in ThreadIds :
    tpc[t] = "start" /\ age[t] < NUM_THREADS - 1 =>
      created_thread_fd_args[slot[t]] = given[t]

(* No descriptor is lost, whatever the double close closes: one that is    *)
(* open is on its way to a thread, or has a thread that is still to close  *)
(* it, or pthread_create failed for it or its thread came too late.        *)
OpenDescriptorHasOwner ==
  \A d \in Fds :
    fd_table[d] # NoConnection =>
      \/ d = newfd
      \/ d \in abandoned
      \/ \E t \in ThreadIds : tpc[t] # "none" /\ given[t] = d
================================================================================
