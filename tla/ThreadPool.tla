------------------------------- MODULE ThreadPool -------------------------------
(***************************************************************************)
(* The configured build of cifar-server/server.c (SHOULD_USE_THREADS and   *)
(* USING_THREAD_POOL): NUM_THREADS workers that live as long as the        *)
(* process, and the thread of RunServerImpl that accepts connections and   *)
(* hands each descriptor to a worker.  A step is one access to a shared    *)
(* variable, one call on a mutex or condition variable, or one system      *)
(* call.  ServeClient is reduced here to what it does to the descriptor    *)
(* table.                                                                  *)
(*                                                                         *)
(* The worker calls pthread_cond_wait without holding the mutex, which     *)
(* POSIX leaves undefined.  The model follows glibc, where a default       *)
(* mutex does not record who holds it: the unlock inside the wait frees    *)
(* the mutex even when the acceptor is the one inside.                     *)
(***************************************************************************)
EXTENDS FdTable

CONSTANTS
  NUM_THREADS,      \* size of the pool
  Restless          \* the workers pthread_cond_wait may wake without a signal

Threads == 0 .. NUM_THREADS - 1

ASSUME PoolAssumption ==
  /\ NUM_THREADS \in Nat \ {0}
  /\ Restless \in SUBSET Threads

States == {"INITIAL", "RUNNING", "AWAITING_TASK", "PREPARE_FOR_TASK"}

VARIABLES
  current_thread_states,    \* written by the worker, read by the acceptor
  created_thread_fd_args,   \* the descriptor handed to each worker, or -1
  global_thread_mutexes,    \* TRUE while locked
  wpc,                      \* where each worker is
  fd_arg,                   \* the argument of the ServeClient call in progress
  apc,                      \* where the acceptor is
  newfd,                    \* the descriptor accept() returned
  thread_index,             \* the worker the acceptor looks at
  fd_table,                 \* the process's descriptor table
  subject,                  \* history: the connection ServeClient was called for
  disturbed                 \* history: the Restless workers, and those the acceptor
                            \* has found AWAITING_TASK outside the wait

thread_vars == <<current_thread_states, created_thread_fd_args, global_thread_mutexes>>
acceptor_vars == <<apc, newfd, thread_index>>
call_vars == <<fd_arg, subject>>
vars == <<thread_vars, wpc, acceptor_vars, fd_table, call_vars, disturbed>>

WorkerPCs == {"off", "initial", "prepare", "reset", "publish", "unlock", "wait",
              "blocked", "woken", "release", "awake", "run", "serving", "close",
              "finish"}

AcceptorPCs == {"create", "accept", "lock", "unlock_found", "unlock_next",
                "lock_task", "write", "signal", "unlock_task"}

TypeOK ==
  /\ current_thread_states \in [Threads -> States]
  /\ created_thread_fd_args \in [Threads -> Fds \cup {-1}]
  /\ global_thread_mutexes \in [Threads -> BOOLEAN]
  /\ wpc \in [Threads -> WorkerPCs]
  /\ fd_arg \in [Threads -> Fds \cup {-1}]
  /\ apc \in AcceptorPCs
  /\ newfd \in Fds \cup {-1}
  /\ thread_index \in Threads
  /\ fd_table \in Tables
  /\ subject \in [Threads -> Connections \cup {NoConnection}]
  /\ disturbed \in SUBSET Threads

\* listen() has succeeded and the arrays are set up, no thread exists yet.
Init ==
  /\ current_thread_states = [t \in Threads |-> "INITIAL"]
  /\ created_thread_fd_args = [t \in Threads |-> 0]
  /\ global_thread_mutexes = [t \in Threads |-> FALSE]
  /\ wpc = [t \in Threads |-> "off"]
  /\ fd_arg = [t \in Threads |-> -1]
  /\ apc = "create"
  /\ newfd = -1
  /\ thread_index = 0
  /\ fd_table = EmptyTable
  /\ subject = [t \in Threads |-> NoConnection]
  /\ disturbed = Restless

--------------------------------------------------------------------------------
(* Moves of the program counters, and the mutexes.                         *)

WorkerGoes(t, from, to) ==
  /\ wpc[t] = from
  /\ wpc' = [wpc EXCEPT ![t] = to]

AcceptorGoes(from, to) ==
  /\ apc = from
  /\ apc' = to

SetState(t, s) ==
  current_thread_states' = [current_thread_states EXCEPT ![t] = s]

SetFdArg(t, d) ==
  created_thread_fd_args' = [created_thread_fd_args EXCEPT ![t] = d]

Lock(t) ==
  /\ ~global_thread_mutexes[t]
  /\ global_thread_mutexes' = [global_thread_mutexes EXCEPT ![t] = TRUE]

Unlock(t) ==
  global_thread_mutexes' = [global_thread_mutexes EXCEPT ![t] = FALSE]

--------------------------------------------------------------------------------
(* The worker, server_thread_main.                                         *)

LeaveInitial(t) ==
  /\ WorkerGoes(t, "initial", "prepare")
  /\ SetState(t, "PREPARE_FOR_TASK")
  /\ UNCHANGED <<created_thread_fd_args, global_thread_mutexes, acceptor_vars,
                 fd_table, call_vars, disturbed>>

PrepareLock(t) ==
  /\ WorkerGoes(t, "prepare", "reset")
  /\ Lock(t)
  /\ UNCHANGED <<current_thread_states, created_thread_fd_args, acceptor_vars,
                 fd_table, call_vars, disturbed>>

ResetFdArg(t) ==
  /\ WorkerGoes(t, "reset", "publish")
  /\ SetFdArg(t, -1)
  /\ UNCHANGED <<current_thread_states, global_thread_mutexes, acceptor_vars,
                 fd_table, call_vars, disturbed>>

\* Mutant: the worker announces itself before it has changed its state.
PublishNothing(t) ==
  /\ WorkerGoes(t, "publish", "unlock")
  /\ UNCHANGED <<thread_vars, acceptor_vars, fd_table, call_vars, disturbed>>

PublishAwaiting(t) ==
  /\ WorkerGoes(t, "publish", "unlock")
  /\ SetState(t, "AWAITING_TASK")
  /\ UNCHANGED <<created_thread_fd_args, global_thread_mutexes, acceptor_vars,
                 fd_table, call_vars, disturbed>>

PrepareUnlock(t) ==
  /\ WorkerGoes(t, "unlock", "wait")
  /\ Unlock(t)
  /\ UNCHANGED <<current_thread_states, created_thread_fd_args, acceptor_vars,
                 fd_table, call_vars, disturbed>>

\* pthread_cond_wait: become a waiter and unlock, in one step.
CondWait(t) ==
  /\ WorkerGoes(t, "wait", "blocked")
  /\ Unlock(t)
  /\ UNCHANGED <<current_thread_states, created_thread_fd_args, acceptor_vars,
                 fd_table, call_vars, disturbed>>

\* pthread_cond_wait takes the mutex again before it returns.
CondReturn(t) ==
  /\ WorkerGoes(t, "woken", "release")
  /\ Lock(t)
  /\ UNCHANGED <<current_thread_states, created_thread_fd_args, acceptor_vars,
                 fd_table, call_vars, disturbed>>

SpuriousWakeup(t) ==
  /\ t \in Restless
  /\ WorkerGoes(t, "blocked", "woken")
  /\ UNCHANGED <<thread_vars, acceptor_vars, fd_table, call_vars, disturbed>>

WakeUnlock(t) ==
  /\ WorkerGoes(t, "release", "awake")
  /\ Unlock(t)
  /\ UNCHANGED <<current_thread_states, created_thread_fd_args, acceptor_vars,
                 fd_table, call_vars, disturbed>>

BecomeRunning(t) ==
  /\ WorkerGoes(t, "awake", "run")
  /\ SetState(t, "RUNNING")
  /\ UNCHANGED <<created_thread_fd_args, global_thread_mutexes, acceptor_vars,
                 fd_table, call_vars, disturbed>>

\* The first read of created_thread_fd_args, as the argument of ServeClient.
CallServeClient(t) ==
  /\ WorkerGoes(t, "run", "serving")
  /\ fd_arg' = [fd_arg EXCEPT ![t] = created_thread_fd_args[t]]
  /\ subject' = [subject EXCEPT ![t] = Referent(fd_table, created_thread_fd_args[t])]
  /\ UNCHANGED <<thread_vars, acceptor_vars, fd_table, disturbed>>

\* ServeClient returns because the peer has gone or the keep-alive time is up:
\* it has closed its descriptor itself.
ServeClientDisconnected(t) ==
  /\ WorkerGoes(t, "serving", "close")
  /\ fd_table' = Close(fd_table, fd_arg[t])
  /\ fd_arg' = [fd_arg EXCEPT ![t] = -1]
  /\ UNCHANGED <<thread_vars, acceptor_vars, subject, disturbed>>

\* ServeClient returns after its last response, the descriptor still open.
ServeClientDone(t) ==
  /\ WorkerGoes(t, "serving", "close")
  /\ fd_arg' = [fd_arg EXCEPT ![t] = -1]
  /\ UNCHANGED <<thread_vars, acceptor_vars, fd_table, subject, disturbed>>

\* The second read of created_thread_fd_args, as the argument of close.
CloseFdArg(t) ==
  /\ WorkerGoes(t, "close", "finish")
  /\ fd_table' = Close(fd_table, created_thread_fd_args[t])
  /\ subject' = [subject EXCEPT ![t] = NoConnection]
  /\ UNCHANGED <<thread_vars, acceptor_vars, fd_arg, disturbed>>

FinishTask(t) ==
  /\ WorkerGoes(t, "finish", "prepare")
  /\ SetState(t, "PREPARE_FOR_TASK")
  /\ UNCHANGED <<created_thread_fd_args, global_thread_mutexes, acceptor_vars,
                 fd_table, call_vars, disturbed>>

Worker(t) ==
  \/ LeaveInitial(t) \/ PrepareLock(t) \/ ResetFdArg(t) \/ PublishAwaiting(t)
  \/ PrepareUnlock(t) \/ CondWait(t) \/ CondReturn(t) \/ WakeUnlock(t)
  \/ BecomeRunning(t) \/ CallServeClient(t) \/ ServeClientDisconnected(t)
  \/ ServeClientDone(t) \/ CloseFdArg(t) \/ FinishTask(t)

--------------------------------------------------------------------------------
(* The acceptor, RunServerImpl.                                            *)

\* pthread_create for the next worker.  A failed call undoes its bookkeeping
\* and is repeated, which leaves the state as it was.
CreateThread(t) ==
  /\ apc = "create"
  /\ \A u \in Threads : wpc[u] = "off" => t <= u
  /\ WorkerGoes(t, "off", "initial")
  /\ apc' = IF t = NUM_THREADS - 1 THEN "accept" ELSE "create"
  /\ UNCHANGED <<thread_vars, newfd, thread_index, fd_table, call_vars, disturbed>>

\* accept() returns a connection that is not in the server yet; one that has left
\* may come again.  The search starts at worker 0.  A failed accept() is repeated,
\* which leaves the state as it was.
Accept(c, d) ==
  /\ AcceptorGoes("accept", "lock")
  /\ ~IsOpen(fd_table, c)
  /\ \A t \in Threads : subject[t] # c
  /\ IsLowestFree(fd_table, d)
  /\ newfd' = d
  /\ fd_table' = Install(fd_table, d, c)
  /\ thread_index' = 0
  /\ UNCHANGED <<thread_vars, wpc, call_vars, disturbed>>

\* Mutant: every worker that is not serving is taken for an idle one.
IsNotRunning(s) == s # "RUNNING"

IsIdle(s) == s = "AWAITING_TASK"

\* Mutant: the index runs off the end of the arrays.
NextThreadUnwrapped(t) == t + 1

NextThread(t) == (t + 1) % NUM_THREADS

\* Lock the worker's mutex and read its state.
LookAtThread(t) ==
  /\ AcceptorGoes("lock", IF IsIdle(current_thread_states[t])
                          THEN "unlock_found" ELSE "unlock_next")
  /\ t = thread_index
  /\ Lock(t)
  /\ disturbed' = IF current_thread_states[t] = "AWAITING_TASK" /\ wpc[t] # "blocked"
                  THEN disturbed \cup {t} ELSE disturbed
  /\ UNCHANGED <<current_thread_states, created_thread_fd_args, wpc, newfd,
                 thread_index, fd_table, call_vars>>

UnlockFound(t) ==
  /\ AcceptorGoes("unlock_found", "lock_task")
  /\ t = thread_index
  /\ Unlock(t)
  /\ UNCHANGED <<current_thread_states, created_thread_fd_args, wpc, newfd,
                 thread_index, fd_table, call_vars, disturbed>>

\* Mutant: the mutex is unlocked only when the thread was found.
UnlockNextForgotten(t) ==
  /\ AcceptorGoes("unlock_next", "lock")
  /\ t = thread_index
  /\ thread_index' = NextThread(t)
  /\ UNCHANGED <<thread_vars, wpc, newfd, fd_table, call_vars, disturbed>>

UnlockNext(t) ==
  /\ AcceptorGoes("unlock_next", "lock")
  /\ t = thread_index
  /\ Unlock(t)
  /\ thread_index' = NextThread(t)
  /\ UNCHANGED <<current_thread_states, created_thread_fd_args, wpc, newfd,
                 fd_table, call_vars, disturbed>>

TaskLock(t) ==
  /\ AcceptorGoes("lock_task", "write")
  /\ t = thread_index
  /\ Lock(t)
  /\ UNCHANGED <<current_thread_states, created_thread_fd_args, wpc, newfd,
                 thread_index, fd_table, call_vars, disturbed>>

WriteFdArg(t) ==
  /\ AcceptorGoes("write", "signal")
  /\ t = thread_index
  /\ SetFdArg(t, newfd)
  /\ UNCHANGED <<current_thread_states, global_thread_mutexes, wpc, newfd,
                 thread_index, fd_table, call_vars, disturbed>>

\* Mutant: the signal goes to the condition variable of another worker.
SignalNextThread(t) ==
  /\ AcceptorGoes("signal", "unlock_task")
  /\ t = thread_index
  /\ wpc' = [wpc EXCEPT ![NextThread(t)] = IF @ = "blocked" THEN "woken" ELSE @]
  /\ UNCHANGED <<thread_vars, newfd, thread_index, fd_table, call_vars, disturbed>>

\* pthread_cond_signal wakes the worker if it is waiting, and is lost if not.
Signal(t) ==
  /\ AcceptorGoes("signal", "unlock_task")
  /\ t = thread_index
  /\ wpc' = [wpc EXCEPT ![t] = IF @ = "blocked" THEN "woken" ELSE @]
  /\ UNCHANGED <<thread_vars, newfd, thread_index, fd_table, call_vars, disturbed>>

\* Mutant: the acceptor goes back to accept() with the mutex locked.
TaskUnlockForgotten(t) ==
  /\ AcceptorGoes("unlock_task", "accept")
  /\ t = thread_index
  /\ newfd' = -1
  /\ thread_index' = 0
  /\ UNCHANGED <<thread_vars, wpc, fd_table, call_vars, disturbed>>

\* newfd and thread_index are locals of the loop body that ends here.
TaskUnlock(t) ==
  /\ AcceptorGoes("unlock_task", "accept")
  /\ t = thread_index
  /\ Unlock(t)
  /\ newfd' = -1
  /\ thread_index' = 0
  /\ UNCHANGED <<current_thread_states, created_thread_fd_args, wpc, fd_table,
                 call_vars, disturbed>>

Assign(t) ==
  \/ CreateThread(t) \/ LookAtThread(t) \/ UnlockFound(t) \/ UnlockNext(t)
  \/ TaskLock(t) \/ WriteFdArg(t) \/ Signal(t) \/ TaskUnlock(t)

Acceptor ==
  \/ \E c \in Connections, d \in Fds : Accept(c, d)
  \/ \E t \in Threads : Assign(t)

--------------------------------------------------------------------------------
Next ==
  \/ \E t \in Threads : Worker(t) \/ SpuriousWakeup(t)
  \/ Acceptor

Spec == Init /\ [][Next]_vars

(***************************************************************************)
(* Every thread is scheduled, and a mutex that is free again and again is  *)
(* got in the end (strong fairness: the acceptor polls the mutexes).       *)
(* Clients need not come, and nobody need be woken without a signal.       *)
(* ServeClient returns: poll() gives up after ten seconds without a        *)
(* request, and a client has finitely many to send.                        *)
(***************************************************************************)
Fairness ==
  /\ \A t \in Threads : SF_vars(Worker(t))
  /\ SF_vars(\E t \in Threads : Assign(t))

FairSpec == Spec /\ Fairness

--------------------------------------------------------------------------------
\* Who is between a lock and its unlock on the mutex of worker t.
WorkerInside(t) == wpc[t] \in {"reset", "publish", "unlock", "release"}

AcceptorInside(t) ==
  /\ thread_index = t
  /\ apc \in {"unlock_found", "unlock_next", "write", "signal", "unlock_task"}

(* A locked mutex is always somebody's: whatever the unlock inside an      *)
(* unlocked pthread_cond_wait frees, no mutex stays locked with nobody     *)
(* left to unlock it.                                                      *)
LockedMutexHasHolder ==
  \A t \in Threads :
    global_thread_mutexes[t] => WorkerInside(t) \/ AcceptorInside(t)

(* The search for a thread ends: an accepted connection is always given to *)
(* some worker and the acceptor comes back to accept().                    *)
SearchTerminates == apc = "lock" ~> apc = "accept"

(* A worker that has been woken serves and comes back to pthread_cond_wait *)
(* (it is never stuck on its mutex or between states).                     *)
WorkersReturnToWait == \A t \in Threads : wpc[t] = "woken" ~> wpc[t] = "blocked"

(***************************************************************************)
(* The hand-over of a descriptor goes wrong in this code.  The next four   *)
(* properties trace whatever goes wrong with a worker back to one of two   *)
(* things that have happened to it: the acceptor has found it              *)
(* AWAITING_TASK outside the wait, which the code allows from line 215 to  *)
(* line 223 of server.c, or pthread_cond_wait may return without a signal. *)
(***************************************************************************)

(* The worker and the acceptor are never both between lock and unlock of a *)
(* mutex, although the wait (server.c:220) unlocks a mutex its caller does *)
(* not hold: it does not free the lock of the acceptor.                    *)
ExclusionUnlessDisturbed ==
  \A t \in Threads : WorkerInside(t) /\ AcceptorInside(t) => t \in disturbed

(* The worker that is given a descriptor has no earlier one left to serve, *)
(* and has not become active since the acceptor looked at it.              *)
AssignsUnlessDisturbed ==
  apc = "write" /\ thread_index \notin disturbed =>
    /\ created_thread_fd_args[thread_index] = -1
    /\ current_thread_states[thread_index] = "AWAITING_TASK"

(* No signal is lost: a worker inside the wait has no descriptor nobody is *)
(* about to signal, a connection that is open and never served.            *)
SignalledUnlessDisturbed ==
  \A t \in Threads :
    /\ wpc[t] = "blocked"
    /\ created_thread_fd_args[t] # -1
    /\ ~(apc = "signal" /\ thread_index = t)
    => t \in disturbed

(* No wake-up comes late: a worker does not start a task without a         *)
(* descriptor.                                                             *)
RunsUnlessDisturbed ==
  \A t \in Threads :
    wpc[t] = "run" /\ created_thread_fd_args[t] = -1 => t \in disturbed

--------------------------------------------------------------------------------
(* What the code says of itself and does not keep.                         *)

(* "received wrond fd!" (server.c:229) never happens: a worker does not    *)
(* start a task without a descriptor.                                      *)
RunsWithDescriptor ==
  \A t \in Threads : wpc[t] = "run" => created_thread_fd_args[t] # -1

(* "thread %d is not active, so assigning the task to it" (server.c:308):  *)
(* a descriptor handed to a worker is served by it.                        *)
TaskIsStarted ==
  \A t \in Threads :
    apc = "unlock_task" /\ thread_index = t ~> wpc[t] = "serving"

(* "closing the socket" (handler.c:102): a worker closes the connection it *)
(* has been serving, never another one.                                    *)
ClosesOwnConnection ==
  [][\A t \in Threads : CloseFdArg(t) =>
       Referent(fd_table, created_thread_fd_args[t]) \in {NoConnection, subject[t]}]_vars

================================================================================
