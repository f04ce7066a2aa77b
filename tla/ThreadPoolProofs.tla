---------------------------- MODULE ThreadPoolProofs ----------------------------
(***************************************************************************)
(* What holds of the pool for every number of workers, descriptors and     *)
(* connections.                                                            *)
(***************************************************************************)
EXTENDS ThreadPool, TLAPS

(* The index of the next worker stays inside the arrays.                   *)
LEMMA NextThreadType == ASSUME NEW t \in Threads PROVE NextThread(t) \in Threads
  BY PoolAssumption DEF Threads, NextThread

--------------------------------------------------------------------------------
(***************************************************************************)
(* Part 1: types and locks.                                                *)
(***************************************************************************)

TypedPool == TypeOK /\ LockedMutexHasHolder

(* The arrays and the counters start inside their types, no mutex locked.  *)
LEMMA InitTypedPool == Init => TypedPool
<1> SUFFICES ASSUME Init PROVE TypedPool
  OBVIOUS
<1>1. 0 \in Threads
  BY PoolAssumption DEF Threads
<1>2. 0 \in Fds
  BY FdAssumption DEF Fds
<1>3. Restless \in SUBSET Threads
  BY PoolAssumption
<1>4. TypeOK
  BY <1>1, <1>2, <1>3
     DEF EmptyTable, Tables, Init, TypeOK, States, WorkerPCs, AcceptorPCs
<1>5. LockedMutexHasHolder
  BY DEF Init, LockedMutexHasHolder
<1> QED
  BY <1>4, <1>5 DEF TypedPool

(* A step of a worker keeps every variable in its type, and leaves no      *)
(* mutex locked behind it.                                                 *)
LEMMA WorkerTypedPool ==
  ASSUME TypedPool, NEW t \in Threads, Worker(t) PROVE TypedPool'
<1> USE DEF TypedPool, WorkerGoes, SetState, SetFdArg, Lock, Unlock
<1>a. TypeOK'
  <2> USE DEF TypeOK, States, WorkerPCs
  <2>1. CASE LeaveInitial(t)
    BY <2>1 DEF LeaveInitial, acceptor_vars, call_vars
  <2>2. CASE PrepareLock(t)
    BY <2>2 DEF PrepareLock, acceptor_vars, call_vars
  <2>3. CASE ResetFdArg(t)
    BY <2>3 DEF ResetFdArg, acceptor_vars, call_vars
  <2>4. CASE PublishAwaiting(t)
    BY <2>4 DEF PublishAwaiting, acceptor_vars, call_vars
  <2>5. CASE PrepareUnlock(t)
    BY <2>5 DEF PrepareUnlock, acceptor_vars, call_vars
  <2>6. CASE CondWait(t)
    BY <2>6 DEF CondWait, acceptor_vars, call_vars
  <2>7. CASE CondReturn(t)
    BY <2>7 DEF CondReturn, acceptor_vars, call_vars
  <2>8. CASE WakeUnlock(t)
    BY <2>8 DEF WakeUnlock, acceptor_vars, call_vars
  <2>9. CASE BecomeRunning(t)
    BY <2>9 DEF BecomeRunning, acceptor_vars, call_vars
  <2>10. CASE CallServeClient(t)
    BY <2>10 DEF Referent, Tables, CallServeClient, thread_vars, acceptor_vars
  <2>11. CASE ServeClientDisconnected(t)
    BY <2>11 DEF Close, Tables, ServeClientDisconnected, thread_vars, acceptor_vars
  <2>12. CASE ServeClientDone(t)
    BY <2>12 DEF ServeClientDone, thread_vars, acceptor_vars
  <2>13. CASE CloseFdArg(t)
    BY <2>13 DEF Close, Tables, CloseFdArg, thread_vars, acceptor_vars
  <2>14. CASE FinishTask(t)
    BY <2>14 DEF FinishTask, acceptor_vars, call_vars
  <2> QED
    BY <2>1, <2>2, <2>3, <2>4, <2>5, <2>6, <2>7, <2>8, <2>9, <2>10, <2>11,
       <2>12, <2>13, <2>14 DEF Worker
<1>b. LockedMutexHasHolder'
  <2> USE DEF LockedMutexHasHolder, WorkerInside, AcceptorInside, acceptor_vars, TypeOK
  <2>1. CASE LeaveInitial(t)
    BY <2>1 DEF LeaveInitial
  <2>2. CASE PrepareLock(t)
    BY <2>2 DEF PrepareLock
  <2>3. CASE ResetFdArg(t)
    BY <2>3 DEF ResetFdArg
  <2>4. CASE PublishAwaiting(t)
    BY <2>4 DEF PublishAwaiting
  <2>5. CASE PrepareUnlock(t)
    BY <2>5 DEF PrepareUnlock
  <2>6. CASE CondWait(t)
    BY <2>6 DEF CondWait
  <2>7. CASE CondReturn(t)
    BY <2>7 DEF CondReturn
  <2>8. CASE WakeUnlock(t)
    BY <2>8 DEF WakeUnlock
  <2>9. CASE BecomeRunning(t)
    BY <2>9 DEF BecomeRunning
  <2>10. CASE CallServeClient(t)
    BY <2>10 DEF CallServeClient, thread_vars
  <2>11. CASE ServeClientDisconnected(t)
    BY <2>11 DEF ServeClientDisconnected, thread_vars
  <2>12. CASE ServeClientDone(t)
    BY <2>12 DEF ServeClientDone, thread_vars
  <2>13. CASE CloseFdArg(t)
    BY <2>13 DEF CloseFdArg, thread_vars
  <2>14. CASE FinishTask(t)
    BY <2>14 DEF FinishTask
  <2> QED
    BY <2>1, <2>2, <2>3, <2>4, <2>5, <2>6, <2>7, <2>8, <2>9, <2>10, <2>11,
       <2>12, <2>13, <2>14 DEF Worker
<1> QED
  BY <1>a, <1>b

(* A step of the acceptor does, too.                                       *)
LEMMA AcceptorTypedPool == TypedPool /\ Acceptor => TypedPool'
<1> SUFFICES ASSUME TypedPool, Acceptor PROVE TypedPool'
  OBVIOUS
<1> USE DEF TypedPool, AcceptorGoes, WorkerGoes, SetFdArg, Lock, Unlock
<1>0. 0 \in Threads /\ NUM_THREADS \in Nat \ {0}
  BY PoolAssumption DEF Threads
<1>a. TypeOK'
  <2> USE DEF TypeOK, AcceptorPCs
  <2>1. ASSUME NEW c \in Connections, NEW d \in Fds, Accept(c, d) PROVE TypeOK'
    BY <2>1, <1>0 DEF Install, Tables, Accept, thread_vars, call_vars
  <2>2. ASSUME NEW t \in Threads, CreateThread(t) PROVE TypeOK'
    BY <2>2 DEF CreateThread, thread_vars, call_vars, WorkerPCs
  <2>3. ASSUME NEW t \in Threads, LookAtThread(t) PROVE TypeOK'
    BY <2>3 DEF LookAtThread, call_vars
  <2>4. ASSUME NEW t \in Threads, UnlockFound(t) PROVE TypeOK'
    BY <2>4 DEF UnlockFound, call_vars
  <2>5. ASSUME NEW t \in Threads, UnlockNext(t) PROVE TypeOK'
    BY <2>5, NextThreadType DEF UnlockNext, call_vars
  <2>6. ASSUME NEW t \in Threads, TaskLock(t) PROVE TypeOK'
    BY <2>6 DEF TaskLock, call_vars
  <2>7. ASSUME NEW t \in Threads, WriteFdArg(t) PROVE TypeOK'
    BY <2>7 DEF WriteFdArg, call_vars
  <2>8. ASSUME NEW t \in Threads, Signal(t) PROVE TypeOK'
    BY <2>8 DEF Signal, thread_vars, call_vars, WorkerPCs
  <2>9. ASSUME NEW t \in Threads, TaskUnlock(t) PROVE TypeOK'
    BY <2>9, <1>0 DEF TaskUnlock, call_vars
  <2> QED
    BY <2>1, <2>2, <2>3, <2>4, <2>5, <2>6, <2>7, <2>8, <2>9 DEF Acceptor, Assign
<1>b. LockedMutexHasHolder'
  <2> USE DEF LockedMutexHasHolder, WorkerInside, AcceptorInside, TypeOK
  <2>1. ASSUME NEW c \in Connections, NEW d \in Fds, Accept(c, d)
        PROVE  LockedMutexHasHolder'
    BY <2>1 DEF Accept, thread_vars
  <2>2. ASSUME NEW t \in Threads, CreateThread(t) PROVE LockedMutexHasHolder'
    BY <2>2 DEF CreateThread, thread_vars
  <2>3. ASSUME NEW t \in Threads, LookAtThread(t) PROVE LockedMutexHasHolder'
    BY <2>3 DEF LookAtThread
  <2>4. ASSUME NEW t \in Threads, UnlockFound(t) PROVE LockedMutexHasHolder'
    BY <2>4 DEF UnlockFound
  <2>5. ASSUME NEW t \in Threads, UnlockNext(t) PROVE LockedMutexHasHolder'
    BY <2>5 DEF UnlockNext
  <2>6. ASSUME NEW t \in Threads, TaskLock(t) PROVE LockedMutexHasHolder'
    BY <2>6 DEF TaskLock
  <2>7. ASSUME NEW t \in Threads, WriteFdArg(t) PROVE LockedMutexHasHolder'
    BY <2>7 DEF WriteFdArg
  <2>8. ASSUME NEW t \in Threads, Signal(t) PROVE LockedMutexHasHolder'
    BY <2>8 DEF Signal, thread_vars
  <2>9. ASSUME NEW t \in Threads, TaskUnlock(t) PROVE LockedMutexHasHolder'
    BY <2>9 DEF TaskUnlock
  <2> QED
    BY <2>1, <2>2, <2>3, <2>4, <2>5, <2>6, <2>7, <2>8, <2>9 DEF Acceptor, Assign
<1> QED
  BY <1>a, <1>b

(* Waking up without a signal touches no mutex.                            *)
LEMMA OthersTypedPool ==
  /\ TypedPool /\ (\E t \in Threads : SpuriousWakeup(t)) => TypedPool'
  /\ TypedPool /\ UNCHANGED vars => TypedPool'
<1> USE DEF TypedPool, TypeOK, LockedMutexHasHolder, WorkerInside, AcceptorInside,
            thread_vars, acceptor_vars, call_vars
<1>1. ASSUME TypedPool, NEW t \in Threads, SpuriousWakeup(t) PROVE TypedPool'
  BY <1>1, PoolAssumption DEF SpuriousWakeup, WorkerGoes, WorkerPCs
<1>2. ASSUME TypedPool, UNCHANGED vars PROVE TypedPool'
  BY <1>2 DEF vars
<1> QED
  BY <1>1, <1>2

LEMMA StepTypedPool == TypedPool /\ [Next]_vars => TypedPool'
  BY WorkerTypedPool, AcceptorTypedPool, OthersTypedPool DEF Next

(* In every behaviour of the pool, whatever the scheduling, the variables  *)
(* keep their types and no mutex stays locked with nobody left to unlock   *)
(* it.                                                                     *)
THEOREM PoolMutexesHaveHolders == Spec => [](TypeOK /\ LockedMutexHasHolder)
<1>1. Init => TypedPool
  BY InitTypedPool
<1>2. TypedPool /\ [Next]_vars => TypedPool'
  BY StepTypedPool
<1> QED
  BY <1>1, <1>2, PTL DEF Spec, TypedPool

--------------------------------------------------------------------------------
(***************************************************************************)
(* Part 2: what goes wrong in the hand-over goes wrong with a worker that  *)
(* has been disturbed.  The inductive invariant says of the others what    *)
(* their state and argument tell about where they are, that being inside   *)
(* is exclusive, and that a worker the acceptor has found stays in the     *)
(* wait until it is signalled.                                             *)
(***************************************************************************)

\* Being inside means that the mutex is locked, and by nobody else.
InsideIsExclusive ==
  \A t \in Threads \ disturbed :
    /\ WorkerInside(t) \/ AcceptorInside(t) => global_thread_mutexes[t]
    /\ ~(WorkerInside(t) /\ AcceptorInside(t))

AwaitingPCs == {"unlock", "wait", "blocked", "woken", "release", "awake"}

\* Where a worker is AWAITING_TASK, whatever has happened to it.
StateFollowsPC ==
  \A t \in Threads :
    current_thread_states[t] = "AWAITING_TASK" <=> wpc[t] \in AwaitingPCs

\* The argument is -1 from the reset to the hand-over and a descriptor from there
\* to the call of ServeClient.
FdArgFollowsPC ==
  \A t \in Threads \ disturbed :
    /\ wpc[t] \in {"publish", "unlock", "wait"} => created_thread_fd_args[t] = -1
    /\ wpc[t] = "blocked" /\ ~(apc = "signal" /\ thread_index = t) =>
         created_thread_fd_args[t] = -1
    /\ wpc[t] \in {"woken", "release", "awake", "run"} =>
         created_thread_fd_args[t] # -1

\* What the acceptor has found out about the worker it is at stays true.
AcceptorKnowsWorker ==
  thread_index \notin disturbed =>
    /\ apc \in {"unlock_found", "lock_task", "write", "signal"} =>
         wpc[thread_index] = "blocked"
    /\ apc = "unlock_task" => wpc[thread_index] = "woken"
    /\ apc = "unlock_next" => wpc[thread_index] \notin AwaitingPCs
    /\ apc = "signal" => created_thread_fd_args[thread_index] # -1

Handover ==
  /\ TypedPool
  /\ InsideIsExclusive
  /\ StateFollowsPC
  /\ FdArgFollowsPC
  /\ AcceptorKnowsWorker
  /\ apc \notin {"create", "accept"} => newfd # -1
  /\ Restless \subseteq disturbed

(* The initial states are such states.                                     *)
LEMMA InitHandover == Init => Handover
<1> SUFFICES ASSUME Init PROVE Handover
  OBVIOUS
<1>1. TypedPool
  BY InitTypedPool
<1> QED
  BY <1>1 DEF Init, Handover, InsideIsExclusive, WorkerInside, AcceptorInside,
     StateFollowsPC, AwaitingPCs, FdArgFollowsPC, AcceptorKnowsWorker

(* A step of a worker: undisturbed, it enters only through a free mutex,   *)
(* so it does not move while the acceptor is inside, unless it is serving. *)
LEMMA WorkerHandover ==
  ASSUME Handover, NEW t \in Threads, Worker(t) PROVE Handover'
<1> USE DEF Handover, WorkerGoes, SetState, SetFdArg, Lock, Unlock, InsideIsExclusive,
            WorkerInside, AcceptorInside, StateFollowsPC, AwaitingPCs, FdArgFollowsPC,
            AcceptorKnowsWorker
<1>a. TypedPool'
  BY WorkerTypedPool
<1>b. TypeOK /\ -1 \notin Fds
  BY FdAssumption DEF Fds, TypedPool
<1> USE <1>a, <1>b DEF TypeOK
<1>1. CASE LeaveInitial(t)
  BY <1>1 DEF LeaveInitial, acceptor_vars
<1>2. CASE PrepareLock(t)
  BY <1>2 DEF PrepareLock, acceptor_vars
<1>3. CASE ResetFdArg(t)
  BY <1>3 DEF ResetFdArg, acceptor_vars
<1>4. CASE PublishAwaiting(t)
  BY <1>4 DEF PublishAwaiting, acceptor_vars
<1>5. CASE PrepareUnlock(t)
  BY <1>5 DEF PrepareUnlock, acceptor_vars
<1>6. CASE CondWait(t)
  BY <1>6 DEF CondWait, acceptor_vars
<1>7. CASE CondReturn(t)
  BY <1>7 DEF CondReturn, acceptor_vars
<1>8. CASE WakeUnlock(t)
  BY <1>8 DEF WakeUnlock, acceptor_vars
<1>9. CASE BecomeRunning(t)
  BY <1>9 DEF BecomeRunning, acceptor_vars
<1>10. CASE CallServeClient(t)
  BY <1>10 DEF CallServeClient, thread_vars, acceptor_vars
<1>11. CASE ServeClientDisconnected(t)
  BY <1>11 DEF ServeClientDisconnected, thread_vars, acceptor_vars
<1>12. CASE ServeClientDone(t)
  BY <1>12 DEF ServeClientDone, thread_vars, acceptor_vars
<1>13. CASE CloseFdArg(t)
  BY <1>13 DEF CloseFdArg, thread_vars, acceptor_vars
<1>14. CASE FinishTask(t)
  BY <1>14 DEF FinishTask, acceptor_vars
<1> QED
  BY <1>1, <1>2, <1>3, <1>4, <1>5, <1>6, <1>7, <1>8, <1>9, <1>10, <1>11, <1>12,
     <1>13, <1>14 DEF Worker

(* A step of the acceptor: either the look at a worker disturbs it, or     *)
(* what is seen is what is found when the descriptor is handed over.       *)
LEMMA AcceptorHandover ==
  ASSUME Handover, Acceptor PROVE Handover'
<1> USE DEF Handover, AcceptorGoes, WorkerGoes, SetFdArg, Lock, Unlock,
            InsideIsExclusive, WorkerInside, AcceptorInside, StateFollowsPC,
            AwaitingPCs, FdArgFollowsPC, AcceptorKnowsWorker
<1>a. TypedPool'
  BY AcceptorTypedPool
<1>b. TypeOK /\ -1 \notin Fds
  BY FdAssumption DEF Fds, TypedPool
<1> USE <1>a, <1>b DEF TypeOK
<1>1. ASSUME NEW c \in Connections, NEW d \in Fds, Accept(c, d) PROVE Handover'
  BY <1>1 DEF Accept, thread_vars
<1>2. ASSUME NEW t \in Threads, CreateThread(t) PROVE Handover'
  BY <1>2 DEF CreateThread, thread_vars
<1>3. ASSUME NEW t \in Threads, LookAtThread(t) PROVE Handover'
  BY <1>3 DEF LookAtThread, IsIdle
<1>4. ASSUME NEW t \in Threads, UnlockFound(t) PROVE Handover'
  BY <1>4 DEF UnlockFound
<1>5. ASSUME NEW t \in Threads, UnlockNext(t) PROVE Handover'
  BY <1>5 DEF UnlockNext
<1>6. ASSUME NEW t \in Threads, TaskLock(t) PROVE Handover'
  BY <1>6 DEF TaskLock
<1>7. ASSUME NEW t \in Threads, WriteFdArg(t) PROVE Handover'
  BY <1>7 DEF WriteFdArg
<1>8. ASSUME NEW t \in Threads, Signal(t) PROVE Handover'
  BY <1>8 DEF Signal, thread_vars
<1>9. ASSUME NEW t \in Threads, TaskUnlock(t) PROVE Handover'
  BY <1>9 DEF TaskUnlock
<1> QED
  BY <1>1, <1>2, <1>3, <1>4, <1>5, <1>6, <1>7, <1>8, <1>9 DEF Acceptor, Assign

(* Waking up without a signal happens to disturbed workers only.           *)
LEMMA StepHandover == ASSUME Handover, [Next]_vars PROVE Handover'
<1>1. CASE UNCHANGED vars
  BY <1>1, OthersTypedPool
     DEF Handover, vars, thread_vars, acceptor_vars, InsideIsExclusive, WorkerInside,
         AcceptorInside, StateFollowsPC, FdArgFollowsPC, AcceptorKnowsWorker
<1>2. CASE \E t \in Threads : Worker(t)
  BY <1>2, WorkerHandover
<1>3. ASSUME NEW t \in Threads, SpuriousWakeup(t) PROVE Handover'
  BY <1>3, OthersTypedPool
     DEF SpuriousWakeup, WorkerGoes, Handover, TypedPool, TypeOK, thread_vars,
         acceptor_vars, InsideIsExclusive, WorkerInside, AcceptorInside,
         StateFollowsPC, AwaitingPCs, FdArgFollowsPC, AcceptorKnowsWorker
<1>4. CASE Acceptor
  BY <1>4, AcceptorHandover
<1> QED
  BY <1>1, <1>2, <1>3, <1>4 DEF Next

HandoverFailuresAreExplained ==
  /\ ExclusionUnlessDisturbed
  /\ AssignsUnlessDisturbed
  /\ SignalledUnlessDisturbed
  /\ RunsUnlessDisturbed

(* What the runs check follows from it.                                    *)
LEMMA HandoverIsExplained == Handover => HandoverFailuresAreExplained
  BY DEF Handover, TypedPool, TypeOK, InsideIsExclusive, StateFollowsPC, AwaitingPCs,
         FdArgFollowsPC, AcceptorKnowsWorker, HandoverFailuresAreExplained,
         ExclusionUnlessDisturbed, AssignsUnlessDisturbed, SignalledUnlessDisturbed,
         RunsUnlessDisturbed

(* In every behaviour of the pool, a mutex that does not exclude, a        *)
(* descriptor that overwrites another or goes to an active worker, a lost  *)
(* signal and a task without a descriptor all happen to workers that may   *)
(* be woken by nobody, or that the acceptor has found AWAITING_TASK before *)
(* or after their wait.                                                    *)
THEOREM OnlyTheDisturbedGoWrong ==
  Spec => [](/\ ExclusionUnlessDisturbed
             /\ AssignsUnlessDisturbed
             /\ SignalledUnlessDisturbed
             /\ RunsUnlessDisturbed)
<1>1. Init => Handover
  BY InitHandover
<1>2. Handover /\ [Next]_vars => Handover'
  BY StepHandover
<1>3. Handover => HandoverFailuresAreExplained
  BY HandoverIsExplained
<1> QED
  BY <1>1, <1>2, <1>3, PTL DEF Spec, HandoverFailuresAreExplained
================================================================================
