------------------------------- MODULE RingProofs -------------------------------
(***************************************************************************)
(* What the ring of slots gives without a join that waits, for every       *)
(* length of the ring and every number of threads and descriptors.         *)
(***************************************************************************)
EXTENDS ThreadPerConnection, TLAPS

\* The main thread has a descriptor in hand while it looks for a slot.
NewfdFollowsPC == newfd = -1 <=> main_pc = "accept"

\* A thread that has not read its descriptor yet was created for one.
StartedForDescriptor == \A t \in ThreadIds : tpc[t] = "start" => given[t] \in Fds

\* The slot n places after slot s.
SlotAfter(s, n) == IF s + n < NUM_THREADS THEN s + n ELSE s + n - NUM_THREADS

\* Until the ring has come around, the index is as far ahead of the slot of a
\* thread as the thread is old.
IndexIsAhead ==
  \A t \in ThreadIds :
    tpc[t] = "start" /\ age[t] < NUM_THREADS - 1 =>
      thread_array_index = SlotAfter(slot[t], age[t] + 1)

\* An open descriptor is in hand, or has cost its owner, or has a thread that is
\* going to read it or has read it.
OwnedOrLost ==
  \A d \in Fds :
    fd_table[d] # NoConnection =>
      \/ d = newfd
      \/ d \in abandoned
      \/ \E t \in ThreadIds :
           tpc[t] # "none" /\ given[t] = d /\ (tpc[t] = "start" \/ serve_fd[t] = d)

Typed == TypeOK /\ NewfdFollowsPC /\ StartedForDescriptor

Prompt == IndexIsAhead /\ PromptThreadReadsOwnDescriptor

--------------------------------------------------------------------------------
(* The index stays in the ring.                                            *)
LEMMA NextSlotIsAfter ==
  ASSUME NEW s \in Slots PROVE NextSlot(s) \in Slots /\ NextSlot(s) = SlotAfter(s, 1)
<1>1. CASE s + 1 < NUM_THREADS
  BY <1>1, RingAssumption DEF Slots, NextSlot, SlotAfter
<1>2. CASE s + 1 = NUM_THREADS
  BY <1>2, RingAssumption DEF Slots, NextSlot, SlotAfter
<1> QED
  BY <1>1, <1>2, RingAssumption DEF Slots

(* One place further, and never back before the ring has come around.      *)
LEMMA AfterAfter ==
  ASSUME NEW s \in Slots, NEW n \in 1 .. NUM_THREADS - 1
  PROVE  /\ SlotAfter(s, n) \in Slots /\ SlotAfter(s, n) # s
         /\ SlotAfter(SlotAfter(s, n), 1) = SlotAfter(s, n + 1)
  BY RingAssumption DEF Slots, SlotAfter

(* Everything is empty at the start.                                       *)
LEMMA InitRing == Init => Typed /\ Prompt /\ OwnedOrLost
<1> SUFFICES ASSUME Init PROVE Typed /\ Prompt /\ OwnedOrLost
  OBVIOUS
<1>1. 0 \in Slots /\ 0 \in 0 .. NUM_THREADS
  BY RingAssumption DEF Slots
<1>2. TypeOK
  BY <1>1 DEF EmptyTable, Tables, Init, TypeOK
<1>3. NewfdFollowsPC /\ StartedForDescriptor /\ Prompt
  BY DEF Init, NewfdFollowsPC, StartedForDescriptor, Prompt, IndexIsAhead,
         PromptThreadReadsOwnDescriptor
<1>4. OwnedOrLost
  BY DEF Init, OwnedOrLost, EmptyTable
<1> QED
  BY <1>2, <1>3, <1>4 DEF Typed

--------------------------------------------------------------------------------
(* A live thread is one slot older, NUM_THREADS at most.                   *)
LEMMA OlderType == TypeOK => Older \in [ThreadIds -> 0 .. NUM_THREADS]
  BY RingAssumption DEF TypeOK, Older

(* The main thread keeps the types: it has a descriptor when it needs one. *)
LEMMA MainTyped == Typed /\ Main => Typed'
<1> SUFFICES ASSUME Typed, Main PROVE Typed'
  OBVIOUS
<1> USE DEF Typed, TypeOK, NewfdFollowsPC, StartedForDescriptor, SetFdArg, SetCreated
<1>1. ASSUME NEW c \in Connections, NEW d \in Fds, Accept(c, d) PROVE Typed'
  BY <1>1, FdAssumption DEF Install, Tables, Fds, Accept, ring_vars, history_vars
<1>2. ASSUME NEW s \in Slots, NEW t \in ThreadIds, CreateThread(s, t) PROVE Typed'
  <2> USE <1>2 DEF CreateThread, SlotIsFree, socket_vars
  <2>1. NextSlot(s) \in Slots
    BY NextSlotIsAfter
  <2>2. newfd \in Fds
    OBVIOUS
  <2>3. age' \in [ThreadIds -> 0 .. NUM_THREADS]
    BY OlderType, RingAssumption
  <2> QED
    BY <2>1, <2>2, <2>3
<1>3. ASSUME NEW s \in Slots, CreateThreadFails(s) PROVE Typed'
  <2> USE <1>3 DEF CreateThreadFails, SlotIsFree, socket_vars
  <2>1. NextSlot(s) \in Slots
    BY NextSlotIsAfter
  <2>2. newfd \in Fds
    OBVIOUS
  <2> QED
    BY <2>1, <2>2, OlderType
<1>4. ASSUME NEW s \in Slots, Join(s) PROVE Typed'
  BY <1>4 DEF Join, main_vars, socket_vars, history_vars
<1> QED
  BY <1>1, <1>2, <1>3, <1>4 DEF Main

(* So do the threads and the clients.                                      *)
LEMMA ThreadTyped ==
  ASSUME Typed, NEW t \in ThreadIds, Thread(t) PROVE Typed'
<1> USE DEF Typed, TypeOK, NewfdFollowsPC, StartedForDescriptor, ring_vars, main_vars
<1>1. CASE ReadFdArg(t)
  BY <1>1 DEF ReadFdArg, socket_vars
<1>2. CASE ServeClientDisconnected(t)
  BY <1>2 DEF Close, Tables, ServeClientDisconnected
<1>3. CASE ServeClientDone(t)
  BY <1>3 DEF ServeClientDone, socket_vars, history_vars
<1>4. CASE CloseAndEnd(t)
  <2>1. 0 \in Slots /\ 0 \in 0 .. NUM_THREADS
    BY RingAssumption DEF Slots
  <2> QED
    BY <1>4, <2>1 DEF Close, Tables, CloseAndEnd, Ends
<1> QED
  BY <1>1, <1>2, <1>3, <1>4 DEF Thread

LEMMA NextTyped == Typed /\ [Next]_vars => Typed'
<1> SUFFICES ASSUME Typed, [Next]_vars PROVE Typed'
  OBVIOUS
<1>1. ASSUME NEW c \in Connections, Connect(c) PROVE Typed'
  BY <1>1 DEF Connect, Typed, TypeOK, NewfdFollowsPC, StartedForDescriptor, ring_vars,
              main_vars, history_vars
<1>2. CASE UNCHANGED vars
  BY <1>2 DEF vars, Typed, TypeOK, NewfdFollowsPC, StartedForDescriptor, ring_vars,
              main_vars, socket_vars, history_vars
<1> QED
  BY <1>1, <1>2, MainTyped, ThreadTyped DEF Next

--------------------------------------------------------------------------------
(* A step that writes no slot, moves no index and creates no thread.       *)
LEMMA PromptUntouched ==
  ASSUME Prompt, UNCHANGED <<created_thread_fd_args, thread_array_index, slot, given, age>>,
         \A t \in ThreadIds : tpc'[t] = "start" => tpc[t] = "start"
  PROVE  Prompt'
  BY DEF Prompt, IndexIsAhead, PromptThreadReadsOwnDescriptor

(* Using the next slot writes the slot of no young thread: the index is    *)
(* ahead of it.                                                            *)
LEMMA SlotUsed ==
  ASSUME Typed, Prompt, NEW s \in Slots, s = thread_array_index, NEW d,
         SetFdArg(s, d), thread_array_index' = NextSlot(s),
         NEW t \in ThreadIds, tpc[t] = "start", Older[t] < NUM_THREADS - 1
  PROVE  /\ thread_array_index' = SlotAfter(slot[t], Older[t] + 1)
         /\ created_thread_fd_args'[slot[t]] = given[t]
<1> USE DEF Typed, TypeOK, Prompt
<1>1. age[t] \in 0 .. NUM_THREADS /\ slot[t] \in Slots /\ NUM_THREADS \in Nat \ {0}
  BY RingAssumption
<1>2. Older[t] = age[t] + 1 /\ age[t] < NUM_THREADS - 1
  BY <1>1 DEF Older
<1>3. thread_array_index = SlotAfter(slot[t], age[t] + 1)
  BY <1>2 DEF IndexIsAhead
<1>4. age[t] + 1 \in 1 .. NUM_THREADS - 1
  BY <1>1, <1>2
<1>5. s # slot[t] /\ SlotAfter(s, 1) = SlotAfter(slot[t], age[t] + 2)
  BY <1>1, <1>3, <1>4, AfterAfter
<1>6. created_thread_fd_args[slot[t]] = given[t]
  BY <1>2 DEF PromptThreadReadsOwnDescriptor
<1> QED
  BY <1>1, <1>2, <1>5, <1>6, NextSlotIsAfter DEF SetFdArg

(* The main thread: a new thread is followed by the index, the others stay *)
(* behind it.                                                              *)
LEMMA MainPrompt == Typed /\ Prompt /\ Main => Prompt'
<1> SUFFICES ASSUME Typed, Prompt, Main PROVE Prompt'
  OBVIOUS
<1>1. ASSUME NEW c \in Connections, NEW d \in Fds, Accept(c, d) PROVE Prompt'
  BY <1>1, PromptUntouched DEF Accept, ring_vars, history_vars
<1>2. ASSUME NEW s \in Slots, NEW t \in ThreadIds, CreateThread(s, t) PROVE Prompt'
  <2> USE <1>2 DEF CreateThread, SlotIsFree
  <2>1. ASSUME NEW u \in ThreadIds, tpc'[u] = "start", age'[u] < NUM_THREADS - 1
        PROVE  /\ thread_array_index' = SlotAfter(slot'[u], age'[u] + 1)
               /\ created_thread_fd_args'[slot'[u]] = given'[u]
    <3>1. CASE u = t
      <4>1. slot'[u] = s /\ age'[u] = 0 /\ given'[u] = newfd
        BY <3>1, OlderType DEF Typed, TypeOK
      <4>2. created_thread_fd_args'[s] = newfd
        BY DEF Typed, TypeOK, SetFdArg
      <4> QED
        BY <4>1, <4>2, NextSlotIsAfter
    <3>2. CASE u # t
      <4>1. tpc[u] = "start" /\ slot'[u] = slot[u] /\ given'[u] = given[u]
        BY <2>1, <3>2 DEF Typed, TypeOK
      <4>2. age'[u] = Older[u]
        BY <3>2, OlderType DEF Typed
      <4> QED
        BY <2>1, <4>1, <4>2, SlotUsed
    <3> QED
      BY <3>1, <3>2
  <2> QED
    BY <2>1 DEF Prompt, IndexIsAhead, PromptThreadReadsOwnDescriptor
<1>3. ASSUME NEW s \in Slots, CreateThreadFails(s) PROVE Prompt'
  <2> USE <1>3 DEF CreateThreadFails, SlotIsFree
  <2>1. ASSUME NEW u \in ThreadIds, tpc'[u] = "start", age'[u] < NUM_THREADS - 1
        PROVE  /\ thread_array_index' = SlotAfter(slot'[u], age'[u] + 1)
               /\ created_thread_fd_args'[slot'[u]] = given'[u]
    BY <2>1, SlotUsed
  <2> QED
    BY <2>1 DEF Prompt, IndexIsAhead, PromptThreadReadsOwnDescriptor
<1>4. ASSUME NEW s \in Slots, Join(s) PROVE Prompt'
  <2> USE <1>4 DEF Join, main_vars, history_vars
  <2>1. IndexIsAhead'
    BY DEF Prompt, IndexIsAhead
  <2>2. ASSUME NEW u \in ThreadIds, tpc[u] = "start", age[u] < NUM_THREADS - 1
        PROVE  created_thread_fd_args'[slot[u]] = given[u]
    <3>1. age[u] + 1 \in 1 .. NUM_THREADS - 1 /\ slot[u] \in Slots
      BY <2>2, RingAssumption DEF Typed, TypeOK
    <3>2. s # slot[u]
      BY <2>2, <3>1, AfterAfter DEF Prompt, IndexIsAhead
    <3> QED
      BY <2>2, <3>1, <3>2 DEF Prompt, PromptThreadReadsOwnDescriptor, SetFdArg, Typed, TypeOK
  <2> QED
    BY <2>1, <2>2 DEF Prompt, PromptThreadReadsOwnDescriptor
<1> QED
  BY <1>1, <1>2, <1>3, <1>4 DEF Main

(* A thread that ends has read its slot.                                   *)
LEMMA NextPrompt == Typed /\ Prompt /\ [Next]_vars => Prompt'
<1> SUFFICES ASSUME Typed, Prompt, [Next]_vars PROVE Prompt'
  OBVIOUS
<1>1. ASSUME NEW t \in ThreadIds, Thread(t) PROVE Prompt'
  <2> USE DEF Typed, TypeOK, ring_vars
  <2>1. CASE ReadFdArg(t)
    BY <2>1, PromptUntouched DEF ReadFdArg
  <2>2. CASE ServeClientDisconnected(t)
    BY <2>2, PromptUntouched DEF ServeClientDisconnected
  <2>3. CASE ServeClientDone(t)
    BY <2>3, PromptUntouched DEF ServeClientDone, history_vars
  <2>4. CASE CloseAndEnd(t)
    BY <2>4 DEF CloseAndEnd, Ends, Prompt, IndexIsAhead, PromptThreadReadsOwnDescriptor
  <2> QED
    BY <1>1, <2>1, <2>2, <2>3, <2>4 DEF Thread
<1>2. ASSUME NEW c \in Connections, Connect(c) PROVE Prompt'
  BY <1>2, PromptUntouched DEF Connect, ring_vars, history_vars
<1>3. CASE UNCHANGED vars
  BY <1>3, PromptUntouched DEF vars, ring_vars, history_vars
<1> QED
  BY <1>1, <1>2, <1>3, MainPrompt DEF Next

(* A thread that starts before the other slots have all been used reads    *)
(* the descriptor it was created for (server.c:105), in every behaviour:   *)
(* failing pthread_creates and joins that wait for nobody included.        *)
THEOREM PromptThreadsAreSafe == Spec => [](TypeOK /\ PromptThreadReadsOwnDescriptor)
<1>1. Init => Typed /\ Prompt
  BY InitRing
<1>2. Typed /\ Prompt /\ [Next]_vars => (Typed /\ Prompt)'
  BY NextTyped, NextPrompt
<1>3. Typed /\ Prompt => TypeOK /\ PromptThreadReadsOwnDescriptor
  BY DEF Typed, Prompt
<1> QED
  BY <1>1, <1>2, <1>3, PTL DEF Spec

--------------------------------------------------------------------------------
(* The main thread passes what it has in hand to a thread, or loses it.    *)
LEMMA MainOwned == Typed /\ OwnedOrLost /\ Main => OwnedOrLost'
<1> SUFFICES ASSUME Typed, OwnedOrLost, Main PROVE OwnedOrLost'
  OBVIOUS
<1> USE DEF OwnedOrLost
<1>1. ASSUME NEW c \in Connections, NEW d \in Fds, Accept(c, d) PROVE OwnedOrLost'
  <2> USE <1>1 DEF Accept, history_vars
  <2>1. newfd \notin Fds
    BY FdAssumption DEF Fds, Typed, NewfdFollowsPC
  <2>2. ASSUME NEW e \in Fds, e # d PROVE fd_table'[e] = fd_table[e]
    BY <2>2 DEF Install, Typed, TypeOK, Tables
  <2> QED
    BY <2>1, <2>2
<1>2. ASSUME NEW s \in Slots, NEW t \in ThreadIds, CreateThread(s, t) PROVE OwnedOrLost'
  BY <1>2 DEF CreateThread, SlotIsFree, socket_vars, Typed, TypeOK
<1>3. ASSUME NEW s \in Slots, CreateThreadFails(s) PROVE OwnedOrLost'
  BY <1>3 DEF CreateThreadFails, SlotIsFree, socket_vars
<1>4. ASSUME NEW s \in Slots, Join(s) PROVE OwnedOrLost'
  BY <1>4 DEF Join, main_vars, socket_vars, history_vars
<1> QED
  BY <1>1, <1>2, <1>3, <1>4 DEF Main

(* What a thread closes is not open, and all it has is what it has read.   *)
LEMMA ThreadOwned ==
  ASSUME Typed, OwnedOrLost, NEW t \in ThreadIds, Thread(t) PROVE OwnedOrLost'
<1> USE DEF OwnedOrLost, main_vars
<1>0. ASSUME NEW d \in Fds, fd_table' = Close(fd_table, serve_fd[t]),
             fd_table'[d] # NoConnection
      PROVE  d # serve_fd[t] /\ fd_table[d] # NoConnection
  BY <1>0 DEF Close, Typed, TypeOK, Tables
<1>1. CASE ReadFdArg(t)
  BY <1>1 DEF ReadFdArg, socket_vars, Typed, TypeOK
<1>2. CASE ServeClientDisconnected(t)
  BY <1>0, <1>2 DEF ServeClientDisconnected, Typed, TypeOK
<1>3. CASE ServeClientDone(t)
  BY <1>3 DEF ServeClientDone, socket_vars, history_vars, Typed, TypeOK
<1>4. CASE CloseAndEnd(t)
  BY <1>0, <1>4 DEF CloseAndEnd, Ends, Typed, TypeOK
<1> QED
  BY <1>1, <1>2, <1>3, <1>4 DEF Thread

LEMMA NextOwned == Typed /\ OwnedOrLost /\ [Next]_vars => OwnedOrLost'
<1> SUFFICES ASSUME Typed, OwnedOrLost, [Next]_vars PROVE OwnedOrLost'
  OBVIOUS
<1>1. ASSUME NEW c \in Connections, Connect(c) PROVE OwnedOrLost'
  BY <1>1 DEF Connect, OwnedOrLost, main_vars, history_vars
<1>2. CASE UNCHANGED vars
  BY <1>2 DEF vars, OwnedOrLost, main_vars, socket_vars, history_vars
<1> QED
  BY <1>1, <1>2, MainOwned, ThreadOwned DEF Next

(* No descriptor is lost but those pthread_create failed for and those     *)
(* whose slot was overwritten (server.c:157 and 166): whatever is closed   *)
(* twice, an open descriptor has somebody who is still to close it.        *)
THEOREM DescriptorsHaveOwners == Spec => []OpenDescriptorHasOwner
<1>1. Init => Typed /\ OwnedOrLost
  BY InitRing
<1>2. Typed /\ OwnedOrLost /\ [Next]_vars => (Typed /\ OwnedOrLost)'
  BY NextTyped, NextOwned
<1>3. Typed /\ OwnedOrLost => OpenDescriptorHasOwner
  BY DEF OwnedOrLost, OpenDescriptorHasOwner
<1> QED
  BY <1>1, <1>2, <1>3, PTL DEF Spec
================================================================================
