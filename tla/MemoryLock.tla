----------------------------- MODULE MemoryLock -----------------------------
(***************************************************************************)
(* The readers-writer lock of the broker's memory (broker/src/mem.c).      *)
(*                                                                         *)
(* It is built from a mutex, a counter and a binary semaphore:             *)
(*   - MEMORY_READERS_MUTEX protects READERS, and the first reader keeps   *)
(*     it while it waits for the semaphore;                                *)
(*   - MEMORY_WRITE_MUTEX is taken by a writer, or by the first reader on  *)
(*     behalf of all of them, and posted by the writer or by the last      *)
(*     reader, which need not be the reader that took it.                  *)
(*                                                                         *)
(* A thread serves one connection and ends (server.c:45-69), so it locks   *)
(* the memory once: as a writer in new_request, as a reader in             *)
(* new_suscription.                                                        *)
(***************************************************************************)
EXTENDS Naturals, FiniteSets

CONSTANTS Threads,      \* the threads that serve connections
          NoThread      \* the owner of a mutex nobody holds

ASSUME ThreadsAssumption ==
    /\ IsFiniteSet(Threads)
    /\ NoThread \notin Threads

VARIABLES pc,                 \* where each thread is in lock_/unlock_memory_*
          readersMutex,       \* MEMORY_READERS_MUTEX: its holder
          READERS,            \* readers that are in, or on their way in
          writeSemaphore      \* MEMORY_WRITE_MUTEX: the semaphore's value

vars == <<pc, readersMutex, READERS, writeSemaphore>>

Locations ==
    { "start",          \* the connection was accepted, no lock asked for yet
      "lock_read",      \* mem.c:48, waits for the readers' mutex
      "first_reader",   \* mem.c:51, holds that mutex, waits for the semaphore
      "enter_read",     \* mem.c:56, holds that mutex, about to release it
      "reading",        \* inside new_suscription
      "exit_read",      \* mem.c:70, holds the mutex, about to release it
      "lock_write",     \* mem.c:76, waits for the semaphore
      "writing",        \* inside new_request
      "done" }

Init ==
    /\ pc = [t \in Threads |-> "start"]
    /\ readersMutex = NoThread
    /\ READERS = 0
    /\ writeSemaphore = 1

Goto(t, location) == pc' = [pc EXCEPT ![t] = location]

(***************************************************************************)
(* A SUBSCRIBE ends up in new_suscription, any other request in            *)
(* new_request.                                                            *)
(***************************************************************************)
Request(t) ==
    /\ pc[t] = "start"
    /\ \E lock \in {"lock_read", "lock_write"} : Goto(t, lock)
    /\ UNCHANGED <<readersMutex, READERS, writeSemaphore>>

\* Fault: the readers after the first, and the first too, skip the semaphore.
LockMemoryForReadNoWait(t) ==
    /\ pc[t] = "lock_read"
    /\ readersMutex = NoThread
    /\ readersMutex' = t
    /\ READERS' = READERS + 1
    /\ Goto(t, "enter_read")
    /\ UNCHANGED writeSemaphore

LockMemoryForRead(t) ==
    /\ pc[t] = "lock_read"
    /\ readersMutex = NoThread
    /\ readersMutex' = t
    /\ READERS' = READERS + 1
    /\ Goto(t, IF READERS' = 1 THEN "first_reader" ELSE "enter_read")
    /\ UNCHANGED writeSemaphore

WaitWriteMutex(t) ==
    /\ pc[t] = "first_reader"
    /\ writeSemaphore > 0
    /\ writeSemaphore' = writeSemaphore - 1
    /\ Goto(t, "enter_read")
    /\ UNCHANGED <<readersMutex, READERS>>

EnterRead(t) ==
    /\ pc[t] = "enter_read"
    /\ readersMutex' = NoThread
    /\ Goto(t, "reading")
    /\ UNCHANGED <<READERS, writeSemaphore>>

\* Fault: the last reader is recognised before the counter goes down.
UnlockMemoryForReadStaleCount(t) ==
    /\ pc[t] = "reading"
    /\ readersMutex = NoThread
    /\ readersMutex' = t
    /\ READERS' = READERS - 1
    /\ writeSemaphore' = IF READERS = 0 THEN writeSemaphore + 1
                                        ELSE writeSemaphore
    /\ Goto(t, "exit_read")

UnlockMemoryForRead(t) ==
    /\ pc[t] = "reading"
    /\ readersMutex = NoThread
    /\ readersMutex' = t
    /\ READERS' = READERS - 1
    /\ writeSemaphore' = IF READERS' = 0 THEN writeSemaphore + 1
                                         ELSE writeSemaphore
    /\ Goto(t, "exit_read")

ExitRead(t) ==
    /\ pc[t] = "exit_read"
    /\ readersMutex' = NoThread
    /\ Goto(t, "done")
    /\ UNCHANGED <<READERS, writeSemaphore>>

LockMemoryForWrite(t) ==
    /\ pc[t] = "lock_write"
    /\ writeSemaphore > 0
    /\ writeSemaphore' = writeSemaphore - 1
    /\ Goto(t, "writing")
    /\ UNCHANGED <<readersMutex, READERS>>

UnlockMemoryForWrite(t) ==
    /\ pc[t] = "writing"
    /\ writeSemaphore' = writeSemaphore + 1
    /\ Goto(t, "done")
    /\ UNCHANGED <<readersMutex, READERS>>

Step(t) ==
    \/ LockMemoryForRead(t)
    \/ WaitWriteMutex(t)
    \/ EnterRead(t)
    \/ UnlockMemoryForRead(t)
    \/ ExitRead(t)
    \/ LockMemoryForWrite(t)
    \/ UnlockMemoryForWrite(t)

\* Every connection has been served.
Terminating ==
    /\ \A t \in Threads : pc[t] = "done"
    /\ UNCHANGED vars

Next ==
    \/ \E t \in Threads : Request(t) \/ Step(t)
    \/ Terminating

Spec == Init /\ [][Next]_vars

(***************************************************************************)
(* The scheduler runs every thread that can run, and a critical section    *)
(* ends. A thread asks at most once, so nobody can be overtaken for ever   *)
(* and weak fairness is enough. Nothing makes a client connect.            *)
(***************************************************************************)
FairSpec == Spec /\ \A t \in Threads : WF_vars(Step(t))

-----------------------------------------------------------------------------

\* The variables range over the values their C types and uses allow.
TypeOK ==
    /\ pc \in [Threads -> Locations]
    /\ readersMutex \in Threads \cup {NoThread}
    /\ READERS \in Nat
    /\ writeSemaphore \in {0, 1}

Reading == {t \in Threads : pc[t] \in {"enter_read", "reading"}}
Writing == {t \in Threads : pc[t] = "writing"}

(***************************************************************************)
(* A writer is alone: while new_request changes the partition list no      *)
(* other thread is inside new_request or new_suscription (mem.c:46-85).    *)
(***************************************************************************)
WriterIsAlone ==
    \A t \in Writing : Writing = {t} /\ Reading = {}

(***************************************************************************)
(* The lock implements its promise: each step of the code is a step of     *)
(* the abstract readers-writer lock or leaves it unchanged.                *)
(***************************************************************************)
Abstract == INSTANCE ReadersWriters WITH reading <- Reading, writing <- Writing
IsReadersWriters == Abstract!RWSpec

(***************************************************************************)
(* A thread that asked for the memory gets it and leaves: the first reader *)
(* that sleeps with the readers' mutex held stops nobody for ever.         *)
(***************************************************************************)
EveryRequestEnds ==
    \A t \in Threads : pc[t] \in {"lock_read", "lock_write"} ~> pc[t] = "done"

=============================================================================
