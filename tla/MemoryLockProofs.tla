-------------------------- MODULE MemoryLockProofs --------------------------
(***************************************************************************)
(* The memory lock excludes, for any finite number of threads.             *)
(*                                                                         *)
(* WriterIsAlone is not inductive: that the last reader may post the       *)
(* semaphore rests on READERS counting exactly the readers that are in,    *)
(* and that a later reader may enter without the semaphore rests on the    *)
(* first one having taken it. LockInv adds both facts.                     *)
(***************************************************************************)
EXTENDS MemoryLock, FiniteSetTheorems, TLAPS

\* The locations where a thread holds MEMORY_READERS_MUTEX.
HoldsMutex == {"first_reader", "enter_read", "exit_read"}

\* The threads READERS counts.
Counted == {t \in Threads : pc[t] \in {"first_reader", "enter_read", "reading"}}

LockInv ==
    /\ TypeOK
    /\ \A t \in Threads : pc[t] \in HoldsMutex <=> readersMutex = t
    /\ READERS = Cardinality(Counted)
    /\ \A t \in Threads : pc[t] = "first_reader" => Counted = {t}
    /\ (Writing # {} \/ Reading # {}) => writeSemaphore = 0
    /\ WriterIsAlone

-----------------------------------------------------------------------------

\* The readers are finitely many, so READERS is a number and counts them.
LEMMA CountedIsFinite == IsFiniteSet(Counted)
<1>1. Counted \subseteq Threads
  BY DEF Counted
<1>2. QED
  BY <1>1, ThreadsAssumption, FS_Subset

LEMMA InitLockInv == Init => LockInv
<1> SUFFICES ASSUME Init PROVE LockInv
  OBVIOUS
<1>1. Counted = {} /\ Writing = {} /\ Reading = {}
  BY DEF Init, Counted, Writing, Reading
<1>2. READERS = Cardinality(Counted)
  BY <1>1, FS_EmptySet DEF Init
<1>3. TypeOK
  BY DEF Init, TypeOK, Locations
<1>4. QED
  BY <1>1, <1>2, <1>3, ThreadsAssumption
     DEF Init, LockInv, WriterIsAlone, HoldsMutex

\* One step per action of the code.
LEMMA StepLockInv == LockInv /\ [Next]_vars => LockInv'
<1> SUFFICES ASSUME LockInv, [Next]_vars PROVE LockInv'
  OBVIOUS
<1> USE ThreadsAssumption
<1>0. IsFiniteSet(Counted)
  BY CountedIsFinite
<1>1. ASSUME NEW t \in Threads, Request(t) PROVE LockInv'
  <2>1. TypeOK'
    BY <1>1 DEF LockInv, TypeOK, Request, Goto, Locations
  <2>2. Counted' = Counted /\ Writing' = Writing /\ Reading' = Reading
    BY <1>1 DEF LockInv, TypeOK, Request, Goto, Counted, Writing, Reading
  <2>3. QED
    BY <1>1, <2>1, <2>2
       DEF LockInv, TypeOK, Request, Goto, WriterIsAlone, HoldsMutex
<1>2. ASSUME NEW t \in Threads, LockMemoryForRead(t) PROVE LockInv'
  <2>1. TypeOK'
    BY <1>2 DEF LockInv, TypeOK, LockMemoryForRead, Goto, Locations
  <2>2. t \notin Counted /\ Counted' = Counted \cup {t}
    BY <1>2 DEF LockInv, TypeOK, LockMemoryForRead, Goto, Counted
  <2>3. READERS' = Cardinality(Counted')
    BY <1>0, <1>2, <2>2, FS_AddElement DEF LockInv, LockMemoryForRead
  <2>4. CASE READERS = 0
    <3>1. Counted = {}
      BY <1>0, <2>4, FS_EmptySet DEF LockInv
    <3>2. pc' = [pc EXCEPT ![t] = "first_reader"]
      BY <1>2, <2>4 DEF LockMemoryForRead, Goto
    <3>3. Writing' = Writing /\ Reading' = Reading
      BY <1>2, <3>2 DEF LockInv, TypeOK, LockMemoryForRead, Writing, Reading
    <3>4. Counted' = {t}
      BY <2>2, <3>1
    <3>5. \A u \in Threads : pc'[u] \in HoldsMutex <=> readersMutex' = u
      BY <1>2, <3>2 DEF LockInv, TypeOK, LockMemoryForRead, HoldsMutex
    <3>6. \A u \in Threads : pc'[u] = "first_reader" => Counted' = {u}
      BY <1>2, <3>2, <3>4 DEF LockInv, TypeOK, LockMemoryForRead, HoldsMutex
    <3>7. QED
      BY <1>2, <2>1, <2>3, <3>3, <3>5, <3>6
         DEF LockInv, WriterIsAlone, LockMemoryForRead
  <2>5. CASE READERS # 0
    <3>1. pc' = [pc EXCEPT ![t] = "enter_read"]
      <4>1. READERS' # 1
        BY <1>2, <2>5 DEF LockInv, TypeOK, LockMemoryForRead
      <4>2. QED
        BY <1>2, <4>1 DEF LockMemoryForRead, Goto
    <3>2. PICK u \in Threads : pc[u] = "reading"
      <4>1. Counted # {}
        BY <2>5, FS_EmptySet DEF LockInv
      <4>2. QED
        BY <1>2, <4>1 DEF LockInv, LockMemoryForRead, Counted, HoldsMutex
    <3>3. u \in Reading /\ writeSemaphore = 0 /\ Writing = {}
      BY <3>2 DEF LockInv, Reading, WriterIsAlone
    <3>4. Writing' = {} /\ writeSemaphore' = 0
      BY <1>2, <3>1, <3>3 DEF LockInv, TypeOK, LockMemoryForRead, Writing
    <3>5. \A v \in Threads : pc'[v] \in HoldsMutex <=> readersMutex' = v
      BY <1>2, <3>1 DEF LockInv, TypeOK, LockMemoryForRead, HoldsMutex
    <3>6. \A v \in Threads : pc'[v] # "first_reader"
      BY <1>2, <3>1 DEF LockInv, TypeOK, LockMemoryForRead, HoldsMutex
    <3>7. QED
      BY <2>1, <2>3, <3>4, <3>5, <3>6 DEF LockInv, WriterIsAlone
  <2>6. QED
    BY <2>4, <2>5
<1>3. ASSUME NEW t \in Threads, WaitWriteMutex(t) PROVE LockInv'
  <2>1. TypeOK'
    BY <1>3 DEF LockInv, TypeOK, WaitWriteMutex, Goto, Locations
  <2>2. Counted' = Counted /\ Counted = {t} /\ Writing' = Writing
    BY <1>3 DEF LockInv, TypeOK, WaitWriteMutex, Goto, Counted, Writing
  <2>3. Writing = {} /\ writeSemaphore' = 0
    BY <1>3 DEF LockInv, TypeOK, WaitWriteMutex
  <2>4. \A u \in Threads : pc'[u] \in HoldsMutex <=> readersMutex' = u
    BY <1>3 DEF LockInv, TypeOK, WaitWriteMutex, Goto, HoldsMutex
  <2>5. \A u \in Threads : pc'[u] # "first_reader"
    BY <1>3, <2>4 DEF LockInv, TypeOK, WaitWriteMutex, Goto, HoldsMutex
  <2>6. QED
    BY <1>3, <2>1, <2>2, <2>3, <2>4, <2>5
       DEF LockInv, WriterIsAlone, WaitWriteMutex
<1>4. ASSUME NEW t \in Threads, EnterRead(t) PROVE LockInv'
  <2>1. TypeOK'
    BY <1>4 DEF LockInv, TypeOK, EnterRead, Goto, Locations
  <2>2. Counted' = Counted /\ Writing' = Writing /\ Reading' = Reading
    BY <1>4 DEF LockInv, TypeOK, EnterRead, Goto, Counted, Writing, Reading
  <2>3. \A u \in Threads : pc'[u] \in HoldsMutex <=> readersMutex' = u
    BY <1>4 DEF LockInv, TypeOK, EnterRead, Goto, HoldsMutex
  <2>4. \A u \in Threads : pc'[u] = "first_reader" => pc[u] = "first_reader"
    BY <1>4 DEF LockInv, TypeOK, EnterRead, Goto
  <2>5. QED
    BY <1>4, <2>1, <2>2, <2>3, <2>4 DEF LockInv, WriterIsAlone, EnterRead
<1>5. ASSUME NEW t \in Threads, UnlockMemoryForRead(t) PROVE LockInv'
  <2>1. t \in Counted /\ t \in Reading /\ Counted' = Counted \ {t}
    BY <1>5 DEF LockInv, TypeOK, UnlockMemoryForRead, Goto, Counted, Reading
  <2>2. READERS' = Cardinality(Counted')
    BY <1>0, <1>5, <2>1, FS_RemoveElement DEF LockInv, UnlockMemoryForRead
  <2>3. READERS' \in Nat
    BY <1>0, <2>1, <2>2, FS_RemoveElement, FS_CardinalityType
  <2>4. writeSemaphore = 0 /\ Writing = {}
    BY <2>1 DEF LockInv, WriterIsAlone
  <2>5. TypeOK'
    BY <1>5, <2>3, <2>4 DEF LockInv, TypeOK, UnlockMemoryForRead, Goto, Locations
  <2>6. Writing' = {} /\ Reading' \subseteq Counted'
    BY <1>5, <2>4
       DEF LockInv, TypeOK, UnlockMemoryForRead, Goto, Counted, Writing, Reading
  <2>7. Reading' # {} => writeSemaphore' = 0
    <3>1. SUFFICES ASSUME Reading' # {} PROVE writeSemaphore' = 0
      OBVIOUS
    <3>2. IsFiniteSet(Counted')
      BY <1>0, <2>1, FS_RemoveElement
    <3>3. READERS' # 0
      BY <2>2, <2>6, <3>1, <3>2, FS_EmptySet
    <3>4. QED
      BY <1>5, <2>4, <3>3 DEF UnlockMemoryForRead
  <2>8. \A u \in Threads : pc'[u] \in HoldsMutex <=> readersMutex' = u
    BY <1>5 DEF LockInv, TypeOK, UnlockMemoryForRead, Goto, HoldsMutex
  <2>9. \A u \in Threads : pc'[u] # "first_reader"
    BY <1>5 DEF LockInv, TypeOK, UnlockMemoryForRead, Goto, HoldsMutex
  <2>10. QED
    BY <2>2, <2>5, <2>6, <2>7, <2>8, <2>9 DEF LockInv, WriterIsAlone
<1>6. ASSUME NEW t \in Threads, ExitRead(t) PROVE LockInv'
  <2>1. TypeOK'
    BY <1>6 DEF LockInv, TypeOK, ExitRead, Goto, Locations
  <2>2. Counted' = Counted /\ Writing' = Writing /\ Reading' = Reading
    BY <1>6 DEF LockInv, TypeOK, ExitRead, Goto, Counted, Writing, Reading
  <2>3. \A u \in Threads : pc'[u] \in HoldsMutex <=> readersMutex' = u
    BY <1>6 DEF LockInv, TypeOK, ExitRead, Goto, HoldsMutex
  <2>4. \A u \in Threads : pc'[u] = "first_reader" => pc[u] = "first_reader"
    BY <1>6 DEF LockInv, TypeOK, ExitRead, Goto
  <2>5. QED
    BY <1>6, <2>1, <2>2, <2>3, <2>4 DEF LockInv, WriterIsAlone, ExitRead
<1>7. ASSUME NEW t \in Threads, LockMemoryForWrite(t) PROVE LockInv'
  <2>1. TypeOK'
    BY <1>7 DEF LockInv, TypeOK, LockMemoryForWrite, Goto, Locations
  <2>2. Writing = {} /\ Reading = {} /\ writeSemaphore' = 0
    BY <1>7 DEF LockInv, TypeOK, LockMemoryForWrite
  <2>3. Counted' = Counted /\ Writing' = {t} /\ Reading' = {}
    BY <1>7, <2>2
       DEF LockInv, TypeOK, LockMemoryForWrite, Goto, Counted, Writing, Reading
  <2>4. \A u \in Threads : pc'[u] \in HoldsMutex <=> readersMutex' = u
    BY <1>7 DEF LockInv, TypeOK, LockMemoryForWrite, Goto, HoldsMutex
  <2>5. \A u \in Threads : pc'[u] = "first_reader" => pc[u] = "first_reader"
    BY <1>7 DEF LockInv, TypeOK, LockMemoryForWrite, Goto
  <2>6. QED
    BY <1>7, <2>1, <2>2, <2>3, <2>4, <2>5
       DEF LockInv, WriterIsAlone, LockMemoryForWrite
<1>8. ASSUME NEW t \in Threads, UnlockMemoryForWrite(t) PROVE LockInv'
  <2>1. Writing = {t} /\ Reading = {} /\ writeSemaphore = 0
    BY <1>8 DEF LockInv, WriterIsAlone, UnlockMemoryForWrite, Writing
  <2>2. TypeOK'
    BY <1>8, <2>1 DEF LockInv, TypeOK, UnlockMemoryForWrite, Goto, Locations
  <2>3. Counted' = Counted /\ Writing' = {} /\ Reading' = {}
    BY <1>8, <2>1
       DEF LockInv, TypeOK, UnlockMemoryForWrite, Goto, Counted, Writing, Reading
  <2>4. \A u \in Threads : pc'[u] \in HoldsMutex <=> readersMutex' = u
    BY <1>8 DEF LockInv, TypeOK, UnlockMemoryForWrite, Goto, HoldsMutex
  <2>5. \A u \in Threads : pc'[u] = "first_reader" => pc[u] = "first_reader"
    BY <1>8 DEF LockInv, TypeOK, UnlockMemoryForWrite, Goto
  <2>6. QED
    BY <1>8, <2>2, <2>3, <2>4, <2>5
       DEF LockInv, WriterIsAlone, UnlockMemoryForWrite
<1>9. CASE UNCHANGED vars
  BY <1>9 DEF vars, LockInv, TypeOK, Counted, Writing, Reading, WriterIsAlone
<1>10. CASE Terminating
  BY <1>9, <1>10 DEF Terminating
<1>11. QED
  BY <1>1, <1>2, <1>3, <1>4, <1>5, <1>6, <1>7, <1>8, <1>9, <1>10 DEF Next, Step

LEMMA LockInvHolds == Spec => []LockInv
  BY InitLockInv, StepLockInv, PTL DEF Spec

(***************************************************************************)
(* The variables keep their types: READERS never goes below zero and the   *)
(* semaphore never above one (mem.c:48-84).                                *)
(***************************************************************************)
THEOREM TypeCorrect == Spec => []TypeOK
<1>1. LockInv => TypeOK
  BY DEF LockInv
<1>2. QED
  BY <1>1, LockInvHolds, PTL

(***************************************************************************)
(* A thread inside new_request is alone with the memory, whatever the      *)
(* number of connections (mem.c:46-85).                                    *)
(***************************************************************************)
THEOREM Exclusion == Spec => []WriterIsAlone
<1>1. LockInv => WriterIsAlone
  BY DEF LockInv
<1>2. QED
  BY <1>1, LockInvHolds, PTL

-----------------------------------------------------------------------------

\* Under the refinement mapping each step reads or writes as the lock promises.
LEMMA StepRefines == LockInv /\ LockInv' /\ [Next]_vars
                         => [Abstract!RWNext]_<<Reading, Writing>>
<1> SUFFICES ASSUME LockInv, LockInv', [Next]_vars
             PROVE Abstract!RWNext \/ (Reading' = Reading /\ Writing' = Writing)
  BY DEF Abstract!RWNext
<1> USE ThreadsAssumption
<1>1. ASSUME NEW t \in Threads,
             \/ Request(t) \/ EnterRead(t) \/ ExitRead(t)
      PROVE Reading' = Reading /\ Writing' = Writing
  BY <1>1 DEF LockInv, TypeOK, Request, EnterRead, ExitRead, Goto, Reading, Writing
<1>2. ASSUME NEW t \in Threads, LockMemoryForRead(t)
      PROVE Abstract!StartRead(t) \/ (Reading' = Reading /\ Writing' = Writing)
  <2>1. CASE pc' = [pc EXCEPT ![t] = "first_reader"]
    BY <1>2, <2>1 DEF LockInv, TypeOK, LockMemoryForRead, Reading, Writing
  <2>2. CASE pc' = [pc EXCEPT ![t] = "enter_read"]
    <3>1. t \notin Reading /\ Reading' = Reading \cup {t} /\ Writing' = Writing
      BY <1>2, <2>2 DEF LockInv, TypeOK, LockMemoryForRead, Reading, Writing
    <3>2. Writing' = {}
      BY <3>1 DEF LockInv, WriterIsAlone
    <3>3. QED
      BY <3>1, <3>2 DEF Abstract!StartRead
  <2>3. QED
    BY <1>2, <2>1, <2>2 DEF LockMemoryForRead, Goto
<1>3. ASSUME NEW t \in Threads, WaitWriteMutex(t) PROVE Abstract!StartRead(t)
  <2>1. t \notin Reading /\ Reading' = Reading \cup {t} /\ Writing' = Writing
    BY <1>3 DEF LockInv, TypeOK, WaitWriteMutex, Goto, Reading, Writing
  <2>2. Writing = {}
    BY <1>3 DEF LockInv, WaitWriteMutex
  <2>3. QED
    BY <2>1, <2>2 DEF Abstract!StartRead
<1>4. ASSUME NEW t \in Threads, UnlockMemoryForRead(t) PROVE Abstract!EndRead(t)
  BY <1>4 DEF LockInv, TypeOK, UnlockMemoryForRead, Goto, Reading, Writing,
              Abstract!EndRead
<1>5. ASSUME NEW t \in Threads, LockMemoryForWrite(t) PROVE Abstract!StartWrite(t)
  <2>1. Reading = {} /\ Writing = {}
    BY <1>5 DEF LockInv, LockMemoryForWrite
  <2>2. Writing' = {t} /\ Reading' = Reading
    BY <1>5, <2>1 DEF LockInv, TypeOK, LockMemoryForWrite, Goto, Reading, Writing
  <2>3. QED
    BY <2>1, <2>2 DEF Abstract!StartWrite
<1>6. ASSUME NEW t \in Threads, UnlockMemoryForWrite(t) PROVE Abstract!EndWrite(t)
  BY <1>6 DEF LockInv, TypeOK, UnlockMemoryForWrite, Goto, Reading, Writing,
              Abstract!EndWrite
<1>7. CASE UNCHANGED vars
  BY <1>7 DEF vars, Reading, Writing
<1>8. CASE Terminating
  BY <1>7, <1>8 DEF Terminating
<1>9. QED
  BY <1>1, <1>2, <1>3, <1>4, <1>5, <1>6, <1>7, <1>8
     DEF Next, Step, Abstract!RWNext

(***************************************************************************)
(* mem.c implements the abstract readers-writer lock.                      *)
(***************************************************************************)
THEOREM Refinement == Spec => IsReadersWriters
<1>1. Init => Abstract!RWInit
  BY DEF Init, Abstract!RWInit, Reading, Writing
<1>2. QED
  BY <1>1, LockInvHolds, StepRefines, PTL
     DEF Spec, IsReadersWriters, Abstract!RWSpec, Abstract!rwVars

=============================================================================
