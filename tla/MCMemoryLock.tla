---------------------------- MODULE MCMemoryLock ----------------------------
(* The memory lock with the four connections of MCMemoryLock.cfg: two      *)
(* readers and two writers are the least with which a reader follows a     *)
(* reader while a writer waits behind a writer.                            *)
EXTENDS MemoryLock
=============================================================================
