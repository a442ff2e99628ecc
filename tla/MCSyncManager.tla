---------------------------- MODULE MCSyncManager ----------------------------
(* SyncManager for TLC: three processes, a mutex taken before a semaphore. *)
EXTENDS SyncManager

CONSTANTS p1, p2, p3, mutex, semaphore

MCProcesses == {p1, p2, p3}
MCSemaphores == {semaphore}
MCMutexes == {mutex}
MCRank == [r \in {mutex, semaphore} |-> IF r = mutex THEN 1 ELSE 2]
=============================================================================
