------------------------------ MODULE StateLock ------------------------------
(***************************************************************************)
(* The state-file lock of src/src/libotp/db_file.c.                        *)
(*                                                                         *)
(* db_file_lock opens (creating if needed) the file <db>.lck and tries an  *)
(* fcntl write lock on it up to 20 times; db_file_unlock first unlinks     *)
(* <db>.lck, then releases the fcntl lock and closes the descriptor.       *)
(* fcntl locks belong to a file (an inode), not to its name, so the model  *)
(* keeps which inode the name <db>.lck denotes, which inode each process   *)
(* has open, and which process holds the lock of each inode.               *)
(* The critical section (load/store of the state file) is one step.        *)
(***************************************************************************)
EXTENDS Naturals, FiniteSets

CONSTANTS
    Proc,          \* processes locking the same state file
    None,          \* model value: no inode / no process
    LockAttempts,  \* fcntl(F_SETLK) attempts of db_file_lock (20 in code)
    MaxSessions    \* lock/unlock rounds each process performs

ASSUME LockAttempts \in Nat \ {0}
ASSUME MaxSessions \in Nat \ {0}

(* Every open of a missing <db>.lck creates a new inode; a process opens   *)
(* the lock file once per round, which bounds the inodes ever created.     *)
MaxInodes == Cardinality(Proc) * MaxSessions
Inode == 1..MaxInodes

VARIABLES
    lckPath,   \* inode the name <db>.lck refers to, or None
    created,   \* inodes created so far (inode i is the i-th created)
    fd,        \* inode of the lock descriptor a process has open, or None
    owner,     \* process holding the fcntl write lock of each inode
    pc,        \* where each process is in lock / work / unlock
    attempts,  \* failed fcntl attempts of the current db_file_lock call
    rounds     \* lock rounds each process has started

vars == <<lckPath, created, fd, owner, pc, attempts, rounds>>

Goto(p, to) == pc' = [pc EXCEPT ![p] = to]

-----------------------------------------------------------------------------
Init ==
    /\ lckPath = None
    /\ created = 0
    /\ fd = [p \in Proc |-> None]
    /\ owner = [i \in Inode |-> None]
    /\ pc = [p \in Proc |-> "idle"]
    /\ attempts = [p \in Proc |-> 0]
    /\ rounds = [p \in Proc |-> 0]

(* A caller (ppp_load, db_file_load, db_file_store) calls db_file_lock.    *)
Begin(p) ==
    /\ pc[p] = "idle"
    /\ rounds[p] < MaxSessions
    /\ Goto(p, "open")
    /\ rounds' = [rounds EXCEPT ![p] = @ + 1]
    /\ UNCHANGED <<lckPath, created, fd, owner, attempts>>

(* open(lck, O_WRONLY|O_CREAT): the existing file, or a new one.           *)
OpenLockFile(p) ==
    /\ pc[p] = "open"
    /\ IF lckPath = None
       THEN /\ created' = created + 1
            /\ lckPath' = created + 1
            /\ fd' = [fd EXCEPT ![p] = created + 1]
       ELSE /\ fd' = [fd EXCEPT ![p] = lckPath]
            /\ UNCHANGED <<lckPath, created>>
    /\ Goto(p, "try")
    /\ UNCHANGED <<owner, attempts, rounds>>

(* One fcntl(fd, F_SETLK) of the retry loop; after LockAttempts failures   *)
(* the descriptor is closed and STATE_LOCK_ERROR returned.                 *)
TryLock(p) ==
    /\ pc[p] = "try"
    /\ \/ /\ owner[fd[p]] = None
          /\ owner' = [owner EXCEPT ![fd[p]] = p]
          /\ attempts' = [attempts EXCEPT ![p] = 0]
          /\ Goto(p, "cs")
          /\ UNCHANGED fd
       \/ /\ owner[fd[p]] # None
          /\ attempts[p] + 1 < LockAttempts
          /\ attempts' = [attempts EXCEPT ![p] = @ + 1]
          /\ UNCHANGED <<owner, pc, fd>>
       \/ /\ owner[fd[p]] # None
          /\ attempts[p] + 1 = LockAttempts
          /\ attempts' = [attempts EXCEPT ![p] = 0]
          /\ fd' = [fd EXCEPT ![p] = None]
          /\ Goto(p, "idle")
          /\ UNCHANGED owner
    /\ UNCHANGED <<lckPath, created, rounds>>

(* The caller's load/store of the state file, then db_file_unlock.         *)
Work(p) ==
    /\ pc[p] = "cs"
    /\ Goto(p, "unlink")
    /\ UNCHANGED <<lckPath, created, fd, owner, attempts, rounds>>

(* unlink(lck): removes the name, whichever inode it now denotes.          *)
UnlinkLockFile(p) ==
    /\ pc[p] = "unlink"
    /\ lckPath' = None
    /\ Goto(p, "unlock")
    /\ UNCHANGED <<created, fd, owner, attempts, rounds>>

(* fcntl(F_UNLCK) and close(s->lock).                                      *)
Unlock(p) ==
    /\ pc[p] = "unlock"
    /\ owner' = [owner EXCEPT ![fd[p]] = None]
    /\ fd' = [fd EXCEPT ![p] = None]
    /\ Goto(p, "idle")
    /\ UNCHANGED <<lckPath, created, attempts, rounds>>

(* The process dies: the kernel closes its descriptor and drops its lock;  *)
(* the lock file stays where it is.                                        *)
Crash(p) ==
    /\ pc[p] # "idle"
    /\ owner' = [i \in Inode |-> IF owner[i] = p THEN None ELSE owner[i]]
    /\ fd' = [fd EXCEPT ![p] = None]
    /\ attempts' = [attempts EXCEPT ![p] = 0]
    /\ Goto(p, "idle")
    /\ UNCHANGED <<lckPath, created, rounds>>

(* Every process has finished its rounds: the system stops.                *)
Terminated ==
    /\ \A p \in Proc : pc[p] = "idle" /\ rounds[p] = MaxSessions
    /\ UNCHANGED vars

Next ==
    \/ \E p \in Proc :
         \/ Begin(p) \/ OpenLockFile(p) \/ TryLock(p) \/ Work(p)
         \/ UnlinkLockFile(p) \/ Unlock(p) \/ Crash(p)
    \/ Terminated

Spec == Init /\ [][Next]_vars

=============================================================================
