----------------------------- MODULE PPPSession -----------------------------
(***************************************************************************)
(* Concurrent PAM authentication sessions of one user against the shared   *)
(* state file (src/libotp/ppp.c, src/pam/pam_helpers.c,                    *)
(* src/src/libotp/db_file.c).                                              *)
(*                                                                         *)
(* Every process runs ph_increment (ppp_increment: lock, load, verify the  *)
(* range, store counter+1, unlock, restore the in-memory counter), shows   *)
(* the prompt computed by ppp_calculate during the load, and checks the    *)
(* typed passcode with ppp_authenticate against the in-memory counter.     *)
(* A failed attempt may be retried; in the "same passcode" retry mode the  *)
(* session first rolls the counter back with ppp_decrement.                *)
(*                                                                         *)
(* The state lock is db_file_lock/db_file_unlock: open(<db>.lck, O_CREAT) *)
(* and up to LockAttempts fcntl(F_SETLK) tries; unlink(<db>.lck), then     *)
(* F_UNLCK and close.  An fcntl lock belongs to an inode, not to its name, *)
(* so the model keeps the inode the name denotes, the inode each process  *)
(* has open and the holder of each inode's lock.  UnlinkLock = FALSE      *)
(* leaves the lock file in place: then one inode carries every lock and   *)
(* the lock is the exclusive one spec 4.10 describes (the contract); with *)
(* UnlinkLock = TRUE, as the code does, a waiter on the unlinked inode and *)
(* a newcomer on a new one can hold the lock together.                    *)
(* A passcode is abstracted to the counter it is derived from: the         *)
(* derivation (AES of the counter) is a function of the counter, and       *)
(* PPPPasscode checks the conversion itself.                               *)
(***************************************************************************)
EXTENDS Naturals, Sequences, Functions

CONSTANTS
    Proc,          \* PAM host processes authenticating the same user
    None,          \* model value: no process / no value
    MaxCode,       \* max_code of the key: counters >= MaxCode are NUMSPACE
    LockAttempts,  \* fcntl(F_SETLK) attempts in db_file_lock (20 in code)
    MaxSessions,   \* logins each process attempts (bounds the model)
    PamRetries,    \* cfg->pam_retries: further attempts after a failure
    PamRetry,      \* cfg->pam_retry: 0 none, 1 new passcode, 2 same passcode
    UnlinkLock     \* db_file_unlock unlinks <db>.lck before F_UNLCK

ASSUME MaxCode \in Nat \ {0}
ASSUME LockAttempts \in Nat \ {0}
ASSUME PamRetry \in {0, 1, 2}
ASSUME UnlinkLock \in BOOLEAN

VARIABLES
    disk,      \* counter field of the user's entry in the state file
    lckPath,   \* inode the name <db>.lck denotes, or None
    created,   \* lock-file inodes created so far (inode i is the i-th)
    fd,        \* inode of each process's s->lock descriptor, or None
    owner,     \* process holding the fcntl lock of each inode, or None
    pc,        \* where each process is in its session
    mem,       \* s->counter of the session's state
    fresh,     \* s_tmp->counter of ppp_decrement's second state
    attempts,  \* failed fcntl attempts of the current db_file_lock call
    tries,     \* retries used by the current login
    sessions,  \* logins started by each process
    accepts    \* history: counters of the passcodes accepted, in order

lockVars == <<lckPath, created, fd, owner>>
vars == <<disk, lockVars, pc, mem, fresh, attempts, tries, sessions, accepts>>

Counter == 0..MaxCode
PCs == {"idle", "inc_lock", "inc_load", "inc_store", "auth",
        "dec_lock", "dec_load", "dec_store"}

(* The passcode of a counter: derive(K, C) of ppp_get_passcode, abstracted  *)
(* to an injective function of the counter.                                 *)
Passcode(c) == c

(* Mutant: ppp_verify_range lets the counter equal max_code.              *)
InRangeInclusive(c) == c <= MaxCode

(* ppp_verify_range: the unsalted counter must lie below max_code.          *)
InRange(c) == c < MaxCode

Goto(p, to) == pc' = [pc EXCEPT ![p] = to]

(* Where a session goes after a failure: retry or end the login.           *)
AfterFailure(p) ==
    IF PamRetry # 0 /\ tries[p] < PamRetries
    THEN /\ tries' = [tries EXCEPT ![p] = @ + 1]
         /\ Goto(p, IF PamRetry = 2 THEN "dec_lock" ELSE "inc_lock")
    ELSE /\ Goto(p, "idle")
         /\ UNCHANGED tries

(* p holds the fcntl lock of the inode its descriptor refers to.          *)
Holds(p) == fd[p] # None /\ owner[fd[p]] = p

(* The inode p's descriptor refers to once db_file_lock has opened         *)
(* <db>.lck: the one it has open, the one the name denotes, or a new one.  *)
Opened(p) ==
    IF fd[p] # None THEN fd[p] ELSE IF lckPath # None THEN lckPath ELSE created + 1

(* db_file_unlock (or ppp_fini's state_fini): unlink(<db>.lck), whichever *)
(* inode the name denotes now, then F_UNLCK and close(s->lock).            *)
Release(p) ==
    /\ lckPath' = IF UnlinkLock THEN None ELSE lckPath
    /\ owner' = [owner EXCEPT ![fd[p]] = None]
    /\ fd' = [fd EXCEPT ![p] = None]
    /\ UNCHANGED created

-----------------------------------------------------------------------------
Init ==
    /\ disk = 0
    /\ lckPath = None
    /\ created = 0
    /\ fd = [p \in Proc |-> None]
    /\ owner = <<>>
    /\ pc = [p \in Proc |-> "idle"]
    /\ mem = [p \in Proc |-> 0]
    /\ fresh = [p \in Proc |-> 0]
    /\ attempts = [p \in Proc |-> 0]
    /\ tries = [p \in Proc |-> 0]
    /\ sessions = [p \in Proc |-> 0]
    /\ accepts = <<>>

(* pam_sm_authenticate enters: ph_init creates the state, ph_increment     *)
(* starts with ppp_load's state_lock.                                      *)
StartSession(p) ==
    /\ pc[p] = "idle"
    /\ sessions[p] < MaxSessions
    /\ Goto(p, "inc_lock")
    /\ sessions' = [sessions EXCEPT ![p] = @ + 1]
    /\ tries' = [tries EXCEPT ![p] = 0]
    /\ UNCHANGED <<disk, lockVars, mem, fresh, attempts, accepts>>

(* One fcntl(F_SETLK) of db_file_lock's loop, the first one preceded by   *)
(* open(<db>.lck, O_WRONLY|O_CREAT).  After LockAttempts failures the      *)
(* descriptor is closed and STATE_LOCK_ERROR returned: ph_increment fails  *)
(* the login, and ppp_decrement gives up the rollback.                     *)
LockStep(p) ==
    /\ pc[p] \in {"inc_lock", "dec_lock"}
    /\ LET i    == Opened(p)
           free == IF i > created THEN TRUE ELSE owner[i] = None
       IN  /\ lckPath' = IF fd[p] = None THEN i ELSE lckPath
           /\ created' = IF i > created THEN i ELSE created
           /\ \/ /\ free
                 /\ owner' = [j \in 1..created' |-> IF j = i THEN p ELSE owner[j]]
                 /\ fd' = [fd EXCEPT ![p] = i]
                 /\ attempts' = [attempts EXCEPT ![p] = 0]
                 /\ Goto(p, IF pc[p] = "inc_lock" THEN "inc_load" ELSE "dec_load")
              \/ /\ ~free
                 /\ attempts[p] + 1 < LockAttempts
                 /\ fd' = [fd EXCEPT ![p] = i]
                 /\ attempts' = [attempts EXCEPT ![p] = @ + 1]
                 /\ UNCHANGED <<owner, pc>>
              \/ /\ ~free
                 /\ attempts[p] + 1 = LockAttempts
                 /\ fd' = [fd EXCEPT ![p] = None]
                 /\ attempts' = [attempts EXCEPT ![p] = 0]
                 /\ Goto(p, IF pc[p] = "inc_lock" THEN "idle" ELSE "inc_lock")
                 /\ UNCHANGED owner
    /\ UNCHANGED <<disk, mem, fresh, tries, sessions, accepts>>

(* Mutant: the NUMSPACE path of ppp_load returns without state_unlock.    *)
IncLoadKeepsLock(p) ==
    /\ pc[p] = "inc_load"
    /\ mem' = [mem EXCEPT ![p] = disk]
    /\ Goto(p, IF InRange(disk) THEN "inc_store" ELSE "idle")
    /\ UNCHANGED <<lockVars, disk, fresh, attempts, tries, sessions, accepts>>

(* ppp_load inside ppp_increment: state_load reads the counter (from      *)
(* which ppp_calculate computes the prompt), and ppp_verify_range fails    *)
(* with STATE_NUMSPACE, unlocking in cleanup1.                             *)
IncLoad(p) ==
    /\ pc[p] = "inc_load"
    /\ mem' = [mem EXCEPT ![p] = disk]
    /\ IF InRange(disk)
       THEN Goto(p, "inc_store") /\ UNCHANGED lockVars
       ELSE Goto(p, "idle") /\ Release(p)
    /\ UNCHANGED <<disk, fresh, attempts, tries, sessions, accepts>>

(* The rest of ppp_increment: counter+1, ppp_release(s, 1, 1) stores and   *)
(* unlocks, then s->counter is restored from tmp, so mem keeps the value  *)
(* loaded.  A failed store (db_file_store returns an error before the      *)
(* rename) leaves the file unchanged and makes ph_increment fail the login.*)
IncRelease(p) ==
    /\ pc[p] = "inc_store"
    /\ Release(p)
    /\ \/ disk' = mem[p] + 1 /\ Goto(p, "auth")
       \/ UNCHANGED disk /\ Goto(p, "idle")
    /\ UNCHANGED <<mem, fresh, attempts, tries, sessions, accepts>>

(* ph_query_user reads a passcode; ppp_authenticate compares it with the   *)
(* passcode of s->counter.  The input is any counter's passcode: the one   *)
(* on the prompt, an old one, or a future one.                             *)
Authenticate(p) ==
    /\ pc[p] = "auth"
    /\ \E input \in Counter :
         IF Passcode(input) = Passcode(mem[p])
         THEN /\ accepts' = Append(accepts, mem[p])
              /\ Goto(p, "idle")
              /\ UNCHANGED tries
         ELSE /\ AfterFailure(p)
              /\ UNCHANGED accepts
    /\ UNCHANGED <<disk, lockVars, mem, fresh, attempts, sessions>>

(* Mutant: ppp_decrement without the CONCURRENT_MODIFICATION comparison.  *)
DecLoadUnchecked(p) ==
    /\ pc[p] = "dec_load"
    /\ fresh' = [fresh EXCEPT ![p] = disk - 1]
    /\ IF InRange(disk)
       THEN Goto(p, "dec_store") /\ UNCHANGED lockVars
       ELSE Goto(p, "inc_lock") /\ Release(p)
    /\ UNCHANGED <<disk, mem, attempts, tries, sessions, accepts>>

(* ppp_decrement: ppp_load into a second state, then require that the      *)
(* fresh counter minus one equals s->counter.  A mismatch (another login   *)
(* moved the counter) and a load error end in ppp_fini(s_tmp), which       *)
(* releases the lock; the retry continues with a new ph_increment.         *)
DecLoad(p) ==
    /\ pc[p] = "dec_load"
    /\ fresh' = [fresh EXCEPT ![p] = disk - 1]
    /\ IF InRange(disk) /\ disk - 1 = mem[p]
       THEN Goto(p, "dec_store") /\ UNCHANGED lockVars
       ELSE Goto(p, "inc_lock") /\ Release(p)
    /\ UNCHANGED <<disk, mem, attempts, tries, sessions, accepts>>

(* ppp_release(s_tmp, 1, 1): store the decremented counter and unlock.     *)
DecStore(p) ==
    /\ pc[p] = "dec_store"
    /\ disk' \in {fresh[p], disk}
    /\ Release(p)
    /\ Goto(p, "inc_lock")
    /\ UNCHANGED <<mem, fresh, attempts, tries, sessions, accepts>>

(* The host process dies: the kernel closes its descriptor and drops its   *)
(* fcntl lock, and the lock file stays; the rename of db_file_store is     *)
(* atomic, so the file holds the old or the new entry.                     *)
Crash(p) ==
    /\ pc[p] # "idle"
    /\ Goto(p, "idle")
    /\ owner' = [i \in DOMAIN owner |-> IF owner[i] = p THEN None ELSE owner[i]]
    /\ fd' = [fd EXCEPT ![p] = None]
    /\ attempts' = [attempts EXCEPT ![p] = 0]
    /\ UNCHANGED <<disk, lckPath, created, mem, fresh, tries, sessions, accepts>>

(* Every process has used its logins: the system stops.                    *)
Terminated ==
    /\ \A p \in Proc : pc[p] = "idle" /\ sessions[p] = MaxSessions
    /\ UNCHANGED vars

Next ==
    \/ \E p \in Proc :
         \/ StartSession(p) \/ LockStep(p) \/ IncLoad(p) \/ IncRelease(p)
         \/ Authenticate(p) \/ DecLoad(p) \/ DecStore(p) \/ Crash(p)
    \/ Terminated

Spec == Init /\ [][Next]_vars

-----------------------------------------------------------------------------
TypeOK ==
    /\ disk \in Counter
    /\ lckPath \in (1..created) \cup {None}
    /\ fd \in [Proc -> (1..created) \cup {None}]
    /\ owner \in [1..created -> Proc \cup {None}]
    /\ pc \in [Proc -> PCs]
    /\ mem \in [Proc -> Counter]
    /\ fresh \in [Proc -> -1..MaxCode]
    /\ attempts \in [Proc -> 0..LockAttempts]
    /\ tries \in [Proc -> 0..PamRetries]
    /\ sessions \in [Proc -> 0..MaxSessions]
    /\ accepts \in Seq(Counter)

(* No replay (the reason ppp_increment stores counter+1 before the prompt):*)
(* across all interleavings of logins, retries, decrement rollbacks, lock  *)
(* timeouts, failed stores and crashes, no counter's passcode is accepted  *)
(* by two logins.  It rests on the lock: it holds when the lock is         *)
(* exclusive (UnlinkLock = FALSE) and fails with db_file_unlock's unlink.  *)
NoReplay == IsInjective(accepts)

(* Every path that takes the state lock gives it back: the lock is held    *)
(* only between db_file_lock and the unlock of ppp_release, ppp_load's     *)
(* cleanup1 or ppp_fini, never by a process that left that window.         *)
LockHeldOnlyInWindow ==
    \A p \in Proc : Holds(p) => pc[p] \in {"inc_load", "inc_store", "dec_load", "dec_store"}
=============================================================================
