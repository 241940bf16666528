------------------------------ MODULE StateStore ------------------------------
(***************************************************************************)
(* db_file_store of src/src/libotp/db_file.c, step by step, inside the    *)
(* locked window of the lock-file protocol (StateLock), for the global     *)
(* database that every user's PAM session writes.                          *)
(*                                                                         *)
(* A store, with the lock held: fopen(db, "r") (ENOENT is an empty file);  *)
(* fopen(tmp, "w"), which truncates <db>.tmp if it exists and creates it   *)
(* otherwise; as root, stat(db) and chown(tmp); the lines before the       *)
(* user's, the new entry and the rest are written through stdio and        *)
(* reach the file at fflush, from offset 0; rename(tmp, db) on success,    *)
(* unlink(tmp) on any error; then db_file_unlock.  The tmp file has one    *)
(* fixed name, so its inode is shared by every process that opens it.     *)
(* A file opened for reading keeps the inode it opened: rename only        *)
(* replaces the name, so the lines read are those of the db at fopen.      *)
(***************************************************************************)
EXTENDS Naturals, Sequences, FiniteSets

CONSTANTS
    Proc, None, LockAttempts, MaxSessions,  \* as in StateLock
    Users,       \* user names
    UserOf,      \* the user whose PAM session each process runs
    NoEntry,     \* what a load returns for a user without an entry
    InitVals     \* entry contents the database may start with

VARIABLES
    lckPath, created, fd, owner, pc, attempts, rounds,   \* StateLock's
    db,          \* lines of the file named <db>, <<>> when it does not exist
    dbExists,    \* the file <db> exists
    tmpName,     \* the inode named <db>.tmp, or None
    tmpData,     \* the lines of each tmp inode
    tmpCreated,  \* tmp inodes created so far
    spc,         \* where each process is inside db_file_store
    snap,        \* the lines each process read from <db>
    out,         \* the tmp inode each process has open for writing
    acked        \* history: <<process, value>> of every store that returned 0

lockVars == <<lckPath, created, fd, owner, pc, attempts, rounds>>
storeVars == <<db, dbExists, tmpName, tmpData, tmpCreated, spc, snap, out, acked>>
vars == <<lockVars, storeVars>>

L == INSTANCE StateLock

(* The value process p stores in its current session: unique per session. *)
Val(p) == <<p, rounds[p]>>
Vals == InitVals \cup (Proc \X (1..MaxSessions))

DB == INSTANCE StateDB WITH
        Vals <- Vals, DbModes <- {"global"}, InitFiles <- {},
        dbMode <- "global", exists <- [u \in Users |-> dbExists],
        file <- [u \in Users |-> db], last <- "none"

MaxTmp == Cardinality(Proc) * MaxSessions
TmpInode == 1..MaxTmp

(* A write of lines at offset 0 of a file that holds old: the old lines    *)
(* past the end of the new ones stay.                                      *)
Overwrite(old, new) == new \o SubSeq(old, Len(new) + 1, Len(old))

(* The final step of db_file_store: return to the caller, which unlocks.   *)
Leave(p) == L!Work(p) /\ spc' = [spc EXCEPT ![p] = "done"]

SetSpc(p, s) == spc' = [spc EXCEPT ![p] = s]

(* Databases as db_file_store leaves them: at most one line per user.      *)
WellFormedDbs ==
    UNION {{[i \in 1..n |-> [user |-> us[i], val |-> vs[i]]] :
              us \in {s \in [1..n -> Users] : \A i, j \in 1..n : i # j => s[i] # s[j]},
              vs \in [1..n -> InitVals]} : n \in 0..Cardinality(Users)}

-----------------------------------------------------------------------------
Init ==
    /\ L!Init
    /\ dbExists \in BOOLEAN
    /\ db \in IF dbExists THEN WellFormedDbs ELSE {<<>>}
    /\ tmpName = None
    /\ tmpData = [i \in TmpInode |-> <<>>]
    /\ tmpCreated = 0
    /\ spc = [p \in Proc |-> "done"]
    /\ snap = [p \in Proc |-> <<>>]
    /\ out = [p \in Proc |-> None]
    /\ acked = {}

(* A session starts db_file_lock; the store runs once the lock is held.    *)
Begin(p) ==
    /\ L!Begin(p)
    /\ SetSpc(p, "read")
    /\ UNCHANGED <<db, dbExists, tmpName, tmpData, tmpCreated, snap, out, acked>>

(* The other steps of db_file_lock and db_file_unlock.                     *)
LockStep(p) ==
    /\ \/ L!OpenLockFile(p) \/ L!TryLock(p) \/ L!UnlinkLockFile(p) \/ L!Unlock(p)
    /\ UNCHANGED storeVars

(* fopen(db, "r"): the lines of <db> now, none if it does not exist; an    *)
(* error other than ENOENT goes to cleanup.                                *)
ReadDb(p) ==
    /\ pc[p] = "cs" /\ spc[p] = "read"
    /\ \/ snap' = [snap EXCEPT ![p] = db] /\ SetSpc(p, "open_tmp")
       \/ SetSpc(p, "unlink_tmp") /\ UNCHANGED snap
    /\ UNCHANGED <<lockVars, db, dbExists, tmpName, tmpData, tmpCreated, out, acked>>

(* fopen(tmp, "w"): truncate the inode named <db>.tmp, or create one; an   *)
(* error goes to cleanup.                                                  *)
OpenTmp(p) ==
    /\ pc[p] = "cs" /\ spc[p] = "open_tmp"
    /\ \/ /\ tmpName = None
          /\ tmpCreated' = tmpCreated + 1
          /\ tmpName' = tmpCreated + 1
          /\ out' = [out EXCEPT ![p] = tmpCreated + 1]
          /\ SetSpc(p, "chown")
          /\ UNCHANGED tmpData
       \/ /\ tmpName # None
          /\ tmpData' = [tmpData EXCEPT ![tmpName] = <<>>]
          /\ out' = [out EXCEPT ![p] = tmpName]
          /\ SetSpc(p, "chown")
          /\ UNCHANGED <<tmpName, tmpCreated>>
       \/ SetSpc(p, "unlink_tmp") /\ UNCHANGED <<tmpName, tmpData, tmpCreated, out>>
    /\ UNCHANGED <<lockVars, db, dbExists, snap, acked>>

(* As root: stat(db) fails when the global database does not exist, which *)
(* is an error unless cfg->db is user; chown(tmp) may fail.                *)
Chown(p) ==
    /\ pc[p] = "cs" /\ spc[p] = "chown"
    /\ \/ dbExists /\ SetSpc(p, "flush")
       \/ SetSpc(p, "unlink_tmp")
    /\ UNCHANGED <<lockVars, db, dbExists, tmpName, tmpData, tmpCreated, snap, out, acked>>

(* Mutant: a failed write is not checked and the store goes on to rename. *)
FlushUnchecked(p) ==
    /\ pc[p] = "cs" /\ spc[p] = "flush"
    /\ \/ /\ tmpData' = [tmpData EXCEPT ![out[p]] =
                           Overwrite(@, DB!StoreFile(snap[p], UserOf[p], Val(p), FALSE))]
          /\ SetSpc(p, "rename")
       \/ SetSpc(p, "rename") /\ UNCHANGED tmpData
    /\ out' = [out EXCEPT ![p] = None]
    /\ UNCHANGED <<lockVars, db, dbExists, tmpName, tmpCreated, snap, acked>>

(* Steps 1-3 and fflush/fclose: the lines before the user's entry, the new *)
(* entry and the rest are written at offset 0 of the inode opened; a      *)
(* failed write or flush goes to cleanup.                                  *)
Flush(p) ==
    /\ pc[p] = "cs" /\ spc[p] = "flush"
    /\ \/ /\ tmpData' = [tmpData EXCEPT ![out[p]] =
                           Overwrite(@, DB!StoreFile(snap[p], UserOf[p], Val(p), FALSE))]
          /\ SetSpc(p, "rename")
       \/ SetSpc(p, "unlink_tmp") /\ UNCHANGED tmpData
    /\ out' = [out EXCEPT ![p] = None]
    /\ UNCHANGED <<lockVars, db, dbExists, tmpName, tmpCreated, snap, acked>>

(* rename(tmp, db): <db> becomes whatever inode <db>.tmp names now, and    *)
(* the store returns 0; with no <db>.tmp it fails (STATE_IO_ERROR).        *)
Rename(p) ==
    /\ pc[p] = "cs" /\ spc[p] = "rename"
    /\ \/ /\ tmpName # None
          /\ db' = tmpData[tmpName] /\ dbExists' = TRUE
          /\ tmpName' = None
          /\ acked' = acked \cup {<<p, Val(p)>>}
       \/ tmpName = None /\ UNCHANGED <<db, dbExists, tmpName, acked>>
    /\ Leave(p)
    /\ UNCHANGED <<tmpData, tmpCreated, snap, out>>

(* Mutant: the error path returns through cleanup_free, skipping          *)
(* db_file_unlock: the lock stays taken by a process that has left.        *)
UnlinkTmpNoUnlock(p) ==
    /\ pc[p] = "cs" /\ spc[p] = "unlink_tmp"
    /\ tmpName' = None
    /\ pc' = [pc EXCEPT ![p] = "idle"]
    /\ SetSpc(p, "done")
    /\ UNCHANGED <<lckPath, created, fd, owner, attempts, rounds>>
    /\ UNCHANGED <<db, dbExists, tmpData, tmpCreated, snap, out, acked>>

(* cleanup with an error: unlink(tmp) removes the name <db>.tmp.           *)
UnlinkTmp(p) ==
    /\ pc[p] = "cs" /\ spc[p] = "unlink_tmp"
    /\ tmpName' = None
    /\ Leave(p)
    /\ UNCHANGED <<db, dbExists, tmpData, tmpCreated, snap, out, acked>>

(* The process dies anywhere: the kernel drops its lock and closes its     *)
(* files; what stdio had not flushed is lost.                              *)
Crash(p) ==
    /\ L!Crash(p)
    /\ out' = [out EXCEPT ![p] = None]
    /\ SetSpc(p, "done")
    /\ UNCHANGED <<db, dbExists, tmpName, tmpData, tmpCreated, snap, acked>>

Terminated == L!Terminated /\ UNCHANGED storeVars

Next ==
    \/ \E p \in Proc :
         \/ Begin(p) \/ LockStep(p) \/ ReadDb(p) \/ OpenTmp(p) \/ Chown(p)
         \/ Flush(p) \/ Rename(p) \/ UnlinkTmp(p) \/ Crash(p)
    \/ Terminated

(* The steps a process takes once db_file_lock is called: system calls    *)
(* that return and a bounded retry loop.  Starting a session and dying are *)
(* up to the process and get no fairness.                                  *)
StoreSteps(p) ==
    LockStep(p) \/ ReadDb(p) \/ OpenTmp(p) \/ Chown(p)
    \/ Flush(p) \/ Rename(p) \/ UnlinkTmp(p)

Spec == Init /\ [][Next]_vars /\ \A p \in Proc : WF_vars(StoreSteps(p))

-----------------------------------------------------------------------------
(* The entry db_file_load returns for user u from the lines of <db>.       *)
Entry(u) ==
    LET i == DB!FindUserEntry(db, u, 1) IN IF i = 0 THEN NoEntry ELSE db[i].val

(* Refinement mapping: the abstract map is what a load of each user reads *)
(* from <db>, and the acknowledged stores are those that returned 0.       *)
Atomic == INSTANCE AtomicStore WITH
            kv <- [u \in Users |-> Entry(u)], acked <- acked, Vals <- Vals

(* db_file_store implements an atomic store (spec 4.10: write to tmp,     *)
(* then rename; spec 5: every load->store window is ordered): a store that *)
(* returns 0 makes exactly its user's entry the value it wrote, and        *)
(* nothing else ever changes what a load returns.                          *)
StoreIsAtomic == Atomic!Spec

(* Every lock taken is given back: every path out of db_file_store, the    *)
(* error paths included, goes through cleanup_lock, and the kernel drops   *)
(* the lock of a process that dies.                                        *)
LockReleased == \A i \in L!Inode : owner[i] # None ~> owner[i] = None
=============================================================================
