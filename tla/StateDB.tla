------------------------------- MODULE StateDB -------------------------------
(***************************************************************************)
(* The state files of src/src/libotp/db_file.c, each a sequence of         *)
(* entries, one line per user: with cfg->db = global one file holds every  *)
(* user, with cfg->db = user each user has ~/.otpasswd (_db_path).  The    *)
(* two operations on a user's file: db_file_load reads                     *)
(* the first entry of a user; db_file_store copies the lines before the    *)
(* user's entry to <db>.tmp, writes the new entry (unless removing),       *)
(* copies the rest, and renames <db>.tmp over <db>.                        *)
(*                                                                         *)
(* Each call runs under the state lock (db_file_lock, taken by the call    *)
(* itself when the caller holds none), so it is one step here; whether the *)
(* lock excludes other processes is StateLock's question.  Crashing inside *)
(* a store leaves the file as it was, since only the rename changes it.    *)
(* Lines are well formed: the parse errors of malformed lines are not      *)
(* modelled.  An entry is a user and the rest of its fields as one value.  *)
(***************************************************************************)
EXTENDS Naturals, Sequences, SequencesExt

CONSTANTS
    Users,       \* user names
    Vals,        \* contents of an entry besides the user name
    DbModes,     \* cfg->db values: "user" (~/.otpasswd), "global" (one file)
    InitFiles    \* entry sequences the file may hold initially

ASSUME DbModes \subseteq {"user", "global"}

Entry == [user : Users, val : Vals]

VARIABLES
    dbMode,      \* cfg->db, read from the configuration at start
    exists,      \* for each path: the file exists
    file,        \* for each path: its lines, in order
    last         \* the last call: operation, user, value and return value

vars == <<dbMode, exists, file, last>>

(* _db_path: the state file of user u, <home>/<user_db_path> or            *)
(* global_db_path.                                                         *)
Path(u) == IF dbMode = "global" THEN "global" ELSE u

(* Every path either configuration may use; the other mode's paths stay    *)
(* absent.                                                                 *)
Paths == Users \cup {"global"}

(* _db_find_user_entry: the index of the first line of user u at or after  *)
(* line `from`, or 0 when the scan reaches the end of the file.            *)
FindUserEntry(f, u, from) ==
    LET hits == {i \in from..Len(f) : f[i].user = u}
    IN  IF hits = {} THEN 0 ELSE CHOOSE i \in hits : \A j \in hits : i <= j

(* Mutant: step 2 writes the entry only when removing (condition inverted).*)
StoreFileEntryOnRemove(f, u, v, remove) ==
    LET first == FindUserEntry(f, u, 1)
        before == IF first = 0 THEN f ELSE SubSeq(f, 1, first - 1)
        new == IF remove THEN <<[user |-> u, val |-> v]>> ELSE <<>>
        second == IF first = 0 THEN 0 ELSE FindUserEntry(f, u, first + 1)
        rest == IF first = 0 THEN <<>>
                ELSE IF second = 0 THEN SubSeq(f, first + 1, Len(f))
                ELSE SubSeq(f, first + 1, second - 1)
    IN  before \o new \o rest

(* Mutant: step 3 (copy the rest of the file) is left out.                 *)
StoreFileNoRest(f, u, v, remove) ==
    LET first == FindUserEntry(f, u, 1)
        before == IF first = 0 THEN f ELSE SubSeq(f, 1, first - 1)
        new == IF remove THEN <<>> ELSE <<[user |-> u, val |-> v]>>
    IN  before \o new

(* The contents of <db>.tmp when it is renamed over <db>: the lines before *)
(* the user's entry (step 1), the new entry (step 2), and the lines after  *)
(* it (step 3).  Step 3 stops at a second entry of the user and the store  *)
(* still succeeds (ret is 0 at "Duplicate entry"), so <db>.tmp ends there. *)
StoreFile(f, u, v, remove) ==
    LET first == FindUserEntry(f, u, 1)
        before == IF first = 0 THEN f ELSE SubSeq(f, 1, first - 1)
        new == IF remove THEN <<>> ELSE <<[user |-> u, val |-> v]>>
        second == IF first = 0 THEN 0 ELSE FindUserEntry(f, u, first + 1)
        rest == IF first = 0 THEN <<>>
                ELSE IF second = 0 THEN SubSeq(f, first + 1, Len(f))
                ELSE SubSeq(f, first + 1, second - 1)
    IN  before \o new \o rest

(* db_file_load's result for user u when <db> exists (ex) with lines f:    *)
(* the value of the first entry, or the error.                             *)
LoadResult(ex, f, u) ==
    IF ~ex THEN "non_existent"
    ELSE IF FindUserEntry(f, u, 1) = 0 THEN "no_user_entry"
    ELSE f[FindUserEntry(f, u, 1)].val

-----------------------------------------------------------------------------
(* The initial contents a file at path p may have: every line belongs to a *)
(* user whose _db_path is p.                                               *)
FilesOf(p) == {f \in InitFiles : \A i \in DOMAIN f : Path(f[i].user) = p}

Init ==
    /\ dbMode \in DbModes
    /\ exists \in {e \in [Paths -> BOOLEAN] :
                   \A p \in Paths : p \notin {Path(u) : u \in Users} => ~e[p]}
    /\ file \in {f \in {[p \in Paths |-> IF p = "global" THEN g ELSE h[p]] :
                        g \in FilesOf("global"),
                        h \in [Users -> UNION {FilesOf(u) : u \in Users}]} :
                 \A p \in Paths : /\ f[p] \in FilesOf(p)
                                /\ ~exists[p] => f[p] = <<>>}
    /\ last = [op |-> "none", user |-> "none", val |-> "none", ret |-> "none"]

(* db_file_load: lock if needed, find the user's line, parse it, unlock.   *)
Load(u) ==
    /\ last' = [op |-> "load", user |-> u, val |-> "none", ret |-> LoadResult(exists[Path(u)], file[Path(u)], u)]
    /\ UNCHANGED <<dbMode, exists, file>>

(* db_file_store(s, remove).  With cfg->db = user, removing unlinks the    *)
(* file.  Otherwise a missing file (ENOENT) is read as empty, and any of   *)
(* the failures (lock, open, chown, write, flush, rename) leaves <db> as   *)
(* it was and returns an error.                                            *)
Store(u, v, remove) ==
    /\ UNCHANGED dbMode
    /\ \/ /\ dbMode = "user" /\ remove
          /\ exists' = [exists EXCEPT ![Path(u)] = FALSE]
          /\ file' = [file EXCEPT ![Path(u)] = <<>>]
          /\ last' = [op |-> "remove", user |-> u, val |-> v, ret |-> "ok"]
       \/ /\ ~(dbMode = "user" /\ remove)
          /\ exists' = [exists EXCEPT ![Path(u)] = TRUE]
          /\ file' = [file EXCEPT ![Path(u)] = StoreFile(@, u, v, remove)]
          /\ last' = [op |-> IF remove THEN "remove" ELSE "store",
                      user |-> u, val |-> v, ret |-> "ok"]
       \/ /\ UNCHANGED <<exists, file>>
          /\ last' = [op |-> IF remove THEN "remove" ELSE "store",
                      user |-> u, val |-> v, ret |-> "error"]

Next ==
    \E u \in Users :
        \/ Load(u)
        \/ \E v \in Vals, remove \in BOOLEAN : Store(u, v, remove)

Spec == Init /\ [][Next]_vars

-----------------------------------------------------------------------------
TypeOK ==
    /\ dbMode \in DbModes
    /\ exists \in [Paths -> BOOLEAN]
    /\ file \in [Paths -> Seq(Entry)]
    /\ \A p \in Paths : ~exists[p] => file[p] = <<>>

(* The entries of user u, in file order.                                   *)
EntriesOf(f, u) == SelectSeq(f, LAMBDA e : e.user = u)

(* What db_file_load returns for a user after a store: the value stored if *)
(* the store succeeded, nothing after a successful removal, and what it    *)
(* returned before the store if the store failed.                          *)
StoreThenLoad ==
    [][last'.op \in {"store", "remove"} =>
         LET u == last'.user
             p == Path(u)
             after == LoadResult(exists'[p], file'[p], u)
         IN  IF last'.ret = "ok"
             THEN after = IF last'.op = "store" THEN last'.val
                          ELSE IF exists'[p] THEN "no_user_entry"
                          ELSE "non_existent"
             ELSE after = LoadResult(exists[p], file[p], u)]_vars

(* A store for one user leaves every other user's entries exactly as they  *)
(* were (spec 4.10: non-matching lines are streamed verbatim to the tmp    *)
(* file).                                                                  *)
OthersPreserved ==
    [][\A u \in Users :
         (last'.op \in {"store", "remove"} /\ last'.user # u) =>
           EntriesOf(file'[Path(u)], u) = EntriesOf(file[Path(u)], u)]_vars
=============================================================================
