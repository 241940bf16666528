---------------------------- MODULE DbPermissions ----------------------------
(***************************************************************************)
(* _db_file_permissions of src/src/libotp/db_file.c: the check db_file_lock *)
(* and db_file_load run on the state file and its directory before they    *)
(* touch it, and db_file_store after its rename.  stat() is abstracted to  *)
(* what the check reads: whether the path exists, its type, whether its    *)
(* owner is the one expected (cfg->user_uid in global mode), and whether   *)
(* group or others may write it.  Warnings only printed are left out.      *)
(***************************************************************************)
EXTENDS Naturals

(* The result of stat() on a path.                                         *)
Stat == [exists : BOOLEAN, kind : {"dir", "reg", "other"},
         ownerOk : BOOLEAN, goWrite : BOOLEAN]

(* user_home is NULL (db_file_store's call) or the stat of the home dir.   *)
NoHome == [exists |-> FALSE, kind |-> "none", ownerOk |-> FALSE, goWrite |-> FALSE]

(* Every input of one call: cfg->db, whether getuid() is 0, the stats of   *)
(* CONFIG_DIR, the database and the home directory, and whether the chown  *)
(* that repairs the owner succeeds.                                        *)
Inputs == [db : {"global", "user"}, root : BOOLEAN, dir : Stat, file : Stat,
           home : Stat \cup {NoHome}, chownOk : BOOLEAN]

(* Mutant: the group/other write bits of CONFIG_DIR are not checked.       *)
PermissionsNoDirWrite(in) ==
    IF in.db = "global"
    THEN CASE ~in.dir.exists \/ in.dir.kind # "dir" \/ ~in.dir.ownerOk -> "IO_ERROR"
           [] ~in.file.exists -> "NON_EXISTENT"
           [] in.file.kind # "reg" \/ in.file.goWrite -> "IO_ERROR"
           [] ~in.file.ownerOk /\ ~(in.root /\ in.chownOk) -> "IO_ERROR"
           [] OTHER -> "OK"
    ELSE CASE in.home # NoHome /\ (~in.home.exists \/ in.home.kind # "dir") -> "NO_USER_HOME"
           [] ~in.file.exists -> "NON_EXISTENT"
           [] in.file.kind # "reg" -> "IO_ERROR"
           [] OTHER -> "OK"

(* Global mode: the directory must exist, be a directory owned by          *)
(* cfg->user_uid and not writable by group or others; a missing database   *)
(* is NON_EXISTENT; it must be a regular file not writable by group or     *)
(* others; a wrong owner is repaired by chown when root, an error          *)
(* otherwise.  User mode: a home that is given must exist and be a         *)
(* directory; a missing state is NON_EXISTENT; it must be a regular file;  *)
(* group/other bits and the owner only warn.                               *)
Permissions(in) ==
    IF in.db = "global"
    THEN CASE ~in.dir.exists \/ in.dir.kind # "dir" \/ ~in.dir.ownerOk
              \/ in.dir.goWrite -> "IO_ERROR"
           [] ~in.file.exists -> "NON_EXISTENT"
           [] in.file.kind # "reg" \/ in.file.goWrite -> "IO_ERROR"
           [] ~in.file.ownerOk /\ ~(in.root /\ in.chownOk) -> "IO_ERROR"
           [] OTHER -> "OK"
    ELSE CASE in.home # NoHome /\ (~in.home.exists \/ in.home.kind # "dir") -> "NO_USER_HOME"
           [] ~in.file.exists -> "NON_EXISTENT"
           [] in.file.kind # "reg" -> "IO_ERROR"
           [] OTHER -> "OK"

(* The database's owner is cfg->user_uid once the check returns: as it     *)
(* was, or repaired by root's chown.                                       *)
OwnerAfter(in) == in.file.ownerOk \/ (in.root /\ in.chownOk)

-----------------------------------------------------------------------------
(* Spec 4.10's policy for the files OTPasswd may use.                      *)
SafeGlobal(in) ==
    /\ in.dir.exists /\ in.dir.kind = "dir" /\ in.dir.ownerOk /\ ~in.dir.goWrite
    /\ in.file.exists /\ in.file.kind = "reg" /\ ~in.file.goWrite
SafeUser(in) ==
    /\ in.home = NoHome \/ (in.home.exists /\ in.home.kind = "dir")
    /\ in.file.exists /\ in.file.kind = "reg"

(* The check accepts exactly the files the policy allows for one mode, and *)
(* NON_EXISTENT, which db_file_lock lets through, means only a missing     *)
(* database in a safe place.                                               *)
MatchesPolicy(mode) ==
    \A in \in {i \in Inputs : i.db = mode} :
        /\ Permissions(in) = "OK" <=>
              IF mode = "global" THEN SafeGlobal(in) /\ OwnerAfter(in) ELSE SafeUser(in)
        /\ Permissions(in) = "NON_EXISTENT" =>
              /\ ~in.file.exists
              /\ mode = "global" => in.dir.kind = "dir" /\ in.dir.ownerOk /\ ~in.dir.goWrite

GlobalMatches == MatchesPolicy("global")
UserMatches == MatchesPolicy("user")

=============================================================================
