------------------------------ MODULE OutOfBand ------------------------------
(***************************************************************************)
(* Out-of-band passcode delivery, ph_out_of_band of src/pam/pam_helpers.c. *)
(*                                                                         *)
(* The parent checks that OOB is enabled and the utility executable,       *)
(* gathers the current passcode and the contact, and forks.  The child     *)
(* releases the state from memory, drops the group and then the user to    *)
(* opt->gid / opt->uid, and execs the utility (exit 11, 12, 13 when one of *)
(* these fails).  The parent polls waitpid(WNOHANG) up to 200 times, 7 ms *)
(* apart; if the child is still alive it sends SIGKILL, waits 100 us and   *)
(* polls once more.  The utility itself may exit with any status or hang.  *)
(***************************************************************************)
EXTENDS Naturals

CONSTANTS
    Polls          \* iterations of the waitpid loop (200 in code)

ASSUME Polls \in Nat \ {0}

VARIABLES
    ppc,        \* parent: where ph_out_of_band is
    ret,        \* its return value once ppc = "done"
    times,      \* iterations of the wait loop left
    cpc,        \* child: "none" (not forked), steps, "exited", "dead", "reaped"
    uid,        \* the child's user: "root" until setuid succeeds
    gid,        \* the child's group: "root" until setgid succeeds
    status,     \* the child's exit status (11, 12, 13 or the utility's)
    ran,        \* the utility was executed
    sigkill     \* SIGKILL has been sent to the child

vars == <<ppc, ret, times, cpc, uid, gid, status, ran, sigkill>>

Zombie == {"exited", "dead"}     \* terminated, not yet reaped

Finish(r) == ppc' = "done" /\ ret' = r

-----------------------------------------------------------------------------
Init ==
    /\ ppc = "check"
    /\ ret = 0
    /\ times = 0
    /\ cpc = "none"
    /\ uid = "root" /\ gid = "root"
    /\ status = 0
    /\ ran = FALSE
    /\ sigkill = FALSE

(* OOB disabled or no oob_path: 1; utility missing, not a regular file or  *)
(* not executable by opt->uid / opt->gid: 2.                               *)
Check ==
    /\ ppc = "check"
    /\ \/ Finish(1)
       \/ Finish(2)
       \/ ppc' = "gather" /\ UNCHANGED ret
    /\ UNCHANGED <<times, cpc, uid, gid, status, ran, sigkill>>

(* ppp_get_current fails (its return value), or no contact (2).           *)
Gather ==
    /\ ppc = "gather"
    /\ \/ Finish(2)
       \/ ppc' = "fork" /\ UNCHANGED ret
    /\ UNCHANGED <<times, cpc, uid, gid, status, ran, sigkill>>

(* fork(): -1 returns 1; otherwise the child starts and the loop begins.   *)
Fork ==
    /\ ppc = "fork"
    /\ \/ Finish(1) /\ UNCHANGED <<times, cpc>>
       \/ /\ ppc' = "poll" /\ times' = Polls /\ cpc' = "release"
          /\ UNCHANGED ret
    /\ UNCHANGED <<uid, gid, status, ran, sigkill>>

(* Mutant: the wait loop never counts down.                                *)
PollNoCount ==
    /\ ppc = "poll"
    /\ \/ /\ cpc \in Zombie
          /\ cpc' = "reaped" /\ ppc' = "status"
          /\ UNCHANGED <<ret, times>>
       \/ /\ cpc \notin Zombie
          /\ UNCHANGED <<ppc, ret, times, cpc>>
    /\ UNCHANGED <<uid, gid, status, ran, sigkill>>

(* One iteration: usleep(7000), then waitpid(WNOHANG).  The child's pid:   *)
(* reaped, leave the loop; 0 (the child still runs): go on, and after the  *)
(* last iteration kill the child; -1: return 1.  With WNOHANG, -1 is only  *)
(* ECHILD, a child that has terminated and been reaped by the host         *)
(* application (SIGCHLD ignored or handled there).                         *)
Poll ==
    /\ ppc = "poll"
    /\ \/ /\ cpc \in Zombie
          /\ cpc' = "reaped" /\ ppc' = "status"
          /\ UNCHANGED <<ret, times>>
       \/ /\ cpc \in Zombie
          /\ Finish(1)
          /\ cpc' = "reaped"
          /\ UNCHANGED times
       \/ /\ cpc \notin Zombie
          /\ times' = times - 1
          /\ ppc' = IF times - 1 = 0 THEN "kill" ELSE "poll"
          /\ UNCHANGED <<ret, cpc>>
    /\ UNCHANGED <<uid, gid, status, ran, sigkill>>

(* Timed out: kill(pid, 9), usleep(100), one more waitpid(WNOHANG), and    *)
(* return 2 whether or not it reaped the child.                            *)
Kill ==
    /\ ppc = "kill"
    /\ sigkill' = TRUE
    /\ ppc' = "reap_once"
    /\ UNCHANGED <<ret, times, cpc, uid, gid, status, ran>>

ReapOnce ==
    /\ ppc = "reap_once"
    /\ cpc' = IF cpc \in Zombie THEN "reaped" ELSE cpc
    /\ Finish(2)
    /\ UNCHANGED <<times, uid, gid, status, ran, sigkill>>

(* The child was reaped: its exit status is logged and 0 is returned.      *)
ReportStatus ==
    /\ ppc = "status"
    /\ Finish(0)
    /\ UNCHANGED <<times, cpc, uid, gid, status, ran, sigkill>>

-----------------------------------------------------------------------------
(* Child: ppp_release(s, 0, 0) neither stores nor unlocks and returns 0.   *)
ChildRelease ==
    /\ cpc = "release"
    /\ cpc' = "setgid"
    /\ UNCHANGED <<ppc, ret, times, uid, gid, status, ran, sigkill>>

ChildExit(code) == cpc' = "exited" /\ status' = code

ChildSetGid ==
    /\ cpc = "setgid"
    /\ \/ gid' = "user" /\ cpc' = "setuid" /\ UNCHANGED status
       \/ ChildExit(11) /\ UNCHANGED gid
    /\ UNCHANGED <<ppc, ret, times, uid, ran, sigkill>>

(* Mutant: the return value of setuid is not checked.                      *)
ChildSetUidUnchecked ==
    /\ cpc = "setuid"
    /\ \/ uid' = "user" /\ cpc' = "exec" /\ UNCHANGED status
       \/ cpc' = "exec" /\ UNCHANGED <<uid, status>>
    /\ UNCHANGED <<ppc, ret, times, gid, ran, sigkill>>

ChildSetUid ==
    /\ cpc = "setuid"
    /\ \/ uid' = "user" /\ cpc' = "exec" /\ UNCHANGED status
       \/ ChildExit(12) /\ UNCHANGED uid
    /\ UNCHANGED <<ppc, ret, times, gid, ran, sigkill>>

(* execl(oob_path, contact, passcode): the utility runs, or exit(13).      *)
ChildExec ==
    /\ cpc = "exec"
    /\ \/ cpc' = "running" /\ ran' = TRUE /\ UNCHANGED status
       \/ ChildExit(13) /\ UNCHANGED ran
    /\ UNCHANGED <<ppc, ret, times, uid, gid, sigkill>>

(* The utility ends with success or failure (it may also never end).       *)
UtilityExits ==
    /\ cpc = "running"
    /\ \E code \in {0, 1} : ChildExit(code)
    /\ UNCHANGED <<ppc, ret, times, uid, gid, ran, sigkill>>

(* SIGKILL takes effect: the child dies wherever it is.                    *)
ChildKilled ==
    /\ sigkill
    /\ cpc \notin Zombie \cup {"reaped", "none"}
    /\ cpc' = "dead"
    /\ UNCHANGED <<ppc, ret, times, uid, gid, status, ran, sigkill>>

(* ph_out_of_band has returned and the child will not move any more.       *)
Finished ==
    /\ ppc = "done"
    /\ cpc \in {"none", "reaped"} \cup Zombie
    /\ UNCHANGED vars

Parent == Check \/ Gather \/ Fork \/ Poll \/ Kill \/ ReapOnce \/ ReportStatus
Child == ChildRelease \/ ChildSetGid \/ ChildSetUid \/ ChildExec
         \/ UtilityExits \/ ChildKilled

Next == Parent \/ Child \/ Finished

(* The parent's steps are sleeps and non-blocking system calls, so they    *)
(* always complete; the child and the utility get no fairness: they may    *)
(* hang.                                                                   *)
Spec == Init /\ [][Next]_vars /\ WF_vars(Parent)

-----------------------------------------------------------------------------
TypeOK ==
    /\ ppc \in {"check", "gather", "fork", "poll", "kill", "reap_once", "status", "done"}
    /\ times \in 0..Polls
    /\ cpc \in {"none", "release", "setgid", "setuid", "exec", "running",
                "exited", "dead", "reaped"}
    /\ uid \in {"root", "user"} /\ gid \in {"root", "user"}

(* Spec 5: the utility runs only after the child dropped both the group    *)
(* and the user (setgid, then setuid, each checked): never as root.        *)
ExecOnlyUnprivileged ==
    ran => uid = "user" /\ gid = "user"

(* ph_out_of_band returns whatever the child does, even when the utility   *)
(* hangs: the wait loop is bounded and ends in kill.                       *)
ParentReturns == <>(ppc = "done")

(* The comment of the wait loop (pam_helpers.c 195-198): a child that     *)
(* hangs is killed and then "cleaned up": when ph_out_of_band returns, the *)
(* child it forked has been reaped.                                        *)
ReapedOnReturn ==
    ppc = "done" => cpc \in {"none", "reaped"}
=============================================================================
