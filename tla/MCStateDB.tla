------------------------------ MODULE MCStateDB ------------------------------
(* Bounds for checking StateDB with TLC.                                   *)
EXTENDS StateDB, FiniteSets, TLC

CONSTANTS u1, u2, u3, v1, v2

(* The permission check the lock and the load run first, over all its     *)
(* inputs.                                                                 *)
INSTANCE DbPermissions

MCUsers == {u1, u2, u3}
MCVals == {v1, v2}


(* Files of up to three lines. *)
Files == UNION {[1..n -> Entry] : n \in 0..3}

(* Files as db_file_store writes them: at most one line per user.          *)
MCWellFormedFiles == {f \in Files : \A i, j \in DOMAIN f : i # j => f[i].user # f[j].user}

(* Any file of up to three lines, duplicated user lines included (a        *)
(* hand-edited or concurrently written file).                              *)
MCAnyFiles == Files

(* _db_file_permissions, which db_file_lock and db_file_load run before    *)
(* they touch the files of the configured backend (cfg->db), accepts       *)
(* exactly what spec 4.10 allows: in global mode a directory and a file    *)
(* owned by the service uid (root repairs the file's owner) and writable   *)
(* by nobody else; in user mode a regular file in an existing home,        *)
(* whatever its mode bits.  A missing database passes the lock only in a   *)
(* safe place.                                                             *)
PermissionsMatchPolicy == IF dbMode = "global" THEN GlobalMatches ELSE UserMatches

(* One entry's text, with fields of at most two characters, a label and a *)
(* contact of at most two, and a 31-byte entry buffer: the longest entries *)
(* hit snprintf's limit exactly (refused) or overrun it (written cut       *)
(* short).                                                                 *)
Line == INSTANCE StateEntry WITH MaxFieldSize <- 2, LabelSize <- 3, ContactSize <- 3, EntrySize <- 31

(* Free text over a letter and the two characters of the file format.      *)
Texts(n) == UNION {[1..k -> {"a", ":", "\n"}] : k \in 0..n}
EntryStates == [user : {<<"u">>}, spass : {<<>>, <<"h">>}, label : Texts(2), contact : Texts(2)]

(* The entry _db_generate_user_entry writes for a state, when it writes    *)
(* one, is read back by db_file_load as that same state or refused, never  *)
(* as a different one, when label and contact pass state_validate_str;    *)
(* such a state whose entry fits the buffer is read back.  A label or      *)
(* contact holding ':' shifts the fields after it and the entry is         *)
(* refused (a sixteenth field), whatever the text around it.               *)
Fits(text) == text[Len(text)] = "\n"
NoNewline(s) == \A i \in 1..Len(s) : s[i] # "\n"
EntryRoundTripHolds ==
    \A st \in EntryStates :
        LET text == Line!GenerateUserEntry(st) IN
        text # Line!Error =>
            /\ Line!ValidStr(st.label) /\ Line!ValidStr(st.contact) =>
                   /\ Line!LoadEntry(text) \subseteq {st, Line!Error}
                   /\ Fits(text) => st \in Line!LoadEntry(text)
            /\ ~(Line!ValidStr(st.label) /\ Line!ValidStr(st.contact))
               /\ NoNewline(st.label) /\ NoNewline(st.contact) =>
                   Line!LoadEntry(text) = {Line!Error}
(* The same, in every state of the db run, for either backend.             *)
EntryRoundTrip == dbMode \in DbModes /\ EntryRoundTripHolds
=============================================================================
