----------------------------- MODULE AtomicStore -----------------------------
(***************************************************************************)
(* What the state database promises its callers (spec 4.10, 5, 8.3): a    *)
(* map from users to entries in which a store that returns success sets    *)
(* the caller's entry, atomically, and touches no other entry.  A failed   *)
(* store changes nothing.                                                  *)
(***************************************************************************)
CONSTANTS
    Users,      \* user names
    Proc,       \* callers of db_file_store
    Vals,       \* entry contents
    NoEntry,    \* what a load returns for a user without an entry
    UserOf      \* the user each caller stores for

VARIABLES
    kv,         \* each user's entry, as a load would return it
    acked       \* the stores acknowledged so far, <<caller, value>> pairs

Init ==
    /\ kv \in [Users -> Vals \cup {NoEntry}]
    /\ acked = {}

(* Caller p's store of v returns success: its user's entry becomes v.      *)
Store(p, v) ==
    /\ kv' = [kv EXCEPT ![UserOf[p]] = v]
    /\ acked' = acked \cup {<<p, v>>}

Next == \E p \in Proc, v \in Vals : Store(p, v)

Spec == Init /\ [][Next]_<<kv, acked>>
=============================================================================
