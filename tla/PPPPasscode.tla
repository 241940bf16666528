----------------------------- MODULE PPPPasscode -----------------------------
(***************************************************************************)
(* Passcode derivation and checking of src/libotp/ppp.c:                   *)
(* ppp_alphabet_verify, ppp_get_passcode and ppp_authenticate.             *)
(*                                                                         *)
(* The AES block of (key, counter) is the input `cipher`; a passcode is    *)
(* the sequence of alphabet positions of its characters (the characters of *)
(* every alphabet are distinct, so this is one-to-one with the string).    *)
(* The state's alphabet id comes from the state file as parsed by          *)
(* db_file_load (sscanf "%u", no range check), so any id may be loaded.    *)
(***************************************************************************)
EXTENDS Integers, Sequences

CONSTANTS
    Ciphers,        \* AES outputs considered (128-bit in code)
    CodeLengths,    \* s->code_length values, within 2..16
    AlphabetIds,    \* alphabet ids a state file may hold
    CustomLen,      \* strlen(cfg->alphabet_custom)
    AlphabetMin,    \* cfg->alphabet_min_length
    AlphabetMax,    \* cfg->alphabet_max_length
    AllowChange,    \* cfg->alphabet_allow_change
    AlphabetDef     \* cfg->alphabet_def

ASSUME CodeLengths \subseteq 2..16 /\ AllowChange \in {0, 1}

(* alphabets[]: NULL for the custom one, then five built-in tables whose   *)
(* lengths are counted from the string literals (the fourth has 77         *)
(* characters; its comment says 78).                                       *)
BuiltinLen == <<64, 88, 54, 77, 56>>
AlphabetCnt == Len(BuiltinLen) + 1

RECURSIVE EncodeMsbFirst(_, _, _)
(* Mutant: the most significant digit is emitted first.                    *)
EncodeMsbFirst(x, n, l) ==
    IF l = 0 THEN <<>> ELSE EncodeMsbFirst(x \div n, n, l - 1) \o <<x % n>>

RECURSIVE Encode(_, _, _)
(* The loop of ppp_get_passcode: passcode[i] = alphabet[cipher mod n],     *)
(* cipher = cipher div n, for i = 0 .. code_length-1.                      *)
Encode(x, n, l) ==
    IF l = 0 THEN <<>> ELSE <<x % n>> \o Encode(x \div n, n, l - 1)

(* Spec 4.1 step 5, closed form: digit i is (X div n^i) mod n.             *)
EncodeReference(x, n, l) == [i \in 1..l |-> (x \div n^(i - 1)) % n]

(* Strings the user may type, and the bytes an uninitialised buffer may    *)
(* hold: passcodes of any alphabet for any cipher.                         *)
Strings == UNION {{Encode(x, n, l) : x \in Ciphers, n \in {CustomLen} \cup
                   {BuiltinLen[i] : i \in 1..Len(BuiltinLen)}} : l \in CodeLengths}

(* ppp_alphabet_verify: 0 legal, 1 bad id, 2 denied by policy.  The id     *)
(* bound is "id > alphabet_cnt", so id = alphabet_cnt gets through and      *)
(* alphabets[id] is read past the end: its length is then anything, which  *)
(* the policy check either rejects or accepts.                             *)
AlphabetLens(id) ==
    IF id = 0 THEN {CustomLen}
    ELSE IF id < AlphabetCnt THEN {BuiltinLen[id]}
    ELSE {AlphabetMin - 1, AlphabetMax}
AlphabetVerify(id, len) ==
    IF id < 0 \/ id > AlphabetCnt THEN 1
    ELSE IF AllowChange = 0 /\ AlphabetDef # id THEN 2
    ELSE IF len < AlphabetMin \/ len > AlphabetMax THEN 2
    ELSE 0

VARIABLES
    alphabet,    \* s->alphabet
    cipher,      \* AES(key, counter) of the current counter
    codeLength,  \* s->code_length
    typed,       \* the passcode given to ppp_authenticate
    result       \* what ppp_authenticate returned (-1: not called yet)

vars == <<alphabet, cipher, codeLength, typed, result>>

(* ppp_get_passcode: the possible <<return value, passcode>> pairs.  An    *)
(* AES failure returns its error.  A failed alphabet check jumps to clear  *)
(* with ret still 0 from the AES call, so the caller's buffer keeps        *)
(* whatever it held.  An alphabet read past the table yields any string.   *)
GetPasscode ==
    {<<1, <<>>>>} \cup
    UNION {IF AlphabetVerify(alphabet, len) # 0 THEN {<<0, g>> : g \in Strings}
           ELSE IF alphabet = AlphabetCnt THEN {<<0, g>> : g \in Strings}
           ELSE {<<0, Encode(cipher, len, codeLength)>>}
          : len \in AlphabetLens(alphabet)}

-----------------------------------------------------------------------------
Init ==
    /\ alphabet \in AlphabetIds
    /\ cipher \in Ciphers
    /\ codeLength \in CodeLengths
    /\ typed = <<>>
    /\ result = -1

(* ppp_authenticate: 2 if ppp_get_passcode fails, 3 if strcmp differs,     *)
(* 0 on a match.                                                           *)
Authenticate ==
    /\ result = -1
    /\ \E input \in {s \in Strings : Len(s) = codeLength}, out \in GetPasscode :
         /\ typed' = input
         /\ result' = IF out[1] # 0 THEN 2
                      ELSE IF input # out[2] THEN 3
                      ELSE 0
    /\ UNCHANGED <<alphabet, cipher, codeLength>>

(* The login ends; the state is left as it is.                             *)
Done ==
    /\ result # -1
    /\ UNCHANGED vars

Next == Authenticate \/ Done

Spec == Init /\ [][Next]_vars

-----------------------------------------------------------------------------
TypeOK ==
    /\ alphabet \in AlphabetIds
    /\ cipher \in Ciphers
    /\ codeLength \in CodeLengths
    /\ result \in {-1, 0, 2, 3}

(* The digit loop of ppp_get_passcode computes spec 4.1's derivation for   *)
(* every alphabet length, passcode length and cipher of the model.         *)
EncodeMatchesReference ==
    \A n \in {CustomLen} \cup {BuiltinLen[i] : i \in 1..Len(BuiltinLen)} :
        Encode(cipher, n, codeLength) = EncodeReference(cipher, n, codeLength)

(* Spec 4.1/4.6: ppp_authenticate accepts only the passcode derived from   *)
(* the counter in an alphabet that passes ppp_alphabet_verify; with an     *)
(* invalid alphabet ppp_get_passcode fails (INVALID_ALPHABET).             *)
AcceptsOnlyDerived ==
    result = 0 =>
        \E len \in AlphabetLens(alphabet) :
            /\ alphabet < AlphabetCnt
            /\ AlphabetVerify(alphabet, len) = 0
            /\ typed = Encode(cipher, len, codeLength)
=============================================================================
