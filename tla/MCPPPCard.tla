------------------------------ MODULE MCPPPCard ------------------------------
(* Bounds for checking PPPCard with TLC: one passcode length for each      *)
(* distinct row size of _len_to_card_size.  The legacy engine of src/ppp.c *)
(* is taken in with the same code_mask width and checked, by assumptions   *)
(* TLC evaluates, against the cases of its own ppp_testcase.               *)
EXTENDS PPPCard

MCCodeLengths == {2, 3, 4, 5, 7, 8, 11}

Legacy == INSTANCE LegacyPPP

(* The positions the cases of ppp_testcase (src/ppp.c) and spec scenario E *)
(* expect, for an unsalted key: counter, length, card, row, column.        *)
LegacyTestcases ==
    {<<0, 4, 1, 1, 0>>, <<34, 4, 1, 5, 6>>, <<864197443, 4, 12345678, 8, 4>>,
     <<0, 5, 1, 1, 0>>, <<124, 5, 3, 5, 4>>, <<574734, 16, 28737, 8, 0>>,
     <<0, 7, 1, 1, 0>>, <<104, 7, 3, 7, 0>>, <<106, 7, 3, 7, 2>>, <<71, 4, 2, 1, 1>>}
ASSUME \A t \in LegacyTestcases :
    Legacy!Calculate(t[1], {"NOT_SALTED"}, t[2]) = [card |-> t[3], row |-> t[4], column |-> t[5]]

(* The legacy engine maps every position it computes back to the counter, *)
(* salted or not, for every counter of CounterBits bits.                   *)
ASSUME \A c \in 0..(2^CounterBits - 1), len \in MCCodeLengths, flags \in {{}, {"NOT_SALTED"}} :
    LET pos == Legacy!Calculate(c, flags, len)
    IN  Legacy!GetPasscodeNumber(c, flags, len, pos.card, pos.column, pos.row) = <<0, c>>

(* The digit loop of ppp_get_passcode (src/libotp/ppp.c), taken in from    *)
(* PPPPasscode: its alphabets and ciphers around the digit boundaries.     *)
MCCiphers == {0, 53, 64, 4000, 5000, 300000, 59969535, 2^30 + 12345}
MCAlphabetLens == {60, 64, 88, 54, 77, 56}
Passcode == INSTANCE PPPPasscode WITH
    Ciphers <- MCCiphers, CodeLengths <- MCCodeLengths, AlphabetIds <- 0..7,
    CustomLen <- 60, AlphabetMin <- 54, AlphabetMax <- 88, AllowChange <- 1,
    AlphabetDef <- 1, alphabet <- 1, cipher <- 0, codeLength <- codeLength,
    typed <- <<>>, result <- -1

(* The loop of ppp_get_passcode, least significant digit first, computes   *)
(* spec 4.1's derivation (digit i is (X div n^i) mod n) for every alphabet *)
(* length and every passcode length up to the key's in this state (at     *)
(* most 4: n^(l-1) must stay within TLC's 32-bit integers).                *)
EncodeMatchesReference ==
    \A x \in MCCiphers, n \in MCAlphabetLens, l \in 2..codeLength \cap 2..4 :
        Passcode!Encode(x, n, l) = Passcode!EncodeReference(x, n, l)
=============================================================================
