---------------------------- MODULE MCPPPPasscode ----------------------------
(* Bounds for checking PPPPasscode with TLC.                               *)
EXTENDS PPPPasscode

(* Ciphers around the digit boundaries of the alphabet lengths, and large  *)
(* enough for every digit of a 2- and 3-character passcode to matter.      *)
MCCiphers == {0, 53, 64, 4000, 5000, 300000}

(* Every id of the table, the first id past it, and one further.           *)
MCAlphabetIds == 0..7

(* The digit loop of the legacy ppp_get_passcode (src/ppp.c) computes      *)
(* spec 4.1's derivation too, with either of its two alphabets.            *)
Legacy == INSTANCE LegacyPPP WITH CodeBits <- 64
ASSUME \A x \in MCCiphers, l \in CodeLengths, flags \in SUBSET Legacy!Flags :
    Legacy!GetPasscode(x, flags, l) = EncodeReference(x, Legacy!AlphabetLen(flags), l)
=============================================================================
