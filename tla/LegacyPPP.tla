------------------------------ MODULE LegacyPPP ------------------------------
(***************************************************************************)
(* The older flat PPP engine, src/ppp.c: ppp_add_salt,                     *)
(* ppp_get_passcode_number, ppp_calculate and the digit loop of            *)
(* ppp_get_passcode.  Its state differs from the layered engine's in two   *)
(* flag bits: FLAG_NOT_SALTED (salted unless set) where the newer tree has *)
(* FLAG_SALTED, and FLAG_ALPHABET_EXTENDED where it has an alphabet id.    *)
(* Counters are scaled as in PPPCard: code_mask has CodeBits bits.         *)
(***************************************************************************)
EXTENDS Integers, Sequences

CONSTANTS CodeBits   \* bits of s->code_mask

ROWS_PER_CARD == 10

(* The legacy state's flags: the subset of these set in s->flags.          *)
Flags == {"NOT_SALTED", "ALPHABET_EXTENDED"}

(* _len_to_card_size of src/ppp.c.                                         *)
LenToCardSize(len) ==
    CASE len = 2 -> 11 [] len = 3 -> 8 [] len = 4 -> 7
      [] len \in 5..6 -> 5 [] len = 7 -> 4 [] len \in 8..10 -> 3
      [] len \in 11..16 -> 2

(* ppp_add_salt: unless FLAG_NOT_SALTED, counter & salt_mask is added.     *)
AddSalt(counter, flags, passcode) ==
    IF "NOT_SALTED" \in flags THEN passcode
    ELSE passcode + (counter - (counter % 2^CodeBits))

(* ppp_get_passcode_number: 1 for a column outside 'A'..'A'+codes_in_row-1 *)
(* or a row outside 1..10; otherwise (card-1)*codes_on_card + (row-1) *    *)
(* codes_in_row + column, salted.  column counts from 0 ('A').            *)
GetPasscodeNumber(counter, flags, len, card, column, row) ==
    LET inRow == LenToCardSize(len)
    IN  IF column >= inRow \/ row < 1 \/ row > 10 THEN <<1, 0>>
        ELSE <<0, AddSalt(counter, flags, (card - 1) * inRow * ROWS_PER_CARD
                                          + (row - 1) * inRow + column)>>

(* ppp_calculate: the card, row and column of the counter; the card index *)
(* is counter & code_mask unless FLAG_NOT_SALTED.                          *)
Calculate(counter, flags, len) ==
    LET inRow    == LenToCardSize(len)
        unsalted == IF "NOT_SALTED" \in flags THEN counter ELSE counter % 2^CodeBits
        r        == unsalted % (inRow * ROWS_PER_CARD)
    IN  [card   |-> unsalted \div (inRow * ROWS_PER_CARD) + 1,
         row    |-> 1 + (r - (r % inRow)) \div inRow,
         column |-> r % inRow]

(* ppp_get_passcode: alphabet_extended (88 characters) with                *)
(* FLAG_ALPHABET_EXTENDED, alphabet_simple (64) otherwise; the AES block   *)
(* is cut into code_length digits, least significant first.  Both tables  *)
(* are, character for character, alphabets 1 and 2 of src/libotp/ppp.c.   *)
AlphabetLen(flags) == IF "ALPHABET_EXTENDED" \in flags THEN 88 ELSE 64

RECURSIVE Digits(_, _, _)
Digits(cipher, n, len) ==
    IF len = 0 THEN <<>> ELSE <<cipher % n>> \o Digits(cipher \div n, n, len - 1)

GetPasscode(cipher, flags, len) == Digits(cipher, AlphabetLen(flags), len)
=============================================================================
