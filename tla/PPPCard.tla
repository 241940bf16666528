------------------------------- MODULE PPPCard -------------------------------
(***************************************************************************)
(* Passcard arithmetic of src/libotp/ppp.c: the position (card, row,       *)
(* column) of the current counter (ppp_calculate), the counter of a        *)
(* position (ppp_get_passcode_number with ppp_add_salt), and the number    *)
(* space check (ppp_verify_range), followed along the counters one key     *)
(* goes through: from key generation, ppp_increment after ppp_increment,   *)
(* until the key runs out of passcodes.                                    *)
(*                                                                         *)
(* Widths are scaled: the code counts 128-bit counters whose low 64 bits   *)
(* (code_mask) are the card index when the key is salted; here counters    *)
(* have CounterBits bits and the card index CodeBits bits.  Masks with an  *)
(* all-ones low part are taken with div and %, which is what AND does.     *)
(***************************************************************************)
EXTENDS Integers, Sequences, FiniteSets

CONSTANTS
    CodeBits,     \* bits of code_mask (64 in code)
    CounterBits,  \* bits of a counter (128 in code)
    CodeLengths,  \* passcode lengths the keys may use (2..16 in code)
    MaxPrinted    \* bound on the latest printed card of the model

ASSUME CodeBits \in Nat /\ CounterBits \in Nat /\ CodeBits < CounterBits
ASSUME CodeLengths \subseteq 2..16

ROWS_PER_CARD == 10

MaxCounter == 2^CounterBits - 1          \* max_counter_hex, all ones
CodeMask == 2^CodeBits - 1               \* s->code_mask
SaltOf(c) == c - (c % (2^CodeBits))        \* c & s->salt_mask

(* _len_to_card_size: passcodes in a row for each passcode length.         *)
LenToCardSize(len) ==
    CASE len = 2 -> 11 [] len = 3 -> 8 [] len = 4 -> 7
      [] len \in 5..6 -> 5 [] len = 7 -> 4 [] len \in 8..10 -> 3
      [] len \in 11..16 -> 2

VARIABLES
    counter,      \* s->counter as stored in the state file
    salted,       \* FLAG_SALTED of the key
    codeLength,   \* s->code_length
    latestCard    \* s->latest_card: the furthest card printed

vars == <<counter, salted, codeLength, latestCard>>

CodesInRow == LenToCardSize(codeLength)
CodesOnCard == CodesInRow * ROWS_PER_CARD

(* The unsalted counter: c & code_mask when salted.                        *)
Unsalt(c) == IF salted THEN c % 2^CodeBits ELSE c

(* Mutant: the row is counted from 0 instead of 1.                         *)
PositionRowFromZero(c) ==
    LET r == Unsalt(c) % CodesOnCard
    IN  [card   |-> Unsalt(c) \div CodesOnCard + 1,
         row    |-> (r - (r % CodesInRow)) \div CodesInRow,
         column |-> r % CodesInRow]

(* ppp_calculate: the position of counter c.  r is the remainder of the    *)
(* card division; the column is r mod codes_in_row, the row counts from 1. *)
Position(c) ==
    LET r == Unsalt(c) % CodesOnCard
    IN  [card   |-> Unsalt(c) \div CodesOnCard + 1,
         row    |-> 1 + (r - (r % CodesInRow)) \div CodesInRow,
         column |-> r % CodesInRow]

(* ppp_calculate: last usable card (one short of what fits) and max_code.  *)
MaxCard == (IF salted THEN CodeMask ELSE MaxCounter) \div CodesOnCard - 1
MaxCode == MaxCard * CodesOnCard

(* ppp_verify_range: counter within 128 bits and unsalted counter below    *)
(* max_code (equality is already too big).                                 *)
VerifyRange(c) == c <= MaxCounter /\ Unsalt(c) < MaxCode

(* ppp_get_passcode_number: the counter of (card, column, row), salt of    *)
(* the current counter added by ppp_add_salt; -1 for a rejected position.  *)
GetPasscodeNumber(card, column, row) ==
    IF column >= CodesInRow \/ row < 1 \/ row > 10 THEN -1
    ELSE (card - 1) * CodesOnCard + (row - 1) * CodesInRow + column
         + (IF salted THEN SaltOf(counter) ELSE 0)

(* Mutant: the cards are compared the other way round.                     *)
WarningsSwapped(c) ==
    LET card == Position(c).card IN
    IF latestCard = card THEN {"LAST_CARD"}
    ELSE IF latestCard > card THEN {"NOTHING_LEFT"} ELSE {}

(* Mutant: the two card tests are not exclusive (a missing else).          *)
WarningsNoElse(c) ==
    LET card == Position(c).card IN
    (IF card >= latestCard THEN {"LAST_CARD"} ELSE {})
        \cup (IF card > latestCard THEN {"NOTHING_LEFT"} ELSE {})

(* ppp_get_warning_conditions without recent_failures: LAST_CARD when the  *)
(* current card (of ppp_calculate) is the latest printed, NOTHING_LEFT     *)
(* when it is past it.                                                     *)
Warnings(c) ==
    LET card == Position(c).card IN
    IF card = latestCard THEN {"LAST_CARD"}
    ELSE IF card > latestCard THEN {"NOTHING_LEFT"} ELSE {}

(* ppp_get_warning_message: <<message, warnings left>>.  NULL when no bit  *)
(* is left; RECENT_FAILURES first (snprintf's count is always >= 10, so    *)
(* its NULL return is never taken); then a switch on the exact value that  *)
(* asserts on any other combination.                                       *)
WarningMessage(w) ==
    IF w = {} THEN <<"NULL", w>>
    ELSE IF "RECENT_FAILURES" \in w THEN <<"failures", w \ {"RECENT_FAILURES"}>>
    ELSE CASE w = {"LAST_CARD"}    -> <<"last_card", {}>>
           [] w = {"NOTHING_LEFT"} -> <<"nothing_left", {}>>
           [] OTHER                -> <<"assert", w>>

(* The caller's loop: messages until NULL (or the assertion).              *)
RECURSIVE Drain(_)
Drain(w) ==
    LET m == WarningMessage(w) IN
    IF m[1] \in {"NULL", "assert"} THEN <<m[1]>> ELSE <<m[1]>> \o Drain(m[2])

-----------------------------------------------------------------------------
(* A freshly generated key (state_key_generate): counter 0, or a random    *)
(* salt in the high bits with card index 0.                                *)
Init ==
    /\ codeLength \in CodeLengths
    /\ salted \in BOOLEAN
    /\ counter \in IF salted THEN {s * 2^CodeBits : s \in 0..(2^(CounterBits - CodeBits) - 1)}
                   ELSE {0}
    /\ latestCard = 0

(* Mutant: the stored counter+1 skips ppp_load's number space check.       *)
IncrementUnchecked ==
    /\ counter < MaxCounter
    /\ counter' = counter + 1
    /\ UNCHANGED <<salted, codeLength, latestCard>>

(* ppp_increment: ppp_load verifies the range, then counter+1 is stored.   *)
Increment ==
    /\ VerifyRange(counter)
    /\ counter' = counter + 1
    /\ UNCHANGED <<salted, codeLength, latestCard>>

(* STATE_NUMSPACE: ppp_load fails from now on; nothing changes any more.   *)
Exhausted ==
    /\ ~VerifyRange(counter)
    /\ UNCHANGED vars

(* update_latest_card (spec 4.8, agent side): LP = max(LP, n) after the   *)
(* user printed card n, here the current card or the next one, up to      *)
(* MaxPrinted.                                                             *)
UpdateLatest ==
    /\ \E n \in {Position(counter).card, Position(counter).card + 1} :
         /\ n <= MaxPrinted
         /\ latestCard' = IF n > latestCard THEN n ELSE latestCard
    /\ UNCHANGED <<counter, salted, codeLength>>

Next == Increment \/ UpdateLatest \/ Exhausted

Spec == Init /\ [][Next]_vars

-----------------------------------------------------------------------------
TypeOK ==
    /\ counter \in 0..MaxCounter
    /\ salted \in BOOLEAN
    /\ codeLength \in CodeLengths
    /\ latestCard \in 0..MaxPrinted

(* The prompt names the passcode that is checked: while ppp_verify_range   *)
(* accepts the counter, the (card, column, row) ppp_calculate shows is     *)
(* accepted by ppp_get_passcode_number and maps back to the counter,       *)
(* salt included, and the card is one of the key's cards.                  *)
PositionRoundTrip ==
    VerifyRange(counter) =>
        LET pos == Position(counter)
        IN  /\ GetPasscodeNumber(pos.card, pos.column, pos.row) = counter
            /\ pos.card \in 1..MaxCard

(* Counting passcodes never changes the salt: ppp_increment's +1 on the    *)
(* full salted counter never carries out of the card index into the salt, *)
(* because ppp_load's range check stops the key first.                     *)
SaltPreserved ==
    [][salted => SaltOf(counter') = SaltOf(counter)]_vars

(* Spec 4.5: the user hears of running out of printed passcodes one card   *)
(* ahead: no login moves the counter from a position without warning      *)
(* straight past the latest printed card; it crosses a card on which       *)
(* ppp_get_warning_conditions said LAST_CARD.                              *)
WarnedBeforeNothingLeft ==
    [][("NOTHING_LEFT" \in Warnings(counter)' /\ "NOTHING_LEFT" \notin Warnings(counter))
         => "LAST_CARD" \in Warnings(counter)]_vars

(* The bits ppp_get_warning_conditions sets are the ones                   *)
(* ppp_get_warning_message can word: draining them, with or without the    *)
(* recent-failures bit, shows one message per bit and never reaches the    *)
(* switch's assert(0).                                                     *)
WarningsDrain ==
    \A rf \in BOOLEAN :
        LET w == Warnings(counter) \cup (IF rf THEN {"RECENT_FAILURES"} ELSE {})
            d == Drain(w)
        IN  /\ Len(d) = Cardinality(w) + 1
            /\ d[Len(d)] = "NULL"
=============================================================================
