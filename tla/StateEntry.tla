------------------------------ MODULE StateEntry ------------------------------
(***************************************************************************)
(* The text of one state-file entry, src/src/libotp/db_file.c:             *)
(* _db_generate_user_entry writes it with snprintf; db_file_load reads it  *)
(* back with fgets (in _db_find_user_entry), _strtok and                   *)
(* _db_parse_user_entry, and copies label and contact with strncpy.        *)
(*                                                                         *)
(* A text is a sequence of one-character strings.  The numeric fields      *)
(* (key, counters, lengths, flags, times) are each one opaque token: their *)
(* hex/decimal conversions are inverse to each other and not what this     *)
(* module is about.  The username, static password, label and contact are  *)
(* free text.                                                              *)
(***************************************************************************)
EXTENDS Integers, Sequences

CONSTANTS
    MaxFieldSize,  \* STATE_MAX_FIELD_SIZE
    LabelSize,     \* STATE_LABEL_SIZE, bytes of s->label with its NUL
    ContactSize,   \* STATE_CONTACT_SIZE
    EntrySize      \* STATE_ENTRY_SIZE, the snprintf and fgets buffer

(* _version, _delim and fields.                                            *)
Version == <<"1">>
Delim == ":"
Fields == 15

(* An error result (STATE_PARSE_ERROR, or the store's error): the empty    *)
(* text, which no entry written or line accepted is.                       *)
Error == <<>>

(* The fields of a state value in FIELD_USER .. FIELD_CONTACT order.       *)
Render(st) ==
    <<st.user, Version, <<"k">>, <<"c">>, <<"l">>, <<"f">>, <<"r">>, <<"t">>,
      <<"4">>, <<"1">>, <<"0">>, st.spass, <<"s">>, st.label, st.contact>>

RECURSIVE JoinFields(_)
JoinFields(fs) ==
    IF Len(fs) = 1 THEN Head(fs) ELSE Head(fs) \o <<Delim>> \o JoinFields(Tail(fs))

(* _db_generate_user_entry: snprintf writes at most EntrySize-1 characters *)
(* and returns the full length; only tmp < 10 and tmp == buff_length are   *)
(* refused, so a longer entry is written cut short.                        *)
GenerateUserEntry(st) ==
    LET full == JoinFields(Render(st)) \o <<"\n">>
    IN  IF Len(full) < 10 \/ Len(full) = EntrySize THEN Error
        ELSE SubSeq(full, 1, IF Len(full) < EntrySize THEN Len(full) ELSE EntrySize - 1)

(* The first index of character c in s, or 0.                              *)
IndexOf(s, c) ==
    IF \E i \in 1..Len(s) : s[i] = c THEN CHOOSE i \in 1..Len(s) : s[i] = c /\ \A j \in 1..(i - 1) : s[j] # c
    ELSE 0

(* fgets and the checks of _db_find_user_entry: the line up to its first   *)
(* newline, at most EntrySize-1 characters; no newline at its end (line    *)
(* too long, or an entry cut short) or fewer than 10 characters is         *)
(* STATE_PARSE_ERROR.                                                      *)
ReadLine(text) ==
    LET n    == IndexOf(text, "\n")
        line == SubSeq(text, 1, IF n = 0 \/ n > EntrySize - 1
                                THEN IF Len(text) < EntrySize - 1 THEN Len(text) ELSE EntrySize - 1
                                ELSE n)
    IN  IF line = <<>> \/ line[Len(line)] # "\n" \/ Len(line) < 10 THEN Error ELSE line

(* _strtok: strsep on ':' of the whole line, each token cut at a newline.  *)
RECURSIVE Strsep(_)
Strsep(s) ==
    LET i == IndexOf(s, Delim)
    IN  IF i = 0 THEN <<s>> ELSE <<SubSeq(s, 1, i - 1)>> \o Strsep(SubSeq(s, i + 1, Len(s)))
CutNewline(t) == IF IndexOf(t, "\n") = 0 THEN t ELSE SubSeq(t, 1, IndexOf(t, "\n") - 1)
Strtok(line) == LET t == Strsep(line) IN [i \in DOMAIN t |-> CutNewline(t[i])]

(* Mutant: a sixteenth token is not refused.                               *)
ParseNoExtraCheck(line) ==
    LET t == Strtok(line) IN
    IF Len(t) < Fields \/ \E i \in 1..Fields : Len(t[i]) > MaxFieldSize \/ t[2] # Version
    THEN Error
    ELSE SubSeq(t, 1, Fields)

(* _db_parse_user_entry: 15 fields, none longer than STATE_MAX_FIELD_SIZE, *)
(* the version field equal to _version, and no token after the last.       *)
ParseUserEntry(line) ==
    LET t == Strtok(line) IN
    IF Len(t) < Fields \/ \E i \in 1..Fields : Len(t[i]) > MaxFieldSize \/ t[2] # Version
    THEN Error
    ELSE IF Len(t) > Fields THEN Error
    ELSE t

(* state_validate_str (not under src/; spec 3: printable, no delimiter of  *)
(* the file format).                                                       *)
ValidStr(s) == \A i \in 1..Len(s) : s[i] \notin {Delim, "\n"}

(* strncpy(dst, field, size-1) copies at most size-1 characters; the       *)
(* "too long" test then reads dst[size-1], which strncpy never writes: it  *)
(* holds what the state held before, so the test may or may not fire.     *)
Copy(field, size) == SubSeq(field, 1, IF Len(field) < size THEN Len(field) ELSE size - 1)

(* db_file_load from the line on: the state values it may produce, Error   *)
(* among them.  An empty static password field leaves spass unset.         *)
LoadEntry(text) ==
    LET line == ReadLine(text) IN
    IF line = Error THEN {Error} ELSE
    LET f == ParseUserEntry(line) IN
    IF f = Error THEN {Error} ELSE
    LET st == [user |-> f[1], spass |-> f[12],
               label |-> Copy(f[14], LabelSize), contact |-> Copy(f[15], ContactSize)]
    IN  IF ValidStr(st.label) /\ ValidStr(st.contact) THEN {st, Error} ELSE {Error}
=============================================================================
