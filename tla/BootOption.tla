----------------------------- MODULE BootOption -----------------------------
(***************************************************************************)
(* univention-ucc-boot-option: one option of the boot parameters that LDAP *)
(* stores for a client is read, written or deleted.  The parameters are    *)
(* the values of an attribute; a value is a line of words, a word a        *)
(* sequence of characters.  Options are found with string.find and         *)
(* re.sub by the pattern "option= and all but blanks", anywhere in a word. *)
(* A word that becomes empty is left out: what remains of it are blanks,   *)
(* which nobody reads.                                                     *)
(***************************************************************************)
EXTENDS Integers, Sequences, SequencesExt, FiniteSetsExt

Assigns(option) == option \o <<"=">>

(* string.find and the place at which re.sub matches first; the rest of    *)
(* the word belongs to the match.                                          *)
Found(word, text) == {k \in 1 .. Len(word) - Len(text) + 1 :
                         SubSeq(word, k, k + Len(text) - 1) = text}
re_sub(word, text, new) ==
    IF Found(word, text) = {} THEN word
    ELSE SubSeq(word, 1, Min(Found(word, text)) - 1) \o new

(* lo.modify, from the way it is used: one value takes the place of        *)
(* another, an empty one goes, and one that is there already is refused.   *)
Refused(values, old, new) == new # old /\ new # <<>> /\ new \in Range(values)
modify(values, old, new) ==
    SelectSeq([i \in DOMAIN values |-> IF values[i] = old THEN new ELSE values[i]],
              LAMBDA line : line # <<>>)

(* --read --option: the last word that starts with the option decides.     *)
read_option(values, option) ==
    LET hits == SelectSeq(FlattenSeq(values), LAMBDA w : IsPrefix(Assigns(option), w))
    IN  IF hits = <<>> THEN <<>>
        ELSE SubSeq(Last(hits), Len(option) + 2, Len(Last(hits)))

(* The new text of one value.                                              *)
Rewritten(line, option, new) ==
    SelectSeq([i \in DOMAIN line |-> re_sub(line[i], Assigns(option), new)], LAMBDA w : w # <<>>)

Concerned(line, option) == \E i \in DOMAIN line : Found(line[i], Assigns(option)) # {}

(* --write: every value of the list as it was read is rewritten, until a   *)
(* change is refused, which ends the program.                              *)
Rewrite(values, option, new) ==
    FoldLeft(LAMBDA now, line :
                 LET value == Rewritten(line, option, new) IN
                 IF ~now.ok \/ ~Concerned(line, option) THEN now
                 ELSE IF Refused(now.values, line, value) THEN [now EXCEPT !.ok = FALSE]
                 ELSE [now EXCEPT !.values = modify(@, line, value)],
             [values |-> values, ok |-> TRUE], values)

write_option(values, option, value) ==
    IF \E i \in DOMAIN values : Concerned(values[i], option)
    THEN Rewrite(values, option, Assigns(option) \o value)
    ELSE [values |-> Append(values, <<Assigns(option) \o value>>), ok |-> TRUE]

delete_option(values, option) == Rewrite(values, option, <<>>)
=============================================================================
