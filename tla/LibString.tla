------------------------------- MODULE LibString ------------------------------
(***************************************************************************)
(* library/shared/string.c, on sequences of one-character strings.         *)
(***************************************************************************)
EXTENDS Integers, Sequences, SequencesExt

Digits == <<"0", "1", "2", "3", "4", "5", "6", "7", "8", "9">>
Digit(c) == (CHOOSE d \in DOMAIN Digits : Digits[d] = c) - 1

(* lib_string_length_scope_digit: where the digits and signs from i on end.*)
ScopeEnd(s, i) ==
  Min({j \in i .. Len(s) + 1 : j = Len(s) + 1 \/ s[j] \notin ToSet(Digits) \union {"-"}})

(* lib_string_to_integer, in the decimal system, from the last digit to    *)
(* the first or to a sign.  What overflows is left out.                    *)
StringToInteger(s, i) ==
  LET Step(acc, c) ==
        CASE acc.signed -> acc
          [] c = "-"    -> [acc EXCEPT !.signed = TRUE, !.value = - @]
          [] OTHER      -> [acc EXCEPT !.value = @ + Digit(c) * acc.order,
                                       !.order = @ * 10]
  IN FoldLeft(Step, [value |-> 0, order |-> 1, signed |-> FALSE],
              Reverse(SubSeq(s, i, ScopeEnd(s, i) - 1))).value

(* lib_string_trim and lib_string_word; only the space does not print. *)
Trimmed(s) ==
  LET at == {i \in DOMAIN s : s[i] # " "} IN
  IF at = {} THEN <<>> ELSE SubSeq(s, Min(at), Max(at))

Word(s) ==
  LET at == {i \in DOMAIN s : s[i] = " "} IN
  IF at = {} THEN s ELSE SubSeq(s, 1, Min(at) - 1)
=============================================================================
