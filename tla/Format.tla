------------------------------- MODULE Format --------------------------------
(***************************************************************************)
(* The formatted output of programs and of the kernel: printf into the     *)
(* stream, log onto the serial line (library/shared/sys.c), and kernel_log *)
(* (kernel/log.c).  What comes out is a sequence of characters and, where  *)
(* the kernel is asked to write a number, of such requests.  The serial    *)
(* driver writes numbers itself.                                           *)
(*                                                                         *)
(* Fractions are kept as hundredths, so that nothing is lost in rounding.  *)
(***************************************************************************)
EXTENDS LibString, FiniteSets

CONSTANT Calls          \* bound: what is called, with what

VARIABLE format         \* a call: the string, its arguments, what came out

formatVars == <<format>>

Glyph(c) == [char |-> c]
Glyphs(s) == [k \in DOMAIN s |-> Glyph(s[k])]

DigitLimit == 7         \* bound: of the digits of a number

(* driver_serial_value: digits from the last, up to the prefix zeros; the  *)
(* character to fill up with is not used.                                  *)
SerialValue(value, base, prefix) ==
  LET Shape(n) == (<<"0", "1", "2", "3", "4", "5", "6", "7", "8", "9",
                     "A", "B", "C", "D", "E", "F">>)[n + 1]
      count == Min({n \in 1 .. DigitLimit : value < base ^ n /\ n >= prefix})
  IN [k \in 1 .. count |-> Glyph(Shape((value \div base ^ (count - k)) % base))]

(* A number, for who writes it: the kernel, or the serial driver. *)
Figure(to, value, base, prefix, fill) ==
  IF to = "printf" THEN <<[value |-> value, base |-> base, prefix |-> prefix, fill |-> fill]>>
  ELSE SerialValue(value, base, prefix)

Minus(n) == IF n < 0 THEN Glyphs(<<"-">>) ELSE <<>>
Abs(n)   == IF n < 0 THEN - n ELSE n

Signed(to, n, prefix) == Minus(n) \o Figure(to, Abs(n), 10, prefix, " ")

(* Mutant: the digits of a fraction are not filled up. *)
FractionUnfilled(to, n, digits) ==
  Figure(to, n \div 100, 10, 1, " ") \o Glyphs(<<".">>)
    \o Figure(to, ((n % 100) * 10 ^ (IF digits = 0 THEN 6 ELSE digits)) \div 100, 10, 1, "0")

Fraction(to, n, digits) ==
  Figure(to, n \div 100, 10, 1, " ") \o Glyphs(<<".">>)
    \o Figure(to, ((n % 100) * 10 ^ (IF digits = 0 THEN 6 ELSE digits)) \div 100, 10,
               digits, "0")

-----------------------------------------------------------------------------
Here(i) == IF i > Len(format.string) THEN "end" ELSE format.string[i]

(* Something comes out, an argument may be taken, and the loop goes on. *)
Goes(out, taken, next) ==
  format' = [format EXCEPT !.out = @ \o out, !.i = next,
                           !.args = IF taken THEN Tail(@) ELSE @]

(* printf and log: up to the next sequence. *)
UpToSequence ==
  /\ Here(format.i) \notin {"%", "end"}
  /\ LET k == Min({j \in format.i .. Len(format.string) + 1 : Here(j) \in {"%", "end"}})
     IN Goes(Glyphs(SubSeq(format.string, format.i, k - 1)), FALSE, k)

(* A sequence.  After some the character that follows is lost. *)
Sequence ==
  /\ Here(format.i) = "%"
  /\ LET p      == ScopeEnd(format.string, format.i + 1)
         prefix == StringToInteger(format.string, format.i + 1)
         suffix == StringToInteger(format.string, p + 1)
         arg    == Head(format.args)
     IN CASE Here(p) = "%" -> Goes(Glyphs(<<"%">>), FALSE, p + 2)
          [] Here(p) = "c" -> Goes(Glyphs(<<arg>>), TRUE, p + 1)
          [] Here(p) = "s" -> Goes(Glyphs(arg), TRUE, p + 1)
          [] Here(p) = "d" -> Goes(Signed(format.to, arg, prefix), TRUE, p + 1)
          [] Here(p) = "x" /\ format.to = "log" -> Goes(SerialValue(arg, 16, 1), TRUE, p + 1)
          [] Here(p) \in {".", "f"} ->
               Goes(Minus(arg) \o Fraction(format.to, Abs(arg), suffix), TRUE,
                    ScopeEnd(format.string, p + 1) + 1)
          [] OTHER -> Goes(<<>>, FALSE, p + 2)

(* kernel_log: a character, or a sequence of two; strings are sent with a  *)
(* length of zero.                                                         *)
KernelLog ==
  LET arg == Head(format.args) IN
  \/ /\ Here(format.i) # "end" /\ ~ (Here(format.i) = "%" /\ Here(format.i + 1) # "end")
     /\ Goes(Glyphs(<<Here(format.i)>>), FALSE, format.i + 1)
  \/ /\ Here(format.i) = "%" /\ Here(format.i + 1) # "end"
     /\ CASE Here(format.i + 1) = "%" -> Goes(Glyphs(<<"%">>), FALSE, format.i + 2)
          [] Here(format.i + 1) = "c" -> Goes(Glyphs(<<arg>>), TRUE, format.i + 2)
          [] Here(format.i + 1) = "d" -> Goes(SerialValue(arg, 10, 1), TRUE, format.i + 2)
          [] Here(format.i + 1) = "x" -> Goes(SerialValue(arg, 16, 1), TRUE, format.i + 2)
          [] Here(format.i + 1) = "s" -> Goes(<<>>, TRUE, format.i + 2)
          [] OTHER                  -> Goes(<<>>, FALSE, format.i + 2)

-----------------------------------------------------------------------------
(* What is asked for: text, or a conversion with what it converts.  Parts  *)
(* [text], [c], [s], [d with prefix], [x], [f with digits], [percent].     *)
Spelled(part) ==
  CASE part.kind = "text"    -> part.arg
    [] part.kind = "percent" -> <<"%", "%">>
    [] part.kind = "d"       -> <<"%">> \o part.prefix \o <<"d">>
    [] part.kind = "f"       -> <<"%">> \o part.prefix \o <<".">> \o part.suffix \o <<"f">>
    [] OTHER                 -> <<"%", part.kind>>

Asked(to, part) ==
  CASE part.kind = "text"    -> Glyphs(part.arg)
    [] part.kind = "percent" -> Glyphs(<<"%">>)
    [] part.kind = "c"       -> Glyphs(<<part.arg>>)
    [] part.kind = "s"       -> Glyphs(part.arg)
    [] part.kind = "d"       -> Signed(to, part.arg, StringToInteger(part.prefix, 1))
    [] part.kind = "x"       -> SerialValue(part.arg, 16, 1)
    [] part.kind = "f"       ->
         LET digits == StringToInteger(part.suffix, 1)
             n      == (Abs(part.arg) * 10 ^ digits) \div 100
             Tens(k) == 10 ^ k
         IN Minus(part.arg) \o Figure(to, n \div Tens(digits), 10, 1, " ") \o Glyphs(<<".">>)
              \o (IF to = "log" THEN [k \in 1 .. digits |->
                                        Glyph(Digits[((n \div Tens(digits - k)) % 10) + 1])]
                  ELSE Figure(to, n % Tens(digits), 10, digits, "0"))

FormatInit ==
  \E c \in Calls :
    format = [to |-> c.to, parts |-> c.parts, i |-> 1, out |-> <<>>,
              string |-> FlattenSeq([k \in DOMAIN c.parts |-> Spelled(c.parts[k])]),
              args |-> LET taken == SelectSeq(c.parts, LAMBDA part :
                                              part.kind \notin {"text", "percent"})
                       IN [k \in DOMAIN taken |-> taken[k].arg]]

FormatNext ==
  \/ format.to \in {"printf", "log"} /\ (UpToSequence \/ Sequence)
  \/ format.to = "kernel_log" /\ KernelLog

FormatSpec == FormatInit /\ [][FormatNext]_formatVars

-----------------------------------------------------------------------------
(* What comes out is what was asked for, part by part, each argument in    *)
(* its place (sys.c:176-290, 312-420; kernel/log.c).                       *)
FormatsAsAsked ==
  Here(format.i) = "end" =>
    format.out = FlattenSeq([k \in DOMAIN format.parts |-> Asked(format.to, format.parts[k])])
=============================================================================
