------------------------------- MODULE Format -------------------------------
(***************************************************************************)
(* What the kernel prints: vsnprintf and itoa of the library in sdk/string *)
(* with which core/trace.c and core/panic.c build their messages.          *)
(*                                                                         *)
(* A buffer holds the characters before its terminating zero, so it is     *)
(* full with one character less than its size.  A conversion takes its     *)
(* argument from a sequence.  An unsigned argument is a number.            *)
(***************************************************************************)
EXTENDS Integers, Sequences, SequencesExt

\* The character at a place of a string, "" after its end.
Char(str, i) == IF i > Len(str) THEN "" ELSE SubSeq(str, i, i)

\* At most the first n characters.
Cut(str, n) == SubSeq(str, 1, IF n < Len(str) THEN n ELSE Len(str))

Digit(n) == Char("0123456789ABCDEF", n + 1)

\* Mutant: the digits stay in the order they were made.
AsMade(digits) == digits

\* "Result is in reverse".
Unreversed(digits) == Reverse(digits)

Text(chars) == FoldLeft(LAMBDA str, c : str \o c, "", chars)

\* The digits of n > 0 in a base, the last one first.
Digits(n, base) ==
  LET digits[k \in Nat] == IF k = 0 THEN <<>> ELSE <<Digit(k % base)>> \o digits[k \div base]
  IN  digits[n]

itoa_base10_convert(value) ==
  LET positive == IF value < 0 THEN -value ELSE value
      sign == IF value < 0 THEN <<"-">> ELSE <<>>
  IN  IF value = 0 THEN "0" ELSE Text(Unreversed(Digits(positive, 10) \o sign))

\* At least two digits.
itoa_convert_base16(n) ==
  LET pad == IF n < 16 THEN <<"0">> ELSE <<>>
  IN  IF n = 0 THEN "0x00" ELSE Text(Unreversed(Digits(n, 16) \o pad \o <<"x", "0">>))

itoa(value, base) == IF base = 10 THEN itoa_base10_convert(value) ELSE itoa_convert_base16(value)

AfterPrefix(str) == SubSeq(str, 3, Len(str))

\* Mutant: the room for the terminating zero is used as well.
ToTheBrim(size, buf, str) == Cut(buf \o str, size)

\* printstr, and printc for one character.
printstr(size, buf, str) == Cut(buf \o str, size - 1)

Repeated(c, n) == Text([i \in 1 .. n |-> c])

\* The first place from i on whose character is among these, or is not.
First(str, i, chars, among) ==
  Min({k \in i .. Len(str) + 1 : k > Len(str) \/ (Char(str, k) \in chars) = among})

DecimalDigits == {Digit(d) : d \in 0 .. 9}

Number(str) == FoldLeft(LAMBDA n, d : 10 * n + d, 0,
                        [i \in 1 .. Len(str) |-> CHOOSE d \in 0 .. 9 : Digit(d) = Char(str, i)])

\* What a conversion prints of its argument.  The width counts for %d only.
Converted(c, width, arg) ==
  CASE c = "c" -> arg
    [] c = "%" -> "%"
    [] c = "d" -> LET num == itoa(arg, 10) IN Repeated("0", width - Len(num)) \o num
    [] c = "p" -> LET num == itoa(arg, 16) IN "0x" \o Repeated("0", 18 - Len(num)) \o AfterPrefix(num)
    [] c = "x" -> AfterPrefix(itoa(arg, 16))
    [] c = "s" -> arg
    [] OTHER -> ""

\* One turn of the loop of vsnprintf, at place i of the format.  A width that %d
\* did not use stays, and the digits of the next one are appended to it (in 8
\* bits).  It returns 0 when a conversion has filled the buffer.
Turn(size, fmt, at) ==
  IF at.returned THEN at
  ELSE IF Len(at.buf) >= size - 1 THEN [at EXCEPT !.returned = TRUE, !.ret = 0]
  ELSE
    LET percent == First(fmt, at.i, {"%"}, TRUE)
        copied == printstr(size, at.buf, SubSeq(fmt, at.i, percent - 1))
        padded == Char(fmt, percent + 1) = "0"
        conv == IF padded THEN First(fmt, percent + 2, DecimalDigits, FALSE) ELSE percent + 1
        digits == SubSeq(fmt, percent + 2, conv - 1)
        width == IF padded THEN (at.pad_width * 10 ^ Len(digits) + Number(digits)) % 256
                           ELSE at.pad_width
        c == Char(fmt, conv)
        takes == c \in {"c", "d", "p", "x", "s"}
    IN  IF percent > Len(fmt) \/ Len(copied) = size - 1
          THEN [at EXCEPT !.buf = copied, !.returned = TRUE, !.ret = Len(copied)]
          ELSE [at EXCEPT !.buf = printstr(size, copied,
                                           Converted(c, width, IF takes THEN Head(at.args) ELSE "")),
                          !.i = conv + 1,
                          !.args = IF takes THEN Tail(@) ELSE @,
                          !.pad_width = IF c = "d" THEN 0 ELSE width]

\* Each turn but the last passes a conversion.
vsnprintf(size, fmt, args) ==
  LET after[n \in Nat] ==
        IF n = 0
          THEN [i |-> 1, buf |-> "", args |-> args, pad_width |-> 0, returned |-> FALSE, ret |-> 0]
          ELSE Turn(size, fmt, after[n - 1])
  IN  after[Cardinality({i \in 1 .. Len(fmt) : Char(fmt, i) = "%"}) + 1]
=============================================================================
