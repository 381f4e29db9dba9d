------------------------------- MODULE Strings -------------------------------
(***************************************************************************)
(* sniper::strings as operators on sequences of characters.  An optional   *)
(* result is a set of at most one value.  The machine integers are scaled  *)
(* down by the constants, the relations between their limits are kept.     *)
(***************************************************************************)
EXTENDS Integers, Sequences, SequencesExt

CONSTANTS
    Int32Max,   \* INT32_MAX
    Int64Max,   \* INT64_MAX
    Digits64    \* decimal digits that always fit into int64_t: 18

ASSUME IntegerLimits ==
    /\ Int32Max \in Nat /\ Int64Max \in Nat /\ Digits64 \in Nat
    /\ Int32Max < Int64Max /\ 10 ^ Digits64 - 1 <= Int64Max

\* A fact of arithmetic.
ASSUME PowersOfTen ==
    10 ^ 0 = 1 /\ \A i \in 0..Digits64 : 10 ^ i \in Nat /\ 10 ^ (i + 1) = 10 * 10 ^ i

\* The first position from p on that holds a character of C, or one past the end.
FirstIn(s, p, C) ==
    LET at == SelectInSubSeq(s, p, Len(s), LAMBDA c : c \in C)
    IN  IF at = 0 THEN Len(s) + 1 ELSE at

\* The first position from p on that holds none.
FirstOutside(s, p, C) ==
    LET at == SelectInSubSeq(s, p, Len(s), LAMBDA c : c \notin C)
    IN  IF at = 0 THEN Len(s) + 1 ELSE at

-----------------------------------------------------------------------------
(* atoi.cpp                                                                *)

DigitChars == <<"0", "1", "2", "3", "4", "5", "6", "7", "8", "9">>
Digits == ToSet(DigitChars)
DigitOf(c) == SelectInSeq(DigitChars, LAMBDA d : d = c) - 1

\* int64_t in two's complement, as the shifts and additions compute it.
Wrap(x) == ((x + Int64Max + 1) % (2 * (Int64Max + 1))) - (Int64Max + 1)

Negative(s) == s[1] = "-"
DigitsFrom(s) == IF Negative(s) THEN 2 ELSE 1

\* The digits behind the sign up to the first other character.
Accumulated(s) ==
    LET from == DigitsFrom(s)
        x[i \in (from - 1)..Len(s)] ==
            IF i < from THEN 0 ELSE Wrap(10 * x[i - 1] + DigitOf(s[i]))
    IN  x[FirstOutside(s, from, Digits) - 1]

Signed(s) == IF Negative(s) THEN -Accumulated(s) ELSE Accumulated(s)

NotANumber(s) == s = <<>> \/ s[1] \notin Digits \cup {"-"}

FastAtoi32(s) ==
    IF NotANumber(s) \/ Accumulated(s) \notin (-Int32Max - 1)..Int32Max
    THEN {} ELSE {Signed(s)}

TooLong(s) == Len(s) > Digits64 + DigitsFrom(s) - 1

FastAtoi64(s) == IF NotANumber(s) \/ TooLong(s) THEN {} ELSE {Signed(s)}

-----------------------------------------------------------------------------
(* split.h, join.h, trim.cpp                                               *)

\* The loop of both split functions: the pieces of s from position p on.
Pieces(s, delim) ==
    LET cut[p \in 1..(Len(s) + 1)] ==
            LET e == FirstIn(s, p, delim)
            IN  IF e > Len(s) THEN <<SubSeq(s, p, Len(s))>>
                ELSE <<SubSeq(s, p, e - 1)>> \o cut[e + 1]
    IN  cut[1]

\* split without a limit: the pieces, or nothing when no delimiter occurs.
Split(s, delim) ==
    IF s = <<>> \/ FirstIn(s, 1, delim) > Len(s) THEN <<>> ELSE Pieces(s, delim)

\* out.size() reaches max_size and there is one more piece.
Overfull(s, delim, max) == Len(Split(s, delim)) > max

SplitMax(s, delim, max) ==
    [ok  |-> Split(s, delim) # <<>> /\ ~Overfull(s, delim, max),
     out |-> IF Overfull(s, delim, max) THEN SubSeq(Split(s, delim), 1, max) ELSE Split(s, delim)]

\* join: the separator is written once something was written.
Join(pieces, separator) ==
    LET joined[i \in 0..Len(pieces)] ==
            IF i = 0 \/ joined[i - 1] = <<>>
            THEN IF i = 0 THEN <<>> ELSE pieces[i]
            ELSE joined[i - 1] \o separator \o pieces[i]
    IN  joined[Len(pieces)]

Spaces == {" ", "\n", "\t", "\r"}

TrimLeft(s) == SubSeq(s, FirstOutside(s, 1, Spaces), Len(s))
TrimRight(s) == Reverse(TrimLeft(Reverse(s)))

-----------------------------------------------------------------------------
(* hex.cpp                                                                 *)

HexChars == DigitChars \o <<"a", "b", "c", "d", "e", "f">>

Bin2Hex(bytes) ==
    FlattenSeq([i \in DOMAIN bytes |->
        <<HexChars[(bytes[i] \div 16) + 1], HexChars[(bytes[i] % 16) + 1]>>])

\* DecLookup: letters of both cases, 0 for everything else.
DecLookup(c) ==
    LET upper == SelectInSeq(<<"A", "B", "C", "D", "E", "F">>, LAMBDA d : d = c)
        lower == SelectInSeq(HexChars, LAMBDA d : d = c)
    IN  IF upper > 0 THEN upper + 9 ELSE IF lower > 0 THEN lower - 1 ELSE 0

\* beyond is the character behind the input, read when the length is odd.
Hex2Bin(s, beyond) ==
    LET c == Append(s, beyond)
    IN  [i \in 1..((Len(s) + 1) \div 2) |->
            16 * DecLookup(c[2 * i - 1]) + DecLookup(c[2 * i])]

-----------------------------------------------------------------------------
(* replace.h                                                               *)

MacroChars == {"a", "z", "0", "_"}

\* Faulty variant: a brace inside an unfinished macro is taken as text.
Reopens_Never(s, i, b) == FALSE

\* A brace inside an unfinished macro begins another one.
Reopens(s, i, b) == s[i] = "{" /\ i > b

\* replace_macro from position i on; b is idx_macro_begin, 0 in State::Text.
\* The function func has the names that have a value.
ReplaceMacro(s, func) ==
    LET scan[i \in 1..(Len(s) + 1), b \in 0..Len(s)] ==
            IF i > Len(s) THEN <<>>
            ELSE IF b = 0 THEN IF s[i] = "{" THEN scan[i, i] ELSE <<s[i]>> \o scan[i + 1, 0]
            ELSE IF s[i] = "}"
                 THEN (IF i - b > 1 /\ SubSeq(s, b + 1, i - 1) \in DOMAIN func
                       THEN func[SubSeq(s, b + 1, i - 1)] ELSE SubSeq(s, b, i))
                      \o scan[i + 1, 0]
            ELSE IF Reopens(s, i, b) THEN SubSeq(s, b, i - 1) \o scan[i, 0]
            ELSE IF (i = b \/ s[i] \in MacroChars) /\ i < Len(s) THEN scan[i + 1, b]
            ELSE SubSeq(s, b, i) \o scan[i + 1, 0]
    IN  scan[1, 0]

=============================================================================
