------------------------------ MODULE AsciiCase ------------------------------
(***************************************************************************)
(* strings/ascii_case.cpp: letters to lower case, word by word.            *)
(***************************************************************************)
EXTENDS Integers, Sequences, Bitwise

\* b in each of n bytes.
Repeat(b, n) == LET word[i \in 0..n] == IF i = 0 THEN 0 ELSE 256 * word[i - 1] + b IN word[n]

\* toLowerAscii8, 32 and 64 on a word c of n bytes.
ToLowerWord(c, n) ==
    LET folded == (c & Repeat(127, n)) + Repeat(37, n)
        marked == (folded & Repeat(127, n)) + Repeat(26, n)
        upper  == marked & (Repeat(255, n) - c)
    IN  c + ((upper \div 4) & Repeat(32, n))

\* Characters converted one by one before the first aligned word.
Unaligned(str, length) ==
    LET n == IF str % 4 > length THEN length ELSE str % 4
    IN  IF n = 0 THEN 0 ELSE IF 4 - n > length THEN length ELSE 4 - n

\* to_lower_ascii: the words it converts, as <<offset, bytes>> in this order.
Words(str, length) ==
    LET from == Unaligned(str, length)
        early == (str + from) % 8 # 0 /\ from + 4 <= length
        next[o \in 0..length] ==
            IF o = length THEN <<>>
            ELSE LET n == IF o + 8 <= length THEN 8 ELSE IF o + 4 <= length THEN 4 ELSE 1
                 IN  <<<<o, n>>>> \o next[o + n]
    IN  [i \in 1..from |-> <<i - 1, 1>>]
        \o (IF early THEN <<<<from, 4>>>> \o next[from + 4] ELSE next[from])

=============================================================================
