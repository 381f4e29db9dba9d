----------------------------- MODULE Conversions ------------------------------
(***************************************************************************)
(* What the conversions make of a text, against reference definitions.     *)
(***************************************************************************)
EXTENDS Text, AsciiCase, FiniteSets

\* Pieces put together again are the text, but for the empty ones in front.
ListExact ==
    LET p == Split(text, {",", ";"})
        noComma == Split(text, {";"})
    IN  /\ Len(p) > 0 => Len(p) = 1 + Len(SelectSeq(text, LAMBDA c : c \in {",", ";"}))
        /\ \A n \in 0..4 : LET m == SplitMax(text, {",", ";"}, n)
                           IN  Len(m.out) <= n /\ (m.ok <=> m.out = p /\ p # <<>>)
        /\ noComma # <<>> /\ noComma[1] # <<>> => Join(noComma, <<";">>) = text
        /\ LET t == TrimLeft(TrimRight(text))
           IN  /\ t # <<>> => t[1] \notin Spaces /\ Last(t) \notin Spaces
               /\ \E i, j \in 0..Len(text) :
                    /\ t = SubSeq(text, i + 1, j)
                    /\ ToSet(SubSeq(text, 1, i)) \cup ToSet(From(text, j + 1)) \subseteq Spaces

\* Where a macro begins: a brace, a name, a brace.
MacroAt(i, j) ==
    text[i] = "{" /\ text[j] = "}" /\ j > i + 1 /\ \A k \in (i + 1)..(j - 1) : text[k] \in MacroChars

\* Every macro with a name is replaced, and everything else is copied.
MacrosExact ==
    LET macros == {m \in (DOMAIN text) \X (DOMAIN text) : m[1] < m[2] /\ MacroAt(m[1], m[2])}
        names  == {SubSeq(text, i, j) : i, j \in DOMAIN text}
    IN  /\ ReplaceMacro(text, <<>>) = text
        /\ ReplaceMacro(text, [n \in names |-> <<"M">>]) =
            FlattenSeq([i \in DOMAIN text |->
                IF \E m \in macros : m[1] = i THEN <<"M">>
                ELSE IF \E m \in macros : m[1] < i /\ i <= m[2] THEN <<>> ELSE <<text[i]>>])

\* Words are aligned and cover each character once, wherever the text lies.
WordsExact ==
    \A str \in 0..7 :
        LET w == Words(str, Len(text))
        IN  /\ \A i \in DOMAIN w : w[i][2] = 4 => (str + w[i][1]) % 4 = 0
            /\ \A i \in DOMAIN w : w[i][1] = IF i = 1 THEN 0 ELSE w[i - 1][1] + w[i - 1][2]
            /\ text # <<>> => Last(w)[1] + Last(w)[2] = Len(text)

Lower(b) == IF b \in 65..90 THEN b + 32 ELSE b

\* Neighbours in a word do not disturb each other.
LowerExact ==
    \A i \in 1..(Len(text) - 1) : \A b \in 60..95 :
        ToLowerWord(256 * text[i] + b, 2) = 256 * Lower(text[i]) + Lower(b)

\* Every parameter of the query string that is not empty is kept.
ParamsKept ==
    LET t == SplitPath(text)
    IN  Len(t.params) = Cardinality({i \in DOMAIN t.qs : t.qs[i] # "&" /\ (i = 1 \/ t.qs[i - 1] = "&")})

\* Numbers and targets, as Text has it, lists, macros, hexadecimal bytes, letters
\* and query strings: what is taken apart is the whole text, and what is converted
\* has one value.
TextExact ==
    /\ NumbersExact /\ TargetExact
    /\ CASE kind = "list" -> ListExact
         [] kind = "macro" -> MacrosExact
         [] kind = "lower" -> WordsExact
         [] kind = "bytes" -> LowerExact /\ Hex2Bin(Bin2Hex(text), "?") = text
         [] kind = "target" -> ParamsKept
         [] OTHER -> TRUE

=============================================================================
