-------------------------------- MODULE Text ---------------------------------
(***************************************************************************)
(* Texts that arrive character by character, read again from the start     *)
(* after each: what the parsers and conversions make of them.              *)
(***************************************************************************)
EXTENDS HttpHead

CONSTANTS
    Inputs      \* per kind of text: texts to begin with, characters and the bound on its length

ASSUME StartTexts == \A k \in DOMAIN Inputs : \A s \in Inputs[k].start : s \in Seq(ToSet(s))

VARIABLES
    kind,       \* which function reads the text
    text,       \* the characters so far
    head,       \* what parse says of them, if they are a head
    over        \* a character came after the head was decided
textVars == <<kind, text, head, over>>

Heads == kind \in {"request", "headers", "repeated", "connection", "response"}
HeadOf(k, s) ==
    CASE k \in {"request", "headers", "repeated", "connection"} -> RequestHead(s)
      [] k = "response" -> ResponseHead(s)
      [] OTHER -> [status |-> "None"]

TextInit ==
    /\ \E k \in DOMAIN Inputs : kind = k /\ text \in Inputs[k].start
    /\ head = HeadOf(kind, text) /\ over = FALSE

Decided == Heads /\ text # <<>> /\ head.status # "Partial"

\* The next character arrives; a head that was decided grows by one more only.
Grow ==
    /\ Len(text) < Inputs[kind].max /\ ~over
    /\ \E c \in Inputs[kind].chars : text' = Append(text, c)
    /\ head' = HeadOf(kind, text') /\ over' = Decided
    /\ UNCHANGED kind

TextSpec == TextInit /\ [][Grow]_textVars

-----------------------------------------------------------------------------
(* Properties                                                              *)

\* A head is parsed again with every read: what parse said of it, other than
\* Partial, is what it says however many bytes follow.
HeadStable == [][Decided => head' = head]_textVars

\* Where an empty line ends, not counting one in front of a request.
LineEnds(s) == {e \in DOMAIN s : s[e] = LF}
EmptyLines(s) ==
    {e \in LineEnds(s) :
        /\ e > 1 => s[e - 1] = LF \/ (s[e - 1] = CR /\ (e = 2 \/ s[e - 2] = LF))
        /\ \E p \in 1..(e - 1) : s[p] \notin {CR, LF}}

\* A complete head ends with its first empty line, whatever mixture of line
\* ends it has.  Behind that line none is waited for, but for the 9 bytes that
\* the parser wants to see from where the version should be.
HeadEnds ==
    Heads =>
        LET ends == EmptyLines(text)
        IN  /\ head.status = "Complete" =>
                \E e \in ends : head.size = Bytes(SubSeq(text, 1, e)) /\ \A d \in ends : d >= e
            /\ head.status = "Partial" =>
                \A e \in ends : Bytes(From(text, e)) < 9

\* Headers whose names the code tells apart: not a part of one another.
Distinct(lines) ==
    \A i \in DOMAIN lines : \A n \in {ContentLength, Connection} :
        IEquals(lines[i][1], n) => lines[i][1] = n

\* A header without its name's letters cannot shadow the first content-length,
\* and neither blanks nor line ends get into names and values.
HeadersRead ==
    Heads /\ head.status = "Complete" =>
        LET h == head.headers
            lengths == {i \in DOMAIN h : h[i][1] = ContentLength}
        IN  /\ \A i \in DOMAIN h :
                /\ ToSet(h[i][1]) \cap NotInNames = {}
                /\ ToSet(h[i][2]) \cap Controls = {}
                /\ h[i][2] # <<>> => Last(h[i][2]) \notin Blanks
                /\ h[i][1] = <<>> => i > 1
            /\ kind = "response" \/ Distinct(h) =>
                head.length = IF lengths = {} THEN {0}
                               ELSE FastAtoi64(h[CHOOSE i \in lengths : \A j \in lengths : i <= j][2])

\* With a limit on its size, a request is decided at the latest when that many
\* bytes are in the buffer; it is complete only with all its bytes, unless its
\* content-length is negative.
Bounded ==
    Heads /\ kind # "response" /\ text # <<>> =>
        LET total == Bytes(text)
        IN  \A maxSize \in (IF total = 1 THEN 1 ELSE total - 1)..(total + 1) :
            LET status == ParseRequest(head, total, maxSize)
            IN  /\ total >= maxSize => status # "Partial"
                /\ status = "Complete" =>
                    \A n \in head.length : n >= 0 => head.size + n <= total /\ head.size + n <= maxSize

Decimal(s) ==
    LET n[i \in 0..Len(s)] == IF i = 0 THEN 0 ELSE 10 * n[i - 1] + DigitOf(s[i])
    IN  n[Len(s)]

\* A number with a sign is read exactly or refused.  atoi64 reads every one up to
\* the maximum that atoi.h:26 names and none that is too long; in between, where
\* the code goes on reading, what it reads is exact.  atoi32 refuses every one
\* whose digits exceed INT32_MAX, INT32_MIN among them, as long as they do not
\* overflow the 64 bits it is computed in.
NumbersExact ==
    kind = "number" /\ text # <<>> =>
        LET digits == IF Negative(text) THEN Tail(text) ELSE text
            n == IF Negative(text) THEN -Decimal(digits) ELSE Decimal(digits)
        IN  ToSet(digits) \subseteq Digits =>
            /\ FastAtoi64(text) \subseteq {n}
            /\ Len(digits) <= Digits64 /\ Decimal(digits) <= Int64Max \div 10 =>
                FastAtoi64(text) = {n}
            /\ Len(digits) > Digits64 => FastAtoi64(text) = {}
            /\ Decimal(digits) <= Int64Max =>
                FastAtoi32(text) = IF Decimal(digits) <= Int32Max THEN {n} ELSE {}

\* The parts of a target are the target, cut at the first mark of each kind:
\* a mark behind the fragment's belongs to the fragment.
TargetExact ==
    kind = "target" =>
        LET t == SplitPath(text)
        IN  /\ \E q \in {<<>>, <<"?">>}, f \in {<<>>, <<"#">>} :
                /\ t.path \o q \o t.qs \o f \o t.fragment = text
                /\ q = <<>> => t.qs = <<>>
                /\ f = <<>> => t.fragment = <<>>
            /\ "?" \notin ToSet(t.path) /\ "#" \notin ToSet(t.path \o t.qs)

=============================================================================
