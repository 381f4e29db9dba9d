------------------------------ MODULE HttpHead -------------------------------
(***************************************************************************)
(* Heads of HTTP messages: picohttpparser with pico::Request and           *)
(* pico::Response on top of it.  A text is a sequence of characters; words *)
(* the parsers compare as a whole are one character of several bytes, and  *)
(* names differ only in case are the same.                                 *)
(***************************************************************************)
EXTENDS Strings

CONSTANT MaxHeaders     \* MAX_HEADERS

ASSUME HeaderLimit == MaxHeaders \in Nat

CR == "\r"
LF == "\n"
Blanks == {" ", "\t"}
Versions == {"HTTP/1.0", "HTTP/1.1"}

Widths == [c \in {"HTTP/1.0", "HTTP/1.1", "con", "tent-length", "nection", "keep-alive", "close"} |->
    CASE c \in Versions -> 8 [] c = "con" -> 3 [] c = "tent-length" -> 11
      [] c = "nection" -> 7 [] c = "keep-alive" -> 10 [] c = "close" -> 5]
Width(c) == IF c \in DOMAIN Widths THEN Widths[c] ELSE 1
Bytes(s) ==
    LET n[i \in 0..Len(s)] == IF i = 0 THEN 0 ELSE n[i - 1] + Width(s[i])
    IN  n[Len(s)]
From(s, p) == SubSeq(s, p, Len(s))

\* Below 0x20 or 0x7f, without the tab.
Controls == {CR, LF, "ctl"}
\* token_char_map is 0: controls, blanks and separators.
NotInNames == Controls \cup Blanks \cup {":", "/", "?", "="}

\* *ret of a failing function; a position is positive.
Incomplete == -2
Bad == -1

-----------------------------------------------------------------------------
(* picohttpparser.c                                                        *)

\* Faulty variant: CR at the end of what arrived ends a line.
EndLine_Bare(s, e) ==
    IF e > Len(s) THEN Incomplete
    ELSE IF s[e] = LF \/ (s[e] = CR /\ e = Len(s)) THEN e + 1
    ELSE IF s[e] = CR /\ s[e + 1] = LF THEN e + 2 ELSE Bad

\* The end of a line at position e: CR LF or LF; the position behind it.
EndLine(s, e) ==
    IF e > Len(s) THEN Incomplete
    ELSE IF s[e] = LF THEN e + 1
    ELSE IF s[e] # CR THEN Bad
    ELSE IF e = Len(s) THEN Incomplete
    ELSE IF s[e + 1] = LF THEN e + 2 ELSE Bad

\* ADVANCE_TOKEN: the position of the space that ends the token.
AdvanceToken(s, p) ==
    LET e == FirstIn(s, p, Controls \cup Blanks)
    IN  IF e > Len(s) THEN Incomplete ELSE IF s[e] = " " THEN e ELSE Bad

\* get_token_to_eol: the character that ends the text of the line.
TokenToEol(s, p) == FirstIn(s, p, Controls)

\* parse_http_version.
Version(s, p) ==
    IF Bytes(From(s, p)) < 9 THEN Incomplete
    ELSE IF s[p] \in Versions THEN p + 1 ELSE Bad

NoVersion == ""
Failure(ret) == [ret |-> ret, lines |-> <<>>, version |-> NoVersion]

\* Removes the blanks behind a value.
WithoutBlanks(v) == LET r == Reverse(v) IN Reverse(From(r, FirstOutside(r, 1, Blanks)))

\* The value that begins at position v, and the next line.
ValueLine(s, name, v) ==
    LET e == TokenToEol(s, v)
        next == EndLine(s, e)
    IN  IF next < 0 THEN Failure(next)
        ELSE [Failure(next) EXCEPT !.lines = <<<<name, WithoutBlanks(SubSeq(s, v, e - 1))>>>>]

\* The value of the header before goes on: a header without a name.
Folded(s, p, n) == n > 0 /\ s[p] \in Blanks

HeaderLine(s, p, n) ==
    LET colon == FirstIn(s, p, NotInNames)
        value == FirstOutside(s, colon + 1, Blanks)
    IN  IF Folded(s, p, n) THEN ValueLine(s, <<>>, p)
        ELSE IF colon > Len(s) THEN Failure(Incomplete)
        ELSE IF s[colon] # ":" \/ colon = p THEN Failure(Bad)
        ELSE IF value > Len(s) THEN Failure(Incomplete)
        ELSE ValueLine(s, SubSeq(s, p, colon - 1), value)

\* parse_headers; n is how many headers may still come.
ParseHeaders(s, from) ==
    LET parse[n \in 0..MaxHeaders] ==
            [p \in from..(Len(s) + 1) |->
                IF p > Len(s) THEN Failure(Incomplete)
                ELSE IF s[p] \in {CR, LF} THEN Failure(EndLine(s, p))
                ELSE IF n = 0 THEN Failure(Bad)
                ELSE LET line == HeaderLine(s, p, MaxHeaders - n)
                         rest == parse[n - 1][line.ret]
                     IN  IF line.ret < 0 THEN line ELSE [rest EXCEPT !.lines = line.lines \o @]]
    IN  parse[MaxHeaders][from]

\* The head of that version behind its first line, which ends at ret.
Headers(s, version, ret) ==
    IF ret < 0 THEN Failure(ret) ELSE [ParseHeaders(s, ret) EXCEPT !.version = version]

\* parse_request, part by part: the method from start to space, the path from
\* there to its end, the version.
AfterVersion(s, version, end) ==
    IF end < 0 THEN Failure(end) ELSE Headers(s, s[version], EndLine(s, end))

AfterPath(s, start, space, end) ==
    IF end < 0 THEN Failure(end)
    ELSE IF space = start \/ end = space + 1 THEN Failure(Bad)
    ELSE AfterVersion(s, end + 1, Version(s, end + 1))

AfterMethod(s, start, space) ==
    IF space < 0 THEN Failure(space)
    ELSE AfterPath(s, start, space, AdvanceToken(s, space + 1))

FromMethod(s, start) ==
    IF start < 0 THEN Failure(start) ELSE AfterMethod(s, start, AdvanceToken(s, start))

\* phr_parse_request; one empty line may come first.
PhrParseRequest(s) == FromMethod(s, IF s[1] \in {CR, LF} THEN EndLine(s, 1) ELSE 1)

\* The message of a status line and its end.
AfterStatus(s, msg, end) ==
    IF end < 0 THEN Failure(end)
    ELSE IF msg > 6 /\ s[6] # " " THEN Failure(Bad)
    ELSE Headers(s, s[1], end)

\* parse_response and phr_parse_response.
PhrParseResponse(s) ==
    IF Version(s, 1) < 0 THEN Failure(Version(s, 1))
    ELSE IF s[2] # " " THEN Failure(Bad)
    ELSE IF Bytes(From(s, 3)) < 4 THEN Failure(Incomplete)
    ELSE IF ~(\A i \in 3..5 : i <= Len(s) /\ s[i] \in Digits) THEN Failure(Bad)
    ELSE AfterStatus(s, TokenToEol(s, 6), EndLine(s, TokenToEol(s, 6)))

-----------------------------------------------------------------------------
(* pico::Request and pico::Response                                        *)

ContentLength == <<"con", "tent-length">>
Connection == <<"con", "nection">>

\* strings::iequals compares as many characters as the shorter one has.
IEquals(a, b) == IsPrefix(a, b) \/ IsPrefix(b, a)

\* Faulty variant: the last of several headers counts.
FirstOf_Last(at) == IF at = {} THEN 0 ELSE Max(at)

\* The first of the headers with a name, 0 if there is none.
FirstOf(at) == IF at = {} THEN 0 ELSE Min(at)

\* The headers a request takes for name, and those a response does.
Like(lines, name) == {k \in DOMAIN lines : IEquals(lines[k][1], name)}
Equal(lines, name) == {k \in DOMAIN lines : lines[k][1] = name}

\* The value of the first of the headers at, as a set.
ValueOf(lines, at) == IF FirstOf(at) = 0 THEN {} ELSE {lines[FirstOf(at)][2]}

\* content-length or 0, {} when the value of the header is no number.
LengthOf(lines, at) ==
    IF at = {} THEN {0} ELSE UNION {FastAtoi64(v) : v \in ValueOf(lines, at)}

\* Keep-alive of a request: the default of the version and one exception each.
RequestKeepAlive(r) ==
    LET default == r.version = "HTTP/1.1"
        other == IF default THEN <<"close">> ELSE <<"keep-alive">>
    IN  default # (\E v \in ValueOf(r.lines, Like(r.lines, Connection)) : IEquals(v, other))

\* Of a response: close counts for both versions.
ResponseKeepAlive(r) ==
    LET value == ValueOf(r.lines, Equal(r.lines, Connection))
    IN  IF r.version = "HTTP/1.1" THEN value # {<<"close">>} ELSE value = {<<"keep-alive">>}

\* Faulty variant: the empty line in front of a request is not counted.
HeadSize_Line(s, ret) == Bytes(SubSeq(s, FirstOutside(s, 1, {CR, LF}), ret - 1))

\* header_size: the bytes of the head.
HeadSize(s, ret) == Bytes(SubSeq(s, 1, ret - 1))

\* parse_head: the outcome, and what it keeps of a complete head.
Outcome(s, r, length, keepAlive) ==
    IF s = <<>> \/ (Bytes(s) >= 5 /\ (r.ret = Bad \/ (r.ret > 0 /\ length = {})))
    THEN [status |-> "Err"]
    ELSE IF Bytes(s) < 5 \/ r.ret = Incomplete THEN [status |-> "Partial"]
    ELSE [status |-> "Complete", size |-> HeadSize(s, r.ret), length |-> length,
          keepAlive |-> keepAlive, headers |-> r.lines]

\* Request::parse_head and Response::parse.
RequestOutcome(s, r) ==
    Outcome(s, r, LengthOf(r.lines, Like(r.lines, ContentLength)), RequestKeepAlive(r))
RequestHead(s) == RequestOutcome(s, PhrParseRequest(s))

ResponseOutcome(s, r) ==
    Outcome(s, r, LengthOf(r.lines, Equal(r.lines, ContentLength)), ResponseKeepAlive(r))
ResponseHead(s) == ResponseOutcome(s, PhrParseResponse(s))

\* Faulty variant: a head that is not complete is never too long.
FullBuffer_Never(total, maxSize) == FALSE

\* The buffer is full and the head is not complete.
FullBuffer(total, maxSize) == maxSize > 0 /\ total >= maxSize

\* Request::parse with what parse_head says; total bytes are in the buffer.
Parse(h, total, maxSize, size) ==
    IF h.status # "Complete"
    THEN IF FullBuffer(total, maxSize) THEN "Err" ELSE h.status
    ELSE IF maxSize > 0 /\ size > maxSize THEN "Err"
    ELSE IF total >= size THEN "Complete" ELSE "Partial"

ParseRequest(h, total, maxSize) ==
    Parse(h, total, maxSize, h.size + CHOOSE n \in h.length : TRUE)

\* The part of t before and behind the first c; nothing when c is the last.
Cut(t, c) ==
    LET p == FirstIn(t, 1, {c}) IN [before |-> SubSeq(t, 1, p - 1), behind |-> From(t, p + 1)]

\* parse_param and parse_qs.
ParseParam(p) == <<Cut(p, "=").before, Cut(p, "=").behind>>

\* Empty parameters are left out.
NonEmpty(pieces) == SelectSeq(pieces, LAMBDA p : p # <<>>)

ParseQs(qs) == [i \in DOMAIN NonEmpty(Pieces(qs, {"&"})) |-> ParseParam(NonEmpty(Pieces(qs, {"&"}))[i])]

\* The fragment is cut off the path first, then the query string.
SplitPath(target) ==
    LET f == Cut(target, "#")
        q == Cut(f.before, "?")
    IN  [path |-> q.before, qs |-> q.behind, fragment |-> f.behind, params |-> ParseQs(q.behind)]

=============================================================================
