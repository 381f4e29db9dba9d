--------------------------- MODULE ClientStreamProofs ---------------------------
(* Theorems about ClientStream, for every size of buffers, all requests and *)
(* all answers, wherever reads and writes cut the streams.                  *)
EXTENDS ClientStream, SequenceTheorems, WellFoundedInduction, TLAPS

-----------------------------------------------------------------------------
(* The inductive invariant.  What concerns one state of the server's       *)
(* stream is an operator of that stream, so that it can be moved between   *)
(* a state and its successor.                                              *)

\* Where the k-th answer of a stream ends.
EndIn(en, k) == IF k = 0 THEN 0 ELSE en[k]

\* The k-th answer begins behind position b.
Behind(st, en, k, b) == k \in 1..Len(st) /\ EndIn(en, k - 1) = b

\* The position behind which the response at the front of _in begins.
Begin == IF done = <<>> THEN 0 ELSE done[Len(done)].last

Responses == [head : Seq(Nat), body : Seq(Nat), processed : Nat, total : Nat, h : Nat, a : Nat]
Delivered == [start : Nat, data : Seq(Nat), last : Nat]

\* Types of the receiving side.
Typed ==
    /\ open \in BOOLEAN /\ failed \in BOOLEAN /\ eof \in BOOLEAN
    /\ pc \in {"idle", "write", "read"} /\ (pc # "idle" => open)
    /\ in \in Nat /\ arrived \in Nat
    /\ stream \in Seq(Answers) /\ ends \in Seq(Nat) /\ Len(ends) = Len(stream)
    /\ sends \in Seq(Objects)
    /\ cur \in Responses /\ done \in Seq(Delivered)
    /\ Len(cur.head) <= HeaderMax /\ Len(cur.body) <= cur.a

\* Answers lie one behind the other, and no more arrives than was sent.
Positions ==
    /\ \A k \in 1..Len(stream) : ends[k] = EndIn(ends, k - 1) + stream[k].h + stream[k].b
    /\ arrived <= EndIn(ends, Len(stream))

\* Every request sent was answered or is waited for, and answers follow requests.
Counted ==
    /\ open => Len(sends) = Len(done) + in
    /\ Len(stream) <= Len(sends)

\* Both buffers hold consecutive bytes, the second those behind the head.
Pieces(c, b) ==
    /\ c \in Responses /\ Len(c.head) <= HeaderMax
    /\ \A i \in 1..Len(c.head) : c.head[i] = b + i
    /\ \A i \in 1..Len(c.body) : c.body[i] = b + c.h + i

\* The head is not complete.
NoHead(c) == c.total = 0 /\ c.h = 0 /\ c.a = 0 /\ c.body = <<>>

\* The head is that of an answer that begins behind b.
WithHead(st, en, c, b) ==
    /\ c.total = c.h + c.a
    /\ c.h \in 1..Len(c.head)
    /\ \E k \in 1..Len(st) : Behind(st, en, k, b) /\ c.h = st[k].h /\ c.a = st[k].a
    /\ IF c.total > HeaderMax THEN Len(c.body) <= c.a /\ (c.body = <<>> => Len(c.head) = c.h)
       ELSE c.body = <<>>

\* All that was read was parsed, and is not a whole answer.
Waiting(st, en, c, b) ==
    /\ c.processed = ReadOf(c)
    /\ \/ NoHead(c) /\ c.head = <<>>
       \/ /\ NoHead(c) /\ c.head # <<>>
          /\ \E k \in 1..Len(st) : Behind(st, en, k, b) /\ Len(c.head) < st[k].h
       \/ WithHead(st, en, c, b) /\ ReadOf(c) < c.total

\* What was left of the buffer of the answer before, not parsed yet.
TailOnly(c) == NoHead(c) /\ c.head # <<>> /\ c.processed = 0

Framed(st, en, c, b) == Pieces(c, b) /\ (Waiting(st, en, c, b) \/ TailOnly(c))

\* The response at the front of an open connection.
InFront ==
    open => /\ Framed(stream, ends, cur, Begin)
            /\ Begin + ReadOf(cur) <= arrived
            /\ pc # "read" => ~TailOnly(cur)
            /\ in = 0 => cur = NoResponse

\* What was delivered: as many answers as the server began at most, and as
\* long as lengths are announced truly, those it sent.
Answered(st, en, d, k) ==
    (\A i \in 1..k : st[i].a = st[i].b) =>
        /\ d.start = EndIn(en, k - 1) + 1 /\ d.last = EndIn(en, k)
        /\ d.data = [i \in 1..st[k].b |-> EndIn(en, k - 1) + st[k].h + i]

Past ==
    /\ \E j \in Len(done)..Len(stream) : j > 0 => EndIn(ends, j - 1) < Begin
    /\ \A k \in 1..Len(done) : Answered(stream, ends, done[k], k)

RInv == Typed /\ Positions /\ Counted /\ InFront /\ Past /\ EndsForReason

-----------------------------------------------------------------------------
(* Positions of answers                                                    *)

\* A set of numbers has a least element.
LEMMA LeastNumber ==
    ASSUME NEW S \in SUBSET Nat, S # {}
    PROVE  \E x \in S : \A y \in S : x <= y
<1>1. \E x \in S : \A y \in S : ~(<<y, x>> \in OpToRel(<, Nat))
  BY NatLessThanWellFounded, WFMin
<1>2. PICK x \in S : \A y \in S : ~(<<y, x>> \in OpToRel(<, Nat))
  BY <1>1
<1>3. ASSUME NEW y \in S PROVE x <= y
  <2>1. ~(<<y, x>> \in OpToRel(<, Nat))
    BY <1>2
  <2>2. ~(y < x)
    BY <2>1 DEF OpToRel
  <2> QED BY <2>2
<1> QED BY <1>2, <1>3

\* Lengths of answers.
LEMMA AnswerFacts ==
    ASSUME NEW a \in Answers
    PROVE  /\ a.h \in Nat /\ a.h >= 1 /\ a.a \in Nat /\ a.b \in Nat /\ a.keep \in BOOLEAN
  BY StreamConfig

\* The stream as the lemmas take it.
Stream(st, en) ==
    /\ st \in Seq(Answers) /\ en \in Seq(Nat) /\ Len(en) = Len(st)
    /\ \A k \in 1..Len(st) : en[k] = EndIn(en, k - 1) + st[k].h + st[k].b

LEMMA StreamFacts ==
    ASSUME NEW st, NEW en, Stream(st, en)
    PROVE  /\ Len(st) \in Nat
           /\ \A k \in 0..Len(st) : EndIn(en, k) \in Nat
           /\ \A k \in 1..Len(st) :
                /\ st[k] \in Answers
                /\ st[k].h \in Nat /\ st[k].h >= 1 /\ st[k].a \in Nat /\ st[k].b \in Nat
                /\ EndIn(en, k) = EndIn(en, k - 1) + st[k].h + st[k].b
                /\ EndIn(en, k - 1) \in Nat
<1>1. /\ Len(st) \in Nat /\ \A k \in 1..Len(st) : st[k] \in Answers /\ en[k] \in Nat
  BY DEF Stream
<1>2. \A k \in 0..Len(st) : EndIn(en, k) \in Nat
  BY <1>1 DEF EndIn
<1>3. ASSUME NEW k \in 1..Len(st)
      PROVE  /\ EndIn(en, k) = EndIn(en, k - 1) + st[k].h + st[k].b
             /\ EndIn(en, k - 1) \in Nat
  <2>1. k # 0 /\ k - 1 \in 0..Len(st)
    BY <1>1
  <2> QED BY <1>2, <2>1 DEF Stream, EndIn
<1> QED BY <1>1, <1>2, <1>3, AnswerFacts

\* Later answers end later.
LEMMA EndsGrow ==
    ASSUME NEW st, NEW en, Stream(st, en)
    PROVE  \A i, j \in 0..Len(st) : i < j => EndIn(en, i) < EndIn(en, j)
<1> SUFFICES ASSUME NEW i \in 0..Len(st), NEW j \in 0..Len(st), i < j,
                    ~(EndIn(en, i) < EndIn(en, j))
             PROVE  FALSE
  OBVIOUS
<1> DEFINE S == {k \in 0..Len(st) : i < k /\ ~(EndIn(en, i) < EndIn(en, k))}
<1>0. Len(st) \in Nat
  BY StreamFacts
<1>1. S \in SUBSET Nat /\ S # {}
  <2>1. j \in S
    OBVIOUS
  <2>2. 0..Len(st) \subseteq Nat
    BY <1>0
  <2> QED BY <2>1, <2>2
<1>2. PICK k \in S : \A n \in S : k <= n
  <2> HIDE DEF S
  <2> QED BY <1>1, LeastNumber
<1>3. k \in 1..Len(st) /\ k - 1 \in 0..Len(st) /\ k \in 0..Len(st) /\ i <= k - 1 /\ ~(k <= k - 1)
  BY <1>0, <1>2
<1> DEFINE a == EndIn(en, i)
           b == EndIn(en, k - 1)
           c == EndIn(en, k)
<1>4. i = k - 1 \/ a < b
  BY <1>2, <1>3
<1>5. c = b + st[k].h + st[k].b /\ st[k].h \in Nat /\ st[k].h >= 1 /\ st[k].b \in Nat
  BY <1>3, StreamFacts
<1>6. a \in Nat /\ b \in Nat /\ c \in Nat
  BY <1>3, StreamFacts
<1>7. ~(a < c)
  BY <1>2
<1>8. i = k - 1 => a = b
  OBVIOUS
<1> HIDE DEF a, b, c
<1> QED BY <1>4, <1>5, <1>6, <1>7, <1>8

\* No two answers begin behind the same position.
LEMMA OneBehind ==
    ASSUME NEW st, NEW en, Stream(st, en), NEW b,
           NEW k \in 1..Len(st), NEW l \in 1..Len(st),
           EndIn(en, k - 1) = b, EndIn(en, l - 1) = b
    PROVE  k = l
<1>1. Len(st) \in Nat
  BY StreamFacts
<1>2. k - 1 \in 0..Len(st) /\ l - 1 \in 0..Len(st)
  BY <1>1
<1>3. EndIn(en, k - 1) \in Nat /\ EndIn(en, l - 1) \in Nat
  BY <1>2, StreamFacts
<1>4. ~(k - 1 < l - 1)
  BY <1>2, <1>3, EndsGrow
<1>5. ~(l - 1 < k - 1)
  BY <1>2, <1>3, EndsGrow
<1> QED BY <1>1, <1>4, <1>5

\* What is behind an answer lies before the end of a later one.
LEMMA BehindGrows ==
    ASSUME NEW st, NEW en, Stream(st, en), NEW k \in 0..Len(st), NEW l \in 0..Len(st),
           EndIn(en, k) < EndIn(en, l)
    PROVE  k < l
<1>1. Len(st) \in Nat
  BY StreamFacts
<1>2. EndIn(en, k) \in Nat /\ EndIn(en, l) \in Nat
  BY StreamFacts
<1>3. ~(l < k)
  BY <1>2, EndsGrow
<1>4. k # l
  BY <1>2
<1> QED BY <1>1, <1>3, <1>4

\* The state's stream.
LEMMA StateStream ==
    ASSUME Typed, Positions
    PROVE  Stream(stream, ends) /\ \A k : EndOf(k) = EndIn(ends, k)
  BY DEF Typed, Positions, Stream, EndOf, EndIn

-----------------------------------------------------------------------------
(* The two buffers of a response                                           *)

\* Fields and lengths.
LEMMA PieceFacts ==
    ASSUME NEW c, NEW b \in Nat, Pieces(c, b)
    PROVE  /\ c.head \in Seq(Nat) /\ c.body \in Seq(Nat)
           /\ c.processed \in Nat /\ c.total \in Nat /\ c.h \in Nat /\ c.a \in Nat
           /\ Len(c.head) \in Nat /\ Len(c.body) \in Nat
           /\ Len(c.head) <= HeaderMax /\ ReadOf(c) \in Nat
           /\ (c.head = <<>> <=> Len(c.head) = 0) /\ (c.body = <<>> <=> Len(c.body) = 0)
           /\ c.head # <<>> => c.head[1] = b + 1
<1>1. /\ c.head \in Seq(Nat) /\ c.body \in Seq(Nat)
      /\ c.processed \in Nat /\ c.total \in Nat /\ c.h \in Nat /\ c.a \in Nat
  BY DEF Pieces, Responses
<1>2. Len(c.head) \in Nat /\ Len(c.body) \in Nat
  BY <1>1
<1>3. (c.head = <<>> <=> Len(c.head) = 0) /\ (c.body = <<>> <=> Len(c.body) = 0)
  BY <1>1, EmptySeq
<1>4. ReadOf(c) \in Nat
  BY <1>1, <1>2 DEF ReadOf
<1>5. Len(c.head) <= HeaderMax
  BY DEF Pieces
<1>6. c.head # <<>> => c.head[1] = b + 1
  <2>1. c.head # <<>> => 1 \in 1..Len(c.head)
    BY <1>2, <1>3
  <2> QED BY <2>1 DEF Pieces
<1> QED BY <1>1, <1>2, <1>3, <1>4, <1>5, <1>6

\* The position in the stream where the front response begins.
LEMMA BeginNat ==
    ASSUME Typed
    PROVE  Begin \in Nat /\ Len(done) \in Nat /\ Len(stream) \in Nat /\ Len(sends) \in Nat
<1>1. done \in Seq(Delivered)
  BY DEF Typed
<1>2. Len(done) \in Nat /\ (done = <<>> \/ Len(done) \in 1..Len(done))
  BY <1>1, EmptySeq
<1>3. done # <<>> => done[Len(done)] \in Delivered
  BY <1>1, <1>2
<1>4. \A d \in Delivered : d.last \in Nat
  BY DEF Delivered
<1>5. Begin \in Nat
  BY <1>3, <1>4 DEF Begin
<1>6. Len(stream) \in Nat /\ Len(sends) \in Nat
  BY DEF Typed
<1> QED BY <1>2, <1>5, <1>6

\* What was read ends with the last byte in the buffers.
LEMMA ConsumedIs ==
    ASSUME Typed, Pieces(cur, Begin), cur.head = <<>> => NoHead(cur)
    PROVE  Consumed = Begin + ReadOf(cur)
<1> DEFINE b == Begin
<1>1. b \in Nat
  BY BeginNat
<1>2. Pieces(cur, b)
  OBVIOUS
<1>3. Last(done) = done[Len(done)]
  BY DEF Last
<1> HIDE DEF b
<1>4. ReadOf(cur) \in Nat /\ (cur.head # <<>> => cur.head[1] = b + 1)
  BY <1>1, <1>2, PieceFacts
<1>5. cur.head = <<>> => ReadOf(cur) = 0
  BY DEF NoHead, ReadOf
<1>6. ASSUME cur.head = <<>> PROVE Consumed = b + ReadOf(cur)
  <2>1. Consumed = b
    BY <1>3, <1>6 DEF Consumed, Begin, b
  <2> QED BY <1>1, <1>5, <1>6, <2>1
<1>7. ASSUME cur.head # <<>> PROVE Consumed = b + ReadOf(cur)
  <2>1. Consumed = cur.head[1] + ReadOf(cur) - 1
    BY <1>7 DEF Consumed
  <2> QED BY <1>1, <1>4, <1>7, <2>1
<1> QED BY <1>6, <1>7 DEF b

\* A buffer that waits for more has no head when it is empty.
LEMMA FramedEmpty ==
    ASSUME NEW st, NEW en, NEW c, NEW b \in Nat, Framed(st, en, c, b)
    PROVE  Pieces(c, b) /\ (c.head = <<>> => NoHead(c))
<1>1. Pieces(c, b)
  BY DEF Framed
<1>2. WithHead(st, en, c, b) => c.head # <<>>
  BY <1>1, PieceFacts DEF WithHead
<1> QED BY <1>1, <1>2 DEF Framed, Waiting, TailOnly

\* Starting finds the answer that begins there.
LEMMA StartingIs ==
    ASSUME Typed, Positions, NEW c, NEW b \in Nat, c.head[1] = b + 1,
           NEW k \in 1..Len(stream), EndIn(ends, k - 1) = b
    PROVE  Starting(c) = k
<1> DEFINE at == {l \in DOMAIN stream : EndOf(l - 1) + 1 = c.head[1]}
<1>1. DOMAIN stream = 1..Len(stream)
  BY DEF Typed
<1>2. k \in at
  BY <1>1, StateStream
<1>3. ASSUME NEW l \in at PROVE l = k
  <2>1. l \in 1..Len(stream) /\ EndIn(ends, l - 1) + 1 = b + 1
    BY <1>1, StateStream
  <2>2. EndIn(ends, l - 1) \in Nat
    BY <2>1, StateStream, StreamFacts
  <2>3. EndIn(ends, l - 1) = b
    BY <2>1, <2>2
  <2>4. Stream(stream, ends)
    BY StateStream
  <2> QED BY <2>1, <2>3, <2>4, OneBehind
<1>4. Starting(c) = IF at = {} THEN 0 ELSE CHOOSE l \in at : TRUE
  BY DEF Starting
<1> HIDE DEF at
<1> QED BY <1>2, <1>3, <1>4

\* When Starting finds one.
LEMMA StartingSome ==
    ASSUME Typed, Positions, NEW c, NEW b \in Nat, c.head[1] = b + 1, Starting(c) # 0
    PROVE  Starting(c) \in 1..Len(stream) /\ EndIn(ends, Starting(c) - 1) = b
<1> DEFINE at == {l \in DOMAIN stream : EndOf(l - 1) + 1 = c.head[1]}
<1>1. DOMAIN stream = 1..Len(stream)
  BY DEF Typed
<1>2. Starting(c) = IF at = {} THEN 0 ELSE CHOOSE l \in at : TRUE
  BY DEF Starting
<1>3. Starting(c) \in at
  <2> HIDE DEF at
  <2> QED BY <1>2
<1> DEFINE k == Starting(c)
<1>4. k \in 1..Len(stream) /\ EndOf(k - 1) + 1 = b + 1
  BY <1>1, <1>3
<1> HIDE DEF k
<1>5. EndOf(k - 1) = EndIn(ends, k - 1)
  BY StateStream
<1>6. EndIn(ends, k - 1) \in Nat
  BY <1>4, StateStream, StreamFacts
<1>7. EndIn(ends, k - 1) = b
  BY <1>4, <1>5, <1>6
<1> QED BY <1>4, <1>7 DEF k

-----------------------------------------------------------------------------
(* recv and parse                                                          *)

\* What Response::parse is given: bytes, and no more of an answer than its
\* length.
Given(c, b) ==
    /\ Pieces(c, b) /\ c.head # <<>>
    /\ NoHead(c) \/ (WithHead(stream, ends, c, b) /\ ReadOf(c) <= c.total)

\* Bytes of one answer are read to where they belong.
LEMMA WithHeadFacts ==
    ASSUME NEW st, NEW en, NEW c, NEW b \in Nat, Pieces(c, b), WithHead(st, en, c, b)
    PROVE  /\ c.total \in Nat /\ c.total > 0 /\ c.total = c.h + c.a
           /\ c.h \in Nat /\ c.h >= 1 /\ c.h <= Len(c.head) /\ c.a \in Nat
           /\ c.total > HeaderMax =>
                c.a > 0 /\ Len(c.body) <= c.a /\ ReadOf(c) = c.h + Len(c.body)
           /\ ~(c.total > HeaderMax) => c.body = <<>> /\ ReadOf(c) = Len(c.head)
<1>1. /\ c.total \in Nat /\ c.h \in Nat /\ c.a \in Nat /\ Len(c.head) \in Nat
      /\ Len(c.head) <= HeaderMax /\ Len(c.body) \in Nat /\ HeaderMax \in Nat
      /\ (c.body = <<>> <=> Len(c.body) = 0)
  BY PieceFacts, StreamConfig
<1>2. c.total = c.h + c.a /\ c.h >= 1 /\ c.h <= Len(c.head)
  BY <1>1 DEF WithHead
<1>3. c.total > HeaderMax => Len(c.body) <= c.a /\ (c.body = <<>> => Len(c.head) = c.h)
  BY DEF WithHead
<1>4. ~(c.total > HeaderMax) => c.body = <<>>
  BY DEF WithHead
<1>5. c.total > HeaderMax => ReadOf(c) = c.h + Len(c.body)
  BY <1>1, <1>3 DEF ReadOf
<1>6. ~(c.total > HeaderMax) => ReadOf(c) = Len(c.head)
  BY <1>4 DEF ReadOf
<1>7. c.total > HeaderMax => c.a > 0
  BY <1>1, <1>2
<1>8. c.total > 0
  BY <1>1, <1>2
<1> QED BY <1>1, <1>2, <1>3, <1>4, <1>5, <1>6, <1>7, <1>8

\* n more bytes of the stream.
News(from, n) == [i \in 1..n |-> from + i]

LEMMA NewsFacts ==
    ASSUME NEW s \in Seq(Nat), NEW from \in Nat, NEW n \in Nat
    PROVE  /\ s \o News(from, n) \in Seq(Nat) /\ Len(s \o News(from, n)) = Len(s) + n
           /\ \A i \in 1..Len(s) : (s \o News(from, n))[i] = s[i]
           /\ \A i \in (Len(s) + 1)..(Len(s) + n) : (s \o News(from, n))[i] = from + (i - Len(s))
<1> DEFINE t == News(from, n)
<1>1. t \in Seq(Nat) /\ Len(t) = n /\ \A i \in 1..n : t[i] = from + i
  BY DEF News
<1>2. Len(s) \in Nat
  OBVIOUS
<1> HIDE DEF t
<1>3. /\ s \o t \in Seq(Nat) /\ Len(s \o t) = Len(s) + n
      /\ \A i \in 1..(Len(s) + n) : (s \o t)[i] = IF i <= Len(s) THEN s[i] ELSE t[i - Len(s)]
  BY <1>1, ConcatProperties
<1>4. \A i \in 1..Len(s) : (s \o t)[i] = s[i]
  BY <1>2, <1>3
<1>5. ASSUME NEW i \in (Len(s) + 1)..(Len(s) + n) PROVE (s \o t)[i] = from + (i - Len(s))
  <2>1. i \in 1..(Len(s) + n) /\ ~(i <= Len(s)) /\ i - Len(s) \in 1..n
    BY <1>2
  <2> QED BY <1>1, <1>3, <2>1
<1> QED BY <1>3, <1>4, <1>5 DEF t

\* recv_int asks for what is missing, and puts it where it belongs.
LEMMA ReceivedGiven ==
    ASSUME Typed, Positions, Pieces(cur, Begin), Waiting(stream, ends, cur, Begin),
           NEW n \in Nat, n > 0, n <= AskedFor
    PROVE  Given(Received(n), Begin) /\ ReadOf(Received(n)) = ReadOf(cur) + n
<1> DEFINE b == Begin
<1>1. b \in Nat
  BY BeginNat
<1>2. Consumed = b + ReadOf(cur)
  <2>1. Framed(stream, ends, cur, b)
    BY DEF Framed
  <2> HIDE DEF b
  <2>2. cur.head = <<>> => NoHead(cur)
    BY <1>1, <2>1, FramedEmpty
  <2> QED BY <2>2, ConsumedIs DEF b
<1>3. Pieces(cur, b) /\ Waiting(stream, ends, cur, b)
  OBVIOUS
<1> HIDE DEF b
<1> DEFINE r == ReadOf(cur)
<1> DEFINE from == b + r
<1> DEFINE head == cur.head \o News(from, n)
<1> DEFINE body == cur.body \o News(from, n)
<1>4. /\ cur.head \in Seq(Nat) /\ cur.body \in Seq(Nat) /\ Len(cur.head) \in Nat
      /\ Len(cur.body) \in Nat /\ Len(cur.head) <= HeaderMax
      /\ cur.total \in Nat /\ cur.h \in Nat /\ cur.a \in Nat /\ cur.processed \in Nat
      /\ HeaderMax \in Nat /\ HeaderMax > 0 /\ ChunkSize \in Nat
  BY <1>1, <1>3, PieceFacts, StreamConfig
<1>5. r \in Nat
  BY <1>1, <1>3, PieceFacts
<1>6. cur \in Responses
  BY <1>3 DEF Pieces
<1>7. /\ \A i \in 1..Len(cur.head) : cur.head[i] = b + i
      /\ \A i \in 1..Len(cur.body) : cur.body[i] = b + cur.h + i
  BY <1>3 DEF Pieces
<1>8. from \in Nat
  BY <1>1, <1>5
<1>9. Received(n) = IF cur.total > 0 /\ InBody(cur) THEN [cur EXCEPT !.body = body]
                    ELSE [cur EXCEPT !.head = head]
  BY <1>2 DEF Received, News
<1> HIDE DEF r
<1> DEFINE L == Len(cur.head)
           B == Len(cur.body)
<1> HIDE DEF from
<1>10. /\ head \in Seq(Nat) /\ Len(head) = L + n
       /\ \A i \in 1..L : head[i] = cur.head[i]
       /\ \A i \in (L + 1)..(L + n) : head[i] = from + (i - L)
  <2> DEFINE s == cur.head
  <2>1. s \in Seq(Nat)
    BY <1>4
  <2> HIDE DEF s
  <2>2. s \o News(from, n) \in Seq(Nat)
    BY <1>8, <2>1, NewsFacts
  <2>3. Len(s \o News(from, n)) = Len(s) + n
    BY <1>8, <2>1, NewsFacts
  <2>4. \A i \in 1..Len(s) : (s \o News(from, n))[i] = s[i]
    BY <1>8, <2>1, NewsFacts
  <2>5. \A i \in (Len(s) + 1)..(Len(s) + n) : (s \o News(from, n))[i] = from + (i - Len(s))
    BY <1>8, <2>1, NewsFacts
  <2> QED BY <2>2, <2>3, <2>4, <2>5 DEF s
<1>11. /\ body \in Seq(Nat) /\ Len(body) = B + n
       /\ \A i \in 1..B : body[i] = cur.body[i]
       /\ \A i \in (B + 1)..(B + n) : body[i] = from + (i - B)
  <2> DEFINE s == cur.body
  <2>1. s \in Seq(Nat)
    BY <1>4
  <2> HIDE DEF s
  <2>2. s \o News(from, n) \in Seq(Nat)
    BY <1>8, <2>1, NewsFacts
  <2>3. Len(s \o News(from, n)) = Len(s) + n
    BY <1>8, <2>1, NewsFacts
  <2>4. \A i \in 1..Len(s) : (s \o News(from, n))[i] = s[i]
    BY <1>8, <2>1, NewsFacts
  <2>5. \A i \in (Len(s) + 1)..(Len(s) + n) : (s \o News(from, n))[i] = from + (i - Len(s))
    BY <1>8, <2>1, NewsFacts
  <2> QED BY <2>2, <2>3, <2>4, <2>5 DEF s
<1>14. /\ L \in Nat /\ B \in Nat /\ L <= HeaderMax
       /\ \A i \in 1..L : cur.head[i] = b + i
       /\ \A i \in 1..B : cur.body[i] = b + cur.h + i
       /\ L = Len(cur.head) /\ B = Len(cur.body)
       /\ cur.total \in Nat /\ cur.h \in Nat /\ cur.a \in Nat
       /\ HeaderMax \in Nat /\ ChunkSize \in Nat
  BY <1>4, <1>7
<1>15. from = b + r
  BY DEF from
<1> HIDE DEF head, body, L, B
<1>12. CASE NoHead(cur)
  <2> DEFINE c == [cur EXCEPT !.head = head]
  <2>1. cur.total = 0 /\ r = L /\ cur.body = <<>>
    BY <1>12 DEF NoHead, ReadOf, r, L
  <2>2. Received(n) = c
    BY <1>9, <2>1
  <2>3. c \in Responses /\ c.head = head /\ c.body = cur.body /\ NoHead(c)
    BY <1>6, <1>10, <1>12 DEF Responses, NoHead
  <2> HIDE DEF c
  <2>4. n <= HeaderMax - L
    BY <1>14, <2>1 DEF AskedFor, ChunkFor
  <2>5. Len(c.head) <= HeaderMax /\ c.head # <<>>
    <3>1. Len(c.head) = L + n
      BY <1>10, <2>3
    <3>2. Len(c.head) <= HeaderMax /\ Len(c.head) # 0
      BY <1>14, <2>4, <3>1
    <3> QED BY <3>2
  <2>6. \A i \in 1..Len(c.head) : c.head[i] = b + i
    <3> SUFFICES ASSUME NEW i \in 1..Len(head) PROVE head[i] = b + i
      BY <2>3
    <3>1. CASE i \in 1..L
      BY <1>14, <1>10, <3>1
    <3>2. CASE i \in (L + 1)..(L + n)
      <4>1. head[i] = from + (i - L)
        BY <1>10, <3>2
      <4>2. L \in Nat /\ i \in Nat /\ r = L
        BY <1>14, <2>1, <3>2
      <4> QED BY <1>1, <1>15, <4>1, <4>2
    <3> QED BY <1>14, <1>10, <3>1, <3>2
  <2>7. \A i \in 1..Len(c.body) : c.body[i] = b + c.h + i
    BY <2>3 DEF NoHead
  <2>8. Pieces(c, b)
    BY <2>3, <2>5, <2>6, <2>7 DEF Pieces
  <2>9. ReadOf(c) = r + n
    BY <1>10, <2>1, <2>3 DEF ReadOf
  <2> QED BY <2>2, <2>3, <2>5, <2>8, <2>9 DEF Given, b, r
<1>13. CASE WithHead(stream, ends, cur, b) /\ r < cur.total
  <2>1. /\ cur.total > 0 /\ cur.total = cur.h + cur.a /\ cur.h >= 1 /\ cur.h <= L
        /\ cur.total > HeaderMax =>
             cur.a > 0 /\ B <= cur.a /\ r = cur.h + B
        /\ ~(cur.total > HeaderMax) => cur.body = <<>> /\ r = L
    <3>1. WithHead(stream, ends, cur, b) /\ Pieces(cur, b)
      BY <1>3, <1>13
    <3> QED BY <1>1, <3>1, WithHeadFacts DEF r, L, B
  <2>2. n <= cur.total - r
    BY <2>1 DEF AskedFor, r
  <2>3. PICK k \in 1..Len(stream) :
            Behind(stream, ends, k, b) /\ cur.h = stream[k].h /\ cur.a = stream[k].a
    BY <1>13 DEF WithHead
  <2>4. CASE cur.total > HeaderMax
    <3> DEFINE c == [cur EXCEPT !.body = body]
    <3>1. Received(n) = c
      BY <1>9, <2>1, <2>4 DEF InBody
    <3>2. /\ c \in Responses /\ c.head = cur.head /\ c.body = body
          /\ c.total = cur.total /\ c.h = cur.h /\ c.a = cur.a
      BY <1>6, <1>11 DEF Responses
    <3> HIDE DEF c
    <3>0. Len(c.body) = B + n
      BY <1>11, <3>2
    <3>3. Len(c.body) <= c.a /\ c.body # <<>>
      <4>1. r = cur.h + B /\ cur.total = cur.h + cur.a /\ c.a = cur.a
        BY <2>1, <2>4, <3>2
      <4>2. B + n <= cur.a
        BY <1>14, <1>5, <2>2, <4>1, SMTT(60)
      <4>3. Len(c.body) # 0
        BY <1>14, <3>0
      <4> QED BY <3>0, <4>1, <4>2, <4>3
    <3>4. \A i \in 1..Len(c.body) : c.body[i] = b + c.h + i
      <4> SUFFICES ASSUME NEW i \in 1..Len(body) PROVE body[i] = b + cur.h + i
        BY <3>2
      <4>1. CASE i \in 1..B
        BY <1>14, <1>11, <4>1
      <4>2. CASE i \in (B + 1)..(B + n)
        <5>1. body[i] = from + (i - B)
          BY <1>11, <4>2
        <5>2. r = cur.h + B
          BY <2>1, <2>4
        <5> QED BY <1>1, <1>14, <4>2, <5>1, <5>2, <1>15
      <4> QED BY <1>14, <1>11, <4>1, <4>2
    <3>5. Pieces(c, b)
      BY <1>14, <1>14, <3>2, <3>4 DEF Pieces
    <3>6. c.h \in 1..Len(c.head) /\ c.head # <<>>
      BY <1>14, <2>1, <3>2
    <3>7. WithHead(stream, ends, c, b)
      BY <2>1, <2>3, <2>4, <3>2, <3>3, <3>6 DEF WithHead
    <3>8. ReadOf(c) = r + n
      <4>1. ReadOf(c) = cur.h + (B + n)
        BY <3>0, <3>2, <3>3 DEF ReadOf
      <4>2. r = cur.h + B
        BY <2>1, <2>4
      <4>3. cur.h \in Nat /\ B \in Nat
        BY <1>14
      <4> QED BY <4>1, <4>2, <4>3
    <3>9. ReadOf(c) <= c.total
      BY <1>14, <1>5, <2>2, <3>2, <3>8
    <3> QED BY <3>1, <3>5, <3>6, <3>7, <3>8, <3>9 DEF Given, b, r
  <2>5. CASE ~(cur.total > HeaderMax)
    <3> DEFINE c == [cur EXCEPT !.head = head]
    <3>1. Received(n) = c
      BY <1>9, <2>5 DEF InBody
    <3>2. /\ c \in Responses /\ c.head = head /\ c.body = cur.body
          /\ c.total = cur.total /\ c.h = cur.h /\ c.a = cur.a
      BY <1>6, <1>10 DEF Responses
    <3> HIDE DEF c
    <3>3. Len(c.head) <= HeaderMax /\ c.head # <<>>
      <4>1. Len(c.head) = L + n
        BY <1>10, <3>2
      <4>2. r = L
        BY <2>1, <2>5
      <4>3. Len(c.head) <= HeaderMax /\ Len(c.head) # 0
        BY <1>14, <1>5, <2>2, <2>5, <4>1, <4>2
      <4> QED BY <4>3
    <3>4. \A i \in 1..Len(c.head) : c.head[i] = b + i
      <4> SUFFICES ASSUME NEW i \in 1..Len(head) PROVE head[i] = b + i
        BY <3>2
      <4>1. CASE i \in 1..L
        BY <1>14, <1>10, <4>1
      <4>2. CASE i \in (L + 1)..(L + n)
        <5>1. head[i] = from + (i - L)
          BY <1>10, <4>2
        <5>2. r = L
          BY <2>1, <2>5
        <5>3. L \in Nat /\ i \in Nat
          BY <1>14, <4>2
        <5> QED BY <1>1, <1>15, <5>1, <5>2, <5>3
      <4> QED BY <1>14, <1>10, <4>1, <4>2
    <3>5. Pieces(c, b)
      BY <1>14, <3>2, <3>3, <3>4 DEF Pieces
    <3>6. c.h \in 1..Len(c.head)
      BY <1>14, <1>10, <2>1, <3>2
    <3>7. WithHead(stream, ends, c, b)
      BY <2>1, <2>3, <2>5, <3>2, <3>6 DEF WithHead
    <3>8. ReadOf(c) = r + n
      BY <1>10, <2>1, <2>5, <3>2 DEF ReadOf
    <3>9. ReadOf(c) <= c.total
      BY <1>14, <1>5, <2>2, <3>2, <3>8
    <3> QED BY <3>1, <3>3, <3>5, <3>7, <3>8, <3>9 DEF Given, b, r
  <2> QED BY <2>4, <2>5
<1> QED BY <1>3, <1>12, <1>13 DEF Waiting, r

\* A part of a buffer.
LEMMA PartOf ==
    ASSUME NEW s \in Seq(Nat), NEW m \in Nat, NEW n \in Nat, m <= n, n <= Len(s)
    PROVE  /\ SubSeq(s, m + 1, n) \in Seq(Nat) /\ Len(SubSeq(s, m + 1, n)) = n - m
           /\ \A i \in 1..(n - m) : SubSeq(s, m + 1, n)[i] = s[m + i]
<1>1. Len(s) \in Nat /\ m + 1 \in Nat /\ m + 1 >= 1
  OBVIOUS
<1>2. \A i \in (m + 1)..n : s[i] \in Nat
  BY <1>1
<1>3. SubSeq(s, m + 1, n) \in Seq(Nat)
  BY <1>1, <1>2, SubSeqProperties
<1>4. Len(SubSeq(s, m + 1, n)) = n - m
  BY <1>1, SubSeqProperties
<1>5. ASSUME NEW i \in 1..(n - m) PROVE SubSeq(s, m + 1, n)[i] = s[m + i]
  <2>1. m + i = (m + 1) + i - 1
    OBVIOUS
  <2> QED BY <1>1, <1>4, <2>1, SubSeqProperties, SMTT(60)
<1> QED BY <1>3, <1>4, <1>5

\* A complete head: the body goes where all of it has room.
LEMMA ParsedWith ==
    ASSUME Typed, Positions, NEW b \in Nat, NEW c, Pieces(c, b), NoHead(c),
           NEW k \in 1..Len(stream), EndIn(ends, k - 1) = b, stream[k].h <= Len(c.head)
    PROVE  /\ Pieces(Parsed(c, stream[k]), b)
           /\ WithHead(stream, ends, Parsed(c, stream[k]), b)
           /\ ReadOf(Parsed(c, stream[k])) = Len(c.head)
           /\ Parsed(c, stream[k]).head = c.head
           /\ Parsed(c, stream[k]).processed = c.processed
<1> DEFINE h == stream[k].h
           a == stream[k].a
           L == Len(c.head)
           body == SubSeq(c.head, h + 1, L)
           p == Parsed(c, stream[k])
<1>1. h \in Nat /\ h >= 1 /\ a \in Nat
  BY StateStream, StreamFacts
<1>2. L \in Nat /\ L <= HeaderMax /\ HeaderMax \in Nat /\ h <= L
  BY PieceFacts, StreamConfig
<1>3. c.head \in Seq(Nat) /\ \A i \in 1..L : c.head[i] = b + i
  BY PieceFacts DEF Pieces
<1>4. c \in Responses /\ c.body = <<>>
  BY DEF Pieces, NoHead
<1>5. body \in Seq(Nat) /\ Len(body) = L - h /\ \A i \in 1..(L - h) : body[i] = c.head[h + i]
  <2> DEFINE s == c.head
             m == h
  <2>1. s \in Seq(Nat) /\ m \in Nat /\ m <= L /\ L \in Nat /\ L <= Len(s)
    BY <1>1, <1>2, <1>3
  <2> HIDE DEF s, m, L
  <2>2. SubSeq(s, m + 1, L) \in Seq(Nat)
    BY <2>1, PartOf
  <2>3. Len(SubSeq(s, m + 1, L)) = L - m
    BY <2>1, PartOf
  <2>4. \A i \in 1..(L - m) : SubSeq(s, m + 1, L)[i] = s[m + i]
    BY <2>1, PartOf
  <2> QED BY <2>2, <2>3, <2>4 DEF s, m
<1>6. \A i \in 1..(L - h) : body[i] = b + h + i
  <2> SUFFICES ASSUME NEW i \in 1..(L - h) PROVE body[i] = b + h + i
    OBVIOUS
  <2>1. h + i \in 1..L /\ i \in Nat
    BY <1>1, <1>2
  <2>2. body[i] = b + (h + i)
    BY <1>3, <1>5, <2>1
  <2> HIDE DEF body, h
  <2> QED BY <1>1, <2>1, <2>2
<1>7. TooLongForHeader(h, a) <=> h + a > HeaderMax
  BY <1>1, <1>2 DEF TooLongForHeader
<1>8. Moved(c, h) = body
  BY DEF Moved
<1>9. p = IF h + a > HeaderMax
          THEN [[c EXCEPT !.h = h, !.a = a, !.total = h + a] EXCEPT !.body = body]
          ELSE [c EXCEPT !.h = h, !.a = a, !.total = h + a]
  BY <1>7, <1>8 DEF Parsed
<1> HIDE DEF body, h, a, L
<1>10. /\ p \in Responses /\ p.head = c.head /\ p.processed = c.processed
       /\ p.h = h /\ p.a = a /\ p.total = h + a
       /\ h + a > HeaderMax => p.body = body
       /\ ~(h + a > HeaderMax) => p.body = <<>>
  <2> DEFINE q == [c EXCEPT !.h = h, !.a = a, !.total = h + a]
  <2>1. h + a \in Nat
    BY <1>1
  <2>2. /\ q \in Responses /\ q.head = c.head /\ q.processed = c.processed
        /\ q.h = h /\ q.a = a /\ q.total = h + a /\ q.body = <<>>
    BY <1>1, <1>4, <2>1 DEF Responses
  <2>3. p = IF h + a > HeaderMax THEN [q EXCEPT !.body = body] ELSE q
    BY <1>9
  <2> HIDE DEF q, p
  <2>4. CASE h + a > HeaderMax
    <3>1. p = [q EXCEPT !.body = body]
      BY <2>3, <2>4
    <3> QED BY <1>5, <2>2, <2>4, <3>1 DEF Responses
  <2>5. CASE ~(h + a > HeaderMax)
    BY <2>2, <2>3, <2>5
  <2> QED BY <2>4, <2>5
<1> HIDE DEF p
<1>11. h + a > HeaderMax => Len(p.body) = L - h /\ Len(p.body) <= a /\ (p.body = <<>> => L = h)
  <2> SUFFICES ASSUME h + a > HeaderMax
               PROVE  Len(p.body) = L - h /\ Len(p.body) <= a /\ (p.body = <<>> => L = h)
    OBVIOUS
  <2>1. Len(p.body) = L - h
    BY <1>5, <1>10
  <2>2. L - h <= a
    BY <1>1, <1>2
  <2>3. p.body = <<>> => L - h = 0
    BY <2>1
  <2> QED BY <1>1, <1>2, <2>1, <2>2, <2>3
<1>12. Pieces(p, b)
  <2>1. \A i \in 1..Len(p.body) : p.body[i] = b + p.h + i
    <3>1. CASE h + a > HeaderMax
      BY <1>6, <1>10, <1>11, <3>1
    <3>2. CASE ~(h + a > HeaderMax)
      BY <1>10, <3>2
    <3> QED BY <3>1, <3>2
  <2>2. Len(p.head) <= HeaderMax /\ \A i \in 1..Len(p.head) : p.head[i] = b + i
    BY <1>2, <1>3, <1>10 DEF L
  <2> QED BY <1>10, <2>1, <2>2 DEF Pieces
<1>13. WithHead(stream, ends, p, b)
  <2>1. p.h \in 1..Len(p.head)
    BY <1>1, <1>2, <1>10 DEF L
  <2>2. Behind(stream, ends, k, b) /\ p.h = stream[k].h /\ p.a = stream[k].a
    BY <1>10 DEF Behind, h, a
  <2>3. IF p.total > HeaderMax THEN Len(p.body) <= p.a /\ (p.body = <<>> => Len(p.head) = p.h)
        ELSE p.body = <<>>
    BY <1>10, <1>11 DEF L
  <2>4. p.total = p.h + p.a
    BY <1>10
  <2> QED BY <2>1, <2>2, <2>3, <2>4 DEF WithHead
<1>14. ReadOf(p) = L
  <2>1. CASE p.body = <<>>
    BY <1>10, <2>1 DEF ReadOf, L
  <2>2. CASE p.body # <<>>
    <3>1. ReadOf(p) = h + Len(p.body) /\ h + a > HeaderMax
      BY <1>10, <2>2 DEF ReadOf
    <3>2. Len(p.body) = L - h
      BY <1>11, <3>1
    <3> QED BY <1>1, <1>2, <3>1, <3>2
  <2> QED BY <2>1, <2>2
<1> QED BY <1>10, <1>12, <1>13, <1>14 DEF p, L

\* What recv finds: bytes that begin no answer, an answer that is refused, a
\* part of one, or at least a whole one.
LEMMA ParseGiven ==
    ASSUME Typed, Positions, NEW b \in Nat, NEW c0, Given(c0, b), NEW r, r = Parse(c0)
    PROVE  \/ /\ r.status = "Err"
              /\ ~ \E k \in 1..Len(stream) : EndIn(ends, k - 1) = b
           \/ r.status = "Err" /\ \E k \in 1..Len(stream) : Refused(stream[k])
           \/ /\ r.status = "Partial" /\ Pieces(r.resp, b) /\ Waiting(stream, ends, r.resp, b)
              /\ ReadOf(r.resp) = ReadOf(c0)
           \/ /\ r.status = "Complete" /\ Pieces(r.resp, b) /\ WithHead(stream, ends, r.resp, b)
              /\ ReadOf(r.resp) = ReadOf(c0) /\ ReadOf(r.resp) >= r.resp.total
<1> DEFINE n == ReadOf(c0)
           c == [c0 EXCEPT !.processed = n]
           k == Starting(c)
           d == IF c.total > 0 THEN c ELSE Parsed(c, stream[k])
<1>1. Pieces(c0, b) /\ c0.head # <<>>
  BY DEF Given
<1>2. n \in Nat /\ c0.head[1] = b + 1 /\ c0 \in Responses
  BY <1>1, PieceFacts DEF Pieces
<1> HIDE DEF n
<1>3. /\ c.head = c0.head /\ c.body = c0.body /\ c.total = c0.total /\ c.h = c0.h /\ c.a = c0.a
      /\ c.processed = n /\ c \in Responses
  BY <1>2 DEF Responses
<1>4. r = IF c.total = 0 /\ k = 0 THEN [status |-> "Err", resp |-> c]
          ELSE IF c.total = 0 /\ Len(c.head) < stream[k].h THEN [status |-> "Partial", resp |-> c]
          ELSE IF c.total = 0 /\ Refused(stream[k]) THEN [status |-> "Err", resp |-> d]
          ELSE IF ReadOf(d) < d.total THEN [status |-> "Partial", resp |-> d]
          ELSE [status |-> "Complete", resp |-> d]
  BY DEF Parse, n
<1> HIDE DEF c
<1>5. Pieces(c, b) /\ ReadOf(c) = n
  BY <1>1, <1>3 DEF Pieces, ReadOf, n
<1>6. NoHead(c) <=> NoHead(c0)
  BY <1>3 DEF NoHead
<1>7. WithHead(stream, ends, c, b) <=> WithHead(stream, ends, c0, b)
  BY <1>3 DEF WithHead
<1>8. CASE NoHead(c0)
  <2>1. NoHead(c) /\ c.total = 0 /\ n = Len(c.head)
    BY <1>3, <1>5, <1>6, <1>8 DEF NoHead, ReadOf
  <2>2. CASE k = 0
    <3>1. r.status = "Err"
      BY <1>4, <2>1, <2>2
    <3>2. ASSUME NEW l \in 1..Len(stream), EndIn(ends, l - 1) = b PROVE FALSE
      <4>1. Starting(c) = l
        BY <1>2, <1>3, <3>2, StartingIs
      <4> QED BY <2>2, <4>1, BeginNat
    <3> QED BY <3>1, <3>2
  <2>3. CASE k # 0
    <3>1. k \in 1..Len(stream) /\ EndIn(ends, k - 1) = b
      BY <1>2, <1>3, <2>3, StartingSome
    <3> HIDE DEF k
    <3>2. stream[k].h \in Nat /\ Len(c.head) \in Nat
      BY <1>5, <3>1, PieceFacts, StateStream, StreamFacts
    <3>3. CASE Len(c.head) < stream[k].h
      <4>1. r.status = "Partial" /\ r.resp = c
        BY <1>4, <2>1, <2>3, <3>3
      <4>2. c.head # <<>> /\ Behind(stream, ends, k, b)
        BY <1>1, <1>3, <3>1 DEF Behind
      <4>3. Waiting(stream, ends, c, b)
        BY <1>3, <1>5, <2>1, <3>1, <3>3, <4>2 DEF Waiting
      <4> QED BY <1>5, <4>1, <4>3 DEF n
    <3>4. CASE ~(Len(c.head) < stream[k].h)
      <4>1. stream[k].h <= Len(c.head)
        BY <3>2, <3>4
      <4>2. d = Parsed(c, stream[k])
        BY <2>1
      <4> HIDE DEF d
      <4>3. Pieces(d, b)
        BY <1>5, <2>1, <3>1, <4>1, <4>2, ParsedWith
      <4>4. WithHead(stream, ends, d, b)
        BY <1>5, <2>1, <3>1, <4>1, <4>2, ParsedWith
      <4>5. ReadOf(d) = n
        BY <1>5, <2>1, <3>1, <4>1, <4>2, ParsedWith
      <4>6. d.processed = n
        BY <1>3, <1>5, <2>1, <3>1, <4>1, <4>2, ParsedWith
      <4>7. CASE Refused(stream[k])
        BY <1>4, <2>1, <2>3, <3>1, <3>4, <4>7
      <4>8. CASE ~Refused(stream[k])
        <5>1. r = IF ReadOf(d) < d.total THEN [status |-> "Partial", resp |-> d]
                  ELSE [status |-> "Complete", resp |-> d]
          BY <1>4, <2>3, <3>4, <4>8
        <5>2. d.total \in Nat
          BY <4>3, PieceFacts
        <5>3. CASE ReadOf(d) < d.total
          <6>1. Waiting(stream, ends, d, b)
            BY <4>4, <4>5, <4>6, <5>3 DEF Waiting
          <6> QED BY <4>3, <4>5, <5>1, <5>3, <6>1 DEF n
        <5>4. CASE ~(ReadOf(d) < d.total)
          <6>1. ReadOf(d) >= d.total
            BY <1>2, <4>5, <5>2, <5>4
          <6> QED BY <4>3, <4>4, <4>5, <5>1, <5>4, <6>1 DEF n
        <5> QED BY <5>3, <5>4
      <4> QED BY <4>7, <4>8
    <3> QED BY <3>3, <3>4
  <2> QED BY <2>2, <2>3
<1>9. CASE WithHead(stream, ends, c0, b) /\ n <= c0.total
  <2>1. c.total > 0 /\ c.total \in Nat
    BY <1>5, <1>7, <1>9, WithHeadFacts
  <2>2. d = c
    BY <2>1
  <2> HIDE DEF d, k
  <2>3. r = IF n < c.total THEN [status |-> "Partial", resp |-> c]
            ELSE [status |-> "Complete", resp |-> c]
    BY <1>4, <1>5, <2>1, <2>2
  <2>4. CASE n < c.total
    <3>1. Waiting(stream, ends, c, b)
      BY <1>3, <1>5, <1>7, <1>9, <2>4 DEF Waiting
    <3> QED BY <1>5, <2>3, <2>4, <3>1 DEF n
  <2>5. CASE ~(n < c.total)
    <3>1. n >= c.total
      BY <1>2, <2>1, <2>5
    <3> QED BY <1>5, <1>7, <1>9, <2>3, <2>5, <3>1 DEF n
  <2> QED BY <2>4, <2>5
<1> QED BY <1>8, <1>9 DEF Given, n

-----------------------------------------------------------------------------
(* A whole answer                                                          *)

\* The data are the bytes behind the head.
DataIs(c, b) == DataOf(c) = [i \in 1..c.a |-> b + c.h + i]

\* The tail are the bytes behind the answer.
TailIs(c, b) ==
    /\ TailOf(c) \in Seq(Nat) /\ Len(TailOf(c)) = ReadOf(c) - c.total
    /\ Len(TailOf(c)) <= HeaderMax
    /\ \A i \in 1..Len(TailOf(c)) : TailOf(c)[i] = b + c.total + i

\* Its data, wherever they are, and the bytes behind it.
LEMMA WholeAnswer ==
    ASSUME NEW st, NEW en, NEW b \in Nat, NEW c, Pieces(c, b), WithHead(st, en, c, b),
           ReadOf(c) >= c.total
    PROVE  DataIs(c, b) /\ TailIs(c, b)
<1> DEFINE L == Len(c.head)
           t == c.total
           h == c.h
           a == c.a
           r == ReadOf(c)
<1>1. /\ t \in Nat /\ t > 0 /\ t = h + a /\ h \in Nat /\ h >= 1 /\ h <= L /\ a \in Nat
      /\ t > HeaderMax => a > 0 /\ Len(c.body) <= a /\ r = h + Len(c.body)
      /\ ~(t > HeaderMax) => c.body = <<>> /\ r = L
  BY WithHeadFacts
<1>2. /\ c.head \in Seq(Nat) /\ c.body \in Seq(Nat) /\ L \in Nat /\ Len(c.body) \in Nat
      /\ L <= HeaderMax /\ HeaderMax \in Nat /\ r \in Nat /\ r >= t
  BY PieceFacts, StreamConfig
<1>3. /\ \A i \in 1..L : c.head[i] = b + i
      /\ \A i \in 1..Len(c.body) : c.body[i] = b + h + i
  BY DEF Pieces
<1>4. InBody(c) <=> t > HeaderMax
  BY DEF InBody
<1>5. DataOf(c) = IF t > HeaderMax THEN c.body
                  ELSE IF a > 0 THEN SubSeq(c.head, h + 1, h + a) ELSE <<>>
  BY <1>4 DEF DataOf
<1>6. TailOf(c) = IF r > t THEN SubSeq(c.head, t + 1, r) ELSE <<>>
  BY DEF TailOf
<1> HIDE DEF L, t, h, a, r
<1>7. CASE t > HeaderMax
  <2>1. Len(c.body) = a /\ r = t
    BY <1>1, <1>2, <1>7
  <2>2. c.body = [i \in 1..a |-> b + h + i]
    <3>1. c.body = [i \in 1..Len(c.body) |-> c.body[i]]
      BY <1>2
    <3> QED BY <1>3, <2>1, <3>1
  <2>3. DataOf(c) = [i \in 1..a |-> b + h + i]
    BY <1>5, <1>7, <2>2
  <2>4. TailOf(c) = <<>>
    BY <1>2, <1>6, <2>1
  <2>5. Len(TailOf(c)) = 0 /\ TailOf(c) \in Seq(Nat) /\ r - t = 0 /\ 0 <= HeaderMax
    BY <1>2, <2>1, <2>4
  <2>6. 1..Len(TailOf(c)) = {}
    BY <2>5
  <2> QED BY <2>3, <2>5, <2>6 DEF DataIs, TailIs, h, a, r, t
<1>8. CASE ~(t > HeaderMax)
  <2>1. r = L /\ t <= L
    BY <1>1, <1>2, <1>8
  <2> DEFINE s == c.head
  <2>2. s \in Seq(Nat) /\ Len(s) = L /\ \A i \in 1..L : s[i] = b + i
    BY <1>2, <1>3 DEF L
  <2> HIDE DEF s
  <2>3. DataOf(c) = [i \in 1..a |-> b + h + i]
    <3>1. CASE a > 0
      <4>1. h <= t /\ t - h = a /\ t <= Len(s)
        BY <1>1, <2>1, <2>2
      <4> DEFINE u == SubSeq(s, h + 1, t)
      <4>2. u \in Seq(Nat)
        BY <1>1, <2>2, <4>1, PartOf
      <4>3. Len(u) = t - h
        BY <1>1, <2>2, <4>1, PartOf
      <4>4. \A i \in 1..(t - h) : u[i] = s[h + i]
        BY <1>1, <2>2, <4>1, PartOf
      <4>5. DataOf(c) = u
        BY <1>1, <1>5, <1>8, <3>1 DEF s
      <4> HIDE DEF u
      <4>6. ASSUME NEW i \in 1..a PROVE u[i] = b + h + i
        <5>1. h + i \in 1..L /\ i \in 1..(t - h) /\ i \in Nat
          BY <1>1, <1>2, <2>1, <4>1
        <5>2. u[i] = b + (h + i)
          BY <2>2, <4>4, <5>1
        <5> QED BY <1>1, <5>1, <5>2
      <4>7. u = [i \in 1..Len(u) |-> u[i]]
        BY <4>2
      <4> QED BY <4>1, <4>3, <4>5, <4>6, <4>7
    <3>2. CASE a = 0
      <4>1. DataOf(c) = <<>> /\ 1..a = {}
        BY <1>5, <1>8, <3>2
      <4> QED BY <4>1
    <3> QED BY <1>1, <3>1, <3>2
  <2>4. CASE r > t
    <3> DEFINE u == SubSeq(s, t + 1, L)
    <3>1. L <= Len(s)
      BY <1>2, <2>2
    <3>2. u \in Seq(Nat)
      BY <1>1, <1>2, <2>1, <2>2, <3>1, PartOf
    <3>3. Len(u) = L - t
      BY <1>1, <1>2, <2>1, <2>2, <3>1, PartOf
    <3>4. \A i \in 1..(L - t) : u[i] = s[t + i]
      BY <1>1, <1>2, <2>1, <2>2, <3>1, PartOf
    <3>5. TailOf(c) = u
      BY <1>6, <2>1, <2>4 DEF s
    <3> HIDE DEF u
    <3>6. ASSUME NEW i \in 1..(L - t) PROVE u[i] = b + t + i
      <4>1. t + i \in 1..L /\ i \in Nat
        BY <1>1, <1>2, <2>1
      <4>2. u[i] = b + (t + i)
        BY <2>2, <3>4, <4>1
      <4> QED BY <1>1, <4>1, <4>2
    <3>7. Len(u) = r - t /\ Len(u) <= HeaderMax
      BY <1>1, <1>2, <2>1, <3>3
    <3>8. \A i \in 1..Len(u) : u[i] = b + t + i
      BY <3>3, <3>6
    <3> QED BY <2>3, <3>2, <3>5, <3>7, <3>8 DEF DataIs, TailIs, h, a, r, t
  <2>5. CASE ~(r > t)
    <3>1. TailOf(c) = <<>>
      BY <1>6, <2>5
    <3>2. Len(TailOf(c)) = 0 /\ TailOf(c) \in Seq(Nat) /\ r - t = 0 /\ 0 <= HeaderMax
      BY <1>1, <1>2, <2>5, <3>1
    <3>3. 1..Len(TailOf(c)) = {}
      BY <3>2
    <3> QED BY <2>3, <3>2, <3>3 DEF DataIs, TailIs, h, a, r, t
  <2> QED BY <2>4, <2>5
<1> QED BY <1>7, <1>8

\* The next response begins with these bytes.
NextResponse(tail) == [NoResponse EXCEPT !.head = tail]

LEMMA TailFramed ==
    ASSUME NEW st, NEW en, NEW b \in Nat, NEW s \in Seq(Nat), Len(s) <= HeaderMax,
           \A i \in 1..Len(s) : s[i] = b + i
    PROVE  /\ NextResponse(s) \in Responses /\ NextResponse(s).head = s
           /\ NoHead(NextResponse(s)) /\ NextResponse(s).body = <<>> /\ NextResponse(s).a = 0
           /\ ReadOf(NextResponse(s)) = Len(s)
           /\ Framed(st, en, NextResponse(s), b)
           /\ TailOnly(NextResponse(s)) <=> s # <<>>
           /\ s = <<>> => NextResponse(s) = NoResponse
<1> DEFINE c == NextResponse(s)
<1>1. /\ c \in Responses /\ c.head = s /\ c.body = <<>> /\ c.processed = 0
      /\ c.total = 0 /\ c.h = 0 /\ c.a = 0
  <2>1. <<>> \in Seq(Nat)
    OBVIOUS
  <2>2. NoResponse \in Responses
    BY <2>1 DEF NoResponse, Responses
  <2>3. /\ c.head = s /\ c.body = <<>> /\ c.processed = 0
        /\ c.total = 0 /\ c.h = 0 /\ c.a = 0
    BY DEF NextResponse, NoResponse
  <2>4. c \in Responses
    BY <2>2 DEF NextResponse, Responses
  <2> QED BY <2>3, <2>4
<1>2. s = <<>> => c = NoResponse
  BY DEF NextResponse, NoResponse
<1> HIDE DEF c
<1>3. NoHead(c) /\ ReadOf(c) = Len(s)
  BY <1>1 DEF NoHead, ReadOf
<1>4. TailOnly(c) <=> s # <<>>
  BY <1>1, <1>3 DEF TailOnly
<1>5. Pieces(c, b)
  <2>1. 1..Len(c.body) = {}
    BY <1>1
  <2> QED BY <1>1, <2>1 DEF Pieces
<1>6. s = <<>> => Waiting(st, en, c, b)
  BY <1>1, <1>3 DEF Waiting
<1>7. Framed(st, en, c, b)
  BY <1>4, <1>5, <1>6 DEF Framed
<1> QED BY <1>1, <1>2, <1>3, <1>4, <1>7 DEF c

-----------------------------------------------------------------------------
(* What was delivered                                                      *)

\* As long as lengths are announced truly, the next response begins where the
\* last answer ended.
LEMMA Aligned ==
    ASSUME Typed, Past, \A i \in 1..Len(done) : stream[i].a = stream[i].b
    PROVE  Begin = EndIn(ends, Len(done))
<1>1. Len(done) \in Nat
  BY BeginNat
<1>2. CASE done = <<>>
  BY <1>2 DEF Begin, EndIn
<1>3. CASE done # <<>>
  <2>1. Len(done) \in 1..Len(done)
    BY <1>1, <1>3, EmptySeq DEF Typed
  <2>2. Answered(stream, ends, done[Len(done)], Len(done))
    BY <2>1 DEF Past
  <2>3. done[Len(done)].last = EndIn(ends, Len(done))
    BY <2>2 DEF Answered
  <2> QED BY <1>3, <2>3 DEF Begin
<1> QED BY <1>2, <1>3

\* The answer the next response belongs to comes after those delivered.
LEMMA NotBefore ==
    ASSUME Typed, Positions, Past, NEW k \in 1..Len(stream), EndIn(ends, k - 1) = Begin
    PROVE  Len(done) + 1 <= k /\ Len(done) + 1 \in 1..Len(stream)
<1>1. PICK j \in Len(done)..Len(stream) : j > 0 => EndIn(ends, j - 1) < Begin
  BY DEF Past
<1>2. Len(done) \in Nat /\ Len(stream) \in Nat
  BY BeginNat
<1>3. j < k
  <2>1. CASE j = 0
    BY <1>2, <2>1
  <2>2. CASE j > 0
    <3> DEFINE m == j - 1
               n == k - 1
    <3>1. m \in 0..Len(stream) /\ n \in 0..Len(stream)
      BY <1>1, <1>2, <2>2
    <3>2. EndIn(ends, m) < EndIn(ends, n)
      BY <1>1, <2>2
    <3>3. Stream(stream, ends)
      BY StateStream
    <3> HIDE DEF m, n
    <3>4. m < n
      BY <3>1, <3>2, <3>3, BehindGrows
    <3> QED BY <1>1, <1>2, <3>4 DEF m, n
  <2> QED BY <1>1, <1>2, <2>1, <2>2
<1> QED BY <1>1, <1>2, <1>3

\* When lengths are true, it is the next one.
LEMMA NextAnswer ==
    ASSUME Typed, Positions, Past, NEW k \in 1..Len(stream), EndIn(ends, k - 1) = Begin,
           \A i \in 1..Len(done) : stream[i].a = stream[i].b
    PROVE  k = Len(done) + 1
<1> DEFINE l == Len(done) + 1
<1>1. l \in 1..Len(stream) /\ Len(done) \in Nat
  BY NotBefore, BeginNat
<1>2. l - 1 = Len(done)
  BY <1>1
<1>3. EndIn(ends, l - 1) = Begin
  BY <1>2, Aligned
<1>4. Stream(stream, ends)
  BY StateStream
<1> HIDE DEF l
<1>5. k = l
  BY <1>1, <1>3, <1>4, OneBehind
<1> QED BY <1>5 DEF l

\* What cb_read hands over.
Answer1(c) == [start |-> c.head[1], data |-> DataOf(c), last |-> c.head[1] + c.total - 1]

\* A delivered answer: it is added to the past, and the next response begins
\* behind it.
LEMMA DeliveredFacts ==
    ASSUME Typed, Positions, Past, NEW c, Pieces(c, Begin),
           WithHead(stream, ends, c, Begin), ReadOf(c) >= c.total,
           done' = Append(done, Answer1(c)), UNCHANGED <<stream, ends>>
    PROVE  /\ done' \in Seq(Delivered) /\ Len(done') = Len(done) + 1
           /\ Begin' = Begin + c.total
           /\ Past'
<1> DEFINE b == Begin
           d == Answer1(c)
           n == Len(done)
<1>1. b \in Nat /\ n \in Nat /\ Len(stream) \in Nat
  BY BeginNat
<1>2. Pieces(c, b) /\ WithHead(stream, ends, c, b)
  OBVIOUS
<1> HIDE DEF b
<1>3. /\ c.total \in Nat /\ c.total > 0 /\ c.total = c.h + c.a /\ c.h \in Nat /\ c.a \in Nat
      /\ c.h >= 1 /\ c.h <= Len(c.head) /\ c.head[1] = b + 1
  <2>1. Len(c.head) >= 1 => c.head # <<>>
    OBVIOUS
  <2>2. /\ c.total \in Nat /\ c.total > 0 /\ c.total = c.h + c.a /\ c.h \in Nat /\ c.a \in Nat
        /\ c.h >= 1 /\ c.h <= Len(c.head)
    BY <1>1, <1>2, WithHeadFacts
  <2>3. Len(c.head) \in Nat
    BY <1>1, <1>2, PieceFacts
  <2>4. c.head # <<>>
    BY <2>1, <2>2, <2>3
  <2>5. c.head[1] = b + 1
    BY <1>1, <1>2, <2>4, PieceFacts
  <2> QED BY <2>2, <2>5
<1>4. DataOf(c) = [i \in 1..c.a |-> b + c.h + i]
  <2>1. DataIs(c, b)
    BY <1>1, <1>2, WholeAnswer
  <2> QED BY <2>1 DEF DataIs
<1>5. d.start = b + 1 /\ d.last = b + c.total /\ d.data = [i \in 1..c.a |-> b + c.h + i]
  BY <1>1, <1>3, <1>4 DEF Answer1
<1>6. d \in Delivered
  <2>1. [i \in 1..c.a |-> b + c.h + i] \in Seq(Nat)
    <3>1. \A i \in 1..c.a : b + c.h + i \in Nat
      BY <1>1, <1>3
    <3> QED BY <1>3, <3>1, IsASeq
  <2>2. b + 1 \in Nat /\ b + c.total \in Nat
    BY <1>1, <1>3
  <2>3. d = [start |-> d.start, data |-> d.data, last |-> d.last]
    BY DEF Answer1
  <2> HIDE DEF d
  <2> QED BY <1>5, <2>1, <2>2, <2>3 DEF Delivered
<1> HIDE DEF d
<1>7. /\ done' \in Seq(Delivered) /\ Len(done') = n + 1 /\ done'[n + 1] = d
      /\ \A k \in 1..n : done'[k] = done[k]
  <2>1. done \in Seq(Delivered) /\ done' = Append(done, d)
    BY DEF Typed, d
  <2> QED BY <1>6, <2>1, AppendProperties
<1>8. Begin' = b + c.total
  <2>1. done' # <<>>
    BY <1>1, <1>7
  <2>2. Begin' = done'[n + 1].last
    BY <1>7, <2>1 DEF Begin
  <2> QED BY <1>5, <1>7, <2>2
<1>9. PICK k \in 1..Len(stream) :
          EndIn(ends, k - 1) = b /\ c.h = stream[k].h /\ c.a = stream[k].a
  BY <1>2 DEF WithHead, Behind
<1>10. n + 1 <= k /\ n + 1 \in 1..Len(stream)
  BY <1>9, NotBefore DEF b
<1>11. (\E j \in Len(done)..Len(stream) : j > 0 => EndIn(ends, j - 1) < Begin)'
  <2>1. EndIn(ends, k - 1) < Begin'
    BY <1>1, <1>3, <1>8, <1>9
  <2>2. k \in Len(done')..Len(stream)
    BY <1>1, <1>7, <1>10
  <2> QED BY <2>1, <2>2
<1>12. ASSUME NEW l \in 1..(n + 1) PROVE Answered(stream, ends, done'[l], l)
  <2>1. CASE l \in 1..n
    BY <1>7, <2>1 DEF Past
  <2>2. CASE l = n + 1
    <3> SUFFICES ASSUME \A i \in 1..(n + 1) : stream[i].a = stream[i].b
                 PROVE  /\ d.start = EndIn(ends, (n + 1) - 1) + 1 /\ d.last = EndIn(ends, n + 1)
                        /\ d.data = [i \in 1..stream[n + 1].b |->
                                        EndIn(ends, (n + 1) - 1) + stream[n + 1].h + i]
      BY <1>7, <2>2 DEF Answered
    <3>1. \A i \in 1..n : stream[i].a = stream[i].b
      BY <1>1
    <3>2. k = n + 1
      BY <1>9, <3>1, NextAnswer DEF b
    <3>3. EndIn(ends, (n + 1) - 1) = b
      BY <1>9, <3>2
    <3>4. c.a = stream[n + 1].b /\ c.h = stream[n + 1].h
      <4>1. n + 1 \in 1..(n + 1)
        BY <1>1
      <4> QED BY <1>9, <3>2, <4>1
    <3>5. EndIn(ends, k) = EndIn(ends, k - 1) + stream[k].h + stream[k].b
      BY StateStream, StreamFacts
    <3>6. EndIn(ends, n + 1) = b + c.h + c.a
      BY <1>9, <3>2, <3>4, <3>5
    <3>7. d.last = EndIn(ends, n + 1)
      BY <1>1, <1>3, <1>5, <3>6
    <3> QED BY <1>5, <3>3, <3>4, <3>7
  <2> QED BY <1>1, <2>1, <2>2
<1>13. Past'
  <2>1. \A l \in 1..Len(done') : Answered(stream', ends', done'[l], l)
    BY <1>7, <1>12
  <2> QED BY <1>11, <2>1 DEF Past
<1> QED BY <1>7, <1>8, <1>13 DEF b

-----------------------------------------------------------------------------
(* Why a connection ends                                                   *)

\* Every announced length is true.
AllTrue == \A i \in 1..Len(stream) : stream[i].a = stream[i].b

\* What EndsForReason admits.
Reason ==
    \/ failed \/ eof
    \/ \E k \in DOMAIN stream : ~Exact(k) \/ OverLimit(stream[k]) \/ ~stream[k].keep

LEMMA FalseLength ==
    ASSUME Typed, ~Reason
    PROVE  AllTrue /\ \A k \in 1..Len(stream) : ~OverLimit(stream[k]) /\ stream[k].keep
<1>1. DOMAIN stream = 1..Len(stream) /\ Len(stream) \in Nat
  BY DEF Typed
<1>2. ASSUME NEW i \in 1..Len(stream) PROVE stream[i].a = stream[i].b
  <2>1. Exact(i) /\ i \in 1..i
    BY <1>1 DEF Reason
  <2> QED BY <2>1 DEF Exact
<1>3. AllTrue
  BY <1>2 DEF AllTrue
<1> QED BY <1>1, <1>3 DEF Reason

\* With true lengths, the response at the front begins where an answer ends.
LEMMA TrueBegin ==
    ASSUME Typed, Past, AllTrue
    PROVE  /\ Begin = EndIn(ends, Len(done))
           /\ Len(done) \in 0..Len(stream) /\ Len(done) <= Len(stream)
           /\ \A i \in 1..Len(done) : stream[i].a = stream[i].b
<1>1. Len(done) \in Nat /\ Len(stream) \in Nat /\ Len(done) <= Len(stream)
  BY BeginNat DEF Past
<1>2. \A i \in 1..Len(done) : stream[i].a = stream[i].b
  BY <1>1 DEF AllTrue
<1> QED BY <1>1, <1>2, Aligned

\* With true lengths, what arrives behind the last answer delivered belongs to
\* the next.
LEMMA SomeBehind ==
    ASSUME Typed, Positions, Past, AllTrue, NEW n \in Nat, n > 0, Begin + n <= arrived
    PROVE  /\ Len(done) + 1 \in 1..Len(stream)
           /\ EndIn(ends, (Len(done) + 1) - 1) = Begin
<1> DEFINE k == Len(done)
           l == Len(stream)
           x == EndIn(ends, k)
           y == EndIn(ends, l)
<1>1. k \in 0..l /\ l \in 0..l /\ k \in Nat /\ l \in Nat /\ Begin = x
  BY TrueBegin, BeginNat
<1>2. Stream(stream, ends) /\ arrived \in Nat /\ arrived <= y
  BY StateStream DEF Typed, Positions
<1>3. x \in Nat /\ y \in Nat
  BY <1>1, <1>2, StreamFacts
<1>4. x < y
  <2> HIDE DEF x, y, k, l
  <2> QED BY <1>1, <1>2, <1>3
<1>5. k < l
  BY <1>1, <1>2, <1>4, BehindGrows
<1>6. k + 1 \in 1..l /\ (k + 1) - 1 = k
  <2> HIDE DEF k, l
  <2> QED BY <1>1, <1>5
<1> QED BY <1>1, <1>6

\* Bytes that begin no answer arrive only behind a false length.
LEMMA ReasonNoAnswer ==
    ASSUME Typed, Positions, Past, NEW n \in Nat, n > 0, Begin + n <= arrived,
           ~ \E k \in 1..Len(stream) : EndIn(ends, k - 1) = Begin
    PROVE  Reason
<1> SUFFICES ASSUME ~Reason PROVE FALSE
  OBVIOUS
<1> QED BY FalseLength, SomeBehind

\* So do bytes behind the last answer that was asked for.
LEMMA ReasonTooMuch ==
    ASSUME Typed, Positions, Past, Len(stream) <= Len(done), NEW n \in Nat, n > 0,
           Begin + n <= arrived
    PROVE  Reason
<1> SUFFICES ASSUME ~Reason PROVE FALSE
  OBVIOUS
<1>1. Len(done) + 1 \in 1..Len(stream)
  BY FalseLength, SomeBehind
<1> QED BY <1>1, BeginNat

\* The same as one formula.
TooMuch ==
    Typed /\ Positions /\ Past /\ Len(stream) <= Len(done)
        => \A l \in Nat : l > 0 /\ Begin + l <= arrived => Reason

LEMMA TooMuchHolds == TooMuch
  BY ReasonTooMuch DEF TooMuch

\* The body behind a head has room.
LEMMA BodyFits ==
    ASSUME NEW st, NEW en, NEW b \in Nat, NEW c, Pieces(c, b),
           NoHead(c) \/ WithHead(st, en, c, b)
    PROVE  Len(c.body) <= c.a /\ Len(c.head) <= HeaderMax /\ c \in Responses
<1>1. c.a \in Nat /\ Len(c.head) <= HeaderMax /\ c \in Responses
  BY PieceFacts DEF Pieces
<1>2. c.body = <<>> => Len(c.body) <= c.a
  BY <1>1
<1>3. NoHead(c) => c.body = <<>>
  BY DEF NoHead
<1>4. WithHead(st, en, c, b) => c.body = <<>> \/ Len(c.body) <= c.a
  BY DEF WithHead
<1> QED BY <1>1, <1>2, <1>3, <1>4

-----------------------------------------------------------------------------
(* The steps                                                               *)

\* Nothing the past is about changes.
LEMMA PastSame ==
    ASSUME Past, UNCHANGED <<done, stream, ends>>
    PROVE  Past' /\ Begin' = Begin
<1>1. Begin' = Begin
  BY DEF Begin
<1> QED BY <1>1 DEF Past

\* recv refuses: the connection is closed.
LEMMA RefuseKeeps ==
    ASSUME RInv, Reason, Close, UNCHANGED <<failed, peerVars, cur, done>>
    PROVE  RInv'
<1>1. /\ open' = FALSE /\ pc' = "idle" /\ in' = 0
      /\ UNCHANGED <<sends, failed, stream, ends, arrived, eof, cur, done>>
  BY DEF Close, peerVars
<1>2. Typed'
  BY <1>1 DEF RInv, Typed
<1>3. Positions' /\ Counted' /\ InFront'
  BY <1>1 DEF RInv, Positions, Counted, InFront
<1>4. Past'
  BY <1>1, PastSame DEF RInv
<1>5. EndsForReason'
  BY <1>1 DEF EndsForReason, Reason, Exact
<1> QED BY <1>2, <1>3, <1>4, <1>5 DEF RInv

\* recv waits for more.
LEMMA PartialKeeps ==
    ASSUME RInv, Reading, in > 0, NEW c, Pieces(c, Begin), Waiting(stream, ends, c, Begin),
           Begin + ReadOf(c) <= arrived, cur' = c,
           UNCHANGED <<open, pc, sendVars, in, done, failed, peerVars>>
    PROVE  RInv'
<1>1. UNCHANGED <<open, pc, sends, in, done, failed, stream, ends, arrived, eof>>
  BY DEF sendVars, peerVars
<1> DEFINE b == Begin
<1>2. b \in Nat
  BY BeginNat DEF RInv
<1>3. Len(c.body) <= c.a /\ Len(c.head) <= HeaderMax /\ c \in Responses
  <2>1. Pieces(c, b) /\ (NoHead(c) \/ WithHead(stream, ends, c, b))
    BY DEF Waiting
  <2> HIDE DEF b
  <2> QED BY <1>2, <2>1, BodyFits
<1>4. Typed'
  BY <1>1, <1>3 DEF RInv, Typed
<1>5. Positions' /\ Counted'
  BY <1>1 DEF RInv, Positions, Counted
<1>6. Past' /\ Begin' = Begin
  BY <1>1, PastSame DEF RInv
<1>7. InFront'
  <2>1. Framed(stream', ends', cur', Begin')
    BY <1>1, <1>6 DEF Framed
  <2>2. Begin' + ReadOf(cur)' <= arrived'
    BY <1>1, <1>6 DEF ReadOf
  <2>3. pc' = "read" /\ in' > 0
    BY <1>1 DEF Reading
  <2>4. in' # 0
    BY <2>3
  <2> QED BY <2>1, <2>2, <2>3, <2>4 DEF InFront
<1>8. EndsForReason'
  BY <1>1 DEF RInv, EndsForReason, Exact, Reading
<1> QED BY <1>4, <1>5, <1>6, <1>7, <1>8 DEF RInv

\* recv has a whole answer.
LEMMA DeliverKeeps ==
    ASSUME RInv, Reading, in > 0, NEW c, Pieces(c, Begin), WithHead(stream, ends, c, Begin),
           ReadOf(c) >= c.total, Begin + ReadOf(c) <= arrived,
           Deliver(c), UNCHANGED <<failed, peerVars>>
    PROVE  RInv'
<1> DEFINE b == Begin
           t == TailOf(c)
           n == Len(done)
<1>1. b \in Nat /\ n \in Nat /\ Len(stream) \in Nat /\ Len(sends) \in Nat
  BY BeginNat DEF RInv
<1>2. Pieces(c, b) /\ WithHead(stream, ends, c, b) /\ ReadOf(c) >= c.total
  OBVIOUS
<1>3. UNCHANGED <<failed, stream, ends, arrived, eof>>
  BY DEF peerVars
<1>4. done' = Append(done, Answer1(c))
  BY DEF Deliver, Answer1
<1>5. /\ done' \in Seq(Delivered) /\ Len(done') = n + 1 /\ Begin' = b + c.total /\ Past'
  BY <1>3, <1>4, DeliveredFacts DEF RInv
<1>6. /\ t \in Seq(Nat) /\ Len(t) = ReadOf(c) - c.total /\ Len(t) <= HeaderMax
      /\ \A i \in 1..Len(t) : t[i] = b + c.total + i
  <2> HIDE DEF b
  <2>1. TailIs(c, b)
    BY <1>1, <1>2, WholeAnswer
  <2> QED BY <2>1 DEF TailIs
<1>7. c.total \in Nat /\ ReadOf(c) \in Nat /\ c.head # <<>> /\ arrived \in Nat
  <2> HIDE DEF b
  <2>1. c.total \in Nat /\ ReadOf(c) \in Nat /\ Len(c.head) \in Nat
    BY <1>1, <1>2, PieceFacts
  <2>2. c.h >= 1 /\ c.h <= Len(c.head) /\ c.h \in Nat
    BY <1>1, <1>2, WithHeadFacts
  <2>3. c.head # <<>>
    BY <2>1, <2>2
  <2> QED BY <2>1, <2>3 DEF RInv, Typed
<1>8. PICK k \in 1..Len(stream) :
          EndIn(ends, k - 1) = b /\ c.h = stream[k].h /\ c.a = stream[k].a
  BY <1>2 DEF WithHead, Behind
<1>9. Starting(c) = k
  <2> HIDE DEF b
  <2>1. c.head[1] = b + 1
    BY <1>1, <1>2, <1>7, PieceFacts
  <2> QED BY <1>1, <1>8, <2>1, StartingIs DEF RInv
<1>10. Positions' /\ (UNCHANGED sends => Len(stream') <= Len(sends'))
  BY <1>3 DEF RInv, Positions, Counted
<1> HIDE DEF t
<1>11. CASE ~KeepAlive(c) \/ (in = 1 /\ t # <<>>)
  <2>1. Close /\ UNCHANGED cur
    BY <1>11 DEF Deliver, t
  <2>2. open' = FALSE /\ pc' = "idle" /\ in' = 0 /\ UNCHANGED sends
    BY <2>1 DEF Close
  <2>3. Typed'
    BY <1>3, <1>5, <2>1, <2>2 DEF RInv, Typed
  <2>4. Counted' /\ InFront'
    BY <1>10, <2>2 DEF Counted, InFront
  <2>5. Reason
    <3>1. CASE ~KeepAlive(c)
      <4>1. ~stream[k].keep
        BY <1>9, <3>1 DEF KeepAlive
      <4>2. k \in DOMAIN stream
        BY DEF RInv, Typed
      <4> QED BY <4>1, <4>2 DEF Reason
    <3>2. CASE in = 1 /\ t # <<>>
      <4>1. Len(stream') <= Len(done')
        <5>1. Len(sends) = n + 1 /\ Len(stream) <= Len(sends)
          BY <3>2 DEF RInv, Counted, Reading
        <5> QED BY <1>3, <1>5, <5>1
      <4> DEFINE m == Len(t)
      <4>2. m \in Nat /\ m > 0 /\ m = ReadOf(c) - c.total
        BY <1>6, <3>2
      <4> HIDE DEF m
      <4>3. Begin' + m <= arrived'
        <5>1. b + ReadOf(c) <= arrived
          OBVIOUS
        <5> HIDE DEF b
        <5> QED BY <1>1, <1>3, <1>5, <1>7, <4>2, <5>1, SMTT(60)
      <4>4. Typed' /\ Positions' /\ Past'
        BY <1>5, <1>10, <2>3
      <4>5. Reason'
        <5>1. TooMuch'
          BY TooMuchHolds, PTL
        <5>2. (Typed /\ Positions /\ Past /\ Len(stream) <= Len(done)
                 => \A l \in Nat : l > 0 /\ Begin + l <= arrived => Reason)'
          BY <5>1 DEF TooMuch
        <5> QED BY <4>1, <4>2, <4>3, <4>4, <5>2
      <4> QED BY <1>3, <4>5 DEF Reason, Exact
    <3> QED BY <1>11, <3>1, <3>2
  <2>6. EndsForReason'
    BY <1>3, <2>5 DEF Reason, EndsForReason, Exact
  <2> QED BY <1>5, <1>10, <2>3, <2>4, <2>6 DEF RInv
<1>12. CASE ~(~KeepAlive(c) \/ (in = 1 /\ t # <<>>))
  <2>1. /\ in' = in - 1 /\ UNCHANGED <<open, pc, sends>>
        /\ cur' = IF in = 1 THEN NoResponse ELSE [NoResponse EXCEPT !.head = t]
    BY <1>12 DEF Deliver, sendVars, t
  <2> DEFINE e == b + c.total
             s == t
             x == NextResponse(t)
  <2>2. e \in Nat /\ s \in Seq(Nat) /\ Len(s) <= HeaderMax /\ \A i \in 1..Len(s) : s[i] = e + i
    BY <1>1, <1>6, <1>7
  <2>3. /\ x \in Responses /\ x.head = t /\ x.body = <<>> /\ x.a = 0
        /\ ReadOf(x) = Len(t) /\ (t = <<>> => x = NoResponse)
    <3> HIDE DEF s, e
    <3> QED BY <2>2, TailFramed DEF s
  <2>4. Framed(stream, ends, x, e)
    <3> HIDE DEF s, e
    <3>1. Framed(stream, ends, NextResponse(s), e)
      BY <2>2, TailFramed
    <3> QED BY <3>1 DEF s
  <2>5. cur' = x
    <3>1. in = 1 => t = <<>>
      BY <1>12
    <3> QED BY <2>1, <2>3, <3>1 DEF NextResponse
  <2> HIDE DEF x
  <2>6. in \in Nat /\ in' \in Nat /\ open
    <3>1. in \in Nat
      BY DEF RInv, Typed
    <3> QED BY <2>1, <3>1 DEF Reading
  <2>7. Typed'
    <3>1. Len(cur'.head) <= HeaderMax /\ Len(cur'.body) <= cur'.a /\ cur' \in Responses
      BY <1>6, <2>3, <2>5
    <3> QED BY <1>3, <1>5, <2>1, <2>6, <3>1 DEF RInv, Typed
  <2>8. Counted'
    <3>1. Len(sends) = n + in
      BY DEF RInv, Counted, Reading
    <3>2. Len(sends') = Len(done') + in'
      BY <1>1, <1>5, <2>1, <2>6, <3>1
    <3> QED BY <1>10, <2>1, <3>2 DEF Counted
  <2>9. InFront'
    <3>1. Framed(stream', ends', cur', Begin')
      BY <1>3, <1>5, <2>4, <2>5
    <3>2. Begin' + ReadOf(cur)' <= arrived'
      <4>1. ReadOf(cur)' = Len(t)
        BY <2>3, <2>5 DEF ReadOf
      <4>2. b + ReadOf(c) <= arrived
        OBVIOUS
      <4> HIDE DEF b
      <4> DEFINE m == Len(t)
      <4>3. m = ReadOf(c) - c.total /\ ReadOf(cur)' = m
        BY <1>6, <4>1
      <4> HIDE DEF m
      <4> QED BY <1>1, <1>3, <1>5, <1>7, <4>2, <4>3
    <3>3. pc' = "read"
      BY <2>1 DEF Reading
    <3>4. in' = 0 => cur' = NoResponse
      BY <2>1, <2>6
    <3> QED BY <3>1, <3>2, <3>3, <3>4 DEF InFront, NoResponse
  <2>10. EndsForReason'
    BY <2>1, <2>6 DEF EndsForReason
  <2> QED BY <1>5, <1>10, <2>7, <2>8, <2>9, <2>10 DEF RInv
<1> QED BY <1>11, <1>12


\* recv has read something.
LEMMA GivenRead ==
    ASSUME NEW b \in Nat, NEW c, Given(c, b)
    PROVE  ReadOf(c) \in Nat /\ ReadOf(c) > 0
<1>1. Pieces(c, b) /\ c.head # <<>>
  BY DEF Given
<1>2. ReadOf(c) \in Nat /\ Len(c.head) \in Nat /\ Len(c.head) # 0
  BY <1>1, PieceFacts
<1>3. CASE NoHead(c)
  <2>1. ReadOf(c) = Len(c.head)
    BY <1>3 DEF NoHead, ReadOf
  <2> QED BY <1>2, <2>1
<1>4. CASE WithHead(stream, ends, c, b)
  <2>1. c.h \in Nat /\ c.h >= 1 /\ c.h <= Len(c.head)
    BY <1>1, <1>4, WithHeadFacts
  <2>2. Len(c.body) \in Nat
    BY <1>1, PieceFacts
  <2>3. ReadOf(c) = Len(c.head) \/ ReadOf(c) = c.h + Len(c.body)
    BY DEF ReadOf
  <2> QED BY <1>2, <2>1, <2>2, <2>3
<1> QED BY <1>3, <1>4 DEF Given

\* The outcome of recv, whatever it is given.
LEMMA OutcomeKeeps ==
    ASSUME RInv, Reading, in > 0, NEW c0, Given(c0, Begin), Begin + ReadOf(c0) <= arrived,
           Outcome(Parse(c0))
    PROVE  RInv'
<1> DEFINE b == Begin
<1>1. b \in Nat /\ Typed /\ Positions /\ Past
  BY BeginNat DEF RInv
<1>2. PICK r : r = Parse(c0)
  OBVIOUS
<1>3. Outcome(r)
  BY <1>2
<1>4. UNCHANGED <<failed, peerVars>>
  BY <1>3 DEF Outcome
<1>5. ASSUME r.status = "Err", Reason PROVE RInv'
  <2>1. Close /\ UNCHANGED <<cur, done>>
    BY <1>3, <1>5 DEF Outcome
  <2>2. UNCHANGED <<failed, peerVars, cur, done>>
    BY <1>4, <2>1
  <2> QED BY <1>5, <2>1, <2>2, RefuseKeeps
<1>6. \/ /\ r.status = "Err"
         /\ ~ \E k \in 1..Len(stream) : EndIn(ends, k - 1) = b
      \/ r.status = "Err" /\ \E k \in 1..Len(stream) : Refused(stream[k])
      \/ /\ r.status = "Partial" /\ Pieces(r.resp, b) /\ Waiting(stream, ends, r.resp, b)
         /\ ReadOf(r.resp) = ReadOf(c0)
      \/ /\ r.status = "Complete" /\ Pieces(r.resp, b) /\ WithHead(stream, ends, r.resp, b)
         /\ ReadOf(r.resp) = ReadOf(c0) /\ ReadOf(r.resp) >= r.resp.total
  <2>1. Given(c0, b)
    OBVIOUS
  <2> HIDE DEF b
  <2> QED BY <1>1, <1>2, <2>1, ParseGiven
<1>7. CASE r.status = "Err" /\ ~ \E k \in 1..Len(stream) : EndIn(ends, k - 1) = b
  <2>1. ReadOf(c0) \in Nat /\ ReadOf(c0) > 0
    <3>1. Given(c0, b)
      OBVIOUS
    <3> HIDE DEF b
    <3> QED BY <1>1, <3>1, GivenRead
  <2>2. Reason
    BY <1>1, <1>7, <2>1, ReasonNoAnswer
  <2> QED BY <1>5, <1>7, <2>2
<1>8. CASE r.status = "Err" /\ \E k \in 1..Len(stream) : Refused(stream[k])
  <2>1. PICK k \in 1..Len(stream) : Refused(stream[k])
    BY <1>8
  <2>2. OverLimit(stream[k])
    BY <2>1 DEF Refused, TooLongForHeader, OverLimit
  <2>3. k \in DOMAIN stream
    BY <1>1 DEF Typed
  <2>4. Reason
    BY <2>2, <2>3 DEF Reason
  <2> QED BY <1>5, <1>8, <2>4
<1>9. CASE /\ r.status = "Partial" /\ Pieces(r.resp, b) /\ Waiting(stream, ends, r.resp, b)
           /\ ReadOf(r.resp) = ReadOf(c0)
  <2>1. cur' = r.resp /\ UNCHANGED <<open, pc, sendVars, in, done>>
    BY <1>3, <1>9 DEF Outcome
  <2>2. UNCHANGED <<open, pc, sendVars, in, done, failed, peerVars>>
    BY <1>4, <2>1
  <2> DEFINE c == r.resp
  <2>3. Pieces(c, Begin) /\ Waiting(stream, ends, c, Begin) /\ Begin + ReadOf(c) <= arrived
    BY <1>9
  <2>4. cur' = c
    BY <2>1
  <2> HIDE DEF c
  <2> QED BY <2>2, <2>3, <2>4, PartialKeeps
<1>10. CASE /\ r.status = "Complete" /\ Pieces(r.resp, b) /\ WithHead(stream, ends, r.resp, b)
            /\ ReadOf(r.resp) = ReadOf(c0) /\ ReadOf(r.resp) >= r.resp.total
  <2> DEFINE c == r.resp
  <2>1. Deliver(c)
    BY <1>3, <1>10 DEF Outcome
  <2>2. /\ Pieces(c, Begin) /\ WithHead(stream, ends, c, Begin)
        /\ Begin + ReadOf(c) <= arrived /\ ReadOf(c) >= c.total
    BY <1>10
  <2> HIDE DEF c
  <2> QED BY <1>4, <2>1, <2>2, DeliverKeeps
<1> QED BY <1>6, <1>7, <1>8, <1>9, <1>10

\* recv goes on with the tail of the answer before.
LEMMA RecvBufferedKeeps ==
    ASSUME RInv, RecvBuffered
    PROVE  RInv'
<1> DEFINE b == Begin
<1>1. b \in Nat /\ Framed(stream, ends, cur, b) /\ b + ReadOf(cur) <= arrived
  BY BeginNat DEF RInv, RecvBuffered, Reading, InFront
<1>2. Reading /\ in > 0 /\ Buffered /\ Outcome(Parse(cur))
  BY DEF RecvBuffered
<1>3. Given(cur, b)
  <2> HIDE DEF b
  <2>1. Pieces(cur, b) /\ ReadOf(cur) \in Nat
    BY <1>1, PieceFacts DEF Framed
  <2>2. cur.processed # ReadOf(cur)
    BY <1>2, <2>1 DEF Buffered
  <2>3. TailOnly(cur)
    BY <1>1, <2>2 DEF Framed, Waiting
  <2> QED BY <2>1, <2>3 DEF Given, TailOnly
<1> QED BY <1>1, <1>2, <1>3, OutcomeKeeps

\* A response without a tail to parse waits.
LEMMA NotBuffered ==
    ASSUME RInv, open, in = 0 \/ ~Buffered
    PROVE  /\ Pieces(cur, Begin) /\ Waiting(stream, ends, cur, Begin) /\ ~TailOnly(cur)
           /\ Consumed = Begin + ReadOf(cur) /\ Consumed \in Nat /\ Begin \in Nat
           /\ ReadOf(cur) \in Nat /\ Consumed <= arrived /\ arrived \in Nat
<1> DEFINE b == Begin
<1>1. /\ b \in Nat /\ Framed(stream, ends, cur, b) /\ b + ReadOf(cur) <= arrived
      /\ in = 0 => cur = NoResponse
  BY BeginNat DEF RInv, InFront
<1>2. Typed
  BY DEF RInv
<1> HIDE DEF b
<1>3. Pieces(cur, b) /\ (cur.head = <<>> => NoHead(cur))
  BY <1>1, FramedEmpty
<1>4. ReadOf(cur) \in Nat /\ Len(cur.head) \in Nat /\ (cur.head = <<>> <=> Len(cur.head) = 0)
  BY <1>1, <1>3, PieceFacts
<1>5. ~TailOnly(cur)
  <2>1. CASE in = 0
    BY <1>1, <2>1 DEF NoResponse, TailOnly
  <2>2. CASE ~Buffered
    <3> SUFFICES ASSUME TailOnly(cur) PROVE FALSE
      OBVIOUS
    <3>1. ReadOf(cur) = Len(cur.head) /\ cur.processed = 0 /\ Len(cur.head) # 0
      BY <1>4 DEF TailOnly, NoHead, ReadOf
    <3>2. ReadOf(cur) > cur.processed
      BY <1>4, <3>1
    <3> QED BY <2>2, <3>2 DEF Buffered
  <2> QED BY <2>1, <2>2
<1>6. Waiting(stream, ends, cur, b)
  BY <1>1, <1>5 DEF Framed
<1>7. Consumed = b + ReadOf(cur)
  BY <1>2, <1>3, ConsumedIs DEF b
<1>8. arrived \in Nat
  BY <1>2 DEF Typed
<1> QED BY <1>1, <1>3, <1>4, <1>5, <1>6, <1>7, <1>8 DEF b

\* recv reads from the socket.
LEMMA RecvBytesKeeps ==
    ASSUME RInv, RecvBytes
    PROVE  RInv'
<1> DEFINE there == arrived - Consumed
<1>1. PICK n : /\ n = (IF there < AskedFor THEN there ELSE AskedFor)
               /\ n > 0 /\ Outcome(Parse(Received(n)))
  BY DEF RecvBytes
<1>2. Reading /\ open /\ in > 0 /\ ~Buffered
  BY DEF RecvBytes, Reading
<1>3. /\ Pieces(cur, Begin) /\ Waiting(stream, ends, cur, Begin)
      /\ Consumed = Begin + ReadOf(cur) /\ Consumed \in Nat /\ Begin \in Nat
      /\ ReadOf(cur) \in Nat /\ Consumed <= arrived /\ arrived \in Nat
  BY <1>2, NotBuffered
<1>4. AskedFor \in Int
  <2>1. /\ cur.total \in Nat /\ Len(cur.head) \in Nat /\ HeaderMax \in Nat /\ ChunkSize \in Nat
    <3> DEFINE b == Begin
    <3>1. b \in Nat /\ Pieces(cur, b)
      BY <1>3
    <3> HIDE DEF b
    <3> QED BY <3>1, PieceFacts, StreamConfig
  <2> QED BY <1>3, <2>1 DEF AskedFor, ChunkFor
<1>5. n \in Nat /\ n > 0 /\ n <= AskedFor /\ n <= arrived - Consumed
  BY <1>1, <1>3, <1>4
<1>6. Given(Received(n), Begin)
  BY <1>3, <1>5, ReceivedGiven DEF RInv
<1>7. ReadOf(Received(n)) = ReadOf(cur) + n
  BY <1>3, <1>5, ReceivedGiven DEF RInv
<1> DEFINE c == Received(n)
<1>8. Begin + ReadOf(c) <= arrived
  <2> DEFINE x == ReadOf(c)
             y == ReadOf(cur)
             z == Begin
             w == Consumed
  <2>1. x = y + n /\ w = z + y /\ n \in Nat /\ n <= arrived - w /\ y \in Nat /\ z \in Nat /\ arrived \in Nat
    BY <1>3, <1>5, <1>7
  <2> HIDE DEF x, y, z, w
  <2>2. z + x <= arrived
    BY <2>1
  <2> QED BY <2>2 DEF x, z
<1>9. Given(c, Begin) /\ Outcome(Parse(c))
  BY <1>1, <1>6
<1> HIDE DEF c
<1> QED BY <1>2, <1>8, <1>9, OutcomeKeeps

\* recv gives up.
LEMMA ReadErrorKeeps ==
    ASSUME RInv, ReadError
    PROVE  RInv'
<1>1. Reading /\ open /\ Close /\ UNCHANGED <<failed, peerVars, cur, done>>
  BY DEF ReadError, Reading
<1> SUFFICES Reason
  BY <1>1, RefuseKeeps
<1>2. CASE in > 0 /\ ~Buffered /\ AskedFor = 0
  <2> DEFINE b == Begin
             L == Len(cur.head)
             r == ReadOf(cur)
  <2>1. Pieces(cur, b) /\ Waiting(stream, ends, cur, b) /\ b \in Nat
    BY <1>1, <1>2, NotBuffered
  <2> HIDE DEF b
  <2>2. /\ L \in Nat /\ L <= HeaderMax /\ r \in Nat /\ cur.total \in Nat
        /\ HeaderMax \in Nat /\ HeaderMax > 0 /\ ChunkSize \in Nat /\ ChunkSize > 0
        /\ (cur.head = <<>> => L = 0)
    BY <2>1, PieceFacts, StreamConfig
  <2>3. AskedFor = IF cur.total > 0 THEN cur.total - r ELSE ChunkFor(HeaderMax - L)
    BY DEF AskedFor
  <2> HIDE DEF L, r
  <2>4. CASE NoHead(cur)
    <3>1. ChunkFor(HeaderMax - L) = 0
      BY <1>2, <2>3, <2>4 DEF NoHead
    <3>2. L = HeaderMax
      BY <2>2, <3>1 DEF ChunkFor
    <3>3. cur.head # <<>>
      BY <2>2, <3>2
    <3>4. PICK k \in 1..Len(stream) : L < stream[k].h
      BY <2>1, <2>4, <3>3 DEF Waiting, WithHead, L, NoHead
    <3>5. OverLimit(stream[k])
      BY <3>2, <3>4, StateStream, StreamFacts, <2>2 DEF OverLimit, RInv
    <3>6. k \in DOMAIN stream
      BY DEF RInv, Typed
    <3> QED BY <3>5, <3>6 DEF Reason
  <2>5. CASE WithHead(stream, ends, cur, b) /\ r < cur.total
    <3>1. cur.total > 0
      BY <2>2, <2>5
    <3> QED BY <1>2, <2>2, <2>3, <2>5, <3>1
  <2> QED BY <2>1, <2>4, <2>5 DEF Waiting, r
<1>3. CASE eof
  BY <1>3 DEF Reason
<1>4. CASE in = 0 /\ arrived > Consumed
  <2> DEFINE b == Begin
             n == arrived - b
  <2>1. /\ Consumed = b + ReadOf(cur) /\ b \in Nat /\ ReadOf(cur) \in Nat /\ arrived \in Nat
        /\ Consumed \in Nat
    BY <1>1, <1>4, NotBuffered
  <2> HIDE DEF b
  <2>2. n \in Nat /\ n > 0 /\ b + n <= arrived
    BY <1>4, <2>1
  <2>3. Len(stream) <= Len(done)
    BY <1>1, <1>4, BeginNat DEF RInv, Counted
  <2> HIDE DEF n
  <2> QED BY <2>2, <2>3, ReasonTooMuch DEF b, RInv
<1> QED BY <1>2, <1>3, <1>4 DEF ReadError

\* The network reported an error.
LEMMA WriteErrorKeeps ==
    ASSUME RInv, WriteError
    PROVE  RInv'
<1>1. /\ open' = FALSE /\ pc' = "idle" /\ in' = 0 /\ failed' = TRUE
      /\ UNCHANGED <<sends, stream, ends, arrived, eof, cur, done>>
  BY DEF WriteError, Close, peerVars
<1>2. Typed'
  BY <1>1 DEF RInv, Typed
<1>3. Positions' /\ Counted' /\ InFront'
  BY <1>1 DEF RInv, Positions, Counted, InFront
<1>4. Past'
  BY <1>1, PastSame DEF RInv
<1>5. EndsForReason'
  BY <1>1 DEF EndsForReason
<1> QED BY <1>2, <1>3, <1>4, <1>5 DEF RInv

\* A step that neither reads nor changes the stream.
LEMMA SameKeeps ==
    ASSUME RInv, UNCHANGED <<open, failed, sends, recvVars, peerVars>>,
           pc' \in {"idle", "write", "read"}, pc' # "idle" => open,
           open /\ pc' # "read" => ~TailOnly(cur)
    PROVE  RInv'
<1>1. UNCHANGED <<open, failed, sends, in, cur, done, stream, ends, arrived, eof>>
  BY DEF recvVars, peerVars
<1>2. Typed'
  BY <1>1 DEF RInv, Typed
<1>3. Positions' /\ Counted'
  BY <1>1 DEF RInv, Positions, Counted
<1>4. Past' /\ Begin' = Begin
  BY <1>1, PastSame DEF RInv
<1>5. InFront'
  <2> SUFFICES ASSUME open PROVE InFront'
    BY <1>1 DEF InFront
  <2>1. Framed(stream', ends', cur', Begin')
    BY <1>1, <1>4 DEF RInv, InFront
  <2>2. Begin' + ReadOf(cur)' <= arrived'
    <3>1. ReadOf(cur)' = ReadOf(cur)
      BY <1>1 DEF ReadOf
    <3> QED BY <1>1, <1>4, <3>1 DEF RInv, InFront
  <2>3. pc' # "read" => ~TailOnly(cur)'
    BY <1>1 DEF TailOnly, NoHead
  <2>4. in' = 0 => cur' = NoResponse
    BY <1>1 DEF RInv, InFront
  <2> QED BY <2>1, <2>2, <2>3, <2>4 DEF InFront, NoResponse
<1>6. EndsForReason'
  BY <1>1 DEF RInv, EndsForReason, Exact
<1> QED BY <1>2, <1>3, <1>4, <1>5, <1>6 DEF RInv

\* recv finds nothing more.
LEMMA ReadAsyncKeeps ==
    ASSUME RInv, ReadAsync
    PROVE  RInv'
<1>1. UNCHANGED <<open, failed, sends, recvVars, peerVars>> /\ pc' = "idle" /\ open
  BY DEF ReadAsync, sendVars, Reading
<1>2. ~TailOnly(cur)
  BY <1>1, NotBuffered DEF ReadAsync
<1> QED BY <1>1, <1>2, SameKeeps

\* The callbacks begin and end, and requests are written.
LEMMA CallbackKeeps ==
    ASSUME RInv, CbWrite \/ WriteSome \/ WriteComplete \/ WriteEnd \/ CbRead \/ UNCHANGED vars
    PROVE  RInv'
<1>1. Typed /\ (open /\ pc # "read" => ~TailOnly(cur))
  BY DEF RInv, InFront
<1>2. ASSUME CbWrite PROVE RInv'
  <2>1. UNCHANGED <<open, failed, sends, recvVars, peerVars>> /\ pc' = "write" /\ open /\ pc = "idle"
    BY <1>2 DEF CbWrite, sendVars
  <2> QED BY <1>1, <2>1, SameKeeps
<1>3. ASSUME WriteSome \/ WriteComplete PROVE RInv'
  <2>1. UNCHANGED <<open, failed, sends, recvVars, peerVars>> /\ pc' = pc /\ open /\ pc = "write"
    BY <1>3 DEF WriteSome, WriteComplete, Writing
  <2> QED BY <1>1, <2>1, SameKeeps
<1>4. ASSUME WriteEnd PROVE RInv'
  <2>1. UNCHANGED <<open, failed, sends, recvVars, peerVars>> /\ pc' = "idle" /\ open /\ pc = "write"
    BY <1>4 DEF WriteEnd, sendVars
  <2> QED BY <1>1, <2>1, SameKeeps
<1>5. ASSUME CbRead PROVE RInv'
  <2>1. UNCHANGED <<open, failed, sends, recvVars, peerVars>> /\ pc' = "read" /\ open
    BY <1>5 DEF CbRead, sendVars
  <2> QED BY <1>1, <2>1, SameKeeps
<1>6. ASSUME UNCHANGED vars PROVE RInv'
  <2>1. UNCHANGED <<open, failed, sends, recvVars, peerVars>> /\ pc' = pc
    BY <1>6 DEF vars, sendVars
  <2> QED BY <1>1, <2>1, SameKeeps DEF Typed
<1> QED BY <1>2, <1>3, <1>4, <1>5, <1>6

\* A request is sent.
LEMMA SendKeeps ==
    ASSUME RInv, NEW o \in Objects, Send(o)
    PROVE  RInv'
<1>1. /\ open /\ pc = "idle" /\ sends' = Append(sends, o) /\ in' = in + 1
      /\ UNCHANGED <<open, failed, pc, done, stream, ends, arrived, eof>>
  BY DEF Send, peerVars
<1>2. cur' = cur
  BY <1>1 DEF Send, RInv, InFront
<1>3. sends \in Seq(Objects) /\ in \in Nat /\ Len(sends) \in Nat
  BY DEF RInv, Typed
<1>4. Len(sends') = Len(sends) + 1 /\ sends' \in Seq(Objects)
  BY <1>1, <1>3
<1>5. in' \in Nat /\ in' # 0
  BY <1>1, <1>3
<1>6. Typed'
  BY <1>1, <1>2, <1>4, <1>5 DEF RInv, Typed
<1>7. Positions'
  BY <1>1 DEF RInv, Positions
<1>8. Past' /\ Begin' = Begin
  BY <1>1, PastSame DEF RInv
<1>9. Counted'
  <2>1. Len(sends) = Len(done) + in /\ Len(stream) <= Len(sends)
    BY <1>1 DEF RInv, Counted
  <2>2. Len(done) \in Nat /\ Len(stream) \in Nat
    BY BeginNat DEF RInv
  <2>3. Len(sends') = Len(done) + in' /\ Len(stream) <= Len(sends')
    BY <1>1, <1>3, <1>4, <2>1, <2>2
  <2> QED BY <1>1, <2>3 DEF Counted
<1>10. InFront'
  <2>1. Framed(stream', ends', cur', Begin')
    BY <1>1, <1>2, <1>8 DEF RInv, InFront
  <2>2. Begin' + ReadOf(cur)' <= arrived'
    <3>1. ReadOf(cur)' = ReadOf(cur)
      BY <1>2 DEF ReadOf
    <3> QED BY <1>1, <1>8, <3>1 DEF RInv, InFront
  <2>3. ~TailOnly(cur)'
    BY <1>1, <1>2 DEF TailOnly, NoHead, RInv, InFront
  <2> QED BY <1>5, <2>1, <2>2, <2>3 DEF InFront
<1>11. EndsForReason'
  BY <1>1 DEF EndsForReason
<1> QED BY <1>6, <1>7, <1>8, <1>9, <1>10, <1>11 DEF RInv

\* The second stream goes on where the first ends.
Continues(st, en, st2, en2) ==
    /\ Len(st) <= Len(st2)
    /\ \A k \in 1..Len(st) : st2[k] = st[k]
    /\ \A k \in 0..Len(st) : EndIn(en2, k) = EndIn(en, k)

\* The server begins an answer.
LEMMA AnswerContinues ==
    ASSUME NEW st, NEW en, Stream(st, en), NEW a \in Answers, NEW st2, NEW en2,
           st2 = Append(st, a), en2 = Append(en, EndIn(en, Len(st)) + a.h + a.b)
    PROVE  /\ Stream(st2, en2) /\ Continues(st, en, st2, en2)
           /\ Len(st2) = Len(st) + 1
           /\ EndIn(en2, Len(st2)) >= EndIn(en, Len(st))
<1> DEFINE l == Len(st)
           x == EndIn(en, l)
           e == x + a.h + a.b
<1>1. l \in Nat /\ x \in Nat /\ a.h \in Nat /\ a.b \in Nat
  BY StreamFacts, AnswerFacts
<1>2. st \in Seq(Answers) /\ en \in Seq(Nat) /\ Len(en) = l
  BY DEF Stream
<1>3. e \in Nat /\ e >= x
  BY <1>1
<1> HIDE DEF x, e
<1>4. /\ st2 \in Seq(Answers) /\ Len(st2) = l + 1 /\ st2[l + 1] = a
      /\ \A k \in 1..l : st2[k] = st[k]
  BY <1>2
<1>5. /\ en2 \in Seq(Nat) /\ Len(en2) = l + 1 /\ en2[l + 1] = e
      /\ \A k \in 1..l : en2[k] = en[k]
  BY <1>2, <1>3 DEF e, x
<1> HIDE DEF l
<1>6. \A k \in 0..l : EndIn(en2, k) = EndIn(en, k)
  BY <1>1, <1>5 DEF EndIn
<1>7. ASSUME NEW k \in 1..(l + 1) PROVE en2[k] = EndIn(en2, k - 1) + st2[k].h + st2[k].b
  <2>1. k - 1 \in 0..l
    BY <1>1
  <2>2. EndIn(en2, k - 1) = EndIn(en, k - 1)
    BY <1>6, <2>1
  <2>3. CASE k \in 1..l
    <3>1. en[k] = EndIn(en, k - 1) + st[k].h + st[k].b
      BY <2>3 DEF Stream, l
    <3> QED BY <1>4, <1>5, <2>2, <2>3, <3>1
  <2>4. CASE k = l + 1
    <3>1. k - 1 = l
      BY <1>1, <2>4
    <3>2. EndIn(en2, k - 1) = x
      BY <2>2, <3>1 DEF x
    <3>3. st2[k] = a /\ en2[k] = e
      BY <1>4, <1>5, <2>4
    <3> DEFINE y == EndIn(en2, k - 1)
    <3>4. y = x
      BY <3>2
    <3> HIDE DEF y
    <3>5. en2[k] = y + st2[k].h + st2[k].b
      BY <3>3, <3>4 DEF e
    <3> QED BY <3>5 DEF y
  <2>5. k \in 1..l \/ k = l + 1
    BY <1>1
  <2> QED BY <2>3, <2>4, <2>5
<1>8. Stream(st2, en2)
  BY <1>4, <1>5, <1>7 DEF Stream
<1>9. Continues(st, en, st2, en2)
  BY <1>1, <1>4, <1>6 DEF Continues, l
<1>10. EndIn(en2, l + 1) = e
  BY <1>1, <1>5 DEF EndIn
<1> QED BY <1>3, <1>4, <1>8, <1>9, <1>10 DEF x, l

\* What is known of a response, and of answers delivered, stays true.
LEMMA FramedContinues ==
    ASSUME NEW st, NEW en, NEW st2, NEW en2, Len(st) \in Nat, Len(st2) \in Nat,
           Continues(st, en, st2, en2)
    PROVE  /\ \A c, b : Framed(st, en, c, b) => Framed(st2, en2, c, b)
           /\ \A d : \A k \in 1..Len(st) : Answered(st, en, d, k) => Answered(st2, en2, d, k)
<1>1. ASSUME NEW k \in 1..Len(st)
      PROVE  /\ k \in 1..Len(st2) /\ st2[k] = st[k]
             /\ EndIn(en2, k - 1) = EndIn(en, k - 1) /\ EndIn(en2, k) = EndIn(en, k)
  <2>1. k - 1 \in 0..Len(st) /\ k \in 0..Len(st) /\ k \in 1..Len(st2)
    BY DEF Continues
  <2> QED BY <2>1 DEF Continues
<1>2. ASSUME NEW b, NEW k \in 1..Len(st), Behind(st, en, k, b)
      PROVE  k \in 1..Len(st2) /\ Behind(st2, en2, k, b) /\ st2[k] = st[k]
  BY <1>1, <1>2 DEF Behind
<1>3. ASSUME NEW c, NEW b, Framed(st, en, c, b) PROVE Framed(st2, en2, c, b)
  <2>1. WithHead(st, en, c, b) => WithHead(st2, en2, c, b)
    <3> SUFFICES ASSUME WithHead(st, en, c, b) PROVE WithHead(st2, en2, c, b)
      OBVIOUS
    <3>1. PICK k \in 1..Len(st) : Behind(st, en, k, b) /\ c.h = st[k].h /\ c.a = st[k].a
      BY DEF WithHead
    <3>2. \E l \in 1..Len(st2) : Behind(st2, en2, l, b) /\ c.h = st2[l].h /\ c.a = st2[l].a
      BY <1>2, <3>1
    <3> QED BY <3>2 DEF WithHead
  <2>2. (\E k \in 1..Len(st) : Behind(st, en, k, b) /\ Len(c.head) < st[k].h)
        => \E k \in 1..Len(st2) : Behind(st2, en2, k, b) /\ Len(c.head) < st2[k].h
    BY <1>2
  <2> QED BY <1>3, <2>1, <2>2 DEF Framed, Waiting
<1>4. ASSUME NEW d, NEW k \in 1..Len(st), Answered(st, en, d, k) PROVE Answered(st2, en2, d, k)
  <2>1. \A i \in 1..k : i \in 1..Len(st)
    OBVIOUS
  <2>2. (\A i \in 1..k : st2[i].a = st2[i].b) => \A i \in 1..k : st[i].a = st[i].b
    BY <1>1, <2>1
  <2> QED BY <1>1, <1>4, <2>2 DEF Answered
<1> QED BY <1>3, <1>4

LEMMA AnswerKeeps ==
    ASSUME RInv, NEW a \in Answers, Answer(a)
    PROVE  RInv'
<1>1. /\ open /\ pc = "idle" /\ Len(stream) < Len(sends)
      /\ stream' = Append(stream, a)
      /\ UNCHANGED <<open, failed, pc, sends, in, cur, done, arrived, eof>>
  BY DEF Answer, sendVars, recvVars
<1>2. Stream(stream, ends) /\ \A k : EndOf(k) = EndIn(ends, k)
  BY StateStream DEF RInv
<1>3. ends' = Append(ends, EndIn(ends, Len(stream)) + a.h + a.b)
  BY <1>2 DEF Answer
<1>4. Stream(stream', ends')
  BY <1>1, <1>2, <1>3, AnswerContinues
<1>5. Continues(stream, ends, stream', ends')
  BY <1>1, <1>2, <1>3, AnswerContinues
<1>6. Len(stream') = Len(stream) + 1
  BY <1>1, <1>2, <1>3, AnswerContinues
<1>7. EndIn(ends', Len(stream')) >= EndIn(ends, Len(stream))
  BY <1>1, <1>2, <1>3, AnswerContinues
<1>8. Len(stream) \in Nat /\ Len(done) \in Nat /\ Len(sends) \in Nat
  BY BeginNat DEF RInv
<1>9. Typed'
  BY <1>1, <1>4 DEF RInv, Typed, Stream
<1>10. Positions'
  <2>1. EndIn(ends, Len(stream)) \in Nat
    BY <1>2, <1>8, StreamFacts
  <2>2. EndIn(ends', Len(stream')) \in Nat
    <3>1. Len(stream') \in 0..Len(stream')
      BY <1>6, <1>8
    <3> QED BY <1>4, <3>1, StreamFacts
  <2>3. arrived \in Nat /\ arrived <= EndIn(ends, Len(stream))
    BY DEF RInv, Typed, Positions
  <2>4. arrived' <= EndIn(ends', Len(stream'))
    BY <1>1, <1>7, <2>1, <2>2, <2>3
  <2> QED BY <1>4, <2>4 DEF Positions, Stream
<1>11. Counted'
  <2>1. Len(stream') <= Len(sends')
    BY <1>1, <1>6, <1>8
  <2> QED BY <1>1, <2>1 DEF RInv, Counted
<1>12. Begin' = Begin
  BY <1>1 DEF Begin
<1>13. InFront'
  <2>1. Framed(stream, ends, cur, Begin)
    BY <1>1 DEF RInv, InFront
  <2>2. Framed(stream', ends', cur, Begin)
    BY <1>5, <1>6, <1>8, <2>1, FramedContinues
  <2>3. Framed(stream', ends', cur', Begin')
    BY <1>1, <1>12, <2>2
  <2>4. Begin' + ReadOf(cur)' <= arrived'
    <3>1. ReadOf(cur)' = ReadOf(cur)
      BY <1>1 DEF ReadOf
    <3> QED BY <1>1, <1>12, <3>1 DEF RInv, InFront
  <2>5. ~TailOnly(cur)'
    BY <1>1 DEF TailOnly, NoHead, RInv, InFront
  <2>6. in' = 0 => cur' = NoResponse
    BY <1>1 DEF RInv, InFront
  <2> QED BY <2>3, <2>4, <2>5, <2>6 DEF InFront, NoResponse
<1>14. Past'
  <2>1. PICK j \in Len(done)..Len(stream) : j > 0 => EndIn(ends, j - 1) < Begin
    BY DEF RInv, Past
  <2>2. j > 0 => EndIn(ends', j - 1) = EndIn(ends, j - 1)
    <3>1. j > 0 => j - 1 \in 0..Len(stream)
      BY <1>8
    <3> QED BY <1>5, <3>1 DEF Continues
  <2>3. j \in Len(done')..Len(stream')
    BY <1>1, <1>6, <1>8
  <2>4. j > 0 => EndIn(ends', j - 1) < Begin'
    BY <1>12, <2>1, <2>2
  <2>5. ASSUME NEW k \in 1..Len(done) PROVE Answered(stream', ends', done[k], k)
    <3>1. k \in 1..Len(stream)
      BY <1>8, <2>1
    <3>2. Answered(stream, ends, done[k], k)
      BY DEF RInv, Past
    <3> QED BY <1>5, <1>6, <1>8, <3>1, <3>2, FramedContinues
  <2> QED BY <1>1, <2>3, <2>4, <2>5 DEF Past
<1>15. EndsForReason'
  BY <1>1 DEF EndsForReason
<1> QED BY <1>9, <1>10, <1>11, <1>13, <1>14, <1>15 DEF RInv

\* Bytes arrive, or the server closes.
LEMMA ArriveKeeps ==
    ASSUME RInv, Arrive \/ ServerCloses
    PROVE  RInv'
<1>1. /\ open /\ pc = "idle"
      /\ UNCHANGED <<open, failed, pc, sends, in, cur, done, stream, ends>>
      /\ eof' \in BOOLEAN
  BY DEF Arrive, ServerCloses, sendVars, recvVars, RInv, Typed
<1>2. arrived \in Nat /\ arrived <= EndIn(ends, Len(stream)) /\ EndIn(ends, Len(stream)) \in Nat
  <2>1. Stream(stream, ends) /\ Len(stream) \in 0..Len(stream)
    BY StateStream, BeginNat DEF RInv
  <2>2. EndIn(ends, Len(stream)) \in Nat
    BY <2>1, StreamFacts
  <2> QED BY <2>2 DEF RInv, Typed, Positions
<1>3. arrived' \in Nat /\ arrived' >= arrived /\ arrived' <= EndIn(ends, Len(stream))
  <2>1. CASE Arrive
    <3>1. EndOf(Len(stream)) = EndIn(ends, Len(stream))
      BY DEF EndOf, EndIn
    <3>2. arrived' \in (arrived + 1)..EndIn(ends, Len(stream))
      BY <2>1, <3>1 DEF Arrive
    <3> QED BY <1>2, <3>2
  <2>2. CASE ServerCloses
    BY <1>2, <2>2 DEF ServerCloses
  <2> QED BY <2>1, <2>2
<1>4. Typed'
  BY <1>1, <1>3 DEF RInv, Typed
<1>5. Positions' /\ Counted'
  BY <1>1, <1>3 DEF RInv, Positions, Counted
<1>6. Past' /\ Begin' = Begin
  BY <1>1, PastSame DEF RInv
<1>7. InFront'
  <2>1. Framed(stream', ends', cur', Begin')
    BY <1>1, <1>6 DEF RInv, InFront
  <2>2. Begin' + ReadOf(cur)' <= arrived'
    <3> DEFINE b == Begin
               r == ReadOf(cur)
    <3>1. ReadOf(cur)' = r
      BY <1>1 DEF ReadOf
    <3>2. b \in Nat /\ b + r <= arrived /\ Pieces(cur, b)
      BY <1>1, BeginNat DEF RInv, InFront, Framed
    <3> HIDE DEF b
    <3>3. r \in Nat
      BY <3>2, PieceFacts
    <3> HIDE DEF r
    <3>4. b + r <= arrived'
      BY <1>2, <1>3, <3>2, <3>3
    <3> QED BY <1>6, <3>1, <3>4 DEF b
  <2>3. ~TailOnly(cur)'
    BY <1>1 DEF TailOnly, NoHead, RInv, InFront
  <2>4. in' = 0 => cur' = NoResponse
    BY <1>1 DEF RInv, InFront
  <2> QED BY <2>1, <2>2, <2>3, <2>4 DEF InFront, NoResponse
<1>8. EndsForReason'
  BY <1>1 DEF EndsForReason
<1> QED BY <1>4, <1>5, <1>6, <1>7, <1>8 DEF RInv

-----------------------------------------------------------------------------
(* The invariant and what follows from it                                  *)

LEMMA InitKeeps == Init => RInv
<1> SUFFICES ASSUME Init PROVE RInv
  OBVIOUS
<1>1. /\ open = TRUE /\ failed = FALSE /\ pc = "idle" /\ sends = <<>> /\ in = 0
      /\ cur = NoResponse /\ done = <<>> /\ stream = <<>> /\ ends = <<>>
      /\ arrived = 0 /\ eof = FALSE
  BY DEF Init
<1> DEFINE s == <<>>
           z == 0
<1>2. s \in Seq(Nat) /\ Len(s) = 0 /\ z = 0 /\ z \in Nat
  OBVIOUS
<1> HIDE DEF s, z
<1>3. Len(s) <= HeaderMax /\ \A i \in 1..Len(s) : s[i] = z + i
  BY <1>2, StreamConfig
<1>4. NextResponse(s) = NoResponse
  BY <1>2, <1>3, TailFramed DEF s
<1>5. Framed(stream, ends, NextResponse(s), z)
  BY <1>2, <1>3, TailFramed
<1>6. /\ NoResponse \in Responses /\ NoResponse.head = <<>> /\ NoResponse.body = <<>>
      /\ NoResponse.a = 0 /\ ReadOf(NoResponse) = 0
  <2>1. <<>> \in Seq(Nat)
    OBVIOUS
  <2> QED BY <2>1 DEF NoResponse, Responses, ReadOf
<1>7. Typed
  <2>1. Len(cur.head) <= HeaderMax /\ Len(cur.body) <= cur.a /\ cur \in Responses
    BY <1>1, <1>6, StreamConfig
  <2>2. stream \in Seq(Answers) /\ ends \in Seq(Nat) /\ Len(ends) = Len(stream)
    BY <1>1
  <2>3. sends \in Seq(Objects) /\ done \in Seq(Delivered)
    BY <1>1
  <2>4. in \in Nat /\ arrived \in Nat
    BY <1>1
  <2>5. open \in BOOLEAN /\ failed \in BOOLEAN /\ eof \in BOOLEAN
    BY <1>1
  <2>6. pc \in {"idle", "write", "read"} /\ (pc # "idle" => open)
    BY <1>1
  <2> QED BY <2>1, <2>2, <2>3, <2>4, <2>5, <2>6 DEF Typed
<1>8. Begin = 0
  BY <1>1 DEF Begin
<1>9. Positions /\ Counted
  BY <1>1 DEF Positions, Counted, EndIn
<1>10. InFront
  <2>1. Framed(stream, ends, cur, Begin)
    BY <1>1, <1>2, <1>4, <1>5, <1>8
  <2>2. Begin + ReadOf(cur) <= arrived
    BY <1>1, <1>6, <1>8
  <2>3. ~TailOnly(cur)
    BY <1>1, <1>6 DEF TailOnly
  <2> QED BY <1>1, <2>1, <2>2, <2>3 DEF InFront
<1>11. Past
  <2>1. 0 \in Len(done)..Len(stream) /\ ~(0 > 0)
    BY <1>1
  <2>2. 1..Len(done) = {}
    BY <1>1
  <2> QED BY <2>1, <2>2 DEF Past
<1>12. EndsForReason
  BY <1>1 DEF EndsForReason
<1> QED BY <1>7, <1>9, <1>10, <1>11, <1>12 DEF RInv

LEMMA NextKeeps == RInv /\ [Next]_vars => RInv'
<1> SUFFICES ASSUME RInv, [Next]_vars PROVE RInv'
  OBVIOUS
<1>1. ASSUME NEW o \in Objects, Send(o) PROVE RInv'
  BY <1>1, SendKeeps
<1>2. ASSUME WriteStep PROVE RInv'
  BY <1>2, CallbackKeeps, WriteErrorKeeps DEF WriteStep
<1>3. ASSUME ReadStep PROVE RInv'
  BY <1>3, CallbackKeeps, RecvBufferedKeeps, RecvBytesKeeps, ReadAsyncKeeps, ReadErrorKeeps
     DEF ReadStep
<1>4. ASSUME Server PROVE RInv'
  BY <1>4, AnswerKeeps, ArriveKeeps DEF Server
<1>5. ASSUME UNCHANGED vars PROVE RInv'
  BY <1>5, CallbackKeeps
<1> QED BY <1>1, <1>2, <1>3, <1>4, <1>5 DEF Next

\* What Response keeps between two callbacks, over reads of any length: its
\* buffers hold the bytes from where the answer before ended, and no more of
\* them was parsed than belongs to it.
THEOREM ReceiverCorrect == Spec => []RInv
  BY InitKeeps, NextKeeps, PTL DEF Spec

\* No answer lies complete in the buffers of a connection that waits.
LEMMA NoneLeftHolds == RInv => NoneLeft
<1> SUFFICES ASSUME RInv, open, pc = "idle", Exact(Len(stream)), in > 0,
                    Len(done) < Len(stream)
             PROVE  EndOf(Len(done) + 1) > Consumed
  BY DEF NoneLeft
<1> DEFINE b == Begin
           k == Len(done) + 1
           r == ReadOf(cur)
           h == stream[k].h
           a == stream[k].a
<1>1. Typed /\ Positions /\ Past /\ AllTrue
  BY DEF RInv, Exact, AllTrue
<1>2. Len(done) \in Nat /\ Len(stream) \in Nat
  BY <1>1, BeginNat
<1>3. k \in 1..Len(stream) /\ k - 1 = Len(done)
  BY <1>2
<1>4. EndIn(ends, k - 1) = b
  BY <1>1, <1>3, TrueBegin
<1>5. ~TailOnly(cur) /\ Framed(stream, ends, cur, b)
  BY DEF RInv, InFront
<1> HIDE DEF k
<1>6. Stream(stream, ends) /\ EndOf(k) = EndIn(ends, k)
  BY <1>1, StateStream
<1>7. h \in Nat /\ h >= 1 /\ a \in Nat /\ stream[k].b = a
  BY <1>1, <1>3, <1>6, StreamFacts DEF AllTrue
<1>8. EndOf(k) = b + h + a
  BY <1>3, <1>4, <1>6, <1>7, StreamFacts
<1>9. Waiting(stream, ends, cur, b) /\ Pieces(cur, b)
  BY <1>5 DEF Framed
<1>10. ~Buffered
  <2>1. b \in Nat
    BY <1>1, BeginNat
  <2>2. r \in Nat /\ cur.processed = r
    <3> HIDE DEF b
    <3> QED BY <1>9, <2>1, PieceFacts DEF Waiting
  <2> QED BY <2>2 DEF Buffered
<1>11. Consumed = b + r /\ b \in Nat /\ r \in Nat
  BY <1>10, NotBuffered
<1>12. r < h + a
  <2> HIDE DEF b
  <2>1. CASE NoHead(cur) /\ cur.head = <<>>
    <3>1. r = 0
      BY <2>1 DEF NoHead, ReadOf
    <3> QED BY <1>7, <3>1
  <2>2. CASE /\ NoHead(cur) /\ cur.head # <<>>
             /\ \E l \in 1..Len(stream) : Behind(stream, ends, l, b) /\ Len(cur.head) < stream[l].h
    <3>1. PICK l \in 1..Len(stream) : Behind(stream, ends, l, b) /\ Len(cur.head) < stream[l].h
      BY <2>2
    <3>2. l = k
      BY <1>3, <1>4, <1>6, <3>1, OneBehind DEF Behind
    <3>3. r = Len(cur.head)
      BY <2>2 DEF NoHead, ReadOf
    <3>4. r < h
      BY <3>1, <3>2, <3>3
    <3> HIDE DEF r, h, a
    <3> QED BY <1>7, <1>11, <3>4
  <2>3. CASE WithHead(stream, ends, cur, b) /\ ReadOf(cur) < cur.total
    <3>1. PICK l \in 1..Len(stream) :
              Behind(stream, ends, l, b) /\ cur.h = stream[l].h /\ cur.a = stream[l].a
      BY <2>3 DEF WithHead
    <3>2. l = k
      BY <1>3, <1>4, <1>6, <3>1, OneBehind DEF Behind
    <3>3. cur.total = h + a
      BY <2>3, <3>1, <3>2 DEF WithHead
    <3> QED BY <2>3, <3>3
  <2> QED BY <1>9, <2>1, <2>2, <2>3 DEF Waiting
<1>13. EndOf(k) > Consumed
  <2> HIDE DEF b, r, h, a
  <2> QED BY <1>7, <1>8, <1>11, <1>12
<1> QED BY <1>13 DEF k

\* The k-th answer the callback gets is the k-th the server sent: it begins
\* where the one before ended and its data are its body, however reads cut the
\* stream and in whichever buffer the body lies; and between callbacks none is
\* complete in a buffer.
THEOREM AnswersFramedHolds == Spec => []AnswersFramed
<1>1. RInv => AnswersFramed
  <2> SUFFICES ASSUME RInv PROVE AnswersFramed
    OBVIOUS
  <2>1. DOMAIN done = 1..Len(done)
    BY DEF RInv, Typed
  <2>2. ASSUME NEW k \in 1..Len(done), Exact(k)
        PROVE  /\ done[k].start = EndOf(k - 1) + 1
               /\ done[k].data = [i \in 1..stream[k].b |-> EndOf(k - 1) + stream[k].h + i]
    <3>1. Answered(stream, ends, done[k], k)
      BY DEF RInv, Past
    <3>2. EndOf(k - 1) = EndIn(ends, k - 1)
      BY DEF EndOf, EndIn
    <3> QED BY <2>2, <3>1, <3>2 DEF Answered, Exact
  <2> QED BY <2>1, <2>2, NoneLeftHolds DEF AnswersFramed
<1> QED BY <1>1, ReceiverCorrect, PTL

\* A connection ends only for a reason the network, the server or the
\* configuration gave it: never because of where reads cut a legal stream.
THEOREM EndsForReasonHolds == Spec => []EndsForReason
<1>1. RInv => EndsForReason
  BY DEF RInv
<1> QED BY <1>1, ReceiverCorrect, PTL
-----------------------------------------------------------------------------
(* Sequences one after the other                                           *)

\* Induction up to n, over a set of numbers.
LEMMA UpTo ==
    ASSUME NEW n \in Nat, NEW S, 0 \in S, \A i \in 1..n : i - 1 \in S => i \in S
    PROVE  \A i \in 0..n : i \in S
<1> SUFFICES ASSUME NEW j \in 0..n, j \notin S PROVE FALSE
  OBVIOUS
<1> DEFINE T == {i \in 0..n : i \notin S}
<1>1. T \in SUBSET Nat /\ T # {}
  OBVIOUS
<1>2. PICK k \in T : \A i \in T : k <= i
  <2> HIDE DEF T
  <2> QED BY <1>1, LeastNumber
<1>3. k \in 1..n /\ k \notin S /\ k - 1 \in 0..n /\ ~(k <= k - 1)
  BY <1>2
<1>4. k - 1 \in S
  BY <1>2, <1>3
<1> QED BY <1>3, <1>4

\* What is defined step by step exists.
LEMMA Recursion ==
    ASSUME NEW V, NEW a \in V, NEW n \in Nat, NEW g \in [1..n -> [V -> V]]
    PROVE  \E f \in [0..n -> V] : f[0] = a /\ \A i \in 1..n : f[i] = g[i][f[i - 1]]
<1> DEFINE Ok(m) == \E f \in [0..m -> V] : f[0] = a /\ \A i \in 1..m : f[i] = g[i][f[i - 1]]
           S == {m \in 0..n : Ok(m)}
<1>1. Ok(0)
  <2> DEFINE f == [i \in 0..0 |-> a]
  <2>1. f \in [0..0 -> V] /\ f[0] = a /\ \A i \in 1..0 : f[i] = g[i][f[i - 1]]
    OBVIOUS
  <2> QED BY <2>1
<1>2. ASSUME NEW m \in 1..n, Ok(m - 1) PROVE Ok(m)
  <2>1. PICK f \in [0..(m - 1) -> V] : f[0] = a /\ \A i \in 1..(m - 1) : f[i] = g[i][f[i - 1]]
    BY <1>2
  <2> DEFINE h == [i \in 0..m |-> IF i = m THEN g[m][f[m - 1]] ELSE f[i]]
  <2>2. g[m][f[m - 1]] \in V
    <3>1. m - 1 \in 0..(m - 1) /\ m \in 1..n
      OBVIOUS
    <3>2. f[m - 1] \in V /\ g[m] \in [V -> V]
      BY <3>1
    <3> QED BY <3>2
  <2>3. \A i \in 0..m : i # m => i \in 0..(m - 1) /\ f[i] \in V
    OBVIOUS
  <2>4. h \in [0..m -> V]
    BY <2>2, <2>3
  <2>5. h[m] = g[m][f[m - 1]] /\ \A i \in 0..(m - 1) : h[i] = f[i]
    OBVIOUS
  <2> HIDE DEF h
  <2>6. h[0] = a
    BY <2>1, <2>5
  <2>7. ASSUME NEW i \in 1..m PROVE h[i] = g[i][h[i - 1]]
    <3>1. i - 1 \in 0..(m - 1)
      OBVIOUS
    <3>2. h[i - 1] = f[i - 1]
      BY <2>5, <3>1
    <3>3. CASE i = m
      BY <2>5, <3>2, <3>3
    <3>4. CASE i # m
      <4>1. i \in 1..(m - 1) /\ i \in 0..(m - 1)
        BY <3>4
      <4>2. h[i] = f[i] /\ f[i] = g[i][f[i - 1]]
        BY <2>1, <2>5, <4>1
      <4> QED BY <3>2, <4>2
    <3> QED BY <3>3, <3>4
  <2> QED BY <2>4, <2>6, <2>7
<1> HIDE DEF Ok
<1>3. 0 \in S /\ \A m \in 1..n : m - 1 \in S => m \in S
  BY <1>1, <1>2
<1>4. \A m \in 0..n : m \in S
  <2> HIDE DEF S
  <2> QED BY <1>3, UpTo
<1>5. Ok(n)
  BY <1>4
<1> QED BY <1>5 DEF Ok

\* The sequences ss joined one after the other.
Chain(f, n, ss) == f[0] = <<>> /\ \A i \in 1..n : f[i] = f[i - 1] \o ss[i]
IsJoin(q, ss, n) == \E f : Chain(f, n, ss) /\ f[n] = q
Join(ss, n) == CHOOSE q : IsJoin(q, ss, n)

\* What is joined step by step exists.
LEMMA ConcatSteps ==
    ASSUME NEW V, NEW n \in Nat, NEW ss, \A j \in 1..n : ss[j] \in Seq(V)
    PROVE  \E f \in [0..n -> Seq(V)] : Chain(f, n, ss)
<1> DEFINE W == Seq(V)
           g == [i \in 1..n |-> [v \in W |-> v \o ss[i]]]
           e == <<>>
<1>1. g \in [1..n -> [W -> W]]
  <2>1. \A i \in 1..n, v \in W : v \o ss[i] \in W
    BY ConcatProperties
  <2> QED BY <2>1
<1>2. e \in W
  BY EmptySeq
<1>3. \E f \in [0..n -> W] : f[0] = e /\ \A i \in 1..n : f[i] = g[i][f[i - 1]]
  <2> HIDE DEF g, W, e
  <2> QED BY <1>1, <1>2, Recursion
<1>4. PICK f \in [0..n -> W] : f[0] = e /\ \A i \in 1..n : f[i] = g[i][f[i - 1]]
  BY <1>3
<1>5. ASSUME NEW i \in 1..n PROVE f[i] = f[i - 1] \o ss[i]
  <2>1. f[i - 1] \in W
    OBVIOUS
  <2>2. \A v \in W : g[i][v] = v \o ss[i]
    OBVIOUS
  <2> HIDE DEF g, W
  <2> QED BY <1>4, <2>1, <2>2
<1> QED BY <1>4, <1>5 DEF Chain

\* The steps are determined by what is joined.
LEMMA ChainOne ==
    ASSUME NEW n \in Nat, NEW ss, NEW tt, NEW f, NEW g, Chain(f, n, ss), Chain(g, n, tt),
           \A i \in 1..n : ss[i] = tt[i]
    PROVE  \A i \in 0..n : f[i] = g[i]
<1> DEFINE S == {i \in 0..n : f[i] = g[i]}
<1>1. 0 \in S
  BY DEF Chain
<1>2. ASSUME NEW i \in 1..n, i - 1 \in S PROVE i \in S
  <2>1. f[i] = f[i - 1] \o ss[i] /\ g[i] = g[i - 1] \o tt[i] /\ f[i - 1] = g[i - 1]
    BY <1>2 DEF Chain
  <2>2. f[i] = g[i]
    BY <2>1
  <2> QED BY <2>2
<1>3. \A i \in 0..n : i \in S
  <2> HIDE DEF S
  <2> QED BY <1>1, <1>2, UpTo
<1> QED BY <1>3

\* Any way of joining shows what Join is.
LEMMA JoinIs ==
    ASSUME NEW n \in Nat, NEW ss, NEW f, Chain(f, n, ss)
    PROVE  Join(ss, n) = f[n]
<1> DEFINE q == Join(ss, n)
<1>1. IsJoin(q, ss, n)
  <2>1. IsJoin(f[n], ss, n)
    BY DEF IsJoin
  <2> QED BY <2>1 DEF Join
<1>2. PICK g : Chain(g, n, ss) /\ g[n] = q
  BY <1>1 DEF IsJoin
<1>3. \A i \in 0..n : f[i] = g[i]
  BY <1>2, ChainOne
<1> QED BY <1>2, <1>3

\* Join goes one sequence after the other.
LEMMA Joins ==
    ASSUME NEW V, NEW n \in Nat, NEW ss, \A i \in 1..n : ss[i] \in Seq(V)
    PROVE  /\ Join(ss, 0) = <<>>
           /\ \A i \in 0..n : Join(ss, i) \in Seq(V)
           /\ \A i \in 1..n : Join(ss, i) = Join(ss, i - 1) \o ss[i]
<1>1. PICK f \in [0..n -> Seq(V)] : Chain(f, n, ss)
  BY ConcatSteps
<1>2. ASSUME NEW i \in 0..n PROVE Join(ss, i) = f[i]
  <2>1. i \in Nat /\ \A j \in 1..i : j \in 1..n
    OBVIOUS
  <2>2. Chain(f, i, ss)
    BY <1>1, <2>1 DEF Chain
  <2> QED BY <2>1, <2>2, JoinIs
<1>3. \A i \in 1..n : i \in 0..n /\ i - 1 \in 0..n
  OBVIOUS
<1>4. 0 \in 0..n
  OBVIOUS
<1>5. Join(ss, 0) = <<>>
  BY <1>1, <1>2, <1>4 DEF Chain
<1>6. \A i \in 1..n : Join(ss, i) = Join(ss, i - 1) \o ss[i]
  BY <1>1, <1>2, <1>3 DEF Chain
<1>7. \A i \in 0..n : Join(ss, i) \in Seq(V)
  BY <1>2
<1> QED BY <1>5, <1>6, <1>7

Same(ss, tt, n, V) == \A i \in 1..n : ss[i] \in Seq(V) /\ tt[i] = ss[i]

\* The same sequences joined are the same.
LEMMA JoinSame ==
    ASSUME NEW V, NEW n \in Nat, NEW ss, NEW tt, Same(ss, tt, n, V)
    PROVE  Join(tt, n) = Join(ss, n)
<1>1. \A i \in 1..n : ss[i] \in Seq(V) /\ tt[i] = ss[i]
  BY DEF Same
<1>2. PICK f \in [0..n -> Seq(V)] : Chain(f, n, ss)
  BY <1>1, ConcatSteps
<1>3. Chain(f, n, tt)
  BY <1>1, <1>2 DEF Chain
<1> QED BY <1>2, <1>3, JoinIs

\* FlattenSeq joins.
LEMMA FlattenIs ==
    ASSUME NEW V, NEW ss \in Seq(Seq(V))
    PROVE  FlattenSeq(ss) = Join(ss, Len(ss))
<1> DEFINE N == Len(ss)
           W == Seq(V)
<1>1. N \in Nat /\ DOMAIN ss = 1..N /\ \A j \in 1..N : ss[j] \in W
  BY LenProperties, ElementOfSeq
<1>2. CASE N = 0
  <2>1. ss = <<>> /\ FlattenSeq(ss) = ss
    BY <1>2, EmptySeq DEF FlattenSeq
  <2>2. \A j \in 1..N : ss[j] \in Seq(V)
    BY <1>1
  <2> HIDE DEF N
  <2>3. Join(ss, 0) = <<>>
    BY <1>1, <2>2, Joins
  <2> QED BY <1>2, <2>1, <2>3 DEF N
<1>3. CASE N # 0
  <2> DEFINE Def(f) == f = [i \in 1..N |-> IF i = 1 THEN ss[i] ELSE f[i - 1] \o ss[i]]
  <2>1. PICK f \in [0..N -> W] : Chain(f, N, ss)
    <3>1. N \in Nat /\ \A j \in 1..N : ss[j] \in Seq(V)
      BY <1>1
    <3> HIDE DEF N
    <3> QED BY <3>1, ConcatSteps
  <2>2. ASSUME NEW i \in 1..N PROVE f[i] = f[i - 1] \o ss[i] /\ f[i] \in W /\ f[i - 1] \in W
    <3>1. i \in 0..N /\ i - 1 \in 0..N
      BY <1>1
    <3>2. f[i - 1] \in W /\ f[i] \in W
      BY <3>1
    <3> HIDE DEF W, N
    <3> QED BY <2>1, <3>2 DEF Chain
  <2> DEFINE h == [i \in 1..N |-> f[i]]
  <2>3. Def(h)
    <3>1. \A i \in 1..N : i # 1 => i - 1 \in 1..N
      BY <1>1
    <3>2. ASSUME NEW i \in 1..N PROVE h[i] = IF i = 1 THEN ss[i] ELSE h[i - 1] \o ss[i]
      <4>1. CASE i = 1
        <5>1. i - 1 = 0 /\ f[0] = <<>>
          BY <2>1, <4>1 DEF Chain
        <5>2. h[i] = <<>> \o ss[i] /\ ss[i] \in W
          BY <1>1, <2>2, <5>1
        <5> QED BY <4>1, <5>2, ConcatEmptySeq
      <4>2. CASE i # 1
        BY <2>2, <3>1, <4>2
      <4> QED BY <4>1, <4>2
    <3>3. h = [i \in 1..N |-> h[i]]
      OBVIOUS
    <3> HIDE DEF h
    <3> QED BY <3>2, <3>3
  <2> DEFINE flatten == CHOOSE k : Def(k)
  <2>4. Def(flatten)
    <3> HIDE DEF h
    <3> QED BY <2>3
  <2>5. FlattenSeq(ss) = flatten[N]
    BY <1>3 DEF FlattenSeq
  <2> HIDE DEF flatten, h
  <2> DEFINE g == [i \in 0..N |-> IF i = 0 THEN <<>> ELSE flatten[i]]
  <2>6. Chain(g, N, ss)
    <3>1. g[0] = <<>> /\ \A i \in 1..N : g[i] = flatten[i] /\ i \in 0..N /\ i - 1 \in 0..N
      BY <1>1
    <3>2. ASSUME NEW i \in 1..N PROVE g[i] = g[i - 1] \o ss[i]
      <4>1. flatten[i] = IF i = 1 THEN ss[i] ELSE flatten[i - 1] \o ss[i]
        BY <2>4
      <4>2. CASE i = 1
        <5>1. g[i - 1] = <<>> /\ ss[i] \in Seq(V)
          BY <1>1, <3>1, <4>2
        <5>2. <<>> \o ss[i] = ss[i]
          BY <5>1, ConcatEmptySeq
        <5> QED BY <3>1, <4>1, <4>2, <5>1, <5>2
      <4>3. CASE i # 1
        <5>1. i - 1 \in 1..N
          BY <1>1, <4>3
        <5>2. g[i - 1] = flatten[i - 1]
          BY <3>1, <5>1
        <5> HIDE DEF g
        <5> QED BY <3>1, <4>1, <4>3, <5>2
      <4> QED BY <4>2, <4>3
    <3> QED BY <3>1, <3>2 DEF Chain
  <2>7. g[N] = flatten[N]
    BY <1>1, <1>3
  <2> HIDE DEF g
  <2>8. Join(ss, N) = g[N]
    <3> HIDE DEF N
    <3> QED BY <1>1, <2>6, JoinIs
  <2> QED BY <2>5, <2>7, <2>8
<1> QED BY <1>2, <1>3

\* The first sequence and the others.
LEMMA JoinHead ==
    ASSUME NEW V, NEW n \in Nat, NEW ss, \A i \in 1..n : ss[i] \in Seq(V), n > 0,
           NEW tt, \A i \in 1..(n - 1) : tt[i] = ss[i + 1]
    PROVE  Join(ss, n) = ss[1] \o Join(tt, n - 1)
<1> DEFINE m == n - 1
           a == ss[1]
<1>1. m \in Nat /\ m + 1 = n /\ a \in Seq(V)
  OBVIOUS
<1> HIDE DEF m, a
<1>2. \A i \in 1..m : i + 1 \in 1..n /\ (i + 1) - 1 = i /\ i \in 0..m /\ i - 1 \in 0..m
                      /\ (i - 1) + 1 = i /\ i \in 1..n
  BY <1>1
<1>3. \A i \in 1..m : tt[i] \in Seq(V) /\ tt[i] = ss[i + 1]
  BY <1>2 DEF m
<1>4. Join(ss, 0) = <<>> /\ \A i \in 1..n : Join(ss, i) = Join(ss, i - 1) \o ss[i]
  BY Joins
<1>5. /\ Join(tt, 0) = <<>>
      /\ \A i \in 0..m : Join(tt, i) \in Seq(V)
      /\ \A i \in 1..m : Join(tt, i) = Join(tt, i - 1) \o tt[i]
  <2>1. m \in Nat /\ \A i \in 1..m : tt[i] \in Seq(V)
    BY <1>1, <1>3
  <2> QED BY ONLY <2>1, Joins
<1> DEFINE S == {i \in 0..m : Join(ss, i + 1) = a \o Join(tt, i)}
<1>6. 0 \in S
  <2>1. Join(ss, 1) = <<>> \o a
    <3>1. 1 \in 1..n /\ 1 - 1 = 0
      OBVIOUS
    <3>2. Join(ss, 1) = Join(ss, 1 - 1) \o ss[1]
      BY <1>4, <3>1
    <3> QED BY <1>4, <3>1, <3>2 DEF a
  <2>2. <<>> \o a = a /\ a \o <<>> = a
    BY <1>1, ConcatEmptySeq
  <2>3. Join(ss, 1) = a \o Join(tt, 0)
    BY <1>5, <2>1, <2>2
  <2>4. 0 + 1 = 1 /\ 0 \in 0..m
    BY <1>1
  <2> QED BY <2>3, <2>4
<1>7. ASSUME NEW i \in 1..m, i - 1 \in S PROVE i \in S
  <2> DEFINE p == Join(tt, i - 1)
             q == tt[i]
  <2>1. p \in Seq(V) /\ q \in Seq(V) /\ Join(tt, i) = p \o q
    BY <1>2, <1>3, <1>5
  <2>2. Join(ss, i) = a \o p
    <3>1. Join(ss, (i - 1) + 1) = a \o p
      BY <1>7
    <3> QED BY <1>2, <3>1
  <2>3. Join(ss, i + 1) = Join(ss, i) \o q
    <3>1. Join(ss, i + 1) = Join(ss, (i + 1) - 1) \o ss[i + 1]
      BY <1>2, <1>4
    <3> QED BY <1>2, <1>3, <3>1
  <2> HIDE DEF p, q
  <2>4. (a \o p) \o q = a \o (p \o q)
    <3>1. a \in Seq(V) /\ p \in Seq(V) /\ q \in Seq(V)
      BY <1>1, <2>1
    <3> QED BY ONLY <3>1, ConcatAssociative
  <2>5. Join(ss, i + 1) = a \o Join(tt, i)
    BY <2>1, <2>2, <2>3, <2>4
  <2> QED BY <1>2, <2>5
<1>8. \A i \in 0..m : i \in S
  <2> HIDE DEF S
  <2> QED BY <1>1, <1>6, <1>7, UpTo
<1>9. m \in S
  BY <1>1, <1>8
<1> QED BY <1>1, <1>9 DEF m, a

-----------------------------------------------------------------------------
(* Sums of lengths                                                         *)

\* Added one after the other.
Steps(f, n, s) == f[0] = 0 /\ \A i \in 1..n : f[i] = f[i - 1] + s[i]

LEMMA StepsOne ==
    ASSUME NEW n \in Nat, NEW s, NEW f, NEW g, Steps(f, n, s), Steps(g, n, s)
    PROVE  \A i \in 0..n : f[i] = g[i]
<1> DEFINE S == {i \in 0..n : f[i] = g[i]}
<1>1. 0 \in S
  BY DEF Steps
<1>2. ASSUME NEW i \in 1..n, i - 1 \in S PROVE i \in S
  <2>1. f[i] = f[i - 1] + s[i] /\ g[i] = g[i - 1] + s[i] /\ f[i - 1] = g[i - 1]
    BY <1>2 DEF Steps
  <2>2. f[i] = g[i]
    BY <2>1
  <2> QED BY <2>2
<1>3. \A i \in 0..n : i \in S
  <2> HIDE DEF S
  <2> QED BY <1>1, <1>2, UpTo
<1> QED BY <1>3

\* What a sum is.
LEMMA SumIs ==
    ASSUME NEW n \in Nat, NEW s, NEW f \in [0..n -> Nat], Steps(f, n, s)
    PROVE  SumTo(s, n) = f[n]
<1> DEFINE Def(h) == h = [i \in 0..n |-> IF i = 0 THEN 0 ELSE h[i - 1] + s[i]]
           sum == CHOOSE h : Def(h)
<1>1. Def(f)
  <2>1. ASSUME NEW i \in 0..n PROVE f[i] = IF i = 0 THEN 0 ELSE f[i - 1] + s[i]
    BY DEF Steps
  <2> QED BY <2>1
<1>2. Def(sum)
  BY <1>1
<1>3. SumTo(s, n) = sum[n]
  BY DEF SumTo
<1> HIDE DEF sum
<1>4. Steps(sum, n, s)
  <2>1. \A i \in 0..n : sum[i] = IF i = 0 THEN 0 ELSE sum[i - 1] + s[i]
    BY <1>2
  <2>2. 0 \in 0..n /\ \A i \in 1..n : i \in 0..n /\ i # 0
    OBVIOUS
  <2> QED BY <2>1, <2>2 DEF Steps
<1>5. \A i \in 0..n : f[i] = sum[i]
  BY <1>4, StepsOne
<1> QED BY <1>3, <1>5

\* A sum grows by one number after the other.
LEMMA Sums ==
    ASSUME NEW s, NEW n \in Nat, \A i \in 1..n : s[i] \in Nat
    PROVE  /\ SumTo(s, 0) = 0
           /\ \A i \in 0..n : SumTo(s, i) \in Nat
           /\ \A i \in 1..n : SumTo(s, i) = SumTo(s, i - 1) + s[i]
<1> DEFINE g == [i \in 1..n |-> [v \in Nat |-> v + s[i]]]
           V == Nat
<1>1. \E f \in [0..n -> V] : f[0] = 0 /\ \A i \in 1..n : f[i] = g[i][f[i - 1]]
  <2>1. 0 \in V /\ g \in [1..n -> [V -> V]]
    OBVIOUS
  <2> HIDE DEF g, V
  <2> QED BY <2>1, Recursion
<1>2. PICK f \in [0..n -> Nat] : f[0] = 0 /\ \A i \in 1..n : f[i] = g[i][f[i - 1]]
  BY <1>1
<1>3. Steps(f, n, s)
  <2>1. ASSUME NEW i \in 1..n PROVE f[i] = f[i - 1] + s[i]
    <3>1. f[i - 1] \in Nat
      OBVIOUS
    <3>2. g[i][f[i - 1]] = f[i - 1] + s[i]
      BY <3>1
    <3> QED BY <1>2, <3>2
  <2> QED BY <1>2, <2>1 DEF Steps
<1> HIDE DEF g
<1>4. ASSUME NEW i \in 0..n PROVE SumTo(s, i) = f[i]
  <2> DEFINE h == [j \in 0..i |-> f[j]]
  <2>1. /\ i \in Nat /\ i \in 0..i /\ 0 \in 0..i
        /\ \A j \in 0..i : j \in 0..n /\ f[j] \in Nat
        /\ \A j \in 1..i : j \in 1..n /\ j \in 0..i /\ j - 1 \in 0..i
    OBVIOUS
  <2>2. h \in [0..i -> Nat] /\ \A j \in 0..i : h[j] = f[j]
    BY <2>1
  <2> HIDE DEF h
  <2>3. Steps(h, i, s)
    BY <1>3, <2>1, <2>2 DEF Steps
  <2>4. SumTo(s, i) = h[i]
    BY <2>1, <2>2, <2>3, SumIs
  <2> QED BY <2>1, <2>2, <2>4
<1>5. 0 \in 0..n /\ \A i \in 1..n : i \in 0..n /\ i - 1 \in 0..n
  OBVIOUS
<1>6. SumTo(s, 0) = 0
  BY <1>3, <1>4, <1>5 DEF Steps
<1>7. \A i \in 1..n : SumTo(s, i) = SumTo(s, i - 1) + s[i]
  BY <1>3, <1>4, <1>5 DEF Steps
<1>8. \A i \in 0..n : SumTo(s, i) \in Nat
  BY <1>4
<1> QED BY <1>6, <1>7, <1>8

Lengths(s, ss, n, V) == \A i \in 1..n : ss[i] \in Seq(V) /\ s[i] = Len(ss[i])

\* What is joined is as long as the sum of the lengths.
LEMMA JoinLength ==
    ASSUME NEW V, NEW n \in Nat, NEW ss, NEW s, Lengths(s, ss, n, V)
    PROVE  \A i \in 0..n : Len(Join(ss, i)) = SumTo(s, i)
<1>1. /\ Join(ss, 0) = <<>>
      /\ \A i \in 0..n : Join(ss, i) \in Seq(V)
      /\ \A i \in 1..n : Join(ss, i) = Join(ss, i - 1) \o ss[i]
  BY Joins DEF Lengths
<1>2. \A i \in 1..n : s[i] \in Nat
  BY LenProperties DEF Lengths
<1>3. /\ SumTo(s, 0) = 0
      /\ \A i \in 1..n : SumTo(s, i) = SumTo(s, i - 1) + s[i]
  BY <1>2, Sums
<1> DEFINE S == {i \in 0..n : Len(Join(ss, i)) = SumTo(s, i)}
<1>4. 0 \in S
  BY <1>1, <1>3
<1>5. ASSUME NEW i \in 1..n, i - 1 \in S PROVE i \in S
  <2> DEFINE p == Join(ss, i - 1)
             q == ss[i]
  <2>1. i - 1 \in 0..n /\ i \in 0..n
    OBVIOUS
  <2>2. p \in Seq(V) /\ q \in Seq(V) /\ Join(ss, i) = p \o q
    BY <1>1, <2>1 DEF Lengths
  <2>3. Len(p) = SumTo(s, i - 1) /\ Len(q) = s[i]
    BY <1>5 DEF Lengths
  <2> HIDE DEF p, q
  <2>4. Len(p \o q) = Len(p) + Len(q)
    BY <2>2, ConcatProperties
  <2>5. Len(Join(ss, i)) = SumTo(s, i)
    BY <1>3, <2>2, <2>3, <2>4
  <2> QED BY <2>1, <2>5
<1>6. \A i \in 0..n : i \in S
  <2> HIDE DEF S
  <2> QED BY <1>4, <1>5, UpTo
<1> QED BY <1>6

-----------------------------------------------------------------------------
(* What is left of a sequence                                              *)

\* Without its first n elements.
Drop(s, n) == SubSeq(s, n + 1, Len(s))

LEMMA Drops ==
    ASSUME NEW V, NEW s \in Seq(V), NEW n \in 0..Len(s)
    PROVE  /\ Drop(s, n) \in Seq(V) /\ Len(Drop(s, n)) = Len(s) - n
           /\ \A i \in 1..(Len(s) - n) : Drop(s, n)[i] = s[n + i]
<1> DEFINE L == Len(s)
           m == n + 1
<1>1. L \in Nat /\ n \in Nat /\ n <= L /\ m \in Int /\ L \in Int
  BY LenProperties
<1>2. \A i \in m..L : s[i] \in V
  <2>1. \A i \in m..L : i \in 1..L
    BY <1>1
  <2> QED BY <2>1, ElementOfSeq
<1> HIDE DEF L, m
<1>3. SubSeq(s, m, L) \in Seq(V)
  BY <1>1, <1>2, SubSeqProperties
<1>4. Len(SubSeq(s, m, L)) = IF m <= L THEN L - m + 1 ELSE 0
  BY <1>1, <1>2, SubSeqProperties
<1>5. \A i \in 1..(L - m + 1) : SubSeq(s, m, L)[i] = s[m + i - 1]
  BY <1>1, <1>2, SubSeqProperties
<1>6. Drop(s, n) = SubSeq(s, m, L)
  BY DEF Drop, m, L
<1>7. Len(Drop(s, n)) = L - n
  BY <1>1, <1>4, <1>6 DEF m
<1>8. ASSUME NEW i \in 1..(L - n) PROVE Drop(s, n)[i] = s[n + i]
  <2>1. i \in 1..(L - m + 1) /\ m + i - 1 = n + i
    BY <1>1 DEF m
  <2> QED BY <1>5, <1>6, <2>1
<1> QED BY <1>3, <1>6, <1>7, <1>8 DEF L

\* Nothing and all of it.
LEMMA DropEnds ==
    ASSUME NEW V, NEW s \in Seq(V)
    PROVE  Drop(s, 0) = s /\ Drop(s, Len(s)) = <<>>
<1> DEFINE L == Len(s)
<1>1. L \in Nat /\ 0 \in 0..L /\ L \in 0..L
  BY LenProperties
<1>2. Drop(s, 0) = s
  <2>1. Drop(s, 0) = SubSeq(s, 1, L)
    BY DEF Drop
  <2> QED BY <2>1, SubSeqFull
<1>3. Drop(s, L) = <<>>
  <2>1. Drop(s, L) = SubSeq(s, L + 1, L) /\ L + 1 \in Int /\ L \in Int /\ L < L + 1
    BY <1>1 DEF Drop
  <2> HIDE DEF L
  <2> QED BY <2>1, SubSeqEmpty
<1> QED BY <1>2, <1>3

\* Of the first of two sequences.
LEMMA DropFirst ==
    ASSUME NEW V, NEW s \in Seq(V), NEW t \in Seq(V), NEW n \in 0..Len(s)
    PROVE  Drop(s \o t, n) = Drop(s, n) \o t
<1> DEFINE u == s \o t
           L == Len(s)
           M == Len(t)
           a == Drop(s, n)
           x == Drop(u, n)
           y == a \o t
<1>1. L \in Nat /\ M \in Nat /\ n \in Nat /\ n <= L
  BY LenProperties
<1>2. /\ u \in Seq(V) /\ Len(u) = L + M
      /\ \A i \in 1..(L + M) : u[i] = IF i <= L THEN s[i] ELSE t[i - L]
  BY ConcatProperties
<1>3. a \in Seq(V) /\ Len(a) = L - n /\ \A i \in 1..(L - n) : a[i] = s[n + i]
  BY Drops
<1> HIDE DEF u, a, L, M
<1>4. /\ x \in Seq(V) /\ Len(x) = (L + M) - n
      /\ \A i \in 1..((L + M) - n) : x[i] = u[n + i]
  <2>1. n \in 0..Len(u)
    BY <1>1, <1>2
  <2>2. /\ Drop(u, n) \in Seq(V) /\ Len(Drop(u, n)) = Len(u) - n
        /\ \A i \in 1..(Len(u) - n) : Drop(u, n)[i] = u[n + i]
    BY <1>2, <2>1, Drops
  <2> QED BY <1>2, <2>2
<1>5. /\ y \in Seq(V) /\ Len(y) = (L - n) + M
      /\ \A i \in 1..((L - n) + M) : y[i] = IF i <= L - n THEN a[i] ELSE t[i - (L - n)]
  <2>1. /\ a \o t \in Seq(V) /\ Len(a \o t) = Len(a) + Len(t)
        /\ \A i \in 1..(Len(a) + Len(t)) :
              (a \o t)[i] = IF i <= Len(a) THEN a[i] ELSE t[i - Len(a)]
    BY <1>3, ConcatProperties
  <2> QED BY <1>3, <2>1 DEF M
<1> HIDE DEF x, y
<1>6. Len(x) = Len(y)
  BY <1>1, <1>4, <1>5
<1>7. ASSUME NEW i \in 1..Len(x) PROVE x[i] = y[i]
  <2>1. i \in 1..((L + M) - n) /\ i \in 1..((L - n) + M) /\ n + i \in 1..(L + M) /\ i \in Nat
    BY <1>1, <1>4
  <2>2. x[i] = IF n + i <= L THEN s[n + i] ELSE t[(n + i) - L]
    BY <1>2, <1>4, <2>1
  <2>3. y[i] = IF i <= L - n THEN a[i] ELSE t[i - (L - n)]
    BY <1>5, <2>1
  <2>4. (n + i <= L <=> i <= L - n) /\ (n + i) - L = i - (L - n)
    BY <1>1, <2>1
  <2>5. i <= L - n => a[i] = s[n + i]
    BY <1>1, <1>3, <2>1
  <2> QED BY <2>2, <2>3, <2>4, <2>5
<1>8. x = y
  BY <1>4, <1>5, <1>6, <1>7, SeqEqual
<1> QED BY <1>8 DEF x, y, u, a

\* Of the second, when the first is gone.
LEMMA DropSecond ==
    ASSUME NEW V, NEW s \in Seq(V), NEW t \in Seq(V), NEW n \in 0..Len(t)
    PROVE  Drop(s \o t, Len(s) + n) = Drop(t, n)
<1> DEFINE u == s \o t
           L == Len(s)
           M == Len(t)
           k == L + n
           x == Drop(u, k)
           y == Drop(t, n)
<1>1. L \in Nat /\ M \in Nat /\ n \in Nat /\ n <= M
  BY LenProperties
<1>2. /\ u \in Seq(V) /\ Len(u) = L + M
      /\ \A i \in 1..(L + M) : u[i] = IF i <= L THEN s[i] ELSE t[i - L]
  BY ConcatProperties
<1>3. y \in Seq(V) /\ Len(y) = M - n /\ \A i \in 1..(M - n) : y[i] = t[n + i]
  BY Drops
<1> HIDE DEF u, y, L, M
<1>4. /\ x \in Seq(V) /\ Len(x) = (L + M) - k
      /\ \A i \in 1..((L + M) - k) : x[i] = u[k + i]
  <2>1. k \in 0..Len(u)
    BY <1>1, <1>2
  <2> HIDE DEF k
  <2>2. /\ Drop(u, k) \in Seq(V) /\ Len(Drop(u, k)) = Len(u) - k
        /\ \A i \in 1..(Len(u) - k) : Drop(u, k)[i] = u[k + i]
    BY <1>2, <2>1, Drops
  <2> QED BY <1>2, <2>2
<1> HIDE DEF x
<1>5. Len(x) = Len(y)
  BY <1>1, <1>3, <1>4
<1>6. ASSUME NEW i \in 1..Len(x) PROVE x[i] = y[i]
  <2>1. /\ i \in 1..((L + M) - k) /\ i \in 1..(M - n) /\ k + i \in 1..(L + M)
        /\ ~(k + i <= L) /\ (k + i) - L = n + i
    BY <1>1, <1>4
  <2>2. x[i] = u[k + i] /\ y[i] = t[n + i]
    BY <1>3, <1>4, <2>1
  <2>3. u[k + i] = t[(k + i) - L]
    BY <1>2, <2>1
  <2> QED BY <2>1, <2>2, <2>3
<1>7. x = y
  BY <1>3, <1>4, <1>5, <1>6, SeqEqual
<1> QED BY <1>7 DEF x, y, u, L

\* How much of a sequence behind b others is gone when n elements are.
Gone(n, b, l) == IF n <= b THEN 0 ELSE IF n - b >= l THEN l ELSE n - b

\* What is left of each of m sequences when n elements of them all are gone.
Left(tt, ss, s, n, m, V) ==
    /\ \A i \in 1..m : ss[i] \in Seq(V) /\ s[i] = Len(ss[i])
    /\ \A i \in 1..m : tt[i] = Drop(ss[i], Gone(n, SumTo(s, i - 1), s[i]))

\* Without their first n elements, joined sequences are what is left of each.
LEMMA JoinLeft ==
    ASSUME NEW V, NEW m \in Nat, NEW n \in Nat, NEW ss, NEW s, NEW tt, Left(tt, ss, s, n, m, V)
    PROVE  \A i \in 0..m : Join(tt, i) = Drop(Join(ss, i), Gone(n, 0, SumTo(s, i)))
<1> USE DEF Left
<1>1. /\ Join(ss, 0) = <<>>
      /\ \A i \in 0..m : Join(ss, i) \in Seq(V)
      /\ \A i \in 1..m : Join(ss, i) = Join(ss, i - 1) \o ss[i]
  BY Joins
<1>2. \A i \in 1..m : s[i] \in Nat
  BY LenProperties
<1>3. /\ SumTo(s, 0) = 0
      /\ \A i \in 0..m : SumTo(s, i) \in Nat
      /\ \A i \in 1..m : SumTo(s, i) = SumTo(s, i - 1) + s[i]
  BY <1>2, Sums
<1>4. \A i \in 1..m : i - 1 \in 0..m /\ i \in 0..m
  OBVIOUS
<1>5. \A i \in 0..m : Len(Join(ss, i)) = SumTo(s, i)
  <2>1. Lengths(s, ss, m, V)
    BY DEF Lengths
  <2> QED BY <2>1, JoinLength
<1>6. \A i \in 1..m : tt[i] \in Seq(V)
  <2> SUFFICES ASSUME NEW i \in 1..m PROVE tt[i] \in Seq(V)
    OBVIOUS
  <2> DEFINE g == Gone(n, SumTo(s, i - 1), s[i])
             q == ss[i]
  <2>1. g \in 0..Len(q) /\ q \in Seq(V) /\ tt[i] = Drop(q, g)
    BY <1>2, <1>3, <1>4 DEF Gone
  <2> HIDE DEF g, q
  <2> QED BY <2>1, Drops
<1>7. /\ Join(tt, 0) = <<>>
      /\ \A i \in 1..m : Join(tt, i) = Join(tt, i - 1) \o tt[i]
  BY <1>6, Joins
<1> DEFINE S == {i \in 0..m : Join(tt, i) = Drop(Join(ss, i), Gone(n, 0, SumTo(s, i)))}
<1>8. 0 \in S
  <2> DEFINE e == <<>>
             z == 0
  <2>1. e \in Seq(V) /\ Len(e) = z /\ z = 0
    BY EmptySeq
  <2>2. Gone(n, 0, SumTo(s, 0)) = z
    BY <1>3 DEF Gone
  <2>3. Join(ss, 0) = e /\ Join(tt, 0) = e
    BY <1>1, <1>7
  <2> HIDE DEF e, z
  <2>4. Drop(e, z) = e
    BY <2>1, DropEnds
  <2>5. 0 \in 0..m
    OBVIOUS
  <2> QED BY <2>2, <2>3, <2>4, <2>5
<1>9. ASSUME NEW i \in 1..m, i - 1 \in S PROVE i \in S
  <2> DEFINE p == Join(ss, i - 1)
             q == ss[i]
             a == SumTo(s, i - 1)
             b == s[i]
             g == Gone(n, 0, a)
             h == Gone(n, a, b)
  <2>1. /\ p \in Seq(V) /\ q \in Seq(V) /\ Join(ss, i) = p \o q /\ Len(p) = a /\ Len(q) = b
        /\ a \in Nat /\ b \in Nat /\ SumTo(s, i) = a + b
    BY <1>1, <1>2, <1>3, <1>4, <1>5
  <2>2. Join(tt, i) = Drop(p, g) \o Drop(q, h)
    <3>1. Join(tt, i - 1) = Drop(p, g) /\ tt[i] = Drop(q, h)
      BY <1>9
    <3> QED BY <1>7, <3>1
  <2> HIDE DEF p, q, a, b
  <2> SUFFICES Drop(p, g) \o Drop(q, h) = Drop(p \o q, Gone(n, 0, a + b))
    BY <1>4, <2>1, <2>2
  <2>3. CASE n <= a
    <3>1. g = n /\ h = 0 /\ Gone(n, 0, a + b) = n /\ n \in 0..Len(p)
      BY <2>1, <2>3 DEF Gone
    <3>2. Drop(q, 0) = q
      BY <2>1, DropEnds
    <3> HIDE DEF g, h
    <3>3. p \in Seq(V) /\ q \in Seq(V) /\ n \in 0..Len(p)
      BY <2>1, <3>1
    <3>4. Drop(p \o q, n) = Drop(p, n) \o q
      BY ONLY <3>3, DropFirst
    <3> QED BY <3>1, <3>2, <3>4
  <2>4. CASE ~(n <= a)
    <3>1. g = a /\ h \in 0..Len(q) /\ Gone(n, 0, a + b) = Len(p) + h
      BY <2>1, <2>4 DEF Gone
    <3>2. Drop(p, a) = <<>>
      BY <2>1, DropEnds
    <3> HIDE DEF g, h
    <3>3. Drop(p \o q, Len(p) + h) = Drop(q, h)
      BY <2>1, <3>1, DropSecond
    <3>4. Drop(q, h) \in Seq(V)
      BY <2>1, <3>1, Drops
    <3>5. <<>> \o Drop(q, h) = Drop(q, h)
      BY <3>4, ConcatEmptySeq
    <3> QED BY <3>1, <3>2, <3>3, <3>5
  <2> QED BY <2>1, <2>3, <2>4
<1>10. \A i \in 0..m : i \in S
  <2> HIDE DEF S
  <2> QED BY <1>8, <1>9, UpTo
<1> QED BY <1>10

-----------------------------------------------------------------------------
(* The views of a request                                                  *)

Byte == Objects \X Nat \X Int

\* What is left of part p of an object when its view has length v.
Piece(o, p, v) == [i \in 1..v |-> <<o, p, Parts[o][p] - v + i>>]
Cut(o, views) == [p \in DOMAIN views |-> Piece(o, p, views[p])]

\* Views of an object.
Fits(o, views) == o \in Objects /\ views \in Seq(Nat) /\ Len(views) = Len(Parts[o])

LEMMA ViewFacts ==
    ASSUME NEW o \in Objects, NEW p \in 1..Len(Parts[o]), NEW v \in Nat
    PROVE  /\ Piece(o, p, v) \in Seq(Byte) /\ Len(Piece(o, p, v)) = v
           /\ \A i \in 1..v : Piece(o, p, v)[i] = <<o, p, Parts[o][p] - v + i>>
<1> DEFINE P == Parts[o][p]
<1>1. P \in Nat /\ p \in Nat
  <2>1. Parts[o] \in Seq(Nat)
    BY StreamConfig DEF Objects
  <2> QED BY <2>1, ElementOfSeq, LenProperties
<1> HIDE DEF P
<1>2. \A i \in 1..v : <<o, p, P - v + i>> \in Byte
  BY <1>1 DEF Byte
<1> DEFINE f == [i \in 1..v |-> <<o, p, P - v + i>>]
<1>3. f \in Seq(Byte) /\ Len(f) = v
  <2> HIDE DEF Byte
  <2>1. f \in [1..v -> Byte]
    BY <1>2
  <2>2. DOMAIN f = 1..v
    OBVIOUS
  <2> QED BY <2>1, <2>2
<1>4. Piece(o, p, v) = f
  BY DEF Piece, P
<1>5. \A i \in 1..v : f[i] = <<o, p, P - v + i>>
  OBVIOUS
<1> QED BY <1>3, <1>4, <1>5 DEF P

\* A piece without its first bytes is a smaller piece.
LEMMA PieceDrop ==
    ASSUME NEW o \in Objects, NEW p \in 1..Len(Parts[o]), NEW v \in Nat, NEW k \in 0..v
    PROVE  Piece(o, p, v - k) = Drop(Piece(o, p, v), k)
<1> DEFINE w == v - k
           x == Piece(o, p, v)
           y == Piece(o, p, w)
           z == Drop(x, k)
           P == Parts[o][p]
<1>1. w \in Nat /\ k \in Nat /\ v \in Nat
  OBVIOUS
<1>2. P \in Nat
  <2>1. Parts[o] \in Seq(Nat)
    BY StreamConfig DEF Objects
  <2> QED BY <2>1, ElementOfSeq
<1>3. x \in Seq(Byte) /\ Len(x) = v /\ \A i \in 1..v : x[i] = <<o, p, P - v + i>>
  BY ViewFacts
<1>4. y \in Seq(Byte) /\ Len(y) = w /\ \A i \in 1..w : y[i] = <<o, p, P - w + i>>
  <2> HIDE DEF w
  <2> QED BY <1>1, ViewFacts
<1> HIDE DEF x, y, P
<1>5. z \in Seq(Byte) /\ Len(z) = w /\ \A i \in 1..w : z[i] = x[k + i]
  BY <1>3, Drops
<1>6. \A i \in 1..w : z[i] = y[i]
  <2> SUFFICES ASSUME NEW i \in 1..w PROVE z[i] = y[i]
    OBVIOUS
  <2>1. k + i \in 1..v /\ P - v + (k + i) = P - w + i
    BY <1>1, <1>2
  <2> QED BY <1>3, <1>4, <1>5, <2>1
<1> HIDE DEF z, w
<1>7. z = y
  BY <1>4, <1>5, <1>6, SeqEqual
<1> QED BY <1>7 DEF x, y, z, w

\* The bytes of views are pieces, one after the other.
LEMMA BytesJoin ==
    ASSUME NEW o, NEW views, Fits(o, views)
    PROVE  /\ Bytes(o, views) = Join(Cut(o, views), Len(views))
           /\ Bytes(o, views) \in Seq(Byte)
           /\ Lengths(views, Cut(o, views), Len(views), Byte)
<1> DEFINE L == Len(views)
           c == Cut(o, views)
<1>1. L \in Nat /\ DOMAIN views = 1..L /\ \A p \in 1..L : views[p] \in Nat
  BY LenProperties, ElementOfSeq DEF Fits
<1>2. \A p \in 1..L : c[p] = Piece(o, p, views[p])
  BY <1>1 DEF Cut
<1>3. \A p \in 1..L : c[p] \in Seq(Byte) /\ views[p] = Len(c[p])
  <2> SUFFICES ASSUME NEW p \in 1..L PROVE c[p] \in Seq(Byte) /\ views[p] = Len(c[p])
    OBVIOUS
  <2> DEFINE v == views[p]
  <2>1. o \in Objects /\ p \in 1..Len(Parts[o]) /\ v \in Nat /\ c[p] = Piece(o, p, v)
    BY <1>1, <1>2 DEF Fits
  <2> HIDE DEF v, c
  <2>2. Piece(o, p, v) \in Seq(Byte) /\ Len(Piece(o, p, v)) = v
    BY <2>1, ViewFacts
  <2> QED BY <2>1, <2>2 DEF v
<1>4. c \in Seq(Seq(Byte)) /\ Len(c) = L
  <2>1. c = [p \in 1..L |-> c[p]]
    BY <1>1 DEF Cut
  <2> HIDE DEF c, L
  <2>2. c \in [1..L -> Seq(Byte)]
    BY <1>3, <2>1
  <2>3. DOMAIN c = 1..L
    BY <2>1
  <2> QED BY <1>1, <2>2, <2>3
<1>5. Bytes(o, views) = FlattenSeq(c)
  BY DEF Bytes, Cut, Piece
<1> HIDE DEF c
<1>6. FlattenSeq(c) = Join(c, Len(c))
  BY <1>4, FlattenIs
<1>7. Join(c, L) \in Seq(Byte)
  <2>1. \A p \in 1..L : c[p] \in Seq(Byte)
    BY <1>3
  <2>2. L \in 0..L
    BY <1>1
  <2> HIDE DEF L
  <2>3. \A i \in 0..L : Join(c, i) \in Seq(Byte)
    BY <1>1, <2>1, Joins
  <2> QED BY <2>2, <2>3
<1>8. Lengths(views, c, L, Byte)
  BY <1>3 DEF Lengths
<1> QED BY <1>4, <1>5, <1>6, <1>7, <1>8 DEF c, L

\* update_view drops the bytes that were written, whichever views they fill.
LEMMA Shortened ==
    ASSUME NEW o, NEW views, Fits(o, views), NEW n \in 0..Len(Bytes(o, views))
    PROVE  /\ Fits(o, UpdateViews(views, n))
           /\ Bytes(o, UpdateViews(views, n)) = Drop(Bytes(o, views), n)
<1> DEFINE L == Len(views)
           u == UpdateViews(views, n)
           c == Cut(o, views)
           d == Cut(o, u)
           G(p) == Gone(n, SumTo(views, p - 1), views[p])
<1>1. L \in Nat /\ DOMAIN views = 1..L /\ \A p \in 1..L : views[p] \in Nat
  BY LenProperties, ElementOfSeq DEF Fits
<1>2. n \in Nat
  OBVIOUS
<1>3. \A p \in 0..L : SumTo(views, p) \in Nat
  <2> HIDE DEF L
  <2> QED BY <1>1, Sums
<1>4. ASSUME NEW p \in 1..L PROVE G(p) \in 0..views[p] /\ u[p] = views[p] - G(p)
  <2> DEFINE b == SumTo(views, p - 1)
             l == views[p]
  <2>1. p - 1 \in 0..L
    OBVIOUS
  <2>2. b \in Nat /\ l \in Nat
    BY <1>1, <1>3, <2>1
  <2>3. u[p] = IF n <= b THEN l ELSE IF n - b >= l THEN 0 ELSE l - (n - b)
    BY <1>1 DEF UpdateViews
  <2> HIDE DEF b, l, u
  <2>4. Gone(n, b, l) \in 0..l /\ u[p] = l - Gone(n, b, l)
    BY <1>2, <2>2, <2>3 DEF Gone
  <2> QED BY <2>4 DEF b, l
<1>5. DOMAIN u = 1..L /\ u = [p \in 1..L |-> u[p]]
  BY <1>1 DEF UpdateViews
<1> HIDE DEF G, u
<1>6. u \in Seq(Nat) /\ Len(u) = L
  <2> HIDE DEF L
  <2>1. \A p \in 1..L : u[p] \in Nat
    BY <1>1, <1>4
  <2>2. u \in [1..L -> Nat]
    BY <1>5, <2>1
  <2> QED BY <1>1, <1>5, <2>2
<1>7. Fits(o, u)
  BY <1>6 DEF Fits
<1>8. /\ Bytes(o, views) = Join(c, L) /\ Bytes(o, views) \in Seq(Byte)
      /\ Lengths(views, c, L, Byte)
  BY BytesJoin
<1>9. Bytes(o, u) = Join(d, L)
  BY <1>6, <1>7, BytesJoin
<1>10. ASSUME NEW p \in 1..L PROVE d[p] = Drop(c[p], G(p))
  <2>1. d[p] = Piece(o, p, u[p]) /\ c[p] = Piece(o, p, views[p])
    BY <1>1, <1>5 DEF Cut
  <2>2. o \in Objects /\ p \in 1..Len(Parts[o])
    BY DEF Fits
  <2> QED BY <1>1, <1>4, <2>1, <2>2, PieceDrop
<1> HIDE DEF c, d, L
<1>11. Join(d, L) = Drop(Join(c, L), Gone(n, 0, SumTo(views, L)))
  <2>1. \A p \in 1..L : c[p] \in Seq(Byte) /\ views[p] = Len(c[p])
    BY <1>8 DEF Lengths
  <2>2. \A p \in 1..L : d[p] = Drop(c[p], Gone(n, SumTo(views, p - 1), views[p]))
    BY <1>10 DEF G
  <2>3. Left(d, c, views, n, L, Byte)
    BY <2>1, <2>2 DEF Left
  <2>4. L \in 0..L
    BY <1>1
  <2> QED BY <1>1, <1>2, <2>3, <2>4, JoinLeft
<1>12. Len(Join(c, L)) = SumTo(views, L)
  <2>1. L \in 0..L
    BY <1>1
  <2> QED BY <1>1, <1>8, <2>1, JoinLength
<1>13. Gone(n, 0, SumTo(views, L)) = n
  <2>1. n <= SumTo(views, L) /\ SumTo(views, L) \in Nat
    BY <1>1, <1>3, <1>8, <1>12
  <2> QED BY <1>2, <2>1 DEF Gone
<1> QED BY <1>7, <1>8, <1>9, <1>11, <1>13 DEF u

-----------------------------------------------------------------------------
(* What requests in a row leave to be written                              *)

RestsOf(q, lf) == [i \in DOMAIN q |-> Bytes(q[i], lf[q[i]])]
Unsent(q, lf) == FlattenSeq(RestsOf(q, lf))
AllFit(lf) == \A o \in Objects : Fits(o, lf[o])

LEMMA UnsentJoin ==
    ASSUME NEW q \in Seq(Objects), NEW lf, AllFit(lf)
    PROVE  /\ Unsent(q, lf) = Join(RestsOf(q, lf), Len(q))
           /\ Unsent(q, lf) \in Seq(Byte)
           /\ \A i \in 1..Len(q) : /\ RestsOf(q, lf)[i] = Bytes(q[i], lf[q[i]])
                                   /\ RestsOf(q, lf)[i] \in Seq(Byte)
<1> DEFINE L == Len(q)
           r == RestsOf(q, lf)
<1>1. L \in Nat /\ DOMAIN q = 1..L /\ \A i \in 1..L : q[i] \in Objects
  BY LenProperties, ElementOfSeq
<1>2. DOMAIN r = 1..L /\ r = [i \in 1..L |-> r[i]]
  BY <1>1 DEF RestsOf
<1>3. ASSUME NEW i \in 1..L
      PROVE  r[i] = Bytes(q[i], lf[q[i]]) /\ r[i] \in Seq(Byte)
  <2> DEFINE o == q[i]
             v == lf[o]
  <2>1. Fits(o, v)
    BY <1>1 DEF AllFit
  <2>2. r[i] = Bytes(o, v)
    BY <1>1 DEF RestsOf
  <2> HIDE DEF o, v, r
  <2>3. Bytes(o, v) \in Seq(Byte)
    BY <2>1, BytesJoin
  <2> QED BY <2>2, <2>3 DEF o, v
<1> HIDE DEF r
<1>4. r \in Seq(Seq(Byte)) /\ Len(r) = L
  <2> HIDE DEF L
  <2>1. r \in [1..L -> Seq(Byte)]
    BY <1>2, <1>3
  <2> QED BY <1>1, <1>2, <2>1
<1>5. FlattenSeq(r) = Join(r, L)
  BY <1>4, FlattenIs
<1>6. Join(r, L) \in Seq(Byte)
  <2>1. \A i \in 1..L : r[i] \in Seq(Byte)
    BY <1>3
  <2>2. L \in 0..L
    BY <1>1
  <2> HIDE DEF L
  <2>3. \A i \in 0..L : Join(r, i) \in Seq(Byte)
    BY <1>1, <2>1, Joins
  <2> QED BY <2>2, <2>3
<1> QED BY <1>3, <1>5, <1>6 DEF r, Unsent

\* It depends only on the views of these requests.
LEMMA UnsentSame ==
    ASSUME NEW q \in Seq(Objects), NEW lf, NEW lf2,
           \A i \in 1..Len(q) : lf2[q[i]] = lf[q[i]]
    PROVE  Unsent(q, lf2) = Unsent(q, lf)
<1>1. DOMAIN q = 1..Len(q)
  BY LenProperties
<1>2. RestsOf(q, lf2) = RestsOf(q, lf)
  BY <1>1 DEF RestsOf
<1> QED BY <1>2 DEF Unsent

\* One more request at the end.
LEMMA UnsentMore ==
    ASSUME NEW q \in Seq(Objects), NEW lf, AllFit(lf), NEW o \in Objects
    PROVE  Unsent(Append(q, o), lf) = Unsent(q, lf) \o Bytes(o, lf[o])
<1> DEFINE L == Len(q)
           t == Append(q, o)
           r == RestsOf(q, lf)
           s == RestsOf(t, lf)
           M == L + 1
<1>1. /\ L \in Nat /\ t \in Seq(Objects) /\ Len(t) = M /\ t[M] = o
      /\ \A i \in 1..L : t[i] = q[i]
  BY LenProperties, AppendProperties
<1>2. M \in Nat /\ M - 1 = L /\ M \in 1..M /\ L \in 0..M /\ \A i \in 1..L : i \in 1..M
  BY <1>1
<1>3. Unsent(q, lf) = Join(r, L) /\ \A i \in 1..L : r[i] = Bytes(q[i], lf[q[i]]) /\ r[i] \in Seq(Byte)
  BY UnsentJoin
<1> HIDE DEF t, M
<1>4. /\ Unsent(t, lf) = Join(s, M)
      /\ \A i \in 1..M : s[i] = Bytes(t[i], lf[t[i]]) /\ s[i] \in Seq(Byte)
  BY <1>1, UnsentJoin
<1> HIDE DEF r, s, L
<1>5. \A i \in 1..M : s[i] \in Seq(Byte)
  BY <1>4
<1>6. \A i \in 1..M : Join(s, i) = Join(s, i - 1) \o s[i]
  BY <1>2, <1>5, Joins
<1>7. Join(s, M) = Join(s, L) \o s[M]
  BY <1>2, <1>6
<1>8. Same(r, s, L, Byte)
  <2>1. \A i \in 1..L : r[i] \in Seq(Byte) /\ s[i] = r[i]
    BY <1>1, <1>2, <1>3, <1>4
  <2> QED BY <2>1 DEF Same
<1>9. Join(s, L) = Join(r, L)
  BY <1>1, <1>8, JoinSame
<1>10. s[M] = Bytes(o, lf[o])
  BY <1>1, <1>2, <1>4
<1>11. Unsent(t, lf) = Unsent(q, lf) \o Bytes(o, lf[o])
  BY <1>3, <1>4, <1>7, <1>9, <1>10
<1> QED BY <1>11 DEF t

\* The first request and the others.
LEMMA UnsentHead ==
    ASSUME NEW q \in Seq(Objects), q # <<>>, NEW lf, AllFit(lf)
    PROVE  /\ Unsent(q, lf) = Bytes(Head(q), lf[Head(q)]) \o Unsent(Tail(q), lf)
           /\ Bytes(Head(q), lf[Head(q)]) \in Seq(Byte)
           /\ Unsent(Tail(q), lf) \in Seq(Byte)
<1> DEFINE L == Len(q)
           t == Tail(q)
           r == RestsOf(q, lf)
           s == RestsOf(t, lf)
           M == L - 1
           h == Head(q)
<1>1. /\ t \in Seq(Objects) /\ Len(t) = M /\ \A i \in 1..M : t[i] = q[i + 1]
  BY HeadTailProperties
<1>2. L \in Nat /\ L > 0 /\ h = q[1]
  BY LenProperties, EmptySeq
<1>3. M \in Nat /\ 1 \in 1..L /\ \A i \in 1..M : i + 1 \in 1..L
  BY <1>2
<1>4. Unsent(q, lf) = Join(r, L) /\ \A i \in 1..L : r[i] = Bytes(q[i], lf[q[i]]) /\ r[i] \in Seq(Byte)
  BY UnsentJoin
<1> HIDE DEF t
<1>5. /\ Unsent(t, lf) = Join(s, M) /\ Unsent(t, lf) \in Seq(Byte)
      /\ \A i \in 1..M : s[i] = Bytes(t[i], lf[t[i]]) /\ s[i] \in Seq(Byte)
  <2> HIDE DEF M
  <2> QED BY <1>1, UnsentJoin
<1> HIDE DEF r, s, L, h
<1>6. \A i \in 1..M : s[i] = r[i + 1]
  BY <1>1, <1>3, <1>4, <1>5
<1>7. \A i \in 1..L : r[i] \in Seq(Byte)
  BY <1>4
<1>8. Join(r, L) = r[1] \o Join(s, L - 1)
  BY <1>2, <1>6, <1>7, JoinHead
<1>9. r[1] = Bytes(h, lf[h]) /\ r[1] \in Seq(Byte)
  BY <1>2, <1>3, <1>4
<1>10. Unsent(q, lf) = Bytes(h, lf[h]) \o Unsent(t, lf)
  BY <1>4, <1>5, <1>8, <1>9
<1> QED BY <1>5, <1>9, <1>10 DEF t, h

-----------------------------------------------------------------------------
(* The inductive invariant of the sending side                             *)

\* No object waits twice in _out.
Distinct(q) == \A i, j \in 1..Len(q) : q[i] = q[j] => i = j

SendTyped ==
    /\ torn \in BOOLEAN /\ open \in BOOLEAN
    /\ sends \in Seq(Objects) /\ out \in Seq(Objects) /\ wire \in Seq(Byte)
    /\ left \in [Objects -> Seq(Nat)] /\ AllFit(left)

\* What was written and what waits are what was to be sent.
SInv ==
    /\ SendTyped
    /\ ~torn => Distinct(out)
    /\ ~torn /\ open => wire \o Unsent(out, left) = Unsent(sends, Parts)

LEMMA PartsFit == AllFit(Parts)
  BY StreamConfig DEF AllFit, Fits, Objects

LEMMA SendInit == Init => SInv
<1> SUFFICES ASSUME Init PROVE SInv
  OBVIOUS
<1> DEFINE e == <<>>
<1>1. e \in Seq(Byte) /\ e \in Seq(Objects) /\ Len(e) = 0
  BY EmptySeq
<1>2. \A o \in Objects : Fits(o, left[o])
  <2> SUFFICES ASSUME NEW o \in Objects PROVE Fits(o, left[o])
    OBVIOUS
  <2>1. Parts[o] \in Seq(Nat)
    BY StreamConfig DEF Objects
  <2>2. DOMAIN Parts[o] = 1..Len(Parts[o]) /\ Len(Parts[o]) \in Nat
    BY <2>1, LenProperties
  <2>3. left[o] = [p \in 1..Len(Parts[o]) |-> 0]
    BY <2>2 DEF Init
  <2> DEFINE L == Len(Parts[o])
             z == [p \in 1..L |-> 0]
  <2>4. z \in Seq(Nat) /\ Len(z) = L
    <3> HIDE DEF L
    <3>1. z \in [1..L -> Nat] /\ DOMAIN z = 1..L /\ L \in Nat
      BY <2>2 DEF L
    <3> QED BY <3>1
  <2> QED BY <2>3, <2>4 DEF Fits
<1>3. left \in [Objects -> Seq(Nat)]
  <2>1. left = [o \in Objects |-> left[o]]
    BY DEF Init
  <2> QED BY <1>2, <2>1 DEF Fits
<1>4. SendTyped
  BY <1>1, <1>2, <1>3 DEF SendTyped, AllFit, Init
<1>5. Distinct(out)
  BY DEF Init, Distinct
<1>6. wire \o Unsent(out, left) = Unsent(sends, Parts)
  <2>1. out = e /\ sends = e /\ wire = e
    BY DEF Init
  <2> HIDE DEF e
  <2>2. \A i \in 1..Len(e) : left[e[i]] = Parts[e[i]]
    BY <1>1
  <2>3. Unsent(e, left) = Unsent(e, Parts)
    BY <1>1, <2>2, UnsentSame
  <2>4. Unsent(e, Parts) \in Seq(Byte)
    BY <1>1, PartsFit, UnsentJoin
  <2>5. e \o Unsent(e, Parts) = Unsent(e, Parts)
    BY <2>4, ConcatEmptySeq DEF e
  <2> QED BY <2>1, <2>3, <2>5
<1> QED BY <1>4, <1>5, <1>6 DEF SInv

\* A request is sent.
LEMMA SendSends == SInv /\ (\E o \in Objects : Send(o)) => SInv'
<1> SUFFICES ASSUME SInv, NEW o \in Objects, Send(o) PROVE SInv'
  OBVIOUS
<1> DEFINE q == out
           lf == left
           lf2 == left'
           a == sends
<1>1. /\ open /\ open' = open /\ wire' = wire /\ torn' = (torn \/ Contains(out, o))
      /\ lf2 = [left EXCEPT ![o] = Parts[o]]
      /\ sends' = Append(a, o) /\ out' = Append(q, o)
  BY DEF Send, SetReady
<1>2. /\ SendTyped /\ q \in Seq(Objects) /\ a \in Seq(Objects) /\ AllFit(lf) /\ wire \in Seq(Byte)
      /\ Len(q) \in Nat
  BY LenProperties DEF SInv, SendTyped
<1>3. \A r \in Objects : lf2[r] = IF r = o THEN Parts[o] ELSE lf[r]
  BY <1>1, <1>2 DEF SendTyped
<1>4. AllFit(lf2)
  BY <1>2, <1>3, PartsFit DEF AllFit
<1>5. /\ out' \in Seq(Objects) /\ sends' \in Seq(Objects)
      /\ Len(out') = Len(q) + 1 /\ out'[Len(q) + 1] = o /\ \A i \in 1..Len(q) : out'[i] = q[i]
  BY <1>1, <1>2, AppendProperties
<1>6. SendTyped'
  <2>1. lf2 \in [Objects -> Seq(Nat)]
    BY <1>1, <1>2, StreamConfig DEF SendTyped, Objects
  <2>2. torn' \in BOOLEAN /\ open' \in BOOLEAN /\ wire' \in Seq(Byte)
    BY <1>1, <1>2 DEF SendTyped, Contains
  <2> QED BY <1>4, <1>5, <2>1, <2>2 DEF SendTyped, Byte
<1>7. ASSUME ~torn' PROVE ~torn /\ \A i \in 1..Len(q) : q[i] # o
  BY <1>1, <1>7 DEF Contains
<1>8. ASSUME ~torn' PROVE Distinct(out)'
  <2>1. Distinct(q)
    BY <1>7, <1>8 DEF SInv
  <2> SUFFICES ASSUME NEW i \in 1..(Len(q) + 1), NEW j \in 1..(Len(q) + 1), out'[i] = out'[j]
               PROVE  i = j
    BY <1>5 DEF Distinct
  <2>2. (i \in 1..Len(q) \/ i = Len(q) + 1) /\ (j \in 1..Len(q) \/ j = Len(q) + 1)
    BY <1>2
  <2> QED BY <1>5, <1>7, <1>8, <2>1, <2>2 DEF Distinct
<1>9. ASSUME ~torn' PROVE (wire \o Unsent(out, left) = Unsent(sends, Parts))'
  <2> DEFINE u == Unsent(q, lf)
             b == Bytes(o, Parts[o])
  <2>1. wire \o u = Unsent(a, Parts)
    BY <1>1, <1>7, <1>9 DEF SInv
  <2>2. u \in Seq(Byte) /\ b \in Seq(Byte)
    BY <1>2, PartsFit, UnsentJoin, BytesJoin DEF AllFit
  <2>3. Unsent(Append(a, o), Parts) = Unsent(a, Parts) \o b
    BY <1>2, PartsFit, UnsentMore
  <2>4. Unsent(Append(q, o), lf2) = Unsent(q, lf2) \o b
    <3>1. lf2[o] = Parts[o]
      BY <1>3
    <3> HIDE DEF q, lf2
    <3>2. Unsent(Append(q, o), lf2) = Unsent(q, lf2) \o Bytes(o, lf2[o])
      BY <1>2, <1>4, UnsentMore
    <3> QED BY <3>1, <3>2
  <2>5. Unsent(q, lf2) = u
    <3>1. \A i \in 1..Len(q) : q[i] \in Objects
      BY <1>2, ElementOfSeq
    <3>2. \A i \in 1..Len(q) : lf2[q[i]] = lf[q[i]]
      BY <1>3, <1>7, <1>9, <3>1
    <3> HIDE DEF q, lf, lf2
    <3> QED BY <1>2, <3>2, UnsentSame
  <2>6. out' = Append(q, o) /\ sends' = Append(a, o) /\ wire' = wire
    BY <1>1
  <2> HIDE DEF u, b
  <2>7. wire \o (u \o b) = (wire \o u) \o b
    BY <1>2, <2>2, ConcatAssociative
  <2>8. wire' \o Unsent(out', lf2) = Unsent(sends', Parts)
    BY <2>1, <2>3, <2>4, <2>5, <2>6, <2>7
  <2> QED BY <2>8
<1> QED BY <1>6, <1>8, <1>9 DEF SInv

\* Some bytes of the request at the front are written.
LEMMA WriteSomeSends == SInv /\ WriteSome => SInv'
<1> SUFFICES ASSUME SInv, WriteSome PROVE SInv'
  OBVIOUS
<1> DEFINE q == out
           h == Head(q)
           t == Tail(q)
           lf == left
           lf2 == left'
           R == Bytes(h, lf[h])
<1>1. PICK n \in DOMAIN Rest(Head(out)) :
        /\ wire' = wire \o SubSeq(R, 1, n)
        /\ lf2 = [left EXCEPT ![h] = UpdateViews(left[h], n)]
  BY DEF WriteSome, Rest
<1>2. q # <<>> /\ open' = open /\ sends' = sends /\ torn' = torn /\ out' = q
  BY DEF WriteSome, Writing
<1>3. SendTyped /\ q \in Seq(Objects) /\ AllFit(lf) /\ wire \in Seq(Byte)
  BY DEF SInv, SendTyped
<1>4. /\ h \in Objects /\ t \in Seq(Objects) /\ Len(t) = Len(q) - 1
      /\ \A i \in 1..Len(t) : t[i] = q[i + 1]
  BY <1>2, <1>3, HeadTailProperties
<1>5. /\ Unsent(q, lf) = R \o Unsent(t, lf) /\ R \in Seq(Byte) /\ Unsent(t, lf) \in Seq(Byte)
  BY <1>2, <1>3, UnsentHead
<1>6. n \in 0..Len(R) /\ n \in 1..Len(R)
  BY <1>1, <1>5, LenProperties DEF Rest
<1>7. Fits(h, UpdateViews(lf[h], n)) /\ Bytes(h, UpdateViews(lf[h], n)) = Drop(R, n)
  <2>1. Fits(h, lf[h])
    BY <1>3, <1>4 DEF AllFit
  <2> DEFINE v == lf[h]
  <2>2. n \in 0..Len(Bytes(h, v))
    BY <1>6
  <2> HIDE DEF v, h
  <2> QED BY <2>1, <2>2, Shortened DEF v
<1>8. \A r \in Objects : lf2[r] = IF r = h THEN UpdateViews(lf[h], n) ELSE lf[r]
  BY <1>1, <1>3, <1>4 DEF SendTyped
<1>9. AllFit(lf2)
  BY <1>3, <1>7, <1>8 DEF AllFit
<1> DEFINE S == SubSeq(R, 1, n)
           D == Drop(R, n)
           U == Unsent(t, lf)
<1>10. S \in Seq(Byte) /\ D \in Seq(Byte) /\ S \o D = R
  <2>1. D \in Seq(Byte)
    BY <1>5, <1>6, Drops
  <2>2. R \in Seq(Byte) /\ Len(R) \in Nat
    BY <1>5, LenProperties
  <2> HIDE DEF R
  <2>3. \A i \in 1..n : R[i] \in Byte
    BY <1>6, <2>2, ElementOfSeq
  <2>4. S \in Seq(Byte)
    <3>1. 1 \in Int /\ n \in Int
      BY <1>6
    <3> QED BY <2>3, <3>1, SubSeqProperties
  <2>5. S \o SubSeq(R, n + 1, Len(R)) = SubSeq(R, 1, Len(R))
    <3>1. 1 \in 1..(Len(R) + 1) /\ n \in (1 - 1)..Len(R) /\ Len(R) \in n..Len(R)
      BY <1>6, <2>2
    <3> QED BY <2>2, <3>1, ConcatAdjacentSubSeq
  <2>6. SubSeq(R, 1, Len(R)) = R
    BY <2>2, SubSeqFull
  <2> QED BY <2>1, <2>4, <2>5, <2>6 DEF Drop
<1>11. SendTyped'
  <2>1. lf2 \in [Objects -> Seq(Nat)]
    BY <1>1, <1>3, <1>7 DEF SendTyped, Fits
  <2>2. wire' \in Seq(Byte)
    BY <1>1, <1>3, <1>10, ConcatProperties
  <2> QED BY <1>2, <1>3, <1>9, <2>1, <2>2 DEF SendTyped, Byte
<1>12. ASSUME ~torn' PROVE Distinct(out)'
  BY <1>2, <1>12 DEF SInv, Distinct
<1>13. ASSUME ~torn', open' PROVE (wire \o Unsent(out, left) = Unsent(sends, Parts))'
  <2>1. wire \o Unsent(q, lf) = Unsent(sends, Parts) /\ Distinct(q)
    BY <1>2, <1>13 DEF SInv
  <2>2. \A i \in 1..Len(t) : lf2[t[i]] = lf[t[i]]
    <3> SUFFICES ASSUME NEW i \in 1..Len(t) PROVE lf2[t[i]] = lf[t[i]]
      OBVIOUS
    <3>1. Len(q) \in Nat /\ Len(q) > 0 /\ h = q[1]
      BY <1>2, <1>3, LenProperties, EmptySeq
    <3>2. t[i] = q[i + 1] /\ i + 1 \in 1..Len(q) /\ 1 \in 1..Len(q) /\ i + 1 # 1
      BY <1>4, <3>1
    <3>3. t[i] # h /\ t[i] \in Objects
      BY <1>3, <2>1, <3>1, <3>2, ElementOfSeq DEF Distinct
    <3> QED BY <1>8, <3>3
  <2>3. Unsent(t, lf2) = U
    <3> HIDE DEF t, lf, lf2
    <3> QED BY <1>4, <2>2, UnsentSame DEF U
  <2>4. Unsent(q, lf2) = D \o U
    <3>1. Unsent(q, lf2) = Bytes(h, lf2[h]) \o Unsent(t, lf2)
      <4> HIDE DEF lf2
      <4> QED BY <1>2, <1>3, <1>9, UnsentHead
    <3>2. Bytes(h, lf2[h]) = D
      BY <1>4, <1>7, <1>8
    <3> QED BY <2>3, <3>1, <3>2
  <2>5. wire' = wire \o S /\ U \in Seq(Byte) /\ wire \o (R \o U) = Unsent(sends, Parts)
    BY <1>1, <1>5, <2>1
  <2> HIDE DEF S, D, U, R
  <2>6. (wire \o S) \o (D \o U) = wire \o ((S \o D) \o U)
    <3>1. S \in Seq(Byte) /\ D \in Seq(Byte) /\ U \in Seq(Byte) /\ wire \in Seq(Byte)
      BY <1>3, <1>10, <2>5
    <3>2. D \o U \in Seq(Byte)
      BY ONLY <3>1, ConcatProperties
    <3>3. (wire \o S) \o (D \o U) = wire \o (S \o (D \o U))
      BY ONLY <3>1, <3>2, ConcatAssociative
    <3>4. (S \o D) \o U = S \o (D \o U)
      BY ONLY <3>1, ConcatAssociative
    <3> QED BY <3>3, <3>4
  <2>7. wire' \o Unsent(out', lf2) = Unsent(sends', Parts)
    BY <1>2, <1>10, <2>4, <2>5, <2>6
  <2> QED BY <2>7
<1> QED BY <1>11, <1>12, <1>13 DEF SInv

\* A request without a view left leaves _out.
LEMMA WriteCompleteSends == SInv /\ WriteComplete => SInv'
<1> SUFFICES ASSUME SInv, WriteComplete PROVE SInv'
  OBVIOUS
<1> DEFINE q == out
           t == Tail(q)
<1>1. /\ q # <<>> /\ out' = t /\ Bytes(Head(q), left[Head(q)]) = <<>>
      /\ open' = open /\ sends' = sends /\ torn' = torn /\ left' = left /\ wire' = wire
  BY DEF WriteComplete, Writing, Rest
<1>2. SendTyped /\ q \in Seq(Objects) /\ AllFit(left)
  BY DEF SInv, SendTyped
<1>3. t \in Seq(Objects) /\ Len(t) = Len(q) - 1 /\ \A i \in 1..Len(t) : t[i] = q[i + 1]
  BY <1>1, <1>2, HeadTailProperties
<1>4. Unsent(q, left) = Unsent(t, left)
  <2> DEFINE U == Unsent(t, left)
  <2>1. Unsent(q, left) = Bytes(Head(q), left[Head(q)]) \o U /\ U \in Seq(Byte)
    BY <1>1, <1>2, UnsentHead
  <2> HIDE DEF U
  <2>2. <<>> \o U = U
    BY <2>1, ConcatEmptySeq
  <2> QED BY <1>1, <2>1, <2>2 DEF U
<1>5. SendTyped'
  BY <1>1, <1>2, <1>3 DEF SendTyped, AllFit, Fits, Byte
<1>6. ASSUME ~torn' PROVE Distinct(out)'
  <2>1. Distinct(q) /\ Len(q) \in Nat
    BY <1>1, <1>2, <1>6, LenProperties DEF SInv
  <2> SUFFICES ASSUME NEW i \in 1..Len(t), NEW j \in 1..Len(t), t[i] = t[j] PROVE i = j
    BY <1>1 DEF Distinct
  <2>2. i + 1 \in 1..Len(q) /\ j + 1 \in 1..Len(q)
    BY <1>3, <2>1
  <2>3. i + 1 = j + 1
    BY <1>3, <2>1, <2>2 DEF Distinct
  <2> QED BY <2>3
<1>7. ASSUME ~torn', open' PROVE (wire \o Unsent(out, left) = Unsent(sends, Parts))'
  <2>1. wire' \o Unsent(out', left') = Unsent(sends', Parts)
    BY <1>1, <1>4, <1>7 DEF SInv
  <2> QED BY <2>1
<1> QED BY <1>5, <1>6, <1>7 DEF SInv

\* The connection is closed.
LEMMA CloseSends == SInv /\ Close => SInv'
<1> SUFFICES ASSUME SInv, Close PROVE SInv'
  OBVIOUS
<1>1. out' = <<>> /\ open' = FALSE
      /\ sends' = sends /\ torn' = torn /\ left' = left /\ wire' = wire
  BY DEF Close
<1>2. SendTyped'
  BY <1>1, EmptySeq DEF SInv, SendTyped, AllFit, Fits, Byte
<1>3. Distinct(out)'
  BY <1>1 DEF Distinct
<1> QED BY <1>1, <1>2, <1>3 DEF SInv

\* Nothing of the sending side changes.
LEMMA SameSends == SInv /\ UNCHANGED <<open, sendVars>> => SInv'
<1> SUFFICES ASSUME SInv, UNCHANGED <<open, sendVars>> PROVE SInv'
  OBVIOUS
<1>1. /\ open' = open /\ out' = out
      /\ sends' = sends /\ torn' = torn /\ left' = left /\ wire' = wire
  BY DEF sendVars
<1>2. SendTyped'
  BY <1>1 DEF SInv, SendTyped, AllFit, Fits, Byte
<1>3. ASSUME ~torn' PROVE Distinct(out)'
  BY <1>1, <1>3 DEF SInv, Distinct
<1>4. ASSUME ~torn', open' PROVE (wire \o Unsent(out, left) = Unsent(sends, Parts))'
  <2>1. wire' \o Unsent(out', left') = Unsent(sends', Parts)
    BY <1>1, <1>4 DEF SInv
  <2> QED BY <2>1
<1> QED BY <1>2, <1>3, <1>4 DEF SInv

\* What recv found closes the connection or leaves the sending side alone.
LEMMA OutcomeSends ==
    ASSUME NEW r, Outcome(r), r.status \in {"Complete", "Partial", "Err"}
    PROVE  Close \/ UNCHANGED <<open, sendVars>>
<1>1. CASE r.status = "Complete"
  <2>1. Deliver(r.resp)
    BY <1>1 DEF Outcome
  <2> QED BY <2>1 DEF Deliver
<1>2. CASE r.status = "Partial"
  BY <1>2 DEF Outcome
<1>3. CASE r.status = "Err"
  BY <1>3 DEF Outcome
<1> QED BY <1>1, <1>2, <1>3

LEMMA ParseStatus ==
    ASSUME NEW c
    PROVE  Parse(c).status \in {"Complete", "Partial", "Err"}
BY DEF Parse

LEMMA NextSends == SInv /\ [Next]_vars => SInv'
<1> SUFFICES ASSUME SInv, [Next]_vars PROVE SInv'
  OBVIOUS
<1>1. CASE \E o \in Objects : Send(o)
  BY <1>1, SendSends
<1>2. CASE WriteSome
  BY <1>2, WriteSomeSends
<1>3. CASE WriteComplete
  BY <1>3, WriteCompleteSends
<1>4. CASE WriteError \/ ReadError
  BY <1>4, CloseSends DEF WriteError, ReadError
<1>5. CASE CbWrite \/ WriteEnd \/ CbRead \/ ReadAsync \/ Server \/ UNCHANGED vars
  BY <1>5, SameSends
     DEF CbWrite, WriteEnd, CbRead, ReadAsync, Server, Answer, Arrive, ServerCloses, vars
<1>6. CASE RecvBuffered
  <2>1. Close \/ UNCHANGED <<open, sendVars>>
    BY <1>6, OutcomeSends, ParseStatus DEF RecvBuffered
  <2> QED BY <2>1, CloseSends, SameSends
<1>7. CASE RecvBytes
  <2>1. PICK n : Outcome(Parse(Received(n)))
    BY <1>7 DEF RecvBytes
  <2>2. Close \/ UNCHANGED <<open, sendVars>>
    BY <2>1, OutcomeSends, ParseStatus
  <2> QED BY <2>2, CloseSends, SameSends
<1> QED BY <1>1, <1>2, <1>3, <1>4, <1>5, <1>6, <1>7 DEF Next, WriteStep, ReadStep

THEOREM SenderCorrect == Spec => []SInv
BY SendInit, NextSends, PTL DEF Spec

\* What was written and what waits in _out are together the requests in the
\* order of sending, wherever writes stopped, as long as no object was sent
\* again while it waited; and buffers are never written beyond their size.
THEOREM RequestsWholeHolds == Spec => []RequestsWhole
<1>1. RInv /\ SInv => RequestsWhole
  <2> SUFFICES ASSUME RInv, SInv PROVE RequestsWhole
    OBVIOUS
  <2>1. TypeOK
    BY DEF RInv, Typed, SInv, SendTyped, TypeOK
  <2>2. FlattenSeq([i \in DOMAIN out |-> Rest(out[i])]) = Unsent(out, left)
    BY DEF Rest, RestsOf, Unsent
  <2>3. FlattenSeq([i \in DOMAIN sends |-> Whole(sends[i])]) = Unsent(sends, Parts)
    BY DEF Whole, RestsOf, Unsent
  <2> QED BY <2>1, <2>2, <2>3 DEF SInv, RequestsWhole
<1> QED BY <1>1, ReceiverCorrect, SenderCorrect, PTL

=============================================================================
