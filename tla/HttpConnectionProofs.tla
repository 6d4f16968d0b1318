------------------------ MODULE HttpConnectionProofs ------------------------
(***************************************************************************)
(* Proofs about HttpConnection, for any requests, any number of them on    *)
(* the connection, and any place where the network may cut the stream.     *)
(***************************************************************************)
EXTENDS HttpConnection, SequenceTheorems, WellFoundedInduction, TLAPS

(***************************************************************************)
(* The parser stays in step with the client as long as the connection is   *)
(* up, and with a client that sends nothing malformed for ever.            *)
(***************************************************************************)
StaysInStep == conn = "connected" \/ \A i \in DOMAIN script : WellFormed(i)

Sizes == [i \in DOMAIN script |-> SizeOf(i)]

(* What s holds are places of the first n requests, ...                    *)
HoldsPlaces(s, n, size) ==
  \A j \in DOMAIN s : s[j][1] \in 1 .. n /\ s[j][2] \in 1 .. size[s[j][1]]

(* ... behind each the rest of its request, ...                            *)
HoldsWhole(s, size) ==
  \A j \in DOMAIN s : \A d \in 0 .. size[s[j][1]] - s[j][2] :
    j + d \in DOMAIN s /\ s[j + d] = <<s[j][1], s[j][2] + d>>

(* ... and behind that the next request.                                   *)
HoldsAll(s, n, size) ==
  \A j \in DOMAIN s : \A e \in Nat : e = ((j + size[s[j][1]]) - s[j][2]) + 1 =>
    IF e \in DOMAIN s THEN s[e] = <<s[j][1] + 1, 1>> ELSE s[j][1] = n

(* s is the stream of the first n requests from place k of request i on.   *)
IsStream(s, i, k, n, size) ==
  /\ HoldsPlaces(s, n, size)
  /\ HoldsWhole(s, size)
  /\ HoldsAll(s, n, size)
  /\ IF s = << >> THEN i = n + 1 /\ k = 1 ELSE s[1] = <<i, k>>

Rest == buffer \o wire
StreamsFrom(i, k) == IsStream(Rest, i, k, sent, Sizes)

(* The request behind the first m lines of request i.                      *)
ReadSoFar(i, m) ==
  [id |-> i, version |-> script[i].version,
   connection |-> IF \E j \in 2 .. m : LinesOf(i)[j].kind = "connection"
                    THEN script[i].connection ELSE "",
   length |-> IF \E j \in 2 .. m : LinesOf(i)[j].kind = "length"
                THEN ContentLength(script[i]) ELSE 0,
   content |-> << >>]

(***************************************************************************)
(* Where the parser is with request i.                                     *)
(***************************************************************************)
AtRequestLine(i) ==
  state = "ExpectRequestLine" /\ request = EmptyRequest /\ StreamsFrom(i, 1)

AtHeader(i, m) ==
  /\ state = "ExpectHeaders" /\ i <= sent /\ script[i].flaw # "line"
  /\ m \in 1 .. Len(LinesOf(i)) /\ \A j \in 2 .. m : LinesOf(i)[j].kind # "noise"
  /\ request = ReadSoFar(i, m)
  /\ StreamsFrom(i, 2 * m + 1)

AtBody(i) ==
  /\ state = "ExpectBody" /\ i <= sent /\ WellFormed(i) /\ script[i].length > 0
  /\ request = [Parsed(i) EXCEPT !.content = << >>]
  /\ StreamsFrom(i, HeadSize(i) + 1)

AtEnd(i) ==
  /\ state = "ExpectComplete" /\ i <= sent /\ WellFormed(i)
  /\ request = Parsed(i)
  /\ StreamsFrom(i + 1, 1)

InStep(i) ==
  \/ AtRequestLine(i)
  \/ \E m \in Nat : AtHeader(i, m)
  \/ AtBody(i)
  \/ AtEnd(i)

ParserInStep ==
  StaysInStep =>
    /\ Len(handled) <= sent
    /\ \A j \in DOMAIN handled : handled[j] = Parsed(j) /\ WellFormed(j)
    /\ \A i \in Nat : i = Len(handled) + 1 => InStep(i)

(***************************************************************************)
(* If the network cuts no heads, the buffer does not end in one, and the   *)
(* parser has a line to read as long as it is in one.                      *)
(***************************************************************************)
CutsNoHead ==
  ~splits /\ buffer # << >> =>
    \A i, k : buffer[Len(buffer)] = <<i, k>> => k >= HeadSize(i)

HeadInHand ==
  ~splits /\ StaysInStep /\ pc = "parse" /\ ReadsLines => buffer # << >>

(* What is under way and what has arrived was sent.                        *)
KnownPlaces(s, n) == \A j \in DOMAIN s : s[j][1] \in 1 .. n
PlacesAreSent == KnownPlaces(buffer, sent) /\ KnownPlaces(wire, sent)

(* on_request follows a complete request.                                  *)
Control ==
  /\ pc = "request" => state = "ExpectComplete"
  /\ pc = "idle" => state # "ExpectComplete"

IInv ==
  /\ TypeOK
  /\ Control
  /\ PlacesAreSent
  /\ ParserInStep
  /\ CutsNoHead
  /\ HeadInHand
  /\ AnswersInOrder
  /\ BadRequestIfHeadsWhole

-----------------------------------------------------------------------------
(* The text of a request.                                                  *)

(***************************************************************************)
(* The script, request by request.                                         *)
(***************************************************************************)
LEMMA ScriptFacts ==
  ASSUME TypeOK
  PROVE  /\ Len(script) \in Nat /\ DOMAIN script = 1 .. Len(script)
         /\ MaxRequests \in Nat /\ Len(script) <= MaxRequests
         /\ sent \in Nat /\ sent <= Len(script)
         /\ \A i \in DOMAIN script : i \in Nat /\ IsRequest(script[i])
<1>1. /\ script \in Seq(Requests) /\ Len(script) <= MaxRequests /\ sent \in 0 .. Len(script)
  BY DEF TypeOK
<1>2. Len(script) \in Nat /\ DOMAIN script = 1 .. Len(script)
  BY <1>1, LenProperties
<1>3. \A i \in DOMAIN script : script[i] \in Requests
  BY <1>1, <1>2, ElementOfSeq
<1> QED
  BY <1>1, <1>2, <1>3, HttpAssumption

(***************************************************************************)
(* A line that is there or not.                                            *)
(***************************************************************************)
LEMMA AtMostOne ==
  ASSUME NEW T, NEW x \in T, NEW absent
  PROVE  LET s == IF absent THEN << >> ELSE <<x>>
             u == IF absent THEN <<x>> ELSE << >> IN
         /\ s \in Seq(T) /\ Range(s) = IF absent THEN {} ELSE {x}
         /\ u \in Seq(T) /\ Range(u) = IF absent THEN {x} ELSE {}
<1>1. << >> \in Seq(T) /\ Range(<< >>) = {}
  BY DEF Range
<1>2. <<x>> \in Seq(T) /\ Range(<<x>>) = {x}
  BY DEF Range
<1> QED
  BY <1>1, <1>2

(***************************************************************************)
(* What the header lines of a request are.                                 *)
(***************************************************************************)
LEMMA HeaderFacts ==
  ASSUME NEW r, IsRequest(r)
  PROVE  /\ Len(HeaderLines(r)) \in Nat /\ DOMAIN HeaderLines(r) = 1 .. Len(HeaderLines(r))
         /\ HeaderLines(r) \in Seq({HeaderLines(r)[j] : j \in DOMAIN HeaderLines(r)})
         /\ \A j \in DOMAIN HeaderLines(r) : LET line == HeaderLines(r)[j] IN
              \/ r.connection # "" /\ line = [kind |-> "connection", value |-> r.connection]
              \/ ContentLength(r) # 0 /\ line = [kind |-> "length", value |-> ContentLength(r)]
              \/ r.flaw = "header" /\ line = [kind |-> "noise"]
         /\ r.connection # "" =>
              \E j \in DOMAIN HeaderLines(r) : HeaderLines(r)[j].kind = "connection"
         /\ ContentLength(r) # 0 =>
              \E j \in DOMAIN HeaderLines(r) : HeaderLines(r)[j].kind = "length"
         /\ r.flaw = "header" =>
              \E j \in DOMAIN HeaderLines(r) : HeaderLines(r)[j].kind = "noise"
<1> DEFINE c == [kind |-> "connection", value |-> r.connection]
           l == [kind |-> "length", value |-> ContentLength(r)]
           x == [kind |-> "noise"]
           C == IF r.connection = "" THEN << >> ELSE <<c>>
           L == IF ContentLength(r) = 0 THEN << >> ELSE <<l>>
           X == IF r.flaw = "header" THEN <<x>> ELSE << >>
           T == {c, l, x}
           H == HeaderLines(r)
<1>1. H = (C \o L) \o X
  BY DEF HeaderLines
<1>2. c.kind = "connection" /\ l.kind = "length" /\ x.kind = "noise"
  OBVIOUS
<1>3. /\ C \in Seq(T) /\ Range(C) = IF r.connection = "" THEN {} ELSE {c}
      /\ L \in Seq(T) /\ Range(L) = IF ContentLength(r) = 0 THEN {} ELSE {l}
      /\ X \in Seq(T) /\ Range(X) = IF r.flaw = "header" THEN {x} ELSE {}
  <2>1. c \in T /\ l \in T /\ x \in T
    OBVIOUS
  <2> HIDE DEF T, c, l, x
  <2> QED
    BY <2>1, AtMostOne, Zenon
<1> HIDE DEF c, l, x, C, L, X, T, H
<1>4. C \o L \in Seq(T) /\ Range(C \o L) = Range(C) \cup Range(L)
  <2>1. C \in Seq(T) /\ L \in Seq(T)
    BY <1>3
  <2>2. C \o L \in Seq(T)
    BY <2>1, ConcatProperties
  <2>3. Range(C \o L) = Range(C) \cup Range(L)
    BY <2>1, RangeConcatenation
  <2> QED
    BY <2>2, <2>3
<1>5. H \in Seq(T) /\ Range(H) = Range(C \o L) \cup Range(X)
  <2> DEFINE D == C \o L
  <2>1. D \in Seq(T) /\ X \in Seq(T)
    BY <1>3, <1>4
  <2> HIDE DEF D
  <2>2. D \o X \in Seq(T)
    BY <2>1, ConcatProperties
  <2>3. Range(D \o X) = Range(D) \cup Range(X)
    BY <2>1, RangeConcatenation
  <2> QED
    BY <1>1, <2>2, <2>3 DEF D
<1>6. Len(H) \in Nat /\ DOMAIN H = 1 .. Len(H)
  BY <1>5, LenProperties
<1>7. Range(H) = {H[j] : j \in DOMAIN H}
  BY DEF Range
<1>12. H \in Seq(Range(H))
  BY <1>5, SeqOfRange
<1>8. \A j \in DOMAIN H : H[j] \in Range(C) \cup Range(L) \cup Range(X)
  BY <1>4, <1>5, <1>7
<1>9. \A y \in Range(C) \cup Range(L) \cup Range(X) : \E j \in DOMAIN H : H[j] = y
  BY <1>4, <1>5, <1>7
<1>10. \A j \in DOMAIN H : \/ r.connection # "" /\ H[j] = c
                           \/ ContentLength(r) # 0 /\ H[j] = l
                           \/ r.flaw = "header" /\ H[j] = x
  BY <1>3, <1>8
<1>11. /\ r.connection # "" => \E j \in DOMAIN H : H[j] = c
       /\ ContentLength(r) # 0 => \E j \in DOMAIN H : H[j] = l
       /\ r.flaw = "header" => \E j \in DOMAIN H : H[j] = x
  BY <1>3, <1>9
<1> QED
  BY <1>2, <1>6, <1>7, <1>10, <1>11, <1>12 DEF c, l, x, H

(***************************************************************************)
(* What the lines of a request are: the request line, and header lines.    *)
(***************************************************************************)
LEMMA LineFacts ==
  ASSUME TypeOK, NEW i \in DOMAIN script
  PROVE  /\ Len(LinesOf(i)) \in Nat \ {0}
         /\ LinesOf(i)[1] = RequestLine(script[i], i)
         /\ \A j \in 2 .. Len(LinesOf(i)) : LET line == LinesOf(i)[j]
                                                r == script[i] IN
              \/ r.connection # "" /\ line = [kind |-> "connection", value |-> r.connection]
              \/ ContentLength(r) # 0 /\ line = [kind |-> "length", value |-> ContentLength(r)]
              \/ r.flaw = "header" /\ line = [kind |-> "noise"]
         /\ script[i].connection # "" =>
              \E j \in 2 .. Len(LinesOf(i)) : LinesOf(i)[j].kind = "connection"
         /\ ContentLength(script[i]) # 0 =>
              \E j \in 2 .. Len(LinesOf(i)) : LinesOf(i)[j].kind = "length"
         /\ script[i].flaw = "header" =>
              \E j \in 2 .. Len(LinesOf(i)) : LinesOf(i)[j].kind = "noise"
<1> DEFINE r == script[i]
           first == RequestLine(r, i)
           H == HeaderLines(r)
           N == LinesOf(i)
           T == {first} \cup {H[j] : j \in DOMAIN H}
<1>1. IsRequest(r)
  BY ScriptFacts
<1>2. Len(H) \in Nat /\ DOMAIN H = 1 .. Len(H) /\ H \in Seq({H[j] : j \in DOMAIN H})
  BY <1>1, HeaderFacts, ZenonT(40)
<1>3. N = <<first>> \o H
  BY DEF LinesOf
<1>4. Len(N) = Len(H) + 1 /\ N[1] = first /\ \A j \in 1 .. Len(H) : N[j + 1] = H[j]
  <2>1. first \in T /\ {H[j] : j \in DOMAIN H} \subseteq T
    OBVIOUS
  <2> HIDE DEF first, H, N, T
  <2>2. H \in Seq(T) /\ <<first>> \in Seq(T)
    BY <1>2, <2>1, SeqMonotonic
  <2>3. Len(<<first>>) = 1 /\ <<first>>[1] = first
    OBVIOUS
  <2>4. /\ Len(N) = Len(<<first>>) + Len(H)
        /\ \A j \in 1 .. Len(<<first>>) + Len(H) :
             N[j] = IF j <= Len(<<first>>) THEN <<first>>[j] ELSE H[j - Len(<<first>>)]
    BY <1>3, <2>2, ConcatProperties
  <2>5. /\ Len(N) = 1 + Len(H)
        /\ \A j \in 1 .. 1 + Len(H) : N[j] = IF j <= 1 THEN <<first>>[j] ELSE H[j - 1]
    BY <2>3, <2>4
  <2> QED
    BY <1>2, <2>3, <2>5, SMTT(30)
<1>5. Len(N) \in Nat \ {0}
  BY <1>2, <1>4
<1>6. /\ \A j \in DOMAIN H :
           \/ r.connection # "" /\ H[j] = [kind |-> "connection", value |-> r.connection]
           \/ ContentLength(r) # 0 /\ H[j] = [kind |-> "length", value |-> ContentLength(r)]
           \/ r.flaw = "header" /\ H[j] = [kind |-> "noise"]
      /\ r.connection # "" => \E j \in DOMAIN H : H[j].kind = "connection"
      /\ ContentLength(r) # 0 => \E j \in DOMAIN H : H[j].kind = "length"
      /\ r.flaw = "header" => \E j \in DOMAIN H : H[j].kind = "noise"
  BY <1>1, HeaderFacts
<1> HIDE DEF N, H, first, r
<1>7. \A j \in 2 .. Len(N) : j - 1 \in DOMAIN H /\ N[j] = H[j - 1]
  BY <1>2, <1>4
<1>8. \A j \in DOMAIN H : j + 1 \in 2 .. Len(N) /\ N[j + 1] = H[j]
  BY <1>2, <1>4
<1>9. \A j \in 2 .. Len(N) :
         \/ r.connection # "" /\ N[j] = [kind |-> "connection", value |-> r.connection]
         \/ ContentLength(r) # 0 /\ N[j] = [kind |-> "length", value |-> ContentLength(r)]
         \/ r.flaw = "header" /\ N[j] = [kind |-> "noise"]
  BY <1>6, <1>7
<1>10. /\ r.connection # "" => \E j \in 2 .. Len(N) : N[j].kind = "connection"
       /\ ContentLength(r) # 0 => \E j \in 2 .. Len(N) : N[j].kind = "length"
       /\ r.flaw = "header" => \E j \in 2 .. Len(N) : N[j].kind = "noise"
  BY <1>6, <1>8
<1> QED
  BY <1>4, <1>5, <1>9, <1>10 DEF N, first, r

(***************************************************************************)
(* How long a request is.                                                  *)
(***************************************************************************)
LEMMA SizeFacts ==
  ASSUME TypeOK, NEW i \in DOMAIN script
  PROVE  /\ HeadSize(i) = 2 * Len(LinesOf(i)) + 1 /\ HeadSize(i) \in Nat \ {0}
         /\ script[i].length \in Nat
         /\ SizeOf(i) = HeadSize(i) + script[i].length /\ SizeOf(i) \in Nat \ {0}
         /\ Sizes[i] = SizeOf(i)
<1>1. Len(LinesOf(i)) \in Nat /\ script[i].length \in Nat
  BY LineFacts, ScriptFacts DEF IsRequest
<1>2. HeadSize(i) = 2 * Len(LinesOf(i)) + 1
  BY DEF HeadSize
<1>3. SizeOf(i) = HeadSize(i) + script[i].length
  BY DEF SizeOf
<1> QED
  BY <1>1, <1>2, <1>3 DEF Sizes

(***************************************************************************)
(* The lines of the head and their ends, and no line looks like an end.    *)
(***************************************************************************)
LEMMA Tokens ==
  ASSUME TypeOK, NEW i \in DOMAIN script, NEW m \in 1 .. Len(LinesOf(i))
  PROVE  /\ Token(<<i, 2 * m - 1>>) = LinesOf(i)[m] /\ LinesOf(i)[m] # Crlf
         /\ Token(<<i, 2 * m>>) = Crlf
         /\ Token(<<i, HeadSize(i)>>) = Crlf
<1> DEFINE N == LinesOf(i)
           h == HeadSize(i)
<1>1. Len(N) \in Nat /\ h = 2 * Len(N) + 1
  BY LineFacts, SizeFacts
<1>2. \A k : Token(<<i, k>>) =
        CASE k > h -> [kind |-> "byte"]
          [] k < h /\ k % 2 = 1 -> N[(k + 1) \div 2]
          [] OTHER -> Crlf
  BY DEF Token
<1>3. N[m].kind # "crlf"
  <2>1. CASE m = 1
    <3>1. N[1] = RequestLine(script[i], i)
      BY LineFacts
    <3>2. RequestLine(script[i], i).kind \in {"noise", "start"}
      BY DEF RequestLine
    <3> QED
      BY <2>1, <3>1, <3>2
  <2>2. CASE m \in 2 .. Len(N)
    <3> DEFINE r == script[i]
               c == [kind |-> "connection", value |-> r.connection]
               l == [kind |-> "length", value |-> ContentLength(r)]
               x == [kind |-> "noise"]
    <3>1. N[m] = c \/ N[m] = l \/ N[m] = x
      BY <2>2, LineFacts
    <3>2. c.kind # "crlf" /\ l.kind # "crlf" /\ x.kind # "crlf"
      OBVIOUS
    <3> HIDE DEF c, l, x
    <3> QED
      BY <3>1, <3>2
  <2> QED
    BY <1>1, <2>1, <2>2
<1>4. N[m] # Crlf
  BY <1>3 DEF Crlf
<1>11. m \in Nat \ {0} /\ m <= Len(N)
  BY <1>1
<1> HIDE DEF N, h
<1>5. /\ ~(2 * m - 1 > h) /\ 2 * m - 1 < h /\ (2 * m - 1) % 2 = 1
      /\ ((2 * m - 1) + 1) \div 2 = m
  BY <1>1, <1>11
<1>6. ~(2 * m > h) /\ (2 * m) % 2 # 1
  BY <1>1, <1>11
<1>7. ~(h > h) /\ ~(h < h)
  BY <1>1
<1>8. Token(<<i, 2 * m - 1>>) = N[m]
  BY <1>2, <1>5
<1>9. Token(<<i, 2 * m>>) = Crlf
  BY <1>2, <1>6
<1>10. Token(<<i, h>>) = Crlf
  BY <1>2, <1>7
<1> QED
  BY <1>4, <1>8, <1>9, <1>10 DEF N, h

-----------------------------------------------------------------------------
(* Numbers of places.                                                      *)

(***************************************************************************)
(* A place that is counted from one further on.                            *)
(***************************************************************************)
LEMMA PlacesShift ==
  ASSUME NEW a \in Nat, NEW b \in Nat, NEW d \in Nat, NEW j \in Nat
  PROVE  (((j + a) - b) + 1) + d = (((j + d) + a) - b) + 1
OBVIOUS

(***************************************************************************)
(* To take more than all but one is to take all.                           *)
(***************************************************************************)
LEMMA LastPlace ==
  ASSUME NEW a \in Nat, NEW k \in Nat, NEW d \in Nat, d <= (a - k) + 1, ~(k + d <= a)
  PROVE  d + 1 = ((1 + a) - k) + 1
OBVIOUS

-----------------------------------------------------------------------------
(* Streams.                                                                *)

(* How many tokens a request has from place k on.                          *)
TokensLeft(size, i, k) == (size[i] - k) + 1

(* s begins with so many tokens of request i from place k on.              *)
BeginsWith(s, i, k, many) ==
  many <= Len(s) /\ \A j \in 1 .. many : s[j] = <<i, (k + j) - 1>>

(***************************************************************************)
(* The rest of a request is in a stream that begins in it.                 *)
(***************************************************************************)
LEMMA StreamBegins ==
  ASSUME NEW s \in Seq(Place), s # << >>, NEW i, NEW k, NEW n \in Nat, NEW size,
         IsStream(s, i, k, n, size), \A a \in 1 .. n : size[a] \in Nat
  PROVE  /\ i \in 1 .. n /\ k \in 1 .. size[i]
         /\ BeginsWith(s, i, k, TokensLeft(size, i, k))
<1>1. Len(s) \in Nat /\ DOMAIN s = 1 .. Len(s) /\ 1 \in DOMAIN s
  <2>1. Len(s) \in Nat /\ DOMAIN s = 1 .. Len(s)
    BY LenProperties
  <2>2. Len(s) # 0
    BY EmptySeq
  <2> QED
    BY <2>1, <2>2
<1>2. s[1] = <<i, k>>
  BY DEF IsStream
<1>3. i \in 1 .. n /\ k \in 1 .. size[i] /\ size[i] \in Nat
  BY <1>1, <1>2 DEF IsStream, HoldsPlaces
<1>4. \A d \in 0 .. size[i] - k : 1 + d \in DOMAIN s /\ s[1 + d] = <<i, k + d>>
  BY <1>1, <1>2 DEF IsStream, HoldsWhole
<1>5. \A j \in 1 .. (size[i] - k) + 1 : j - 1 \in 0 .. size[i] - k /\ 1 + (j - 1) = j
                                        /\ k + (j - 1) = (k + j) - 1
  BY <1>3
<1>6. (size[i] - k) + 1 \in 1 .. (size[i] - k) + 1
  BY <1>3
<1>7. \A j \in 1 .. (size[i] - k) + 1 : j \in DOMAIN s /\ s[j] = <<i, (k + j) - 1>>
  BY <1>4, <1>5
<1> QED
  BY <1>1, <1>3, <1>6, <1>7 DEF TokensLeft, BeginsWith

(***************************************************************************)
(* Some tokens of a request are taken from a stream that begins in it.     *)
(***************************************************************************)
LEMMA StreamDrops ==
  ASSUME NEW s \in Seq(Place), s # << >>, NEW i, NEW k, NEW n \in Nat, NEW size,
         IsStream(s, i, k, n, size), \A a \in 1 .. n : size[a] \in Nat,
         NEW d \in 1 .. TokensLeft(size, i, k),
         NEW t \in Seq(Place), Len(t) = Len(s) - d, \A j \in DOMAIN t : t[j] = s[j + d]
  PROVE  IF k + d <= size[i] THEN IsStream(t, i, k + d, n, size)
                             ELSE IsStream(t, i + 1, 1, n, size)
<1>1. /\ Len(s) \in Nat /\ DOMAIN s = 1 .. Len(s)
      /\ DOMAIN t = 1 .. Len(t) /\ Len(t) \in Nat
      /\ \A j \in DOMAIN s : s[j] \in Place
  BY LenProperties, ElementOfSeq
<1>2. /\ i \in 1 .. n /\ k \in 1 .. size[i]
      /\ (size[i] - k) + 1 <= Len(s)
      /\ \A j \in 1 .. (size[i] - k) + 1 : s[j] = <<i, (k + j) - 1>>
  <2>1. /\ i \in 1 .. n /\ k \in 1 .. size[i]
        /\ BeginsWith(s, i, k, TokensLeft(size, i, k))
    BY StreamBegins
  <2> QED
    BY <2>1 DEF TokensLeft, BeginsWith
<1>11. size[i] \in Nat /\ k \in Nat
  BY <1>2
<1>12. d \in Nat /\ d >= 1 /\ d <= (size[i] - k) + 1
  BY <1>11 DEF TokensLeft
<1>3. d \in Nat /\ d >= 1 /\ \A j \in DOMAIN t : j + d \in DOMAIN s /\ t[j] = s[j + d]
  BY <1>1, <1>2, <1>12, SMTT(30)
<1>4. \A j \in DOMAIN s : j > d => j - d \in DOMAIN t /\ t[j - d] = s[j]
  <2>1. \A j \in DOMAIN s : j > d => j - d \in DOMAIN t /\ (j - d) + d = j
    BY <1>1, <1>3
  <2> QED
    BY <1>3, <2>1
<1>5. HoldsPlaces(t, n, size)
  BY <1>3 DEF IsStream, HoldsPlaces
<1>8. \A j \in DOMAIN t : size[t[j][1]] \in Nat /\ t[j][2] \in 1 .. size[t[j][1]]
  BY <1>5 DEF HoldsPlaces
<1>6. HoldsWhole(t, size)
  <2> SUFFICES ASSUME NEW j \in DOMAIN t, NEW e \in 0 .. size[t[j][1]] - t[j][2]
               PROVE  j + e \in DOMAIN t /\ t[j + e] = <<t[j][1], t[j][2] + e>>
    BY DEF HoldsWhole
  <2>1. (j + d) + e \in DOMAIN s /\ s[(j + d) + e] = <<t[j][1], t[j][2] + e>>
    BY <1>3 DEF IsStream, HoldsWhole
  <2>2. e \in Nat /\ j \in Nat /\ j >= 1
    BY <1>1, <1>5, <1>8 DEF HoldsPlaces
  <2>3. (j + d) + e > d /\ ((j + d) + e) - d = j + e
    BY <1>3, <2>2, SMTT(30)
  <2> QED
    BY <1>4, <2>1, <2>3
<1>7. HoldsAll(t, n, size)
  <2> SUFFICES ASSUME NEW j \in DOMAIN t, NEW e \in Nat,
                      e = ((j + size[t[j][1]]) - t[j][2]) + 1
               PROVE  IF e \in DOMAIN t THEN t[e] = <<t[j][1] + 1, 1>> ELSE t[j][1] = n
    BY DEF HoldsAll
  <2>1. j + d \in DOMAIN s /\ t[j] = s[j + d] /\ j \in Nat
    BY <1>1, <1>3
  <2> DEFINE a == size[t[j][1]]
             b == t[j][2]
  <2>2. a \in Nat /\ b \in Nat /\ b <= a
    BY <1>8
  <2>6. e = ((j + a) - b) + 1
    OBVIOUS
  <2> HIDE DEF a, b
  <2>3. e + d = (((j + d) + a) - b) + 1 /\ e + d \in Nat
    <3>1. e + d \in Nat /\ d \in Nat
      BY <1>12
    <3>2. (((j + a) - b) + 1) + d = (((j + d) + a) - b) + 1
      <4>1. j \in Nat /\ a \in Nat /\ b \in Nat
        BY <2>1, <2>2
      <4> QED
        BY <3>1, <4>1, PlacesShift, SMTT(30)
    <3>3. e + d = (((j + d) + a) - b) + 1
      BY <2>6, <3>2, Zenon
    <3> QED
      BY <3>1, <3>3
  <2>4. IF e + d \in DOMAIN s THEN s[e + d] = <<t[j][1] + 1, 1>> ELSE t[j][1] = n
    BY <2>1, <2>3 DEF IsStream, HoldsAll, a, b
  <2>5. e \in DOMAIN t <=> e + d \in DOMAIN s
    <3>1. e >= 1
      BY <2>1, <2>2, <2>6, SMTT(30)
    <3> QED
      BY <1>1, <1>3, <3>1
  <2> QED
    BY <1>3, <2>4, <2>5
<1>9. CASE k + d <= size[i]
  <2>1. d + 1 \in 1 .. (size[i] - k) + 1 /\ (k + (d + 1)) - 1 = k + d
    BY <1>2, <1>11, <1>12, <1>9
  <2>2. d + 1 <= Len(s)
    BY <1>1, <1>2, <1>3, <2>1
  <2>3. 1 \in DOMAIN t /\ t[1] = s[1 + d] /\ 1 + d = d + 1
    BY <1>1, <1>3, <2>2
  <2>4. t[1] = <<i, k + d>> /\ t # << >>
    BY <1>2, <2>1, <2>3
  <2> QED
    BY <1>5, <1>6, <1>7, <1>9, <2>4 DEF IsStream
<1>10. CASE ~(k + d <= size[i])
  <2>1. s[1] = <<i, k>>
    BY DEF IsStream
  <2>2. d + 1 \in Nat /\ d + 1 = ((1 + size[i]) - k) + 1 /\ 1 \in DOMAIN s
    <3>1. d + 1 \in Nat /\ 1 \in DOMAIN s
      BY <1>1, <1>2, <1>11, <1>12
    <3>2. d + 1 = ((1 + size[i]) - k) + 1
      BY <1>10, <1>11, <1>12, LastPlace, Zenon
    <3> QED
      BY <3>1, <3>2
  <2>3. IF d + 1 \in DOMAIN s THEN s[d + 1] = <<i + 1, 1>> ELSE i = n
    BY <2>1, <2>2 DEF IsStream, HoldsAll
  <2>4. CASE t = << >>
    <3>1. Len(t) = 0
      BY <2>4
    <3>2. d + 1 \notin DOMAIN s
      BY <1>1, <1>3, <3>1
    <3> QED
      BY <1>5, <1>6, <1>7, <1>10, <2>3, <2>4, <3>2 DEF IsStream
  <2>5. CASE t # << >>
    <3>1. Len(t) # 0
      BY <2>5, EmptySeq
    <3>2. 1 \in DOMAIN t /\ d + 1 \in DOMAIN s /\ t[1] = s[1 + d] /\ 1 + d = d + 1
      BY <1>1, <1>3, <3>1
    <3> QED
      BY <1>5, <1>6, <1>7, <1>10, <2>3, <2>5, <3>2 DEF IsStream
  <2> QED
    BY <2>4, <2>5
<1> QED
  BY <1>9, <1>10
(***************************************************************************)
(* A place behind another in the request that follows a stream.            *)
(***************************************************************************)
LEMMA PlaceBehind ==
  ASSUME NEW l \in Nat, NEW z \in Nat, NEW j \in Nat, j - l \in 1 .. z,
         NEW d \in 0 .. z - (j - l)
  PROVE  /\ (j - l) + d \in 1 .. z /\ l + ((j - l) + d) = j + d
         /\ j + d \in 1 .. l + z
OBVIOUS

(***************************************************************************)
(* A stream goes on with one more request.                                 *)
(***************************************************************************)
LEMMA StreamGrows ==
  ASSUME NEW s \in Seq(Place), NEW i, NEW k, NEW n \in Nat, NEW size,
         IsStream(s, i, k, n, size), \A a \in 1 .. n + 1 : size[a] \in Nat \ {0},
         NEW t \in Seq(Place), Len(t) = Len(s) + size[n + 1],
         \A j \in DOMAIN s : t[j] = s[j],
         \A j \in 1 .. size[n + 1] : t[Len(s) + j] = <<n + 1, j>>
  PROVE  IsStream(t, i, k, n + 1, size)
<1> DEFINE z == size[n + 1]
<1>1. /\ Len(s) \in Nat /\ DOMAIN s = 1 .. Len(s) /\ z \in Nat \ {0}
      /\ DOMAIN t = 1 .. Len(s) + z
  BY LenProperties
<1>2. \A j \in DOMAIN t : \/ j \in DOMAIN s /\ t[j] = s[j]
                          \/ j - Len(s) \in 1 .. z /\ t[j] = <<n + 1, j - Len(s)>>
  <2> SUFFICES ASSUME NEW j \in DOMAIN t, j \notin DOMAIN s
               PROVE  j - Len(s) \in 1 .. z /\ t[j] = <<n + 1, j - Len(s)>>
    OBVIOUS
  <2>1. j - Len(s) \in 1 .. z /\ Len(s) + (j - Len(s)) = j
    BY <1>1
  <2> QED
    BY <2>1
<1>3. \A j \in DOMAIN s : /\ s[j][1] \in 1 .. n /\ s[j][2] \in 1 .. size[s[j][1]]
                          /\ size[s[j][1]] \in Nat
  BY DEF IsStream, HoldsPlaces
<1>4. HoldsPlaces(t, n + 1, size)
  <2> SUFFICES ASSUME NEW j \in DOMAIN t
               PROVE  t[j][1] \in 1 .. n + 1 /\ t[j][2] \in 1 .. size[t[j][1]]
    BY DEF HoldsPlaces
  <2>1. CASE j \in DOMAIN s /\ t[j] = s[j]
    BY <1>3, <2>1
  <2>2. CASE j - Len(s) \in 1 .. z /\ t[j] = <<n + 1, j - Len(s)>>
    <3>1. t[j][1] = n + 1 /\ t[j][2] = j - Len(s)
      BY <2>2
    <3> QED
      BY <2>2, <3>1
  <2> QED
    BY <1>2, <2>1, <2>2
<1>5. HoldsWhole(t, size)
  <2> SUFFICES ASSUME NEW j \in DOMAIN t, NEW d \in 0 .. size[t[j][1]] - t[j][2]
               PROVE  j + d \in DOMAIN t /\ t[j + d] = <<t[j][1], t[j][2] + d>>
    BY DEF HoldsWhole
  <2>1. CASE j \in DOMAIN s /\ t[j] = s[j]
    <3>1. j + d \in DOMAIN s /\ s[j + d] = <<t[j][1], t[j][2] + d>>
      BY <2>1 DEF IsStream, HoldsWhole
    <3>2. DOMAIN s \subseteq DOMAIN t
      BY <1>1
    <3> QED
      BY <3>1, <3>2
  <2>2. CASE j - Len(s) \in 1 .. z /\ t[j] = <<n + 1, j - Len(s)>>
    <3> DEFINE e == (j - Len(s)) + d
    <3>1. t[j][1] = n + 1 /\ t[j][2] = j - Len(s)
      BY <2>2
    <3>2. j \in Nat /\ d \in 0 .. z - (j - Len(s))
      BY <1>1, <3>1
    <3>3. e \in 1 .. z /\ Len(s) + e = j + d /\ j + d \in 1 .. Len(s) + z
      <4> DEFINE l == Len(s)
      <4>1. z \in Nat /\ l \in Nat /\ j \in Nat /\ d \in 0 .. z - (j - l) /\ j - l \in 1 .. z
        BY <1>1, <2>2, <3>2
      <4> HIDE DEF z, l
      <4>2. (j - l) + d \in 1 .. z /\ l + ((j - l) + d) = j + d /\ j + d \in 1 .. l + z
        BY <4>1, PlaceBehind
      <4> QED
        BY <4>2 DEF l
    <3>4. t[Len(s) + e] = <<n + 1, e>>
      BY <3>3
    <3>5. e = t[j][2] + d
      BY <3>1
    <3> QED
      BY <1>1, <3>1, <3>3, <3>4, <3>5
  <2> QED
    BY <1>2, <2>1, <2>2
<1>6. HoldsAll(t, n + 1, size)
  <2> SUFFICES ASSUME NEW j \in DOMAIN t, NEW e \in Nat,
                      e = ((j + size[t[j][1]]) - t[j][2]) + 1
               PROVE  IF e \in DOMAIN t THEN t[e] = <<t[j][1] + 1, 1>>
                                        ELSE t[j][1] = n + 1
    BY DEF HoldsAll
  <2>1. CASE j \in DOMAIN s /\ t[j] = s[j]
    <3>1. IF e \in DOMAIN s THEN s[e] = <<t[j][1] + 1, 1>> ELSE t[j][1] = n
      BY <2>1 DEF IsStream, HoldsAll
    <3>2. CASE e \in DOMAIN s
      BY <1>1, <3>1, <3>2
    <3>3. CASE e \notin DOMAIN s
      <4> DEFINE a == size[t[j][1]]
                 b == t[j][2]
                 d == a - b
      <4>1. a \in Nat /\ b \in 1 .. a /\ j \in Nat /\ j >= 1 /\ e = ((j + a) - b) + 1
        BY <1>1, <1>3, <2>1
      <4>2. d \in 0 .. size[s[j][1]] - s[j][2]
        <5>1. a = size[s[j][1]] /\ b = s[j][2]
          BY <2>1
        <5> HIDE DEF a, b
        <5>2. d \in 0 .. a - b
          BY <4>1
        <5> QED
          BY <5>1, <5>2
      <4>3. j + (a - b) \in DOMAIN s
        BY <2>1, <4>2 DEF IsStream, HoldsWhole
      <4> HIDE DEF a, b
      <4>4. e = Len(s) + 1
        <5>1. e \notin 1 .. Len(s) /\ j + (a - b) \in 1 .. Len(s)
          BY <1>1, <3>3, <4>3
        <5>2. e = (j + (a - b)) + 1
          BY <4>1
        <5>3. Len(s) \in Nat /\ e \in Nat
          BY <1>1
        <5> QED
          BY <5>1, <5>2, <5>3
      <4>5. e \in DOMAIN t /\ 1 \in 1 .. z /\ t[e] = <<n + 1, 1>>
        BY <1>1, <4>4
      <4> QED
        BY <3>1, <3>3, <4>5
    <3> QED
      BY <3>2, <3>3
  <2>2. CASE j - Len(s) \in 1 .. z /\ t[j] = <<n + 1, j - Len(s)>>
    <3>1. e = ((j + z) - (j - Len(s))) + 1
      BY <2>2
    <3>2. e = Len(s) + z + 1
      BY <1>1, <3>1
    <3> QED
      BY <1>1, <2>2, <3>2
  <2> QED
    BY <1>2, <2>1, <2>2
<1>7. IF t = << >> THEN i = (n + 1) + 1 /\ k = 1 ELSE t[1] = <<i, k>>
  <2>1. t # << >> /\ 1 \in DOMAIN t
    BY <1>1
  <2>2. CASE s = << >>
    <3>1. Len(s) = 0 /\ i = n + 1 /\ k = 1
      BY <2>2 DEF IsStream
    <3>2. 1 \in 1 .. z /\ t[0 + 1] = <<n + 1, 1>> /\ 0 + 1 = 1
      BY <1>1, <3>1
    <3> QED
      BY <2>1, <3>1, <3>2
  <2>3. CASE s # << >>
    <3>1. 1 \in DOMAIN s /\ s[1] = <<i, k>>
      BY <1>1, <2>3, EmptySeq DEF IsStream
    <3> QED
      BY <2>1, <3>1
  <2> QED
    BY <2>2, <2>3
<1> QED
  BY <1>4, <1>5, <1>6, <1>7 DEF IsStream

(* t is what is left of s without the first d.                             *)
Without(t, s, d) == Len(t) = Len(s) - d /\ \A j \in DOMAIN t : t[j] = s[j + d]

(***************************************************************************)
(* What is left of the buffer when tokens are retrieved from it.           *)
(***************************************************************************)
LEMMA Retrieved ==
  ASSUME NEW S, NEW b \in Seq(S), NEW d \in 0 .. Len(b)
  PROVE  /\ SubSeq(b, d + 1, Len(b)) \in Seq(S)
         /\ Without(SubSeq(b, d + 1, Len(b)), b, d)
<1>1. /\ Len(b) \in Nat /\ d \in Nat /\ d <= Len(b)
      /\ \A j \in 1 .. Len(b) : b[j] \in S
  BY LenProperties, ElementOfSeq
<1>2. d + 1 \in Int /\ Len(b) \in Int /\ d + 1 .. Len(b) \subseteq 1 .. Len(b)
  BY <1>1
<1>3. SubSeq(b, d + 1, Len(b)) \in Seq(S)
  BY <1>1, <1>2, SubSeqProperties
<1>4. SubSeq(b, d + 1, Len(b)) = [j \in 1 .. Len(b) - d |-> b[j + d]]
  BY <1>1
<1> DEFINE c == SubSeq(b, d + 1, Len(b))
<1>5. c \in Seq(S) /\ c = [j \in 1 .. Len(b) - d |-> b[j + d]]
  BY <1>3, <1>4
<1> HIDE DEF c
<1>6. DOMAIN c = 1 .. Len(b) - d /\ \A j \in 1 .. Len(b) - d : c[j] = b[j + d]
  BY <1>5
<1>7. Len(c) = Len(b) - d
  <2>1. Len(c) \in Nat /\ DOMAIN c = 1 .. Len(c) /\ Len(b) - d \in Nat
    BY <1>1, <1>5, LenProperties
  <2> HIDE <1>5
  <2> QED
    BY <1>6, <2>1
<1> QED
  BY <1>5, <1>6, <1>7 DEF c, Without

(***************************************************************************)
(* To retrieve tokens from the buffer is to take them from the stream.     *)
(***************************************************************************)
LEMMA Retrieving ==
  ASSUME NEW S, NEW b \in Seq(S), NEW w \in Seq(S), NEW d \in 0 .. Len(b),
         NEW c \in Seq(S), Without(c, b, d)
  PROVE  c \o w \in Seq(S) /\ Without(c \o w, b \o w, d)
<1> DEFINE s == b \o w
           t == c \o w
           B == Len(b)
           W == Len(w)
<1>1. B \in Nat /\ W \in Nat /\ d \in Nat /\ d <= B
  BY LenProperties
<1>2. /\ s \in Seq(S) /\ Len(s) = B + W
      /\ \A j \in 1 .. B + W : s[j] = IF j <= B THEN b[j] ELSE w[j - B]
  BY ConcatProperties
<1>3. /\ t \in Seq(S) /\ Len(t) = (B - d) + W
      /\ \A j \in 1 .. (B - d) + W : t[j] = IF j <= B - d THEN c[j] ELSE w[j - (B - d)]
  <2>1. /\ t \in Seq(S) /\ Len(t) = Len(c) + W
        /\ \A j \in 1 .. Len(c) + W : t[j] = IF j <= Len(c) THEN c[j] ELSE w[j - Len(c)]
    BY ConcatProperties
  <2>2. Len(c) = B - d
    BY DEF Without
  <2> QED
    BY <2>1, <2>2, Zenon
<1>4. DOMAIN t = 1 .. (B - d) + W
  BY <1>3, LenProperties
<1>5. \A j \in 1 .. B - d : c[j] = b[j + d]
  BY LenProperties DEF Without
<1> HIDE DEF s, t, B, W
<1>6. ASSUME NEW j \in 1 .. (B - d) + W
      PROVE  t[j] = s[j + d]
  <2>1. /\ j \in Nat /\ j >= 1 /\ j + d \in 1 .. B + W
        /\ j <= B - d <=> j + d <= B
        /\ j - (B - d) = (j + d) - B
    BY <1>1
  <2>2. CASE j <= B - d
    <3>1. j \in 1 .. B - d
      BY <1>1, <2>1, <2>2
    <3> QED
      BY <1>2, <1>3, <1>5, <2>1, <2>2, <3>1
  <2>3. CASE ~(j <= B - d)
    <3>1. t[j] = w[j - (B - d)] /\ s[j + d] = w[(j + d) - B]
      BY <1>2, <1>3, <2>1, <2>3
    <3> QED
      BY <2>1, <3>1
  <2> QED
    BY <2>2, <2>3
<1>7. Len(t) = Len(s) - d
  BY <1>1, <1>2, <1>3
<1> QED
  BY <1>3, <1>4, <1>6, <1>7 DEF s, t, Without

(* The first n tokens of w move behind r, which makes c and v of them.     *)
Moves(r, w, n, c, v) ==
  c = r \o SubSeq(w, 1, n) /\ v = SubSeq(w, n + 1, Len(w))

(***************************************************************************)
(* What arrives moves from the wire to the buffer, in the same stream.     *)
(***************************************************************************)
LEMMA Arriving ==
  ASSUME NEW S, NEW r \in Seq(S), NEW w \in Seq(S), NEW n \in 1 .. Len(w),
         NEW c, NEW v, Moves(r, w, n, c, v)
  PROVE  /\ c \in Seq(S) /\ v \in Seq(S) /\ c \o v = r \o w
         /\ Len(c) = Len(r) + n /\ c[Len(r) + n] = w[n]
<1>1. Len(w) \in Nat /\ Len(r) \in Nat /\ DOMAIN w = 1 .. Len(w) /\ \A i \in 1 .. Len(w) : w[i] \in S
  BY LenProperties, ElementOfSeq
<1>2. /\ n \in Nat /\ n + 1 \in Int /\ 1 .. n \subseteq 1 .. Len(w)
      /\ n + 1 .. Len(w) \subseteq 1 .. Len(w)
  BY <1>1
<1> DEFINE a == SubSeq(w, 1, n)
           b == SubSeq(w, n + 1, Len(w))
<1>3. a \in Seq(S)
  BY <1>1, <1>2, SubSeqProperties
<1>4. b \in Seq(S)
  BY <1>1, <1>2, SubSeqProperties
<1>5. a \o b = w
  <2>1. 1 \in 1 .. Len(w) + 1 /\ n \in 1 - 1 .. Len(w) /\ Len(w) \in n .. Len(w)
    BY <1>1
  <2>2. a \o b = SubSeq(w, 1, Len(w))
    BY <2>1, ConcatAdjacentSubSeq
  <2> QED
    BY <2>2, SubSeqFull
<1>6. Len(a) = n /\ a[n] = w[n]
  <2>1. a = [j \in 1 .. n |-> w[j]]
    BY <1>1, <1>2
  <2> QED
    BY <1>2, <2>1
<1>10. c = r \o a /\ v = b
  BY DEF a, b, Moves
<1> HIDE DEF a, b
<1>7. (r \o a) \o b = r \o (a \o b)
  BY <1>3, <1>4, ConcatAssociative, SMTT(60)
<1>8. /\ r \o a \in Seq(S) /\ Len(r \o a) = Len(r) + Len(a)
      /\ \A i \in 1 .. Len(r) + Len(a) :
           (r \o a)[i] = IF i <= Len(r) THEN r[i] ELSE a[i - Len(r)]
  BY <1>3, ConcatProperties
<1>9. (r \o a)[Len(r) + n] = w[n]
  <2>1. Len(r) + n \in 1 .. Len(r) + Len(a) /\ ~(Len(r) + n <= Len(r))
        /\ (Len(r) + n) - Len(r) = n
    BY <1>1, <1>2, <1>6
  <2> QED
    BY <1>6, <1>8, <2>1
<1> QED
  BY <1>3, <1>4, <1>5, <1>6, <1>7, <1>8, <1>9, <1>10

-----------------------------------------------------------------------------
(* What the parser finds in the buffer.                                    *)

(***************************************************************************)
(* The sizes of the requests, and the stream they are sent in.             *)
(***************************************************************************)
LEMMA StreamFacts ==
  ASSUME TypeOK
  PROVE  /\ \A a \in 1 .. sent : Sizes[a] \in Nat \ {0}
         /\ Len(buffer) \in Nat /\ DOMAIN buffer = 1 .. Len(buffer)
         /\ Rest \in Seq(Place) /\ Len(Rest) = Len(buffer) + Len(wire)
         /\ Len(wire) \in Nat /\ DOMAIN wire = 1 .. Len(wire)
         /\ \A j \in 1 .. Len(buffer) : Rest[j] = buffer[j]
<1>1. \A a \in 1 .. sent : Sizes[a] \in Nat \ {0}
  <2> SUFFICES ASSUME NEW a \in 1 .. sent
               PROVE  Sizes[a] \in Nat \ {0}
    OBVIOUS
  <2>1. a \in DOMAIN script
    BY ScriptFacts
  <2> QED
    BY <2>1, SizeFacts
<1>2. buffer \in Seq(Place) /\ wire \in Seq(Place)
  BY DEF TypeOK
<1>3. /\ Len(buffer) \in Nat /\ DOMAIN buffer = 1 .. Len(buffer)
      /\ Len(wire) \in Nat /\ DOMAIN wire = 1 .. Len(wire)
  BY <1>2, LenProperties
<1>4. /\ Rest \in Seq(Place) /\ Len(Rest) = Len(buffer) + Len(wire)
      /\ \A j \in 1 .. Len(buffer) + Len(wire) :
           Rest[j] = IF j <= Len(buffer) THEN buffer[j] ELSE wire[j - Len(buffer)]
  BY <1>2, ConcatProperties DEF Rest
<1>5. \A j \in 1 .. Len(buffer) : j \in 1 .. Len(buffer) + Len(wire) /\ j <= Len(buffer)
  BY <1>3
<1> QED
  BY <1>1, <1>3, <1>4, <1>5

(***************************************************************************)
(* The lines of the head, in numbers.                                      *)
(***************************************************************************)
LEMMA HeadFacts ==
  ASSUME TypeOK, NEW i \in DOMAIN script
  PROVE  /\ Len(LinesOf(i)) \in Nat \ {0} /\ HeadSize(i) = 2 * Len(LinesOf(i)) + 1
         /\ HeadSize(i) \in Nat /\ SizeOf(i) \in Nat /\ SizeOf(i) >= HeadSize(i)
         /\ \A m \in 1 .. Len(LinesOf(i)) : m \in Nat /\ m >= 1 /\ m <= Len(LinesOf(i))
<1>1. Len(LinesOf(i)) \in Nat \ {0}
  BY LineFacts
<1>2. /\ HeadSize(i) = 2 * Len(LinesOf(i)) + 1
      /\ script[i].length \in Nat /\ SizeOf(i) = HeadSize(i) + script[i].length
  BY SizeFacts
<1> QED
  BY <1>1, <1>2

(* The buffer begins with what there is of request i from place k on.      *)
BufferBegins(i, k) ==
  \A j \in 1 .. Len(buffer) :
    j <= TokensLeft(Sizes, i, k) => buffer[j] = <<i, (k + j) - 1>>

(***************************************************************************)
(* What a stream says of the buffer.                                       *)
(***************************************************************************)
LEMMA InBuffer ==
  ASSUME TypeOK, buffer # << >>, NEW i, NEW k, StreamsFrom(i, k)
  PROVE  /\ i \in 1 .. sent /\ i \in DOMAIN script /\ k \in 1 .. SizeOf(i)
         /\ BufferBegins(i, k)
         /\ TokensLeft(Sizes, i, k) = (SizeOf(i) - k) + 1
         /\ Len(buffer) >= 1
<1>1. Len(buffer) \in Nat /\ Len(buffer) # 0 /\ buffer \in Seq(Place)
  BY EmptySeq DEF TypeOK
<1>2. Rest \in Seq(Place) /\ Len(Rest) # 0
  BY <1>1, StreamFacts
<1>3. Rest # << >>
  BY <1>2, EmptySeq
<1>4. sent \in Nat /\ \A a \in 1 .. sent : Sizes[a] \in Nat
  BY ScriptFacts, StreamFacts
<1>5. /\ i \in 1 .. sent /\ k \in 1 .. Sizes[i]
      /\ BeginsWith(Rest, i, k, TokensLeft(Sizes, i, k))
  BY <1>2, <1>3, <1>4, StreamBegins DEF StreamsFrom
<1>6. i \in DOMAIN script
  BY <1>5, ScriptFacts
<1>7. Sizes[i] = SizeOf(i)
  BY <1>6, SizeFacts
<1>8. BufferBegins(i, k)
  <2>1. \A j \in 1 .. TokensLeft(Sizes, i, k) : Rest[j] = <<i, (k + j) - 1>>
    BY <1>5 DEF BeginsWith
  <2>2. TokensLeft(Sizes, i, k) \in Int
    BY <1>4, <1>5 DEF TokensLeft
  <2>3. \A j \in 1 .. Len(buffer) : Rest[j] = buffer[j]
    BY StreamFacts
  <2> QED
    BY <1>1, <2>1, <2>2, <2>3 DEF BufferBegins
<1> QED
  BY <1>1, <1>5, <1>6, <1>7, <1>8 DEF TokensLeft

(***************************************************************************)
(* The first CRLF of the buffer is where findCRLF finds it.                *)
(***************************************************************************)
LEMMA LineEnds ==
  ASSUME TypeOK, NEW n \in DOMAIN buffer, IsCrlf(n), \A m \in 1 .. n - 1 : ~IsCrlf(m)
  PROVE  HasLine /\ EndOfLine = n
<1>1. n \in Nat /\ DOMAIN buffer \subseteq Nat /\ \A e \in DOMAIN buffer : e >= 1
  BY StreamFacts
<1>2. \A e \in DOMAIN buffer : IsCrlf(e) /\ (\A m \in 1 .. e - 1 : ~IsCrlf(m)) => e = n
  <2> SUFFICES ASSUME NEW e \in DOMAIN buffer, IsCrlf(e),
                      \A m \in 1 .. e - 1 : ~IsCrlf(m), e # n
               PROVE  FALSE
    OBVIOUS
  <2>1. e \in Nat /\ e >= 1 /\ n >= 1
    BY <1>1
  <2>2. n \in 1 .. e - 1 \/ e \in 1 .. n - 1
    BY <1>1, <2>1
  <2> QED
    BY <2>2
<1> QED
  BY <1>2 DEF HasLine, EndOfLine

(***************************************************************************)
(* If there is a CRLF, there is a first one.                               *)
(***************************************************************************)
LEMMA LineFound ==
  ASSUME TypeOK, HasLine
  PROVE  /\ EndOfLine \in DOMAIN buffer /\ EndOfLine \in 1 .. Len(buffer)
         /\ IsCrlf(EndOfLine) /\ \A m \in 1 .. EndOfLine - 1 : ~IsCrlf(m)
<1>1. Len(buffer) \in Nat /\ DOMAIN buffer = 1 .. Len(buffer)
  BY StreamFacts
<1> DEFINE T == {n \in DOMAIN buffer : IsCrlf(n)}
<1>2. T \subseteq Nat /\ T # {}
  BY <1>1 DEF HasLine
<1>3. PICK n \in T : \A m \in T : ~(<<m, n>> \in OpToRel(<, Nat))
  <2> HIDE DEF T
  <2> QED
    BY <1>2, NatLessThanWellFounded, WFMin
<1>4. n \in DOMAIN buffer /\ IsCrlf(n) /\ n \in Nat
  BY <1>1
<1>5. \A m \in 1 .. n - 1 : ~IsCrlf(m)
  <2> SUFFICES ASSUME NEW m \in 1 .. n - 1, IsCrlf(m)
               PROVE  FALSE
    OBVIOUS
  <2>1. m \in Nat /\ m < n /\ m \in DOMAIN buffer
    BY <1>1, <1>4
  <2>2. <<m, n>> \in OpToRel(<, Nat)
    BY <1>4, <2>1 DEF OpToRel
  <2> QED
    BY <1>3, <2>1, <2>2
<1>6. EndOfLine = n
  BY <1>4, <1>5, LineEnds
<1> QED
  BY <1>1, <1>4, <1>5, <1>6

(***************************************************************************)
(* In step at line m of request i, the parser sees this line.              *)
(***************************************************************************)
LEMMA LineAt ==
  ASSUME TypeOK, HasLine, NEW i, NEW m \in 1 .. Len(LinesOf(i)), StreamsFrom(i, 2 * m - 1)
  PROVE  /\ i \in 1 .. sent /\ i \in DOMAIN script
         /\ EndOfLine = 2 /\ Len(buffer) >= 2
         /\ Line = LinesOf(i)[m] /\ 2 <= TokensLeft(Sizes, i, 2 * m - 1)
         /\ (2 * m - 1) + 2 <= HeadSize(i) /\ (2 * m - 1) + 2 <= SizeOf(i)
<1>1. buffer # << >> /\ DOMAIN buffer = 1 .. Len(buffer) /\ Len(buffer) \in Nat
  BY StreamFacts DEF HasLine
<1>2. /\ i \in 1 .. sent /\ i \in DOMAIN script
      /\ BufferBegins(i, 2 * m - 1)
      /\ TokensLeft(Sizes, i, 2 * m - 1) = (SizeOf(i) - (2 * m - 1)) + 1
      /\ Len(buffer) >= 1
  BY <1>1, InBuffer
<1>3. /\ Len(LinesOf(i)) \in Nat /\ m \in Nat /\ m >= 1 /\ m <= Len(LinesOf(i))
      /\ HeadSize(i) = 2 * Len(LinesOf(i)) + 1 /\ SizeOf(i) >= HeadSize(i)
      /\ SizeOf(i) \in Nat
  BY <1>2, HeadFacts
<1>4. (2 * m - 1) + 2 <= HeadSize(i) /\ (2 * m - 1) + 2 <= SizeOf(i)
  BY <1>3
<1>5. 2 <= TokensLeft(Sizes, i, 2 * m - 1) /\ 1 <= TokensLeft(Sizes, i, 2 * m - 1)
  BY <1>2, <1>3, <1>4
<1>6. /\ ((2 * m - 1) + 1) - 1 = 2 * m - 1 /\ ((2 * m - 1) + 2) - 1 = 2 * m
  BY <1>3
<1>7. /\ buffer[1] = <<i, 2 * m - 1>>
      /\ Len(buffer) >= 2 => buffer[2] = <<i, 2 * m>>
  BY <1>1, <1>2, <1>5, <1>6 DEF BufferBegins
<1>8. /\ Token(<<i, 2 * m - 1>>) = LinesOf(i)[m] /\ LinesOf(i)[m] # Crlf
      /\ Token(<<i, 2 * m>>) = Crlf
  BY <1>2, Tokens
<1>9. ~IsCrlf(1) /\ Line = LinesOf(i)[m]
  BY <1>7, <1>8 DEF IsCrlf, Line
<1>10. Len(buffer) >= 2
  <2>1. PICK n \in DOMAIN buffer : IsCrlf(n)
    BY DEF HasLine
  <2>2. n \in 1 .. Len(buffer) /\ n # 1
    BY <1>1, <1>9, <2>1
  <2> QED
    BY <1>1, <2>2
<1>11. 2 \in DOMAIN buffer /\ IsCrlf(2) /\ \A j \in 1 .. 2 - 1 : ~IsCrlf(j)
  BY <1>1, <1>7, <1>8, <1>9, <1>10 DEF IsCrlf
<1>12. EndOfLine = 2
  BY <1>11, LineEnds
<1> QED
  BY <1>2, <1>4, <1>5, <1>9, <1>10, <1>12

(***************************************************************************)
(* In step at the end of the head, the parser sees an empty line.          *)
(***************************************************************************)
LEMMA EmptyLineAt ==
  ASSUME TypeOK, HasLine, NEW i, StreamsFrom(i, HeadSize(i))
  PROVE  /\ i \in 1 .. sent /\ i \in DOMAIN script
         /\ EndOfLine = 1 /\ Len(buffer) >= 1
         /\ TokensLeft(Sizes, i, HeadSize(i)) = script[i].length + 1
<1>1. buffer # << >> /\ DOMAIN buffer = 1 .. Len(buffer) /\ Len(buffer) \in Nat
  BY StreamFacts DEF HasLine
<1>2. /\ i \in 1 .. sent /\ i \in DOMAIN script
      /\ BufferBegins(i, HeadSize(i))
      /\ TokensLeft(Sizes, i, HeadSize(i)) = (SizeOf(i) - HeadSize(i)) + 1
      /\ Len(buffer) >= 1
  BY <1>1, InBuffer
<1>3. /\ HeadSize(i) \in Nat /\ script[i].length \in Nat
      /\ SizeOf(i) = HeadSize(i) + script[i].length
      /\ Len(LinesOf(i)) \in Nat \ {0}
  BY <1>2, LineFacts, SizeFacts
<1>4. TokensLeft(Sizes, i, HeadSize(i)) = script[i].length + 1
  BY <1>2, <1>3
<1>5. buffer[1] = <<i, HeadSize(i)>>
  <2>1. (HeadSize(i) + 1) - 1 = HeadSize(i) /\ 1 <= TokensLeft(Sizes, i, HeadSize(i))
    BY <1>3, <1>4
  <2> QED
    BY <1>1, <1>2, <2>1 DEF BufferBegins
<1>6. Token(<<i, HeadSize(i)>>) = Crlf
  <2>1. 1 \in 1 .. Len(LinesOf(i))
    BY <1>3
  <2> QED
    BY <1>2, <2>1, Tokens
<1>7. 1 \in DOMAIN buffer /\ IsCrlf(1) /\ \A j \in 1 .. 1 - 1 : ~IsCrlf(j)
  BY <1>1, <1>2, <1>5, <1>6 DEF IsCrlf
<1>8. EndOfLine = 1
  BY <1>7, LineEnds
<1> QED
  BY <1>2, <1>4, <1>8

(***************************************************************************)
(* If no head is cut, the rest of the head the parser is in has arrived.   *)
(***************************************************************************)
LEMMA HeadArrived ==
  ASSUME TypeOK, CutsNoHead, ~splits, buffer # << >>, NEW i, NEW k \in Nat,
         StreamsFrom(i, k), k <= HeadSize(i)
  PROVE  HasLine /\ i \in 1 .. sent /\ (HeadSize(i) - k) + 1 <= Len(buffer)
<1>1. DOMAIN buffer = 1 .. Len(buffer) /\ Len(buffer) \in Nat
  BY StreamFacts
<1>2. /\ i \in 1 .. sent /\ i \in DOMAIN script /\ k \in 1 .. SizeOf(i)
      /\ BufferBegins(i, k) /\ TokensLeft(Sizes, i, k) = (SizeOf(i) - k) + 1
      /\ Len(buffer) >= 1
  BY InBuffer
<1>3. /\ HeadSize(i) \in Nat /\ SizeOf(i) \in Nat /\ SizeOf(i) >= HeadSize(i)
      /\ Len(LinesOf(i)) \in Nat \ {0}
  BY <1>2, HeadFacts
<1> DEFINE L == Len(buffer)
           h == HeadSize(i)
           e == (h - k) + 1
<1>4. e <= L
  <2> SUFFICES ASSUME ~(e <= L)
               PROVE  FALSE
    OBVIOUS
  <2>1. L \in 1 .. L /\ L <= TokensLeft(Sizes, i, k)
    BY <1>1, <1>2, <1>3
  <2>2. buffer[L] = <<i, (k + L) - 1>>
    BY <1>2, <2>1 DEF BufferBegins
  <2>3. \A j, a : buffer[L] = <<j, a>> => a >= HeadSize(j)
    BY DEF CutsNoHead
  <2>4. (k + L) - 1 >= h
    BY <2>2, <2>3
  <2> HIDE DEF L, h
  <2> QED
    BY <1>1, <1>2, <1>3, <2>4 DEF L, h
<1>5. e \in 1 .. L /\ e <= TokensLeft(Sizes, i, k) /\ (k + e) - 1 = h
  BY <1>1, <1>2, <1>3, <1>4, SMTT(30)
<1>6. buffer[e] = <<i, h>>
  BY <1>2, <1>5 DEF BufferBegins
<1>7. Token(<<i, h>>) = Crlf
  <2>1. 1 \in 1 .. Len(LinesOf(i))
    BY <1>3
  <2> QED
    BY <1>2, <2>1, Tokens
<1>8. e \in DOMAIN buffer /\ IsCrlf(e)
  BY <1>1, <1>5, <1>6, <1>7 DEF IsCrlf
<1> QED
  BY <1>2, <1>4, <1>8 DEF HasLine

-----------------------------------------------------------------------------
(* What the steps do to the stream.                                        *)

(***************************************************************************)
(* The script does not change, and so neither does its text.               *)
(***************************************************************************)
LEMMA TextStays ==
  ASSUME script' = script
  PROVE  /\ \A i : LinesOf(i)' = LinesOf(i) /\ HeadSize(i)' = HeadSize(i)
         /\ \A i : Parsed(i)' = Parsed(i) /\ WellFormed(i)' = WellFormed(i)
         /\ \A i, m : ReadSoFar(i, m)' = ReadSoFar(i, m)
         /\ Sizes' = Sizes
<1>1. \A i : LinesOf(i)' = LinesOf(i)
  BY DEF LinesOf
<1>2. \A i : HeadSize(i)' = HeadSize(i)
  BY <1>1 DEF HeadSize
<1>3. \A i : SizeOf(i)' = SizeOf(i)
  BY <1>2 DEF SizeOf
<1>4. \A i : BodyOf(i)' = BodyOf(i)
  BY <1>2 DEF BodyOf
<1>5. \A i : Parsed(i)' = Parsed(i)
  BY <1>4 DEF Parsed
<1>6. \A i : WellFormed(i)' = WellFormed(i)
  BY DEF WellFormed
<1>7. \A i, m : ReadSoFar(i, m)' = ReadSoFar(i, m)
  BY <1>1 DEF ReadSoFar
<1>8. Sizes' = Sizes
  BY <1>3 DEF Sizes
<1> QED
  BY <1>1, <1>2, <1>5, <1>6, <1>7, <1>8

(***************************************************************************)
(* A step that touches neither the stream nor the parser leaves it where   *)
(* it was.                                                                 *)
(***************************************************************************)
LEMMA StaysThere ==
  ASSUME UNCHANGED <<script, sent, state, request>>, Rest' = Rest, NEW i, InStep(i)
  PROVE  InStep(i)'
<1>1. /\ \A a : LinesOf(a)' = LinesOf(a) /\ HeadSize(a)' = HeadSize(a)
      /\ \A a : Parsed(a)' = Parsed(a) /\ WellFormed(a)' = WellFormed(a)
      /\ \A a, m : ReadSoFar(a, m)' = ReadSoFar(a, m)
      /\ Sizes' = Sizes
  BY TextStays
<1>2. \A a, k : StreamsFrom(a, k)' = StreamsFrom(a, k)
  BY <1>1 DEF StreamsFrom
<1>3. AtRequestLine(i) => AtRequestLine(i)'
  BY <1>2 DEF AtRequestLine
<1>4. \A m : AtHeader(i, m) => AtHeader(i, m)'
  BY <1>1, <1>2 DEF AtHeader
<1>5. AtBody(i) => AtBody(i)'
  BY <1>1, <1>2 DEF AtBody
<1>6. AtEnd(i) => AtEnd(i)'
  BY <1>1, <1>2 DEF AtEnd
<1> QED
  BY <1>3, <1>4, <1>5, <1>6 DEF InStep

(***************************************************************************)
(* What the parser has retrieved is out of the buffer, and all else is as  *)
(* it was.                                                                 *)
(***************************************************************************)
LEMMA RetrieveStep ==
  ASSUME TypeOK, PlacesAreSent, NEW d \in 0 .. Len(buffer), Retrieve(d),
         UNCHANGED <<config, sent, wire>>
  PROVE  /\ buffer' \in Seq(Place) /\ Len(buffer') = Len(buffer) - d
         /\ PlacesAreSent'
         /\ CutsNoHead => CutsNoHead'
<1>1. /\ buffer \in Seq(Place) /\ Len(buffer) \in Nat /\ DOMAIN buffer = 1 .. Len(buffer)
  BY StreamFacts DEF TypeOK
<1>7. buffer' \in Seq(Place) /\ Without(buffer', buffer, d)
  BY <1>1, Retrieved DEF Retrieve
<1>2. /\ buffer' \in Seq(Place) /\ Len(buffer') = Len(buffer) - d
      /\ \A j \in 1 .. Len(buffer) - d : buffer'[j] = buffer[j + d]
  BY <1>7, LenProperties DEF Without
<1>3. DOMAIN buffer' = 1 .. Len(buffer) - d
  BY <1>2, LenProperties
<1>4. PlacesAreSent'
  <2>1. \A j \in DOMAIN buffer' : j + d \in DOMAIN buffer /\ buffer'[j] = buffer[j + d]
    BY <1>1, <1>2, <1>3
  <2>2. KnownPlaces(buffer', sent)
    BY <2>1 DEF PlacesAreSent, KnownPlaces
  <2>3. sent' = sent /\ wire' = wire
    OBVIOUS
  <2> QED
    BY <2>2, <2>3 DEF PlacesAreSent, KnownPlaces
<1>5. CutsNoHead => CutsNoHead'
  <2> SUFFICES ASSUME CutsNoHead, ~splits', buffer' # << >>,
                      NEW i, NEW k, buffer'[Len(buffer')] = <<i, k>>
               PROVE  k >= HeadSize(i)'
    BY DEF CutsNoHead
  <2>1. Len(buffer') \in Nat \ {0}
    BY <1>2, EmptySeq
  <2>2. /\ Len(buffer') \in 1 .. Len(buffer) - d /\ Len(buffer') + d = Len(buffer)
        /\ Len(buffer) # 0
    <3> DEFINE L == Len(buffer)
               M == Len(buffer')
    <3>1. L \in Nat /\ M \in Nat \ {0} /\ M = L - d /\ d \in 0 .. L
      BY <1>1, <1>2, <2>1
    <3> HIDE DEF L, M
    <3>2. M \in 1 .. L - d /\ M + d = L /\ L # 0
      BY <3>1
    <3> QED
      BY <3>2 DEF L, M
  <2>3. buffer'[Len(buffer')] = buffer[Len(buffer)]
    BY <1>2, <2>2
  <2>4. buffer # << >> /\ ~splits
    BY <2>2 DEF config
  <2>5. k >= HeadSize(i)
    BY <2>3, <2>4 DEF CutsNoHead
  <2>6. HeadSize(i)' = HeadSize(i)
    BY TextStays DEF config
  <2> QED
    BY <2>5, <2>6
<1> QED
  BY <1>2, <1>4, <1>5

(***************************************************************************)
(* The stream goes on behind what the parser has retrieved.                *)
(***************************************************************************)
LEMMA RetrieveStream ==
  ASSUME TypeOK, NEW d \in 1 .. Len(buffer), Retrieve(d),
         UNCHANGED <<config, sent, wire>>, NEW i, NEW k, StreamsFrom(i, k),
         d <= TokensLeft(Sizes, i, k)
  PROVE  IF k + d <= SizeOf(i) THEN StreamsFrom(i, k + d)' ELSE StreamsFrom(i + 1, 1)'
<1>1. /\ buffer \in Seq(Place) /\ Len(buffer) \in Nat /\ wire \in Seq(Place)
      /\ Rest \in Seq(Place) /\ sent \in Nat /\ \A a \in 1 .. sent : Sizes[a] \in Nat
  BY StreamFacts, ScriptFacts DEF TypeOK
<1>2. d \in 0 .. Len(buffer) /\ buffer # << >>
  BY <1>1, EmptySeq
<1>3. buffer' \in Seq(Place) /\ Without(buffer', buffer, d)
  BY <1>1, <1>2, Retrieved DEF Retrieve
<1>4. buffer' \o wire \in Seq(Place) /\ Without(buffer' \o wire, buffer \o wire, d)
  <2> DEFINE c == buffer'
  <2>1. c \in Seq(Place) /\ Without(c, buffer, d)
    BY <1>3
  <2> HIDE DEF c
  <2>2. c \o wire \in Seq(Place) /\ Without(c \o wire, buffer \o wire, d)
    BY <1>1, <1>2, <2>1, Retrieving
  <2> QED
    BY <2>2 DEF c
<1> DEFINE t == buffer' \o wire
<1>5. /\ t \in Seq(Place) /\ Len(t) = Len(Rest) - d
      /\ \A j \in DOMAIN t : t[j] = Rest[j + d]
  BY <1>4 DEF Rest, Without
<1>6. Rest' = t
  BY DEF Rest
<1> HIDE DEF t
<1>7. /\ i \in DOMAIN script /\ k \in 1 .. SizeOf(i) /\ Sizes[i] = SizeOf(i)
      /\ TokensLeft(Sizes, i, k) = (SizeOf(i) - k) + 1 /\ SizeOf(i) \in Nat
  <2>1. i \in DOMAIN script /\ k \in 1 .. SizeOf(i)
        /\ TokensLeft(Sizes, i, k) = (SizeOf(i) - k) + 1
    BY <1>2, InBuffer
  <2> QED
    BY <2>1, SizeFacts
<1>8. d \in 1 .. TokensLeft(Sizes, i, k)
  <2>1. TokensLeft(Sizes, i, k) \in Int /\ d \in Int /\ 1 <= d
    BY <1>1, <1>7
  <2> QED
    BY <2>1
<1>9. Rest # << >>
  BY <1>1, <1>2, StreamFacts, EmptySeq
<1>10. IF k + d <= Sizes[i] THEN IsStream(t, i, k + d, sent, Sizes)
                            ELSE IsStream(t, i + 1, 1, sent, Sizes)
  BY <1>1, <1>5, <1>8, <1>9, StreamDrops DEF StreamsFrom
<1>11. Sizes' = Sizes /\ sent' = sent
  BY TextStays DEF config
<1> QED
  BY <1>6, <1>7, <1>10, <1>11 DEF StreamsFrom

(***************************************************************************)
(* What arrives stays in the stream.                                       *)
(***************************************************************************)
LEMMA ReceiveStep ==
  ASSUME TypeOK, PlacesAreSent, CutsNoHead, Receive
  PROVE  /\ buffer' \in Seq(Place) /\ wire' \in Seq(Place) /\ Rest' = Rest
         /\ buffer' # << >> /\ PlacesAreSent' /\ CutsNoHead'
<1>1. PICK n \in DOMAIN wire : /\ MayCut(wire[n])
                               /\ buffer' = buffer \o SubSeq(wire, 1, n)
                               /\ wire' = SubSeq(wire, n + 1, Len(wire))
  BY DEF Receive
<1>2. /\ buffer \in Seq(Place) /\ wire \in Seq(Place) /\ Len(buffer) \in Nat
      /\ n \in 1 .. Len(wire) /\ Len(wire) \in Nat /\ DOMAIN buffer = 1 .. Len(buffer)
      /\ DOMAIN wire = 1 .. Len(wire)
  BY StreamFacts DEF TypeOK
<1>4. /\ buffer' \in Seq(Place) /\ wire' \in Seq(Place) /\ buffer' \o wire' = buffer \o wire
      /\ Len(buffer') = Len(buffer) + n /\ buffer'[Len(buffer) + n] = wire[n]
  <2> DEFINE c == buffer'
             v == wire'
  <2>1. Moves(buffer, wire, n, c, v)
    BY <1>1 DEF Moves
  <2> HIDE DEF c, v
  <2>2. /\ c \in Seq(Place) /\ v \in Seq(Place) /\ c \o v = buffer \o wire
        /\ Len(c) = Len(buffer) + n /\ c[Len(buffer) + n] = wire[n]
    <3>1. buffer \in Seq(Place) /\ wire \in Seq(Place) /\ n \in 1 .. Len(wire)
      BY <1>2
    <3>2. \A x, y : Moves(buffer, wire, n, x, y) => x \in Seq(Place) /\ y \in Seq(Place)
      BY <3>1, Arriving
    <3>3. \A x, y : Moves(buffer, wire, n, x, y) => x \o y = buffer \o wire
      BY <3>1, Arriving, SMTT(30)
    <3>4. \A x, y : Moves(buffer, wire, n, x, y) => Len(x) = Len(buffer) + n
      BY <3>1, Arriving
    <3>5. \A x, y : Moves(buffer, wire, n, x, y) => x[Len(buffer) + n] = wire[n]
      BY <3>1, Arriving
    <3> QED
      BY <2>1, <3>2, <3>3, <3>4, <3>5
  <2> QED
    BY <2>2 DEF c, v
<1>5. buffer' # << >>
  BY <1>2, <1>4
<1>6. PlacesAreSent'
  <2>1. Range(buffer') \cup Range(wire') = Range(buffer) \cup Range(wire)
    <3>1. Range(buffer \o wire) = Range(buffer) \cup Range(wire)
      BY <1>2, RangeConcatenation
    <3> DEFINE b == buffer'
               w == wire'
    <3>2. b \in Seq(Place) /\ w \in Seq(Place)
      BY <1>4
    <3> HIDE DEF b, w
    <3>3. Range(b \o w) = Range(b) \cup Range(w)
      BY <3>2, RangeConcatenation
    <3> QED
      BY <1>4, <3>1, <3>3 DEF b, w
  <2>2. \A p \in Range(buffer) \cup Range(wire) : p[1] \in 1 .. sent
    BY DEF PlacesAreSent, KnownPlaces, Range
  <2>3. sent' = sent
    BY DEF Receive, clientVars
  <2> QED
    BY <2>1, <2>2, <2>3 DEF PlacesAreSent, KnownPlaces, Range
<1>7. CutsNoHead'
  <2>1. script' = script /\ splits' = splits
    BY DEF Receive, clientVars, config
  <2> SUFFICES ASSUME ~splits', NEW i, NEW k, buffer'[Len(buffer')] = <<i, k>>
               PROVE  k >= HeadSize(i)'
    BY DEF CutsNoHead
  <2>2. wire[n] = <<i, k>>
    BY <1>4
  <2>3. k >= HeadSize(i)
    BY <1>1, <2>1, <2>2 DEF MayCut
  <2>4. HeadSize(i)' = HeadSize(i)
    BY <2>1, TextStays
  <2> QED
    BY <2>3, <2>4
<1> QED
  BY <1>4, <1>5, <1>6, <1>7 DEF Rest

(***************************************************************************)
(* What the client sends goes to the end of the wire.                      *)
(***************************************************************************)
LEMMA SendStep ==
  ASSUME TypeOK, ClientSend
  PROVE  LET more == [k \in 1 .. SizeOf(sent + 1) |-> <<sent + 1, k>>] IN
         /\ sent + 1 \in DOMAIN script /\ SizeOf(sent + 1) \in Nat \ {0}
         /\ Sizes[sent + 1] = SizeOf(sent + 1)
         /\ more \in Seq(Place) /\ wire' = wire \o more /\ wire' \in Seq(Place)
         /\ sent' = sent + 1 /\ sent' \in 0 .. Len(script)
<1>1. /\ sent \in Nat /\ sent < Len(script) /\ Len(script) \in Nat /\ MaxRequests \in Nat
      /\ Len(script) <= MaxRequests /\ DOMAIN script = 1 .. Len(script)
  BY ScriptFacts DEF ClientSend
<1>2. sent + 1 \in DOMAIN script /\ sent + 1 \in 1 .. MaxRequests
      /\ sent + 1 \in 0 .. Len(script)
  BY <1>1
<1>3. SizeOf(sent + 1) \in Nat \ {0} /\ Sizes[sent + 1] = SizeOf(sent + 1)
  BY <1>2, SizeFacts
<1> DEFINE z == SizeOf(sent + 1)
           more == [k \in 1 .. z |-> <<sent + 1, k>>]
<1>4. more \in Seq(Place)
  <2>1. z \in Nat /\ \A k \in 1 .. z : <<sent + 1, k>> \in Place
    BY <1>2, <1>3 DEF Place
  <2> HIDE DEF z
  <2>2. more \in [1 .. z -> Place]
    BY <2>1
  <2> HIDE DEF more
  <2> QED
    BY <2>1, <2>2, SeqDef, Zenon
<1>5. wire' = wire \o more /\ sent' = sent + 1
  BY DEF ClientSend
<1>6. wire \in Seq(Place)
  BY DEF TypeOK
<1> HIDE DEF more
<1>7. wire \o more \in Seq(Place)
  BY <1>4, <1>6, ConcatProperties
<1> QED
  BY <1>2, <1>3, <1>4, <1>5, <1>7 DEF more

(***************************************************************************)
(* A line is retrieved.                                                    *)
(***************************************************************************)
LEMMA LineStep ==
  ASSUME TypeOK, PlacesAreSent, HasLine, Retrieve(EndOfLine),
         UNCHANGED <<clientVars, wire>>
  PROVE  /\ buffer' \in Seq(Place) /\ Len(buffer') = Len(buffer) - EndOfLine
         /\ PlacesAreSent' /\ (CutsNoHead => CutsNoHead')
<1>1. EndOfLine \in 0 .. Len(buffer)
  BY LineFound, StreamFacts
<1> QED
  BY <1>1, RetrieveStep DEF clientVars

(***************************************************************************)
(* The places on the wire and in the buffer, and where they may be cut,    *)
(* after any step.                                                         *)
(***************************************************************************)
LEMMA BufferStep ==
  ASSUME TypeOK, PlacesAreSent, CutsNoHead, [Next]_vars
  PROVE  buffer' \in Seq(Place) /\ wire' \in Seq(Place) /\ PlacesAreSent' /\ CutsNoHead'
<1>1. buffer \in Seq(Place) /\ wire \in Seq(Place)
  BY DEF TypeOK
<1>2. ASSUME UNCHANGED <<config, sent, wire, buffer>>
      PROVE  wire' \in Seq(Place) /\ buffer' \in Seq(Place) /\ PlacesAreSent' /\ CutsNoHead'
  <2>1. \A i : HeadSize(i)' = HeadSize(i)
    BY <1>2, TextStays DEF config
  <2>2. CutsNoHead'
    BY <1>2, <2>1 DEF CutsNoHead, config
  <2>3. PlacesAreSent'
    BY <1>2 DEF PlacesAreSent, KnownPlaces
  <2> QED
    BY <1>1, <1>2, <2>2, <2>3
<1>3. CASE ClientSend
  <2> DEFINE more == [k \in 1 .. SizeOf(sent + 1) |-> <<sent + 1, k>>]
  <2>1. /\ more \in Seq(Place) /\ wire' = wire \o more /\ wire' \in Seq(Place)
        /\ sent' = sent + 1 /\ sent \in Nat
    BY <1>3, SendStep, ScriptFacts
  <2>2. UNCHANGED <<config, buffer>>
    BY <1>3 DEF ClientSend
  <2>3. \A p \in Range(more) : p[1] = sent + 1
    BY DEF Range
  <2> HIDE DEF more
  <2>4. Range(wire \o more) = Range(wire) \cup Range(more)
    BY <1>1, <2>1, RangeConcatenation
  <2>5. \A p \in Range(wire) : p[1] \in 1 .. sent
    BY DEF PlacesAreSent, KnownPlaces, Range
  <2>6. \A p \in Range(wire') : p[1] \in 1 .. sent'
    BY <2>1, <2>3, <2>4, <2>5
  <2>7. KnownPlaces(wire', sent')
    BY <2>6 DEF KnownPlaces, Range
  <2>8. KnownPlaces(buffer', sent')
    BY <2>1, <2>2 DEF PlacesAreSent, KnownPlaces
  <2>9. PlacesAreSent'
    BY <2>7, <2>8 DEF PlacesAreSent, KnownPlaces
  <2>10. \A i : HeadSize(i)' = HeadSize(i)
    BY <2>2, TextStays DEF config
  <2>11. CutsNoHead'
    BY <2>2, <2>10 DEF CutsNoHead, config
  <2> QED
    BY <1>1, <2>1, <2>2, <2>9, <2>11
<1>4. CASE PeerCloses
  BY <1>2, <1>4 DEF PeerCloses, clientVars
<1>5. CASE Receive
  BY <1>5, ReceiveStep
<1>6. CASE ParseNoLine
  BY <1>2, <1>6 DEF ParseNoLine, clientVars
<1>7. CASE ParseRequestLine
  <2>1. HasLine /\ Retrieve(EndOfLine) /\ UNCHANGED <<clientVars, wire>>
    BY <1>7 DEF ParseRequestLine
  <2> QED
    BY <1>1, <2>1, LineStep
<1>8. CASE ParseHeader
  <2>1. HasLine /\ Retrieve(EndOfLine) /\ UNCHANGED <<clientVars, wire>>
    BY <1>8 DEF ParseHeader
  <2> QED
    BY <1>1, <2>1, LineStep
<1>9. CASE ParseEmptyLine
  <2>1. HasLine /\ Retrieve(EndOfLine) /\ UNCHANGED <<clientVars, wire>>
    BY <1>9 DEF ParseEmptyLine
  <2> QED
    BY <1>1, <2>1, LineStep
<1>10. CASE ParseBadHeader
  <2>1. HasLine /\ Retrieve(EndOfLine) /\ UNCHANGED <<clientVars, wire>>
    BY <1>10 DEF ParseBadHeader
  <2> QED
    BY <1>1, <2>1, LineStep
<1>11. CASE ParseBody
  <2>1. UNCHANGED <<config, sent, wire>> /\ state = "ExpectBody"
    BY <1>11 DEF ParseBody, clientVars
  <2>2. CASE Len(buffer) >= request.length /\ Retrieve(request.length)
    <3>1. request.length \in Int /\ request.length >= 0
      <4>1. request.length \in Nat \cup {-1}
        BY DEF TypeOK, ParsedRequest
      <4>2. ~ReadsLines => request.length >= 0
        BY DEF TypeOK
      <4> QED
        BY <2>1, <4>1, <4>2 DEF ReadsLines
    <3>2. request.length \in 0 .. Len(buffer)
      BY <2>2, <3>1, StreamFacts
    <3> QED
      BY <1>1, <2>1, <2>2, <3>2, RetrieveStep
  <2>3. CASE UNCHANGED buffer
    BY <1>2, <2>1, <2>3
  <2> QED
    BY <1>11, <2>2, <2>3 DEF ParseBody
<1>12. CASE ParseComplete
  BY <1>2, <1>12 DEF ParseComplete, clientVars
<1>13. CASE OnRequest
  BY <1>2, <1>13 DEF OnRequest, clientVars
<1>14. CASE UNCHANGED vars
  BY <1>2, <1>14 DEF vars, clientVars
<1> QED
  BY <1>3, <1>4, <1>5, <1>6, <1>7, <1>8, <1>9, <1>10, <1>11, <1>12, <1>13, <1>14
  DEF Next, on_message, Parse

-----------------------------------------------------------------------------
(* Types.                                                                  *)

(***************************************************************************)
(* What a line that is no empty one may say, wherever the parser is.       *)
(***************************************************************************)
LEMMA LineTypes ==
  ASSUME TypeOK, PlacesAreSent, HasLine
  PROVE  /\ Line.kind = "start" => /\ Line.id \in 0 .. MaxRequests
                                   /\ Line.version \in {"", "HTTP/1.0", "HTTP/1.1"}
         /\ Line.kind = "connection" => Line.value \in {"", "keep-alive", "close"}
         /\ Line.kind = "length" => Line.value \in Nat \cup {-1}
<1>1. 1 \in DOMAIN buffer /\ buffer \in Seq(Place) /\ 1 \in 1 .. Len(buffer)
  <2>1. Len(buffer) \in Nat /\ DOMAIN buffer = 1 .. Len(buffer)
    BY StreamFacts
  <2>2. EndOfLine \in 1 .. Len(buffer)
    BY LineFound
  <2> QED
    BY <2>1, <2>2 DEF TypeOK
<1>2. PICK i \in 1 .. MaxRequests, k \in Nat \ {0} : buffer[1] = <<i, k>>
  BY <1>1, ElementOfSeq DEF Place
<1>3. i \in DOMAIN script /\ i \in 0 .. MaxRequests
  <2>1. i \in 1 .. sent
    BY <1>1, <1>2 DEF PlacesAreSent, KnownPlaces
  <2>2. i \in DOMAIN script
    BY <2>1, ScriptFacts
  <2>3. i \in 0 .. MaxRequests
    BY ScriptFacts
  <2> QED
    BY <2>2, <2>3
<1>4. IsRequest(script[i])
  BY <1>3, ScriptFacts
<1>5. Line = Token(<<i, k>>)
  BY <1>2 DEF Line
<1>6. /\ Len(LinesOf(i)) \in Nat \ {0} /\ HeadSize(i) = 2 * Len(LinesOf(i)) + 1
  BY <1>3, HeadFacts
<1>7. CASE k < HeadSize(i) /\ k % 2 = 1
  <2> DEFINE m == (k + 1) \div 2
             N == Len(LinesOf(i))
  <2>1. Line = LinesOf(i)[m]
    BY <1>5, <1>6, <1>7 DEF Token
  <2>2. m \in 1 .. N
    <3>1. N \in Nat \ {0} /\ k \in Nat \ {0} /\ k < 2 * N + 1
      BY <1>6, <1>7
    <3> HIDE DEF N
    <3> QED
      BY <3>1
  <2> HIDE DEF m
  <2>3. CASE m = 1
    <3>1. Line = RequestLine(script[i], i)
      BY <1>3, <2>1, <2>3, LineFacts
    <3> QED
      BY <1>3, <1>4, <3>1 DEF RequestLine, IsRequest
  <2>4. CASE m \in 2 .. Len(LinesOf(i))
    <3> DEFINE r == script[i]
               c == [kind |-> "connection", value |-> r.connection]
               l == [kind |-> "length", value |-> ContentLength(r)]
               x == [kind |-> "noise"]
    <3>1. Line = c \/ Line = l \/ Line = x
      BY <1>3, <2>1, <2>4, LineFacts
    <3>2. ContentLength(r) \in Nat \cup {-1} /\ r.connection \in {"", "keep-alive", "close"}
      BY <1>4 DEF ContentLength, IsRequest
    <3>3. /\ c.kind = "connection" /\ c.value = r.connection
          /\ l.kind = "length" /\ l.value = ContentLength(r) /\ x.kind = "noise"
      OBVIOUS
    <3> HIDE DEF c, l, x
    <3> QED
      BY <3>1, <3>2, <3>3
  <2>5. m = 1 \/ m \in 2 .. Len(LinesOf(i))
    BY <1>6, <2>2
  <2> QED
    BY <2>3, <2>4, <2>5
<1>8. CASE ~(k < HeadSize(i) /\ k % 2 = 1)
  <2>1. Line.kind \in {"byte", "crlf"}
    BY <1>5, <1>8 DEF Token, Crlf
  <2> QED
    BY <2>1
<1> QED
  BY <1>7, <1>8

(***************************************************************************)
(* A response is written.                                                  *)
(***************************************************************************)
LEMMA SendTypes ==
  ASSUME TypeOK, NEW r \in Responses, send(r)
  PROVE  out' \in Seq(Responses)
<1>1. out \in Seq(Responses)
  BY DEF TypeOK
<1>2. Append(out, r) \in Seq(Responses)
  BY <1>1, AppendProperties
<1> QED
  BY <1>1, <1>2 DEF send

(***************************************************************************)
(* A bad request ends the connection.                                      *)
(***************************************************************************)
LEMMA BadRequestStep ==
  ASSUME TypeOK, BadRequest
  PROVE  /\ out' \in Seq(Responses) /\ pc' = "idle" /\ conn' # "connected"
         /\ conn' \in {"connected", "disconnecting", "disconnected"}
<1>1. [of |-> NoId, status |-> "bad request", close |-> TRUE] \in Responses
  BY ScriptFacts DEF Responses, NoId
<1>2. out' \in Seq(Responses)
  BY <1>1, SendTypes DEF BadRequest
<1> QED
  BY <1>2 DEF TypeOK, BadRequest, shutdown

(* The parts of TypeOK that the parser and on_request may change.          *)
ParserTypes ==
  /\ state \in {"ExpectRequestLine", "ExpectHeaders", "ExpectBody", "ExpectComplete"}
  /\ request \in ParsedRequest
  /\ ~ReadsLines => request.length >= 0

ServerTypes ==
  /\ handled \in Seq(ParsedRequest)
  /\ pc \in {"idle", "parse", "request"}
  /\ conn \in {"connected", "disconnecting", "disconnected"}
  /\ out \in Seq(Responses)

(***************************************************************************)
(* Every step keeps the types.                                             *)
(***************************************************************************)
LEMMA TypeStep ==
  ASSUME TypeOK, PlacesAreSent, CutsNoHead, [Next]_vars
  PROVE  TypeOK'
<1>1. buffer' \in Seq(Place) /\ wire' \in Seq(Place)
  BY BufferStep
<1>2. /\ script' = script /\ splits' = splits /\ pipelines' = pipelines
      /\ sent' \in 0 .. Len(script)
  <2>1. CASE ClientSend
    BY <2>1, SendStep DEF ClientSend, config
  <2>2. CASE UNCHANGED clientVars
    BY <2>2 DEF TypeOK, clientVars, config
  <2> QED
    BY <2>1, <2>2 DEF Next, on_message, Receive, Parse, ParseNoLine, ParseRequestLine,
      ParseHeader, ParseEmptyLine, ParseBadHeader, ParseBody, ParseComplete, OnRequest,
      PeerCloses, vars
<1>3. ParserTypes /\ ServerTypes
  BY DEF TypeOK, ParserTypes, ServerTypes
<1>4. ASSUME BadRequest, handled' = handled
      PROVE  ServerTypes'
  BY <1>3, <1>4, BadRequestStep DEF ServerTypes
<1>5. ASSUME UNCHANGED <<state, request>>
      PROVE  ParserTypes'
  BY <1>3, <1>5 DEF ParserTypes, ReadsLines
<1>6. ParserTypes' /\ ServerTypes'
  <2>1. CASE ClientSend
    BY <1>3, <1>5, <2>1 DEF ClientSend, ServerTypes
  <2>2. CASE PeerCloses
    BY <1>3, <1>5, <2>2 DEF PeerCloses, ServerTypes
  <2>3. CASE Receive
    BY <1>3, <1>5, <2>3 DEF Receive, ServerTypes
  <2>4. CASE ParseNoLine
    BY <1>4, <1>5, <2>4 DEF ParseNoLine
  <2>5. CASE ParseRequestLine
    <3>1. HasLine /\ handled' = handled
      BY <2>5 DEF ParseRequestLine
    <3>2. CASE /\ IsLine("start")
               /\ request' = [request EXCEPT !.id = Line.id, !.version = Line.version]
               /\ state' = "ExpectHeaders"
               /\ UNCHANGED <<pc, conn, out>>
      <4>1. Line.id \in 0 .. MaxRequests /\ Line.version \in {"", "HTTP/1.0", "HTTP/1.1"}
        BY <3>1, <3>2, LineTypes DEF IsLine
      <4>2. request' \in ParsedRequest
        BY <1>3, <3>2, <4>1 DEF ParserTypes, ParsedRequest
      <4>3. ParserTypes'
        BY <3>2, <4>2 DEF ParserTypes, ReadsLines
      <4> QED
        BY <1>3, <3>1, <3>2, <4>3 DEF ServerTypes
    <3>3. CASE BadRequest /\ UNCHANGED <<request, state>>
      BY <1>4, <1>5, <3>1, <3>3
    <3> QED
      BY <2>5, <3>2, <3>3 DEF ParseRequestLine
  <2>6. CASE ParseHeader
    <3>1. HasLine /\ UNCHANGED <<state, pc, conn, handled, out>> /\ state = "ExpectHeaders"
      BY <2>6 DEF ParseHeader
    <3>2. request' \in ParsedRequest
      <4>1. CASE /\ IsLine("connection")
                 /\ request' = [request EXCEPT !.connection = Line.value]
        <5>1. Line.value \in {"", "keep-alive", "close"}
          BY <3>1, <4>1, LineTypes DEF IsLine
        <5> QED
          BY <1>3, <4>1, <5>1 DEF ParserTypes, ParsedRequest
      <4>2. CASE /\ IsLine("length")
                 /\ request' = [request EXCEPT !.length = Line.value]
        <5>1. Line.value \in Nat \cup {-1}
          BY <3>1, <4>2, LineTypes DEF IsLine
        <5> QED
          BY <1>3, <4>2, <5>1 DEF ParserTypes, ParsedRequest
      <4> QED
        BY <2>6, <4>1, <4>2 DEF ParseHeader
    <3> QED
      BY <1>3, <3>1, <3>2 DEF ParserTypes, ServerTypes, ReadsLines
  <2>7. CASE ParseEmptyLine
    <3>1. CASE request.length < 0 /\ BadRequest /\ UNCHANGED state
      BY <1>4, <1>5, <2>7, <3>1 DEF ParseEmptyLine
    <3>2. CASE /\ request.length >= 0 /\ UNCHANGED <<pc, conn, out>>
               /\ state' = IF request.length = 0 THEN "ExpectComplete" ELSE "ExpectBody"
      BY <1>3, <2>7, <3>2 DEF ParseEmptyLine, ParserTypes, ServerTypes
    <3> QED
      BY <2>7, <3>1, <3>2 DEF ParseEmptyLine
  <2>8. CASE ParseBadHeader
    BY <1>4, <1>5, <2>8 DEF ParseBadHeader
  <2>9. CASE ParseBody
    <3>1. state = "ExpectBody" /\ UNCHANGED <<conn, handled, out>>
      BY <2>9 DEF ParseBody
    <3>2. request.length \in Nat
      <4>1. request.length \in Nat \cup {-1}
        BY <1>3 DEF ParserTypes, ParsedRequest
      <4> QED
        BY <1>3, <3>1, <4>1 DEF ParserTypes, ReadsLines
    <3>3. CASE /\ Len(buffer) >= request.length
               /\ request' = [request EXCEPT !.content = SubSeq(buffer, 1, request.length)]
               /\ state' = "ExpectComplete" /\ UNCHANGED pc
      <4> DEFINE l == request.length
                 body == SubSeq(buffer, 1, l)
      <4>1. body \in Seq(Place)
        <5>1. buffer \in Seq(Place) /\ l \in Nat /\ l <= Len(buffer)
          BY <3>2, <3>3 DEF TypeOK
        <5> HIDE DEF l
        <5>2. \A j \in 1 .. l : buffer[j] \in Place
          BY <5>1, ElementOfSeq
        <5> QED
          BY <5>1, <5>2, SubSeqProperties
      <4>2. request' = [request EXCEPT !.content = body]
        BY <3>3
      <4> HIDE DEF l, body
      <4>3. request' \in ParsedRequest /\ request'.length = request.length
        BY <1>3, <4>1, <4>2 DEF ParserTypes, ParsedRequest
      <4> QED
        BY <1>3, <3>1, <3>2, <3>3, <4>3 DEF ParserTypes, ServerTypes
    <3>4. CASE pc' = "idle" /\ UNCHANGED <<request, state>>
      BY <1>3, <1>5, <3>1, <3>4 DEF ServerTypes
    <3> QED
      BY <2>9, <3>3, <3>4 DEF ParseBody
  <2>10. CASE ParseComplete
    BY <1>3, <1>5, <2>10 DEF ParseComplete, ServerTypes
  <2>11. CASE OnRequest
    <3>1. EmptyRequest \in ParsedRequest
      BY ScriptFacts DEF EmptyRequest, ParsedRequest, NoId
    <3>2. ParserTypes'
      BY <2>11, <3>1 DEF OnRequest, reset, ParserTypes, ReadsLines
    <3>3. handled' \in Seq(ParsedRequest)
      <4>1. handled' = Append(handled, request)
        BY <2>11 DEF OnRequest
      <4> QED
        BY <1>3, <4>1, AppendProperties DEF ParserTypes, ServerTypes
    <3>4. PICK close \in {Close, TRUE} :
            /\ send([of |-> request.id, status |-> "ok", close |-> close])
            /\ IF close THEN shutdown ELSE UNCHANGED conn
      BY <2>11 DEF OnRequest
    <3>5. out' \in Seq(Responses)
      <4>1. [of |-> request.id, status |-> "ok", close |-> close] \in Responses
        <5>1. request.id \in 0 .. MaxRequests
          BY <1>3 DEF ParserTypes, ParsedRequest
        <5>2. close \in BOOLEAN
          BY DEF Close
        <5> QED
          BY <5>1, <5>2 DEF Responses
      <4> QED
        BY <3>4, <4>1, SendTypes
    <3>6. conn' \in {"connected", "disconnecting", "disconnected"}
      BY <1>3, <3>4 DEF ServerTypes, shutdown
    <3>7. pc' = "idle"
      BY <2>11 DEF OnRequest
    <3> QED
      BY <3>2, <3>3, <3>5, <3>6, <3>7 DEF ServerTypes
  <2>12. CASE UNCHANGED vars
    BY <1>3, <1>5, <2>12 DEF vars, ServerTypes
  <2> QED
    BY <2>1, <2>2, <2>3, <2>4, <2>5, <2>6, <2>7, <2>8, <2>9, <2>10, <2>11, <2>12
    DEF Next, on_message, Parse
<1>7. script \in Seq(Requests) /\ Len(script) <= MaxRequests
      /\ splits \in BOOLEAN /\ pipelines \in BOOLEAN
  BY DEF TypeOK
<1> QED
  BY <1>1, <1>2, <1>6, <1>7 DEF TypeOK, ParserTypes, ServerTypes

(***************************************************************************)
(* on_request is called when a request is complete, and only then.         *)
(***************************************************************************)
LEMMA ControlStep ==
  ASSUME TypeOK, Control, [Next]_vars
  PROVE  Control'
<1>1. ASSUME BadRequest
      PROVE  pc' = "idle"
  BY <1>1 DEF BadRequest
<1> QED
  BY <1>1 DEF Control, Next, on_message, Parse, Receive, ParseNoLine, ParseRequestLine,
    ParseHeader, ParseEmptyLine, ParseBadHeader, ParseBody, ParseComplete, OnRequest,
    reset, PeerCloses, ClientSend, ReadsLines, vars

(***************************************************************************)
(* One answer for each request while the connection is up, in this order:  *)
(* a bad request takes it down.                                            *)
(***************************************************************************)
LEMMA AnswersStep ==
  ASSUME TypeOK, AnswersInOrder, [Next]_vars
  PROVE  AnswersInOrder'
<1>1. /\ handled \in Seq(ParsedRequest) /\ Len(handled) \in Nat
      /\ out \in Seq(Responses) /\ Len(out) \in Nat /\ DOMAIN out = 1 .. Len(out)
  BY LenProperties DEF TypeOK
<1>2. ASSUME BadRequest, handled' = handled
      PROVE  AnswersInOrder'
  <2> DEFINE bad == [of |-> NoId, status |-> "bad request", close |-> TRUE]
  <2>1. conn' # "connected"
    BY <1>2, BadRequestStep
  <2>2. CASE out' = out
    BY <1>2, <2>1, <2>2 DEF AnswersInOrder
  <2>3. CASE out' = Append(out, bad)
    <3>1. bad.status = "bad request" /\ bad \in Responses
      BY ScriptFacts DEF Responses, NoId
    <3> HIDE DEF bad
    <3>2. /\ Len(out') = Len(out) + 1 /\ out'[Len(out) + 1] = bad
          /\ \A i \in 1 .. Len(out) : out'[i] = out[i]
      <4>1. out \in Seq(Responses) /\ bad \in Responses
        BY <1>1, <3>1
      <4> QED
        BY <2>3, <4>1, AppendProperties
    <3>3. \A i \in DOMAIN out' : i \in 1 .. Len(out) \/ i = Len(out) + 1
      BY <1>1, <2>3
    <3> QED
      BY <1>1, <1>2, <2>1, <3>1, <3>2, <3>3 DEF AnswersInOrder
  <2> QED
    BY <1>2, <2>2, <2>3 DEF BadRequest, send
<1>3. ASSUME UNCHANGED <<handled, out>>, conn' = "connected" => conn = "connected"
      PROVE  AnswersInOrder'
  BY <1>3 DEF AnswersInOrder
<1>4. CASE OnRequest
  <2>1. PICK close \in {Close, TRUE} :
          /\ send([of |-> request.id, status |-> "ok", close |-> close])
          /\ IF close THEN shutdown ELSE UNCHANGED conn
    BY <1>4 DEF OnRequest
  <2> DEFINE ok == [of |-> request.id, status |-> "ok", close |-> close]
  <2>2. handled' = Append(handled, request) /\ request \in ParsedRequest
    BY <1>4 DEF OnRequest, TypeOK
  <2>3. /\ Len(handled') = Len(handled) + 1 /\ handled'[Len(handled) + 1] = request
        /\ \A i \in 1 .. Len(handled) : handled'[i] = handled[i]
    BY <1>1, <2>2, AppendProperties
  <2>4. \A i \in 1 .. Len(out) : out[i].status = "ok" =>
          i <= Len(handled') /\ out[i].of = handled'[i].id
    <3> SUFFICES ASSUME NEW i \in 1 .. Len(out), out[i].status = "ok"
                 PROVE  i <= Len(handled') /\ out[i].of = handled'[i].id
      OBVIOUS
    <3>1. i <= Len(handled) /\ out[i].of = handled[i].id
      BY <1>1 DEF AnswersInOrder
    <3>2. i \in 1 .. Len(handled) /\ i <= Len(handled) + 1
      BY <1>1, <3>1
    <3> QED
      BY <2>3, <3>1, <3>2
  <2>5. CASE conn = "connected"
    <3>1. out' = Append(out, ok)
      BY <2>1, <2>5 DEF send
    <3>2. ok \in Responses /\ ok.of = request.id
      <4>1. request.id \in 0 .. MaxRequests
        BY <2>2 DEF ParsedRequest
      <4>2. close \in BOOLEAN
        BY DEF Close
      <4> QED
        BY <4>1, <4>2 DEF Responses
    <3> HIDE DEF ok
    <3>3. /\ Len(out') = Len(out) + 1 /\ out'[Len(out) + 1] = ok
          /\ \A i \in 1 .. Len(out) : out'[i] = out[i]
      BY <1>1, <3>1, <3>2, AppendProperties
    <3>4. \A i \in DOMAIN out' : i \in 1 .. Len(out) \/ i = Len(out) + 1
      BY <1>1, <3>1
    <3>5. Len(out) = Len(handled)
      BY <2>5 DEF AnswersInOrder
    <3> QED
      BY <1>1, <2>3, <2>4, <3>2, <3>3, <3>4, <3>5 DEF AnswersInOrder
  <2>6. CASE conn # "connected"
    <3>1. out' = out /\ conn' # "connected"
      BY <2>1, <2>6 DEF send, shutdown
    <3> QED
      BY <1>1, <2>4, <3>1 DEF AnswersInOrder
  <2> QED
    BY <2>5, <2>6
<1> QED
  BY <1>2, <1>3, <1>4 DEF Next, on_message, Parse, Receive, ParseNoLine, ParseRequestLine,
    ParseHeader, ParseEmptyLine, ParseBadHeader, ParseBody, ParseComplete,
    PeerCloses, ClientSend, vars

-----------------------------------------------------------------------------
(* The parser goes through a request.                                      *)

(***************************************************************************)
(* In the headers the parser sees the next header line, or the empty line  *)
(* behind the last.                                                        *)
(***************************************************************************)
LEMMA NextLine ==
  ASSUME TypeOK, HasLine, NEW i, NEW m, AtHeader(i, m)
  PROVE  /\ i \in 1 .. sent /\ i \in DOMAIN script /\ m \in Nat
         /\ \/ /\ m + 1 \in 2 .. Len(LinesOf(i)) /\ EndOfLine = 2
               /\ Line = LinesOf(i)[m + 1] /\ 2 \in 1 .. Len(buffer)
               /\ 2 <= TokensLeft(Sizes, i, 2 * m + 1)
               /\ (2 * m + 1) + 2 <= HeadSize(i) /\ (2 * m + 1) + 2 <= SizeOf(i)
            \/ /\ m = Len(LinesOf(i)) /\ EndOfLine = 1
               /\ 1 \in 1 .. Len(buffer) /\ 2 * m + 1 = HeadSize(i)
               /\ TokensLeft(Sizes, i, 2 * m + 1) = script[i].length + 1
<1>1. /\ StreamsFrom(i, 2 * m + 1) /\ m \in 1 .. Len(LinesOf(i))
      /\ buffer # << >> /\ Len(buffer) \in Nat
  BY StreamFacts DEF AtHeader, HasLine
<1>2. i \in 1 .. sent /\ i \in DOMAIN script
  BY <1>1, InBuffer
<1>3. /\ Len(LinesOf(i)) \in Nat \ {0} /\ HeadSize(i) = 2 * Len(LinesOf(i)) + 1
      /\ m \in Nat /\ m >= 1 /\ m <= Len(LinesOf(i))
  BY <1>1, <1>2, HeadFacts
<1>4. CASE m < Len(LinesOf(i))
  <2>1. m + 1 \in 2 .. Len(LinesOf(i)) /\ m + 1 \in 1 .. Len(LinesOf(i))
        /\ 2 * (m + 1) - 1 = 2 * m + 1
    BY <1>3, <1>4
  <2>2. StreamsFrom(i, 2 * (m + 1) - 1)
    BY <1>1, <2>1
  <2>3. /\ EndOfLine = 2 /\ Len(buffer) >= 2
        /\ Line = LinesOf(i)[m + 1] /\ 2 <= TokensLeft(Sizes, i, 2 * (m + 1) - 1)
        /\ (2 * (m + 1) - 1) + 2 <= HeadSize(i) /\ (2 * (m + 1) - 1) + 2 <= SizeOf(i)
    BY <2>1, <2>2, LineAt
  <2> QED
    BY <1>1, <1>2, <1>3, <2>1, <2>3
<1>5. CASE m = Len(LinesOf(i))
  <2>1. 2 * m + 1 = HeadSize(i)
    BY <1>3, <1>5
  <2>2. /\ EndOfLine = 1 /\ Len(buffer) >= 1
        /\ TokensLeft(Sizes, i, HeadSize(i)) = script[i].length + 1
    BY <1>1, <2>1, EmptyLineAt
  <2> QED
    BY <1>1, <1>2, <1>3, <1>5, <2>1, <2>2
<1> QED
  BY <1>3, <1>4, <1>5

(***************************************************************************)
(* What a header line says is what the request says, and the parser keeps  *)
(* the rest.                                                               *)
(***************************************************************************)
LEMMA HeaderRead ==
  ASSUME TypeOK, NEW i \in DOMAIN script, NEW m \in Nat, m + 1 \in 2 .. Len(LinesOf(i))
  PROVE  LET line == LinesOf(i)[m + 1]
             r == ReadSoFar(i, m) IN
         /\ line.kind = "connection" =>
              ReadSoFar(i, m + 1) = [r EXCEPT !.connection = line.value]
         /\ line.kind = "length" =>
              ReadSoFar(i, m + 1) = [r EXCEPT !.length = line.value]
         /\ line.kind \notin {"connection", "length"} => script[i].flaw = "header"
         /\ line.kind \in {"connection", "length"} =>
              \A j \in 2 .. m + 1 : j \notin 2 .. m => LinesOf(i)[j].kind # "noise"
<1> DEFINE N == LinesOf(i)
           line == N[m + 1]
           w == script[i]
           c == [kind |-> "connection", value |-> w.connection]
           l == [kind |-> "length", value |-> ContentLength(w)]
           x == [kind |-> "noise"]
<1>1. line = c \/ line = l \/ (w.flaw = "header" /\ line = x)
  BY LineFacts
<1>2. /\ c.kind = "connection" /\ c.value = w.connection
      /\ l.kind = "length" /\ l.value = ContentLength(w) /\ x.kind = "noise"
  OBVIOUS
<1>3. \A j \in 2 .. m + 1 : j \in 2 .. m \/ j = m + 1
  OBVIOUS
<1>4. \A j \in 2 .. m : j \in 2 .. m + 1
  OBVIOUS
<1>5. m + 1 \in 2 .. m + 1
  OBVIOUS
<1> DEFINE C(k) == \E j \in 2 .. k : N[j].kind = "connection"
           L(k) == \E j \in 2 .. k : N[j].kind = "length"
           V(k) == IF C(k) THEN w.connection ELSE ""
           U(k) == IF L(k) THEN ContentLength(w) ELSE 0
           R(v, u) == [id |-> i, version |-> w.version, connection |-> v, length |-> u,
                       content |-> << >>]
<1>6. ReadSoFar(i, m) = R(V(m), U(m)) /\ ReadSoFar(i, m + 1) = R(V(m + 1), U(m + 1))
  BY DEF ReadSoFar
<1>10. /\ \A u, v, a : [R(v, u) EXCEPT !.connection = a] = R(a, u)
       /\ \A u, v, a : [R(v, u) EXCEPT !.length = a] = R(v, a)
  OBVIOUS
<1> HIDE DEF N, c, l, x
<1>7. CASE line = c
  <2>1. C(m + 1) /\ (L(m + 1) <=> L(m))
    BY <1>2, <1>3, <1>4, <1>5, <1>7
  <2>4. V(m + 1) = w.connection /\ U(m + 1) = U(m)
    BY <2>1
  <2> HIDE DEF V, U, R
  <2>2. R(V(m + 1), U(m + 1)) = [R(V(m), U(m)) EXCEPT !.connection = w.connection]
    BY <1>10, <2>4
  <2>3. line.kind = "connection" /\ line.value = w.connection
    BY <1>2, <1>7
  <2> QED
    BY <1>3, <1>6, <2>2, <2>3 DEF N
<1>8. CASE line = l
  <2>1. L(m + 1) /\ (C(m + 1) <=> C(m))
    BY <1>2, <1>3, <1>4, <1>5, <1>8
  <2>4. U(m + 1) = ContentLength(w) /\ V(m + 1) = V(m)
    BY <2>1
  <2> HIDE DEF V, U, R
  <2>2. R(V(m + 1), U(m + 1)) = [R(V(m), U(m)) EXCEPT !.length = ContentLength(w)]
    BY <1>10, <2>4
  <2>3. line.kind = "length" /\ line.value = ContentLength(w)
    BY <1>2, <1>8
  <2> QED
    BY <1>3, <1>6, <2>2, <2>3 DEF N
<1>9. CASE w.flaw = "header" /\ line = x
  <2>1. line.kind = "noise"
    BY <1>2, <1>9
  <2> QED
    BY <1>9, <2>1 DEF N
<1> QED
  BY <1>1, <1>7, <1>8, <1>9

(***************************************************************************)
(* Behind the last header line the parser has read the whole head.         *)
(***************************************************************************)
LEMMA HeadRead ==
  ASSUME TypeOK, NEW i \in DOMAIN script, script[i].flaw # "line",
         \A j \in 2 .. Len(LinesOf(i)) : LinesOf(i)[j].kind # "noise"
  PROVE  /\ ReadSoFar(i, Len(LinesOf(i))) =
              [id |-> i, version |-> script[i].version, connection |-> script[i].connection,
               length |-> ContentLength(script[i]), content |-> << >>]
         /\ IF ContentLength(script[i]) < 0
              THEN ~WellFormed(i)
              ELSE WellFormed(i) /\ ContentLength(script[i]) = script[i].length
<1> DEFINE w == script[i]
           M == Len(LinesOf(i))
<1>1. IsRequest(w)
  BY ScriptFacts
<1>2. w.connection # "" => \E j \in 2 .. M : LinesOf(i)[j].kind = "connection"
  BY LineFacts
<1>3. ContentLength(w) # 0 => \E j \in 2 .. M : LinesOf(i)[j].kind = "length"
  BY LineFacts
<1>4. w.flaw # "header"
  BY LineFacts
<1>5. ReadSoFar(i, M) =
        [id |-> i, version |-> w.version, connection |-> w.connection,
         length |-> ContentLength(w), content |-> << >>]
  <2> DEFINE C == \E j \in 2 .. M : LinesOf(i)[j].kind = "connection"
             L == \E j \in 2 .. M : LinesOf(i)[j].kind = "length"
  <2>1. ReadSoFar(i, M) =
          [id |-> i, version |-> w.version, connection |-> IF C THEN w.connection ELSE "",
           length |-> IF L THEN ContentLength(w) ELSE 0, content |-> << >>]
    BY DEF ReadSoFar
  <2>2. /\ (IF C THEN w.connection ELSE "") = w.connection
        /\ (IF L THEN ContentLength(w) ELSE 0) = ContentLength(w)
    BY <1>2, <1>3
  <2> HIDE DEF C, L
  <2> QED
    BY <2>1, <2>2
<1>6. w.flaw \in {"none", "length"} /\ w.length \in Nat
  BY <1>1, <1>4 DEF IsRequest
<1>7. IF ContentLength(w) < 0 THEN w.flaw # "none"
                              ELSE w.flaw = "none" /\ ContentLength(w) = w.length
  BY <1>6 DEF ContentLength
<1> QED
  BY <1>5, <1>7 DEF WellFormed

(***************************************************************************)
(* Requests are the same if all their parts are.                           *)
(***************************************************************************)
LEMMA SameRequest ==
  ASSUME NEW r \in ParsedRequest, NEW s \in ParsedRequest, r.id = s.id,
         r.version = s.version, r.connection = s.connection, r.length = s.length,
         r.content = s.content
  PROVE  r = s
<1>1. \A I, V, C, L, B : \A p, q \in [id : I, version : V, connection : C, length : L,
                                     content : B] :
        /\ p.id = q.id /\ p.version = q.version /\ p.connection = q.connection
        /\ p.length = q.length /\ p.content = q.content
        => p = q
  OBVIOUS
<1> QED
  BY <1>1 DEF ParsedRequest

(***************************************************************************)
(* The request line is read, or it is malformed.                           *)
(***************************************************************************)
LEMMA RequestLineInStep ==
  ASSUME TypeOK, ParseRequestLine, NEW i, InStep(i)
  PROVE  /\ i \in 1 .. sent /\ EndOfLine = 2 /\ StreamsFrom(i, 1) /\ 3 <= HeadSize(i)
         /\ IF IsLine("start") THEN InStep(i)' ELSE ~WellFormed(i)
<1>1. /\ request = EmptyRequest /\ StreamsFrom(i, 1) /\ HasLine
      /\ Retrieve(EndOfLine) /\ UNCHANGED <<config, sent, wire>>
  BY DEF ParseRequestLine, InStep, AtRequestLine, AtHeader, AtBody, AtEnd, clientVars
<1>2. i \in 1 .. sent /\ i \in DOMAIN script /\ 1 \in 1 .. Len(LinesOf(i))
  <2>1. buffer # << >>
    BY <1>1 DEF HasLine
  <2>2. i \in 1 .. sent /\ i \in DOMAIN script
    BY <1>1, <2>1, InBuffer
  <2> QED
    BY <2>2, HeadFacts
<1>3. /\ EndOfLine = 2 /\ Len(buffer) >= 2 /\ Line = LinesOf(i)[1]
      /\ 2 <= TokensLeft(Sizes, i, 1) /\ 3 <= HeadSize(i) /\ 3 <= SizeOf(i)
  <2>1. 2 * 1 - 1 = 1 /\ 1 + 2 = 3
    OBVIOUS
  <2>2. /\ EndOfLine = 2 /\ Len(buffer) >= 2 /\ Line = LinesOf(i)[1]
        /\ 2 <= TokensLeft(Sizes, i, 2 * 1 - 1)
        /\ (2 * 1 - 1) + 2 <= HeadSize(i) /\ (2 * 1 - 1) + 2 <= SizeOf(i)
    BY <1>1, <1>2, <2>1, LineAt
  <2> QED
    BY <2>1, <2>2
<1>4. Line = RequestLine(script[i], i)
  BY <1>2, <1>3, LineFacts
<1>5. CASE IsLine("start")
  <2>1. /\ request' = [request EXCEPT !.id = Line.id, !.version = Line.version]
        /\ state' = "ExpectHeaders"
    BY <1>5 DEF ParseRequestLine
  <2>2. script[i].flaw # "line" /\ Line.id = i /\ Line.version = script[i].version
    BY <1>4, <1>5 DEF RequestLine, IsLine
  <2>3. request' = ReadSoFar(i, 1)
    <3>1. \A j : j \notin 2 .. 1
      OBVIOUS
    <3>2. ReadSoFar(i, 1) = [id |-> i, version |-> script[i].version, connection |-> "",
                             length |-> 0, content |-> << >>]
      BY <3>1 DEF ReadSoFar
    <3> QED
      <4>1. request \in ParsedRequest
        BY DEF TypeOK
      <4>2. i \in 0 .. MaxRequests /\ script[i].version \in {"", "HTTP/1.0", "HTTP/1.1"}
        <5>1. IsRequest(script[i]) /\ i \in 1 .. sent
          BY <1>2, ScriptFacts
        <5>2. sent \in Nat /\ MaxRequests \in Nat /\ sent <= MaxRequests
          <6>1. /\ sent \in Nat /\ sent <= Len(script) /\ Len(script) \in Nat
                /\ Len(script) <= MaxRequests /\ MaxRequests \in Nat
            BY ScriptFacts
          <6> QED
            BY <6>1
        <5>3. i \in 0 .. MaxRequests
          BY <5>1, <5>2
        <5> QED
          BY <5>1, <5>3 DEF IsRequest
      <4>3. /\ request' \in ParsedRequest /\ request'.id = i
            /\ request'.version = script[i].version
            /\ request'.connection = request.connection
            /\ request'.length = request.length /\ request'.content = request.content
        <5>1. request' = [request EXCEPT !.id = i, !.version = script[i].version]
          BY <2>1, <2>2
        <5> QED
          BY <4>1, <4>2, <5>1 DEF ParsedRequest
      <4>4. request.connection = "" /\ request.length = 0 /\ request.content = << >>
        BY <1>1 DEF EmptyRequest
      <4> DEFINE r == ReadSoFar(i, 1)
      <4>5. /\ r \in ParsedRequest /\ r.id = i /\ r.version = script[i].version
            /\ r.connection = "" /\ r.length = 0 /\ r.content = << >>
        <5>1. << >> \in Seq(Place) /\ 0 \in Nat \cup {-1}
          BY EmptySeq
        <5> DEFINE v == script[i].version
        <5>2. r = [id |-> i, version |-> v, connection |-> "", length |-> 0,
                   content |-> << >>]
          BY <3>2
        <5>3. v \in {"", "HTTP/1.0", "HTTP/1.1"}
          BY <4>2
        <5> HIDE DEF r, v
        <5>4. r \in ParsedRequest
          BY <4>2, <5>1, <5>2, <5>3 DEF ParsedRequest
        <5> QED
          BY <5>2, <5>4 DEF v
      <4> DEFINE q == request'
      <4>6. /\ q \in ParsedRequest /\ r \in ParsedRequest /\ q.id = r.id
            /\ q.version = r.version /\ q.connection = r.connection
            /\ q.length = r.length /\ q.content = r.content
        BY <4>3, <4>4, <4>5
      <4> HIDE DEF q, r
      <4>7. q = r
        BY <4>6, SameRequest
      <4> QED
        BY <4>7 DEF q, r
  <2>4. StreamsFrom(i, 3)'
    <3>1. 2 \in 1 .. Len(buffer)
      BY <1>3, StreamFacts
    <3>2. 1 + 2 = 3 /\ 1 + 2 <= SizeOf(i)
      BY <1>3
    <3>3. StreamsFrom(i, 1 + 2)'
      BY <1>1, <1>3, <3>1, <3>2, RetrieveStream
    <3> QED
      BY <3>2, <3>3
  <2>5. /\ LinesOf(i)' = LinesOf(i) /\ ReadSoFar(i, 1)' = ReadSoFar(i, 1)
        /\ script' = script /\ sent' = sent
    BY <1>1, TextStays DEF config
  <2>6. AtHeader(i, 1)'
    <3>1. 2 * 1 + 1 = 3 /\ (\A j : j \notin 2 .. 1) /\ i <= sent
      BY <1>2
    <3> QED
      BY <1>2, <2>1, <2>2, <2>3, <2>4, <2>5, <3>1 DEF AtHeader
  <2> QED
    BY <1>1, <1>2, <1>3, <1>5, <2>6 DEF InStep
<1>6. CASE ~IsLine("start")
  <2>1. script[i].flaw = "line"
    BY <1>3, <1>4, <1>6 DEF RequestLine, IsLine
  <2> QED
    BY <1>1, <1>2, <1>3, <1>6, <2>1 DEF WellFormed
<1> QED
  BY <1>5, <1>6

(***************************************************************************)
(* A header line is read.                                                  *)
(***************************************************************************)
LEMMA HeaderInStep ==
  ASSUME TypeOK, ParseHeader, NEW i, InStep(i)
  PROVE  /\ InStep(i)' /\ EndOfLine = 2
         /\ \E k \in Nat : StreamsFrom(i, k) /\ k + 2 <= HeadSize(i)
<1>1. /\ state = "ExpectHeaders" /\ HasLine /\ state' = state
      /\ Retrieve(EndOfLine) /\ UNCHANGED <<config, sent, wire>>
      /\ \/ IsLine("connection") /\ request' = [request EXCEPT !.connection = Line.value]
         \/ IsLine("length") /\ request' = [request EXCEPT !.length = Line.value]
  BY DEF ParseHeader, clientVars
<1>2. PICK m \in Nat : AtHeader(i, m)
  BY <1>1 DEF InStep, AtRequestLine, AtBody, AtEnd
<1>3. EndOfLine = 2 /\ Line.kind \in {"connection", "length"}
  BY <1>1 DEF IsLine
<1>4. /\ i \in 1 .. sent /\ i \in DOMAIN script
      /\ m + 1 \in 2 .. Len(LinesOf(i))
      /\ Line = LinesOf(i)[m + 1] /\ 2 \in 1 .. Len(buffer)
      /\ 2 <= TokensLeft(Sizes, i, 2 * m + 1)
      /\ (2 * m + 1) + 2 <= HeadSize(i) /\ (2 * m + 1) + 2 <= SizeOf(i)
  BY <1>1, <1>2, <1>3, NextLine
<1>5. /\ StreamsFrom(i, 2 * m + 1) /\ request = ReadSoFar(i, m)
      /\ script[i].flaw # "line" /\ i <= sent
      /\ \A j \in 2 .. m : LinesOf(i)[j].kind # "noise"
  BY <1>2 DEF AtHeader
<1>6. StreamsFrom(i, 2 * (m + 1) + 1)'
  <2>1. (2 * m + 1) + 2 = 2 * (m + 1) + 1
    OBVIOUS
  <2>2. StreamsFrom(i, (2 * m + 1) + 2)'
    BY <1>1, <1>3, <1>4, <1>5, RetrieveStream
  <2> QED
    BY <2>1, <2>2
<1>7. /\ request' = ReadSoFar(i, m + 1)
      /\ \A j \in 2 .. m + 1 : LinesOf(i)[j].kind # "noise"
  BY <1>1, <1>3, <1>4, <1>5, HeaderRead DEF IsLine
<1>8. /\ LinesOf(i)' = LinesOf(i) /\ ReadSoFar(i, m + 1)' = ReadSoFar(i, m + 1)
      /\ script' = script /\ sent' = sent
  BY <1>1, TextStays DEF config
<1>9. m + 1 \in Nat /\ m + 1 \in 1 .. Len(LinesOf(i)) /\ 2 * m + 1 \in Nat
  BY <1>4, HeadFacts
<1>10. AtHeader(i, m + 1)'
  BY <1>1, <1>5, <1>6, <1>7, <1>8, <1>9 DEF AtHeader
<1> QED
  BY <1>3, <1>4, <1>5, <1>9, <1>10 DEF InStep

(***************************************************************************)
(* The end of the head is read, or its length is no number.                *)
(***************************************************************************)
LEMMA EmptyLineInStep ==
  ASSUME TypeOK, ParseEmptyLine, NEW i, InStep(i)
  PROVE  i \in 1 .. sent /\ IF request.length < 0 THEN ~WellFormed(i) ELSE InStep(i)'
<1>1. /\ state = "ExpectHeaders" /\ HasLine /\ EndOfLine = 1
      /\ Retrieve(EndOfLine) /\ UNCHANGED <<config, sent, wire, request>>
  BY DEF ParseEmptyLine, LineIsEmpty, clientVars
<1>2. PICK m \in Nat : AtHeader(i, m)
  BY <1>1 DEF InStep, AtRequestLine, AtBody, AtEnd
<1>3. /\ i \in 1 .. sent /\ i \in DOMAIN script
      /\ m = Len(LinesOf(i))
      /\ 1 \in 1 .. Len(buffer) /\ 2 * m + 1 = HeadSize(i)
      /\ TokensLeft(Sizes, i, 2 * m + 1) = script[i].length + 1
  BY <1>1, <1>2, NextLine
<1>4. /\ StreamsFrom(i, HeadSize(i)) /\ request = ReadSoFar(i, m)
      /\ script[i].flaw # "line" /\ i <= sent
      /\ \A j \in 2 .. m : LinesOf(i)[j].kind # "noise"
  BY <1>2, <1>3 DEF AtHeader
<1>5. /\ request = [id |-> i, version |-> script[i].version,
                    connection |-> script[i].connection,
                    length |-> ContentLength(script[i]), content |-> << >>]
      /\ IF ContentLength(script[i]) < 0
           THEN ~WellFormed(i)
           ELSE WellFormed(i) /\ ContentLength(script[i]) = script[i].length
  BY <1>3, <1>4, HeadRead
<1>6. request.length = ContentLength(script[i])
  BY <1>5
<1>7. CASE request.length < 0
  BY <1>3, <1>5, <1>6, <1>7
<1>8. CASE ~(request.length < 0)
  <2> DEFINE l == script[i].length
  <2>1. WellFormed(i) /\ request.length = l
    BY <1>5, <1>6, <1>8
  <2>9. l \in Nat /\ HeadSize(i) \in Nat /\ SizeOf(i) = HeadSize(i) + l
    BY <1>3, SizeFacts
  <2>10. PICK h \in Nat : h = HeadSize(i)
    BY <2>9
  <2>2. l \in Nat /\ h \in Nat /\ SizeOf(i) = h + l
    BY <2>9, <2>10
  <2>3. IF h + 1 <= SizeOf(i) THEN StreamsFrom(i, h + 1)' ELSE StreamsFrom(i + 1, 1)'
    <3>1. 1 <= TokensLeft(Sizes, i, h) /\ StreamsFrom(i, h)
      BY <1>3, <1>4, <2>2, <2>10
    <3> QED
      BY <1>1, <1>3, <3>1, RetrieveStream
  <2>4. /\ Parsed(i)' = Parsed(i) /\ WellFormed(i)' = WellFormed(i)
        /\ HeadSize(i)' = HeadSize(i) /\ script' = script /\ sent' = sent
    BY <1>1, TextStays DEF config
  <2>5. state' = IF request.length = 0 THEN "ExpectComplete" ELSE "ExpectBody"
    BY <1>8 DEF ParseEmptyLine
  <2>6. request = [Parsed(i) EXCEPT !.content = << >>]
    BY <1>5, <2>1 DEF Parsed
  <2>7. CASE l = 0
    <3>1. BodyOf(i) = << >>
      BY <2>7 DEF BodyOf
    <3>2. request = Parsed(i)
      BY <1>5, <2>1, <3>1 DEF Parsed
    <3>3. StreamsFrom(i + 1, 1)'
      BY <2>2, <2>3, <2>7
    <3>4. AtEnd(i)'
      BY <1>1, <1>4, <2>1, <2>4, <2>5, <2>7, <3>2, <3>3 DEF AtEnd
    <3> QED
      BY <1>3, <1>8, <3>4 DEF InStep
  <2>8. CASE l # 0
    <3>1. StreamsFrom(i, h + 1)' /\ l > 0
      BY <2>2, <2>3, <2>8
    <3>2. StreamsFrom(i, HeadSize(i) + 1)'
      BY <2>4, <2>10, <3>1
    <3>3. AtBody(i)'
      BY <1>1, <1>4, <2>1, <2>4, <2>5, <2>6, <2>8, <3>1, <3>2 DEF AtBody
    <3> QED
      BY <1>3, <1>8, <3>3 DEF InStep
  <2> QED
    BY <2>7, <2>8
<1> QED
  BY <1>7, <1>8

(***************************************************************************)
(* A header line that is refused is malformed.                             *)
(***************************************************************************)
LEMMA BadHeaderInStep ==
  ASSUME TypeOK, ParseBadHeader, NEW i, InStep(i)
  PROVE  i \in 1 .. sent /\ ~WellFormed(i)
<1>1. /\ state = "ExpectHeaders" /\ HasLine
      /\ ~IsLine("connection") /\ ~IsLine("length") /\ EndOfLine # 1
  BY DEF ParseBadHeader, LineIsEmpty
<1>2. PICK m \in Nat : AtHeader(i, m)
  BY <1>1 DEF InStep, AtRequestLine, AtBody, AtEnd
<1>3. /\ i \in 1 .. sent /\ i \in DOMAIN script /\ EndOfLine = 2
      /\ m + 1 \in 2 .. Len(LinesOf(i)) /\ Line = LinesOf(i)[m + 1]
  BY <1>1, <1>2, NextLine
<1>4. Line.kind \notin {"connection", "length"}
  BY <1>1, <1>3 DEF IsLine
<1>5. script[i].flaw = "header"
  BY <1>3, <1>4, HeaderRead
<1> QED
  BY <1>3, <1>5 DEF WellFormed

(***************************************************************************)
(* The body is read when it is all there.                                  *)
(***************************************************************************)
LEMMA BodyInStep ==
  ASSUME TypeOK, ParseBody, NEW i \in Nat \ {0}, InStep(i)
  PROVE  InStep(i)'
<1>1. state = "ExpectBody" /\ UNCHANGED <<config, sent, wire>>
  BY DEF ParseBody, clientVars
<1>2. AtBody(i)
  BY <1>1 DEF InStep, AtRequestLine, AtHeader, AtEnd
<1> DEFINE l == script[i].length
           k == HeadSize(i) + 1
<1>3. /\ i <= sent /\ WellFormed(i) /\ l > 0 /\ request = [Parsed(i) EXCEPT !.content = << >>]
      /\ StreamsFrom(i, k)
  BY <1>2 DEF AtBody
<1>4. request.length = l
  BY <1>3 DEF Parsed
<1>5. CASE /\ Len(buffer) >= request.length
           /\ request' = [request EXCEPT !.content = SubSeq(buffer, 1, request.length)]
           /\ Retrieve(request.length) /\ state' = "ExpectComplete"
  <2>1. Len(buffer) \in Nat /\ buffer \in Seq(Place)
    BY StreamFacts DEF TypeOK
  <2>2. buffer # << >>
    <3>1. i \in DOMAIN script
      BY <1>3, ScriptFacts
    <3>2. l \in Nat
      BY <3>1, SizeFacts
    <3> QED
      BY <1>3, <1>4, <1>5, <2>1, <3>2
  <2>3. /\ i \in DOMAIN script /\ BufferBegins(i, k)
        /\ TokensLeft(Sizes, i, k) = (SizeOf(i) - k) + 1
    BY <1>3, <2>2, InBuffer
  <2>4. /\ l \in Nat /\ HeadSize(i) \in Nat /\ SizeOf(i) = HeadSize(i) + l
    BY <2>3, SizeFacts
  <2>5. TokensLeft(Sizes, i, k) = l /\ l \in 1 .. Len(buffer) /\ ~(k + l <= SizeOf(i))
    BY <1>3, <1>4, <1>5, <2>1, <2>3, <2>4
  <2>6. SubSeq(buffer, 1, l) = BodyOf(i)
    <3>1. BodyOf(i) = [j \in 1 .. l |-> <<i, HeadSize(i) + j>>]
      BY DEF BodyOf
    <3>2. \A j \in 1 .. l : buffer[j] = <<i, (k + j) - 1>> /\ (k + j) - 1 = HeadSize(i) + j
      <4> HIDE DEF k, l
      <4>1. \A j \in 1 .. l : j \in 1 .. Len(buffer) /\ j <= TokensLeft(Sizes, i, k)
        BY <2>1, <2>4, <2>5
      <4>2. \A j \in 1 .. l : (k + j) - 1 = HeadSize(i) + j
        BY <2>4 DEF k
      <4> QED
        BY <2>3, <4>1, <4>2 DEF BufferBegins
    <3>3. SubSeq(buffer, 1, l) = [j \in 1 .. l |-> buffer[j]]
      <4> HIDE DEF l
      <4> QED
        BY <2>1, <2>4
    <3> QED
      BY <3>1, <3>2, <3>3
  <2>7. request' = Parsed(i)
    <3>1. request' = [request EXCEPT !.content = BodyOf(i)]
      BY <1>4, <1>5, <2>6
    <3> QED
      BY <1>3, <3>1 DEF Parsed
  <2>8. StreamsFrom(i + 1, 1)'
    <3>1. l \in 1 .. Len(buffer) /\ Retrieve(l) /\ StreamsFrom(i, k)
          /\ l <= TokensLeft(Sizes, i, k) /\ ~(k + l <= SizeOf(i))
      BY <1>3, <1>4, <1>5, <2>4, <2>5
    <3> HIDE DEF l, k
    <3> QED
      BY <1>1, <3>1, RetrieveStream
  <2>9. /\ Parsed(i)' = Parsed(i) /\ WellFormed(i)' = WellFormed(i)
        /\ script' = script /\ sent' = sent
    BY <1>1, TextStays DEF config
  <2>10. AtEnd(i)'
    BY <1>3, <1>5, <2>7, <2>8, <2>9 DEF AtEnd
  <2> QED
    BY <2>10 DEF InStep
<1>6. CASE UNCHANGED <<request, buffer, state>>
  BY <1>1, <1>6, StaysThere DEF config, Rest
<1> QED
  BY <1>5, <1>6 DEF ParseBody

(***************************************************************************)
(* A complete request is handled, and the parser is at the next.           *)
(***************************************************************************)
LEMMA RequestInStep ==
  ASSUME TypeOK, Control, OnRequest, NEW i \in Nat, InStep(i)
  PROVE  i <= sent /\ WellFormed(i) /\ request = Parsed(i) /\ InStep(i + 1)'
<1>1. state = "ExpectComplete" /\ UNCHANGED <<config, sent, wire, buffer>>
      /\ state' = "ExpectRequestLine" /\ request' = EmptyRequest
  BY DEF Control, OnRequest, reset, clientVars
<1>2. AtEnd(i)
  BY <1>1 DEF InStep, AtRequestLine, AtHeader, AtBody
<1>3. StreamsFrom(i + 1, 1)'
  <2>1. StreamsFrom(i + 1, 1)
    BY <1>2 DEF AtEnd
  <2>2. Sizes' = Sizes /\ sent' = sent /\ Rest' = Rest
    BY <1>1, TextStays DEF config, Rest
  <2> QED
    BY <2>1, <2>2 DEF StreamsFrom
<1>4. AtRequestLine(i + 1)'
  <2>1. EmptyRequest' = EmptyRequest
    BY DEF EmptyRequest, NoId
  <2> QED
    BY <1>1, <1>3, <2>1 DEF AtRequestLine
<1> QED
  BY <1>2, <1>4 DEF AtEnd, InStep

(***************************************************************************)
(* What the client sends does not matter to the parser before it gets      *)
(* there.                                                                  *)
(***************************************************************************)
LEMMA SendInStep ==
  ASSUME TypeOK, ClientSend, NEW i \in Nat, InStep(i)
  PROVE  InStep(i)'
<1>1. UNCHANGED <<config, buffer, state, request>>
  BY DEF ClientSend
<1> DEFINE z == SizeOf(sent + 1)
           more == [k \in 1 .. z |-> <<sent + 1, k>>]
<1>2. /\ sent + 1 \in DOMAIN script /\ z \in Nat \ {0} /\ Sizes[sent + 1] = z
      /\ more \in Seq(Place) /\ wire' = wire \o more /\ wire' \in Seq(Place)
      /\ sent' = sent + 1 /\ sent \in Nat
  BY SendStep, ScriptFacts
<1>3. Len(more) = z /\ \A j \in 1 .. z : more[j] = <<sent + 1, j>>
  <2>1. DOMAIN more = 1 .. z /\ \A j \in 1 .. z : more[j] = <<sent + 1, j>>
    OBVIOUS
  <2> HIDE DEF more, z
  <2>2. Len(more) \in Nat /\ DOMAIN more = 1 .. Len(more)
    BY <1>2, LenProperties
  <2> QED
    BY <1>2, <2>1, <2>2
<1> HIDE DEF more, z
<1>4. buffer \in Seq(Place) /\ wire \in Seq(Place) /\ Rest \in Seq(Place)
  BY StreamFacts DEF TypeOK
<1>5. Rest' = Rest \o more
  <2>1. (buffer \o wire) \o more = buffer \o (wire \o more)
    BY <1>2, <1>4, ConcatAssociative, SMTT(60)
  <2>2. Rest' = buffer \o (wire \o more)
    BY <1>1, <1>2 DEF Rest
  <2> QED
    BY <2>1, <2>2 DEF Rest
<1>6. /\ Rest \o more \in Seq(Place) /\ Len(Rest \o more) = Len(Rest) + Len(more)
      /\ \A j \in 1 .. Len(Rest) + Len(more) :
           (Rest \o more)[j] = IF j <= Len(Rest) THEN Rest[j] ELSE more[j - Len(Rest)]
  BY <1>2, <1>4, ConcatProperties
<1> DEFINE t == Rest \o more
           s == Rest
<1>7. /\ t \in Seq(Place) /\ Len(t) = Len(s) + z
      /\ \A j \in 1 .. Len(s) + z : t[j] = IF j <= Len(s) THEN s[j] ELSE more[j - Len(s)]
  BY <1>3, <1>6
<1>8. s \in Seq(Place) /\ Len(s) \in Nat /\ DOMAIN s = 1 .. Len(s)
  BY <1>4, LenProperties
<1>9. Rest' = t
  BY <1>5
<1>10. \A a \in 1 .. sent + 1 : Sizes[a] \in Nat \ {0}
  <2>1. \A a \in 1 .. sent : Sizes[a] \in Nat \ {0}
    BY StreamFacts
  <2>2. \A a \in 1 .. sent + 1 : a \in 1 .. sent \/ a = sent + 1
    BY <1>2
  <2> QED
    BY <1>2, <2>1, <2>2
<1>11. ASSUME NEW a, NEW k, IsStream(s, a, k, sent, Sizes)
       PROVE  IsStream(t, a, k, sent + 1, Sizes)
  <2> HIDE DEF s, t
  <2>1. \A j \in DOMAIN s : t[j] = s[j]
    BY <1>2, <1>7, <1>8
  <2>2. \A j \in 1 .. z : t[Len(s) + j] = <<sent + 1, j>>
    <3> SUFFICES ASSUME NEW j \in 1 .. z
                 PROVE  t[Len(s) + j] = <<sent + 1, j>>
      OBVIOUS
    <3>1. /\ Len(s) + j \in 1 .. Len(s) + z /\ ~(Len(s) + j <= Len(s))
          /\ (Len(s) + j) - Len(s) = j
      BY <1>2, <1>8
    <3> QED
      BY <1>3, <1>7, <3>1
  <2> QED
    BY <1>2, <1>7, <1>8, <1>10, <1>11, <2>1, <2>2, StreamGrows
<1> HIDE DEF s, t
<1>12. /\ \A a : LinesOf(a)' = LinesOf(a) /\ HeadSize(a)' = HeadSize(a)
       /\ \A a : Parsed(a)' = Parsed(a) /\ WellFormed(a)' = WellFormed(a)
       /\ \A a, m : ReadSoFar(a, m)' = ReadSoFar(a, m)
       /\ Sizes' = Sizes
  BY <1>1, TextStays DEF config
<1>13. \A a, k : StreamsFrom(a, k) => StreamsFrom(a, k)'
  BY <1>2, <1>9, <1>11, <1>12 DEF StreamsFrom, s
<1>14. i <= sent => i <= sent'
  BY <1>2
<1>15. script' = script /\ state' = state /\ request' = request
  BY <1>1 DEF config
<1>16. AtRequestLine(i) => AtRequestLine(i)'
  BY <1>13, <1>15 DEF AtRequestLine, EmptyRequest, NoId
<1>17. \A m : AtHeader(i, m) => AtHeader(i, m)'
  BY <1>12, <1>13, <1>14, <1>15 DEF AtHeader
<1>18. AtBody(i) => AtBody(i)'
  BY <1>12, <1>13, <1>14, <1>15 DEF AtBody
<1>19. AtEnd(i) => AtEnd(i)'
  BY <1>12, <1>13, <1>14, <1>15 DEF AtEnd
<1> QED
  BY <1>16, <1>17, <1>18, <1>19 DEF InStep

-----------------------------------------------------------------------------
(* The invariant.                                                          *)

(***************************************************************************)
(* In step, the request the parser is at, and what is behind it.           *)
(***************************************************************************)
LEMMA AtRequest ==
  ASSUME TypeOK, ParserInStep, StaysInStep
  PROVE  \E i \in Nat \ {0} : /\ i = Len(handled) + 1 /\ i <= sent + 1 /\ InStep(i)
                              /\ \A j \in 1 .. Len(handled) :
                                   handled[j] = Parsed(j) /\ WellFormed(j)
<1>1. Len(handled) \in Nat /\ DOMAIN handled = 1 .. Len(handled) /\ sent \in Nat
  BY LenProperties, ScriptFacts DEF TypeOK
<1>2. /\ Len(handled) <= sent /\ \A i \in Nat : i = Len(handled) + 1 => InStep(i)
      /\ \A j \in DOMAIN handled : handled[j] = Parsed(j) /\ WellFormed(j)
  BY DEF ParserInStep
<1>3. PICK i \in Nat \ {0} : i = Len(handled) + 1
  BY <1>1
<1> QED
  BY <1>1, <1>2, <1>3

(***************************************************************************)
(* A malformed request takes the connection down.                          *)
(***************************************************************************)
LEMMA Refused ==
  ASSUME TypeOK, BadRequest, script' = script, NEW i \in 1 .. sent, ~WellFormed(i)
  PROVE  ~StaysInStep'
<1>1. conn' # "connected"
  BY BadRequestStep
<1>2. i \in DOMAIN script
  BY ScriptFacts
<1> QED
  BY <1>1, <1>2 DEF StaysInStep, WellFormed

(***************************************************************************)
(* A connection does not come up again.                                    *)
(***************************************************************************)
LEMMA StaysDown ==
  ASSUME [Next]_vars
  PROVE  script' = script /\ splits' = splits /\ (StaysInStep' => StaysInStep)
<1>1. script' = script /\ splits' = splits
  BY DEF Next, on_message, Parse, Receive, ParseNoLine, ParseRequestLine, ParseHeader,
    ParseEmptyLine, ParseBadHeader, ParseBody, ParseComplete, OnRequest, PeerCloses,
    ClientSend, clientVars, config, vars
<1>2. conn' = "connected" => conn = "connected"
  <2>1. CASE BadRequest
    BY <2>1 DEF BadRequest, shutdown
  <2>2. CASE OnRequest
    <3>1. conn' = conn \/ shutdown
      BY <2>2 DEF OnRequest
    <3> QED
      BY <3>1 DEF shutdown
  <2> QED
    BY <2>1, <2>2 DEF Next, on_message, Parse, Receive, ParseNoLine, ParseRequestLine,
      ParseHeader, ParseEmptyLine, ParseBadHeader, ParseBody, ParseComplete, PeerCloses,
      ClientSend, vars
<1> QED
  BY <1>1, <1>2 DEF StaysInStep, WellFormed

(***************************************************************************)
(* The parser stays in step.                                               *)
(***************************************************************************)
LEMMA ParserStep ==
  ASSUME TypeOK, Control, ParserInStep, [Next]_vars
  PROVE  ParserInStep'
<1> SUFFICES ASSUME StaysInStep'
             PROVE  /\ Len(handled') <= sent'
                    /\ \A j \in DOMAIN handled' : handled'[j] = Parsed(j)' /\ WellFormed(j)'
                    /\ \A n \in Nat : n = Len(handled') + 1 => InStep(n)'
  BY DEF ParserInStep
<1>1. StaysInStep /\ script' = script
  BY StaysDown
<1>2. PICK i \in Nat \ {0} :
        /\ i = Len(handled) + 1 /\ i <= sent + 1 /\ InStep(i)
        /\ \A j \in 1 .. Len(handled) : handled[j] = Parsed(j) /\ WellFormed(j)
  BY <1>1, AtRequest
<1>3. /\ Len(handled) \in Nat /\ sent \in Nat /\ handled \in Seq(ParsedRequest)
      /\ DOMAIN handled = 1 .. Len(handled) /\ request \in ParsedRequest
  BY LenProperties, ScriptFacts DEF TypeOK
<1>4. \A j : Parsed(j)' = Parsed(j) /\ WellFormed(j)' = WellFormed(j)
  BY <1>1, TextStays
<1>5. ASSUME handled' = handled, sent' \in Nat, sent' >= sent, InStep(i)'
      PROVE  /\ Len(handled') <= sent'
             /\ \A j \in DOMAIN handled' : handled'[j] = Parsed(j)' /\ WellFormed(j)'
             /\ \A n \in Nat : n = Len(handled') + 1 => InStep(n)'
  <2>1. Len(handled') + 1 = i /\ Len(handled') <= sent'
    BY <1>2, <1>3, <1>5
  <2>2. \A n \in Nat : n = Len(handled') + 1 => InStep(n)'
    BY <1>5, <2>1
  <2> QED
    BY <1>2, <1>3, <1>4, <1>5, <2>1, <2>2
<1>6. ASSUME UNCHANGED <<sent, buffer, wire, state, request>>
      PROVE  InStep(i)'
  BY <1>1, <1>2, <1>6, StaysThere DEF Rest
<1>7. sent >= sent
  BY <1>3
<1>8. CASE ClientSend
  <2>1. InStep(i)' /\ handled' = handled /\ sent' = sent + 1
    BY <1>2, <1>8, SendInStep DEF ClientSend
  <2>2. sent' \in Nat /\ sent' >= sent
    BY <1>3, <2>1
  <2> QED
    BY <1>5, <2>1, <2>2
<1>9. CASE PeerCloses
  BY <1>3, <1>5, <1>6, <1>7, <1>9 DEF PeerCloses, clientVars
<1>10. CASE Receive
  <2>1. UNCHANGED <<sent, state, request, handled>>
    BY <1>10 DEF Receive, clientVars
  <2>2. Rest' = Rest
    <3>1. PICK n \in DOMAIN wire : /\ buffer' = buffer \o SubSeq(wire, 1, n)
                                   /\ wire' = SubSeq(wire, n + 1, Len(wire))
      BY <1>10 DEF Receive
    <3>2. /\ buffer \in Seq(Place) /\ wire \in Seq(Place) /\ n \in 1 .. Len(wire)
      BY StreamFacts DEF TypeOK
    <3>3. \A x, y : Moves(buffer, wire, n, x, y) => x \o y = buffer \o wire
      BY <3>2, Arriving
    <3> QED
      BY <3>1, <3>3 DEF Moves, Rest
  <2>3. InStep(i)'
    BY <1>1, <1>2, <2>1, <2>2, StaysThere
  <2> QED
    BY <1>3, <1>5, <1>7, <2>1, <2>3
<1>11. CASE ParseNoLine
  BY <1>3, <1>5, <1>6, <1>7, <1>11 DEF ParseNoLine, clientVars
<1>12. CASE ParseRequestLine
  <2>1. i \in 1 .. sent /\ IF IsLine("start") THEN InStep(i)' ELSE ~WellFormed(i)
    BY <1>2, <1>12, RequestLineInStep
  <2>2. IsLine("start")
    <3> SUFFICES ASSUME ~IsLine("start")
                 PROVE  FALSE
      OBVIOUS
    <3>1. BadRequest
      BY <1>12 DEF ParseRequestLine
    <3> QED
      BY <1>1, <2>1, <3>1, Refused
  <2>3. handled' = handled /\ sent' = sent
    BY <1>12 DEF ParseRequestLine, clientVars
  <2> QED
    BY <1>3, <1>5, <1>7, <2>1, <2>2, <2>3
<1>13. CASE ParseHeader
  <2>1. InStep(i)'
    BY <1>2, <1>13, HeaderInStep
  <2>2. handled' = handled /\ sent' = sent
    BY <1>13 DEF ParseHeader, clientVars
  <2> QED
    BY <1>3, <1>5, <1>7, <2>1, <2>2
<1>14. CASE ParseEmptyLine
  <2>1. i \in 1 .. sent /\ IF request.length < 0 THEN ~WellFormed(i) ELSE InStep(i)'
    BY <1>2, <1>14, EmptyLineInStep
  <2>2. ~(request.length < 0)
    <3> SUFFICES ASSUME request.length < 0
                 PROVE  FALSE
      OBVIOUS
    <3>1. BadRequest
      <4>1. request.length \in Nat \cup {-1}
        BY DEF TypeOK, ParsedRequest
      <4>2. ~(request.length >= 0)
        BY <4>1
      <4> QED
        BY <1>14, <4>2 DEF ParseEmptyLine
    <3> QED
      BY <1>1, <2>1, <3>1, Refused
  <2>3. handled' = handled /\ sent' = sent
    BY <1>14 DEF ParseEmptyLine, clientVars
  <2> QED
    BY <1>3, <1>5, <1>7, <2>1, <2>2, <2>3
<1>15. CASE ParseBadHeader
  <2>1. i \in 1 .. sent /\ ~WellFormed(i) /\ BadRequest
    BY <1>2, <1>15, BadHeaderInStep DEF ParseBadHeader
  <2> QED
    BY <1>1, <2>1, Refused
<1>16. CASE ParseBody
  <2>1. InStep(i)'
    BY <1>2, <1>16, BodyInStep
  <2>2. handled' = handled /\ sent' = sent
    BY <1>16 DEF ParseBody, clientVars
  <2> QED
    BY <1>3, <1>5, <1>7, <2>1, <2>2
<1>17. CASE ParseComplete
  BY <1>3, <1>5, <1>6, <1>7, <1>17 DEF ParseComplete, clientVars
<1>18. CASE OnRequest
  <2>1. i <= sent /\ WellFormed(i) /\ request = Parsed(i) /\ InStep(i + 1)'
    BY <1>2, <1>18, RequestInStep
  <2>2. handled' = Append(handled, request) /\ sent' = sent
    BY <1>18 DEF OnRequest, clientVars
  <2>3. /\ Len(handled') = i /\ handled'[i] = request
        /\ \A j \in 1 .. Len(handled) : handled'[j] = handled[j]
    BY <1>2, <1>3, <2>2, AppendProperties
  <2>4. DOMAIN handled' = 1 .. i
    BY <1>2, <1>3, <2>2
  <2>5. \A j \in 1 .. i : j \in 1 .. Len(handled) \/ j = i
    BY <1>2, <1>3
  <2>6. \A j \in DOMAIN handled' : handled'[j] = Parsed(j)' /\ WellFormed(j)'
    BY <1>2, <1>4, <2>1, <2>3, <2>4, <2>5
  <2>7. \A n \in Nat : n = Len(handled') + 1 => InStep(n)'
    <3>1. \A n \in Nat : n = Len(handled') + 1 => n = i + 1
      BY <2>3
    <3> QED
      BY <2>1, <3>1
  <2> QED
    BY <2>1, <2>2, <2>3, <2>6, <2>7
<1>19. CASE UNCHANGED vars
  BY <1>3, <1>5, <1>6, <1>7, <1>19 DEF vars, clientVars
<1> QED
  BY <1>8, <1>9, <1>10, <1>11, <1>12, <1>13, <1>14, <1>15, <1>16, <1>17, <1>18, <1>19
  DEF Next, on_message, Parse

(***************************************************************************)
(* A parser in a head that is whole has something to read.                 *)
(***************************************************************************)
LEMMA HeadStep ==
  ASSUME TypeOK, PlacesAreSent, ParserInStep, CutsNoHead, HeadInHand, [Next]_vars
  PROVE  HeadInHand'
<1> SUFFICES ASSUME ~splits', StaysInStep', pc' = "parse", ReadsLines'
             PROVE  buffer' # << >>
  BY DEF HeadInHand
<1>1. StaysInStep /\ ~splits /\ script' = script
  BY StaysDown
<1>2. PICK i \in Nat \ {0} : InStep(i)
  BY <1>1, AtRequest
<1>3. ASSUME UNCHANGED <<pc, state, buffer>>
      PROVE  buffer' # << >>
  BY <1>1, <1>3 DEF HeadInHand, ReadsLines
<1>4. ASSUME NEW k \in Nat, StreamsFrom(i, k), k + 2 <= HeadSize(i), EndOfLine = 2,
             HasLine, Retrieve(EndOfLine), UNCHANGED <<clientVars, wire>>
      PROVE  buffer' # << >>
  <2>1. buffer # << >> /\ Len(buffer) \in Nat
    BY <1>4, StreamFacts DEF HasLine
  <2>2. Len(buffer') = Len(buffer) - 2
    BY <1>4, LineStep
  <2>3. i \in DOMAIN script /\ HeadSize(i) \in Nat
    <3>1. i \in DOMAIN script
      BY <1>4, <2>1, InBuffer
    <3> QED
      BY <3>1, HeadFacts
  <2>4. k <= HeadSize(i)
    BY <1>4, <2>3
  <2>5. (HeadSize(i) - k) + 1 <= Len(buffer)
    BY <1>1, <1>4, <2>1, <2>4, HeadArrived
  <2>6. Len(buffer') >= 1
    BY <1>4, <2>1, <2>2, <2>3, <2>5
  <2> QED
    BY <2>6
<1>5. CASE Receive
  BY <1>5, ReceiveStep
<1>6. CASE ParseRequestLine
  <2>1. HasLine /\ Retrieve(EndOfLine) /\ UNCHANGED <<clientVars, wire>>
    BY <1>6 DEF ParseRequestLine
  <2>2. EndOfLine = 2 /\ StreamsFrom(i, 1) /\ 1 + 2 <= HeadSize(i) /\ 1 \in Nat
    <3>1. 1 + 2 = 3 /\ 1 \in Nat
      OBVIOUS
    <3> QED
      BY <1>2, <1>6, <3>1, RequestLineInStep
  <2> QED
    BY <1>4, <2>1, <2>2
<1>7. CASE ParseHeader
  <2>1. HasLine /\ Retrieve(EndOfLine) /\ UNCHANGED <<clientVars, wire>>
    BY <1>7 DEF ParseHeader
  <2>2. EndOfLine = 2 /\ \E k \in Nat : StreamsFrom(i, k) /\ k + 2 <= HeadSize(i)
    BY <1>2, <1>7, HeaderInStep
  <2> QED
    BY <1>4, <2>1, <2>2
<1>8. CASE ParseEmptyLine
  <2>1. pc' = "idle" \/ state' \in {"ExpectComplete", "ExpectBody"}
    BY <1>8 DEF ParseEmptyLine, BadRequest
  <2> QED
    BY <2>1 DEF ReadsLines
<1>9. CASE ParseNoLine \/ ParseBadHeader
  BY <1>9 DEF ParseNoLine, ParseBadHeader, BadRequest
<1>10. CASE ParseBody
  BY <1>10 DEF ParseBody, ReadsLines
<1>11. CASE ParseComplete \/ OnRequest
  BY <1>11 DEF ParseComplete, OnRequest
<1>12. CASE ClientSend \/ PeerCloses \/ UNCHANGED vars
  BY <1>3, <1>12 DEF ClientSend, PeerCloses, vars
<1> QED
  BY <1>5, <1>6, <1>7, <1>8, <1>9, <1>10, <1>11, <1>12 DEF Next, on_message, Parse

(***************************************************************************)
(* A parser that has a head in hand finds a line in it.                    *)
(***************************************************************************)
LEMMA LineInHand ==
  ASSUME TypeOK, CutsNoHead, HeadInHand, ~splits, StaysInStep, pc = "parse", ReadsLines,
         NEW i \in Nat \ {0}, InStep(i)
  PROVE  HasLine
<1>1. buffer # << >>
  BY DEF HeadInHand
<1>2. CASE AtRequestLine(i)
  <2>1. StreamsFrom(i, 1)
    BY <1>2 DEF AtRequestLine
  <2>2. i \in DOMAIN script
    BY <1>1, <2>1, InBuffer
  <2>3. 1 \in Nat /\ 1 <= HeadSize(i)
    BY <2>2, SizeFacts
  <2> QED
    BY <1>1, <2>1, <2>3, HeadArrived
<1>3. ASSUME NEW m \in Nat, AtHeader(i, m)
      PROVE  HasLine
  <2>1. StreamsFrom(i, 2 * m + 1) /\ m \in 1 .. Len(LinesOf(i))
    BY <1>3 DEF AtHeader
  <2>2. i \in DOMAIN script
    BY <1>1, <2>1, InBuffer
  <2>3. /\ HeadSize(i) = 2 * Len(LinesOf(i)) + 1 /\ m <= Len(LinesOf(i))
        /\ Len(LinesOf(i)) \in Nat
    BY <2>1, <2>2, HeadFacts
  <2>4. 2 * m + 1 \in Nat /\ 2 * m + 1 <= HeadSize(i)
    BY <2>3
  <2> QED
    BY <1>1, <2>1, <2>4, HeadArrived
<1> QED
  BY <1>2, <1>3 DEF InStep, ReadsLines, AtBody, AtEnd

(***************************************************************************)
(* A sequence that is one longer has one more place.                       *)
(***************************************************************************)
LEMMA OneMore ==
  ASSUME NEW n \in Nat
  PROVE  1 .. n \subseteq 1 .. n + 1 /\ \A j \in 1 .. n + 1 : j \in 1 .. n \/ j = n + 1
OBVIOUS

(***************************************************************************)
(* If heads arrive whole, 400 goes only to a client that sent something    *)
(* malformed.                                                              *)
(***************************************************************************)
LEMMA RefusalStep ==
  ASSUME TypeOK, Control, ParserInStep, CutsNoHead, HeadInHand, BadRequestIfHeadsWhole,
         [Next]_vars
  PROVE  BadRequestIfHeadsWhole'
<1> SUFFICES ASSUME ~splits', NEW a \in DOMAIN out', out'[a].status = "bad request"
             PROVE  \E j \in 1 .. sent' : ~WellFormed(j)'
  BY DEF BadRequestIfHeadsWhole, BadRequestOnlyForMalformed
<1>1. script' = script /\ ~splits
  <2>1. script' = script /\ splits' = splits
    BY StaysDown
  <2> QED
    BY <2>1
<1>2. \A j : WellFormed(j)' = WellFormed(j)
  BY <1>1, TextStays
<1>3. sent \in Nat /\ out \in Seq(Responses) /\ Len(out) \in Nat /\ DOMAIN out = 1 .. Len(out)
  BY ScriptFacts, LenProperties DEF TypeOK
<1>4. \A b \in DOMAIN out : out[b].status = "bad request" => \E j \in 1 .. sent : ~WellFormed(j)
  BY <1>1 DEF BadRequestIfHeadsWhole, BadRequestOnlyForMalformed
<1>5. 1 .. sent \subseteq 1 .. sent'
  <2>1. CASE ClientSend
    <3>1. sent' = sent + 1
      BY <2>1 DEF ClientSend
    <3>2. 1 .. sent \subseteq 1 .. sent + 1
      BY <1>3, OneMore, Zenon
    <3> QED
      BY <3>1, <3>2, Zenon
  <2>2. CASE sent' = sent
    BY <2>2
  <2> QED
    BY <2>1, <2>2 DEF Next, on_message, Parse, Receive, ParseNoLine, ParseRequestLine,
      ParseHeader, ParseEmptyLine, ParseBadHeader, ParseBody, ParseComplete, OnRequest,
      PeerCloses, clientVars, vars
<1>6. CASE out' = out
  BY <1>2, <1>4, <1>5, <1>6
<1>7. CASE OnRequest
  <2>1. PICK close : send([of |-> request.id, status |-> "ok", close |-> close])
    BY <1>7 DEF OnRequest
  <2> DEFINE ok == [of |-> request.id, status |-> "ok", close |-> close]
  <2>2. ok.status = "ok"
    OBVIOUS
  <2>3. out' = out \/ out' = Append(out, ok)
    BY <2>1 DEF send
  <2> HIDE DEF ok
  <2>4. CASE out' = Append(out, ok)
    <3> DEFINE S == Responses \cup {ok}
    <3>3. out \in Seq(S) /\ ok \in S
      BY <1>3, SeqMonotonic
    <3> HIDE DEF S
    <3>1. /\ Append(out, ok) \in Seq(S) /\ Len(Append(out, ok)) = Len(out) + 1
          /\ Append(out, ok)[Len(out) + 1] = ok
          /\ \A b \in 1 .. Len(out) : Append(out, ok)[b] = out[b]
      BY <3>3, AppendProperties, ZenonT(40)
    <3>4. DOMAIN Append(out, ok) = 1 .. Len(out) + 1
      BY <3>1, LenProperties
    <3>5. a \in 1 .. Len(out) \/ a = Len(out) + 1
      <4>1. a \in 1 .. Len(out) + 1
        BY <2>4, <3>4, Zenon
      <4> QED
        BY <1>3, <4>1, OneMore, Zenon
    <3>2. a \in DOMAIN out /\ out[a].status = "bad request"
      BY <1>3, <2>2, <2>4, <3>1, <3>5
    <3> QED
      BY <1>2, <1>4, <1>5, <3>2
  <2> QED
    BY <1>6, <2>3, <2>4
<1>8. CASE BadRequest /\ conn = "connected" /\ Parse
  <2>1. StaysInStep
    BY <1>8 DEF StaysInStep
  <2>2. PICK i \in Nat \ {0} : InStep(i)
    BY <2>1, AtRequest
  <2>3. pc' = "idle" /\ conn' # "connected"
    BY <1>8, BadRequestStep
  <2>4. i \in 1 .. sent /\ ~WellFormed(i)
    <3>1. CASE ParseNoLine
      <4>1. pc = "parse" /\ ReadsLines /\ ~HasLine
        BY <3>1 DEF ParseNoLine
      <4> QED
        BY <1>1, <2>1, <2>2, <4>1, LineInHand
    <3>2. CASE ParseRequestLine
      <4>1. ~IsLine("start")
        BY <1>8, <2>3, <3>2 DEF ParseRequestLine
      <4> QED
        BY <2>2, <3>2, <4>1, RequestLineInStep
    <3>3. CASE ParseEmptyLine
      <4>1. request.length < 0
        BY <1>8, <2>3, <3>3 DEF ParseEmptyLine
      <4> QED
        BY <2>2, <3>3, <4>1, EmptyLineInStep
    <3>4. CASE ParseBadHeader
      BY <2>2, <3>4, BadHeaderInStep
    <3>5. CASE ParseHeader \/ ParseBody \/ ParseComplete
      BY <1>8, <2>3, <3>5 DEF ParseHeader, ParseBody, ParseComplete
    <3> QED
      BY <1>8, <3>1, <3>2, <3>3, <3>4, <3>5 DEF Parse
  <2> QED
    BY <1>2, <1>5, <2>4
<1>9. CASE Parse
  <2>1. CASE BadRequest
    <3>1. out' = out \/ conn = "connected"
      BY <2>1 DEF BadRequest, send
    <3> QED
      BY <1>6, <1>8, <1>9, <2>1, <3>1
  <2>2. CASE ~BadRequest
    BY <1>6, <1>9, <2>2 DEF Parse, ParseNoLine, ParseRequestLine, ParseHeader,
      ParseEmptyLine, ParseBadHeader, ParseBody, ParseComplete
  <2> QED
    BY <2>1, <2>2
<1>10. CASE ClientSend \/ PeerCloses \/ Receive \/ UNCHANGED vars
  BY <1>6, <1>10 DEF ClientSend, PeerCloses, Receive, vars
<1> QED
  BY <1>7, <1>9, <1>10 DEF Next, on_message

(***************************************************************************)
(* Functions on 1 .. n are sequences of this length.                       *)
(***************************************************************************)
LEMMA FunctionAsSeq ==
  ASSUME NEW S, NEW n \in Nat, NEW f, f \in [1 .. n -> S]
  PROVE  f \in Seq(S) /\ Len(f) = n
<1>1. f \in Seq(S)
  BY SeqDef, Zenon
<1>2. Len(f) \in Nat /\ DOMAIN f = 1 .. Len(f)
  BY <1>1, LenProperties
<1>3. 1 .. Len(f) = 1 .. n
  BY <1>2
<1> DEFINE l == Len(f)
<1>4. l \in Nat /\ 1 .. l = 1 .. n
  BY <1>2, <1>3
<1> HIDE DEF l
<1>5. \A a, b \in Nat : 1 .. a = 1 .. b => a = b
  OBVIOUS
<1>6. l = n
  BY <1>4, <1>5
<1> QED
  BY <1>1, <1>6 DEF l

(***************************************************************************)
(* A new connection.                                                       *)
(***************************************************************************)
LEMMA InitInvariant == Init => IInv
<1> SUFFICES ASSUME Init
             PROVE  IInv
  OBVIOUS
<1>1. script \in Seq(Requests) /\ Len(script) \in Nat /\ Len(script) <= MaxRequests
  <2>1. script \in UNION {[1 .. m -> Requests] : m \in 0 .. MaxRequests}
    BY DEF Init, BoundedSeq, SeqOf
  <2>2. PICK m \in 0 .. MaxRequests : script \in [1 .. m -> Requests]
    BY <2>1
  <2>3. m \in Nat /\ m <= MaxRequests
    BY HttpAssumption
  <2> QED
    BY <2>2, <2>3, FunctionAsSeq
<1>2. /\ sent = 0 /\ wire = << >> /\ buffer = << >> /\ state = "ExpectRequestLine"
      /\ request = EmptyRequest /\ pc = "idle" /\ conn = "connected"
      /\ handled = << >> /\ out = << >> /\ splits \in BOOLEAN /\ pipelines \in BOOLEAN
  BY DEF Init
<1>3. TypeOK
  <2>1. EmptyRequest \in ParsedRequest
    <3>1. << >> \in Seq(Place) /\ 0 \in 0 .. MaxRequests
      BY EmptySeq, HttpAssumption
    <3> QED
      BY <3>1 DEF EmptyRequest, ParsedRequest, NoId
  <2>2. /\ << >> \in Seq(Place) /\ << >> \in Seq(ParsedRequest) /\ << >> \in Seq(Responses)
    BY EmptySeq
  <2>3. 0 \in 0 .. Len(script)
    BY <1>1
  <2> QED
    BY <1>1, <1>2, <2>1, <2>2, <2>3 DEF TypeOK, ReadsLines
<1>4. Control
  BY <1>2 DEF Control
<1>5. PlacesAreSent
  BY <1>2 DEF PlacesAreSent, KnownPlaces
<1>6. ParserInStep
  <2>1. Rest = << >>
    BY <1>2 DEF Rest
  <2>2. StreamsFrom(1, 1)
    BY <1>2, <2>1 DEF StreamsFrom, IsStream, HoldsPlaces, HoldsWhole, HoldsAll
  <2>3. InStep(1)
    BY <1>2, <2>2 DEF InStep, AtRequestLine
  <2>4. Len(handled) = 0 /\ DOMAIN handled = {}
    BY <1>2
  <2> QED
    BY <1>2, <2>3, <2>4 DEF ParserInStep
<1>7. CutsNoHead /\ HeadInHand
  BY <1>2 DEF CutsNoHead, HeadInHand
<1>8. AnswersInOrder /\ BadRequestIfHeadsWhole
  BY <1>2 DEF AnswersInOrder, BadRequestIfHeadsWhole, BadRequestOnlyForMalformed
<1> QED
  BY <1>3, <1>4, <1>5, <1>6, <1>7, <1>8 DEF IInv

(***************************************************************************)
(* The invariant holds as long as the connection lasts.                    *)
(***************************************************************************)
THEOREM Invariance == Spec => []IInv
<1>1. Init => IInv
  BY InitInvariant
<1>2. IInv /\ [Next]_vars => IInv'
  <2> SUFFICES ASSUME IInv, [Next]_vars
               PROVE  IInv'
    OBVIOUS
  <2>1. /\ TypeOK /\ Control /\ PlacesAreSent /\ ParserInStep /\ CutsNoHead
        /\ HeadInHand /\ AnswersInOrder /\ BadRequestIfHeadsWhole
    BY DEF IInv
  <2>2. TypeOK' /\ Control'
    BY <2>1, TypeStep, ControlStep
  <2>3. PlacesAreSent' /\ CutsNoHead'
    BY <2>1, BufferStep
  <2>4. ParserInStep' /\ HeadInHand'
    BY <2>1, ParserStep, HeadStep
  <2>5. AnswersInOrder' /\ BadRequestIfHeadsWhole'
    BY <2>1, AnswersStep, RefusalStep
  <2> QED
    BY <2>2, <2>3, <2>4, <2>5 DEF IInv
<1> QED
  BY <1>1, <1>2, PTL DEF Spec

(***************************************************************************)
(* The variables of the connection keep their types.                       *)
(***************************************************************************)
THEOREM TypeCorrect == Spec => []TypeOK
<1>1. IInv => TypeOK
  BY DEF IInv
<1> QED
  BY <1>1, Invariance, PTL

(***************************************************************************)
(* However the stream is cut, the handler gets the client's requests, in   *)
(* order, each as it was sent (parse_request, on_request and reset).       *)
(***************************************************************************)
THEOREM HandlersSeeTheRequests == Spec => []HandledIsPrefix
<1>1. IInv => HandledIsPrefix
  <2> SUFFICES ASSUME IInv, StaysInStep
               PROVE  /\ IsPrefix(handled, [i \in DOMAIN script |-> Parsed(i)])
                      /\ \A i \in DOMAIN handled : WellFormed(i)
    BY DEF HandledIsPrefix, StaysInStep
  <2>1. /\ TypeOK /\ Len(handled) <= sent
        /\ \A j \in DOMAIN handled : handled[j] = Parsed(j) /\ WellFormed(j)
    BY DEF IInv, ParserInStep
  <2>2. /\ handled \in Seq(ParsedRequest) /\ Len(handled) \in Nat
        /\ DOMAIN handled = 1 .. Len(handled)
    BY <2>1, LenProperties DEF TypeOK
  <2>3. /\ Len(script) \in Nat /\ DOMAIN script = 1 .. Len(script)
        /\ sent \in Nat /\ sent <= Len(script)
    BY <2>1, ScriptFacts
  <2> DEFINE all == [i \in DOMAIN script |-> Parsed(i)]
             S == {all[i] : i \in DOMAIN script}
             n == Len(handled)
  <2>4. n \in Nat /\ n <= Len(script)
    BY <2>1, <2>2, <2>3
  <2>5. all \in [1 .. Len(script) -> S]
    BY <2>3
  <2>6. \A i \in 1 .. n : i \in DOMAIN script /\ all[i] = handled[i]
    BY <2>1, <2>2, <2>3, <2>4
  <2> HIDE DEF all, S
  <2>8. Len(all) = Len(script)
    BY <2>3, <2>5, FunctionAsSeq
  <2>9. SubSeq(handled, 1, n) = [i \in 1 .. n |-> handled[i]]
    <3> HIDE DEF n
    <3> QED
      BY <2>4
  <2>10. SubSeq(all, 1, n) = [i \in 1 .. n |-> all[i]]
    <3> HIDE DEF n
    <3> QED
      BY <2>4
  <2>11. SubSeq(handled, 1, n) = SubSeq(all, 1, n)
    BY <2>6, <2>9, <2>10
  <2>12. IsPrefix(handled, all)
    BY <2>4, <2>8, <2>11 DEF IsPrefix
  <2> QED
    BY <2>1, <2>12 DEF all
<1> QED
  BY <1>1, Invariance, PTL

(***************************************************************************)
(* The responses come in the order of the requests, one for each (send and *)
(* shutdown in on_request and on_message).                                 *)
(***************************************************************************)
THEOREM AnswersComeInOrder == Spec => []AnswersInOrder
<1>1. IInv => AnswersInOrder
  BY DEF IInv
<1> QED
  BY <1>1, Invariance, PTL

(***************************************************************************)
(* If the network cuts no heads, on_message answers 400 only to a client   *)
(* that sent something malformed.                                          *)
(***************************************************************************)
THEOREM WholeHeadsAreNotRefused == Spec => []BadRequestIfHeadsWhole
<1>1. IInv => BadRequestIfHeadsWhole
  BY DEF IInv
<1> QED
  BY <1>1, Invariance, PTL
=============================================================================
