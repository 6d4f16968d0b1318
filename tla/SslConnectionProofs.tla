------------------------- MODULE SslConnectionProofs -------------------------
(***************************************************************************)
(* Proofs about SslConnection, for any connections, versions, offers and   *)
(* numbers of requests.                                                    *)
(***************************************************************************)
EXTENDS SslConnection, SequenceTheorems, TLAPS

(* What a client has sent and OpenSSL has not consumed: on the wire and in *)
(* the read BIO.  And the requests that have come out of OpenSSL.          *)
Stream(c) == read_bio_[c] \o toServer[c]
Taken(c)  == handled[c] \o decrypted_buffer_[c]

(***************************************************************************)
(* The thread decrypts for a connection whose handshake is done.           *)
(***************************************************************************)
Established ==
  /\ \A c \in Conns : state_[c] = "ESTABLISHED" => tls[c] = "done"
  /\ pc = "decrypt" => state_[cur] = "ESTABLISHED"

(***************************************************************************)
(* A failure that leaves one entry in the error queue leaves none, once    *)
(* handle_error or handle_handshake has taken one out.                     *)
(***************************************************************************)
QueueIsClean == leaves = 1 => errors = 0

(***************************************************************************)
(* What ends a session is only sent by a client that is done.              *)
(***************************************************************************)
Ends(m) == m.kind \in {"close_notify", "noise"}

EndIsLast(c) == \A i \in DOMAIN Stream(c) : Ends(Stream(c)[i]) => client[c] = "done"

(***************************************************************************)
(* The handshake as both sides see it: the server's flight is not there    *)
(* before the hello is consumed, and a client that has finished has its    *)
(* last handshake message ahead of all that follows.                       *)
(***************************************************************************)
FinishIsNext(s) == Len(s) >= 2 /\ s[2] = Msg("finish")

HandshakeOrder(c) ==
  /\ client[c] = "start" => tls[c] = "accept" /\ Stream(c) = << >>
  /\ client[c] = "hello" /\ tls[c] = "accept" => Stream(c) = Cut(Msg("hello"))
  /\ client[c] = "hello" /\ tls[c] = "flight" => Stream(c) = << >>
  /\ client[c] = "finished" => tls[c] # "accept"
  /\ client[c] = "finished" /\ tls[c] = "flight" => FinishIsNext(Stream(c))
  /\ tls[c] = "accept" => toClient[c] = << >> /\ write_bio_[c] = << >>

(***************************************************************************)
(* So no request can be the message on which a handshake fails.            *)
(***************************************************************************)
NoRequests(s) == \A i \in DOMAIN s : ~IsRequest(s[i])

RequestsComeLast(c) ==
  /\ tls[c] = "accept" => NoRequests(Stream(c))
  /\ tls[c] = "flight" => NoRequests(Stream(c)) \/ FinishIsNext(Stream(c))

(***************************************************************************)
(* A message is in the stream in two parts, a request is the second.       *)
(***************************************************************************)
Aligned(s) == \A i \in DOMAIN s : IsRequest(s[i]) => i % 2 = 0

InTwoParts(c) == Len(Stream(c)) % 2 = 0 /\ Aligned(Stream(c))

(***************************************************************************)
(* What NothingLostInTheBios says of one connection; and nothing comes out *)
(* that was not asked.                                                     *)
(***************************************************************************)
Complete(c) ==
  /\ \A i \in DOMAIN Taken(c) : Taken(c)[i] = Request(i)
  /\ Carries(Stream(c), Len(Taken(c)) + 1, asked[c])
  /\ Len(Taken(c)) <= asked[c]

InOrder(c) ==
  EndIsLast(c) /\ HandshakeOrder(c) /\ RequestsComeLast(c) /\ InTwoParts(c) /\ Complete(c)

IInv ==
  /\ TypeOK
  /\ Established
  /\ QueueIsClean
  /\ NoForeignError
  /\ \A c \in Conns : InOrder(c)

-----------------------------------------------------------------------------
(* Lemmas about a stream of messages that are cut in two.                  *)

(* A stream after its first message is consumed.                           *)
Rest(s) == SubSeq(s, 3, Len(s))

(***************************************************************************)
(* What is appended behind is appended, and what leaves the front of one   *)
(* sequence for the end of the one before it stays where it is.            *)
(***************************************************************************)
LEMMA AppendOfConcat ==
  ASSUME NEW S, NEW s \in Seq(S), NEW t \in Seq(S), NEW e \in S
  PROVE  s \o Append(t, e) = Append(s \o t, e)
<1>1. Append(t, e) = t \o << e >> /\ << e >> \in Seq(S)
  BY AppendIsConcat
<1>2. s \o t \in Seq(S)
  BY ConcatProperties
<1>3. Append(s \o t, e) = (s \o t) \o << e >>
  BY <1>2, AppendIsConcat
<1> QED
  BY <1>1, <1>3, ConcatAssociative

(***************************************************************************)
(* The head of a sequence may go to the end of the one before it.          *)
(***************************************************************************)
LEMMA Shifting ==
  ASSUME NEW S, NEW s \in Seq(S), NEW t \in Seq(S), t # << >>
  PROVE  Append(s, Head(t)) \o Tail(t) = s \o t
<1>1. Head(t) \in S /\ Tail(t) \in Seq(S) /\ t = << Head(t) >> \o Tail(t)
  <2>1. Len(t) \in Nat \ {0} /\ 1 \in 1 .. Len(t) /\ Len(t) \in 1 .. Len(t)
    BY EmptySeq
  <2>2. t = << t[1] >> \o SubSeq(t, 1 + 1, Len(t))
    BY <2>1, SubSeqRecursiveFirst, SubSeqFull
  <2>3. Tail(t) = SubSeq(t, 2, Len(t)) /\ Head(t) = t[1]
    BY TailIsSubSeq
  <2> QED
    BY <2>2, <2>3, HeadTailProperties
<1>2. Append(s, Head(t)) = s \o << Head(t) >> /\ << Head(t) >> \in Seq(S)
  BY <1>1, AppendIsConcat
<1> DEFINE h == << Head(t) >>
           r == Tail(t)
<1>3. h \in Seq(S) /\ r \in Seq(S)
  BY <1>1, <1>2
<1> HIDE DEF h, r
<1>4. (s \o h) \o r = s \o (h \o r)
  BY <1>3, ConcatAssociative, SMTT(60)
<1> QED
  BY <1>1, <1>2, <1>4 DEF h, r

(***************************************************************************)
(* A message that is sent comes at the end, in two parts.                  *)
(***************************************************************************)
LEMMA Sending ==
  ASSUME NEW s \in Seq(FromClient), NEW m \in FromClient
  PROVE  /\ s \o Cut(m) \in Seq(FromClient)
         /\ Len(s \o Cut(m)) = Len(s) + 2
         /\ \A i \in DOMAIN s : (s \o Cut(m))[i] = s[i]
         /\ (s \o Cut(m))[Len(s) + 1] = Part
         /\ (s \o Cut(m))[Len(s) + 2] = m
<1>1. Part \in FromClient
  BY DEF FromClient
<1>2. Cut(m) \in Seq(FromClient) /\ Len(Cut(m)) = 2 /\ Cut(m)[1] = Part /\ Cut(m)[2] = m
  BY <1>1 DEF Cut
<1> DEFINE d == Cut(m)
<1> HIDE DEF d
<1>3. /\ s \o d \in Seq(FromClient)
      /\ Len(s \o d) = Len(s) + Len(d)
      /\ \A i \in 1 .. Len(s) + Len(d) :
           (s \o d)[i] = IF i <= Len(s) THEN s[i] ELSE d[i - Len(s)]
  BY <1>2, ConcatProperties DEF d
<1>4. Len(s) \in Nat /\ DOMAIN s = 1 .. Len(s) /\ Len(d) = 2
  BY <1>2, LenProperties DEF d
<1>5. \A i \in DOMAIN s : (s \o d)[i] = s[i]
  BY <1>3, <1>4
<1>6. (s \o d)[Len(s) + 1] = d[1]
  <2>1. Len(s) + 1 \in 1 .. Len(s) + Len(d) /\ ~(Len(s) + 1 <= Len(s))
        /\ Len(s) + 1 - Len(s) = 1
    BY <1>4
  <2> QED
    BY <1>3, <2>1
<1>7. (s \o d)[Len(s) + 2] = d[2]
  <2>1. Len(s) + 2 \in 1 .. Len(s) + Len(d) /\ ~(Len(s) + 2 <= Len(s))
        /\ Len(s) + 2 - Len(s) = 2
    BY <1>4
  <2> QED
    BY <1>3, <2>1
<1> QED
  BY <1>2, <1>3, <1>4, <1>5, <1>6, <1>7 DEF d

(***************************************************************************)
(* Consuming drops two parts.                                              *)
(***************************************************************************)
LEMMA Consuming ==
  ASSUME NEW s \in Seq(FromClient), Len(s) >= 2
  PROVE  /\ Rest(s) \in Seq(FromClient)
         /\ Len(Rest(s)) = Len(s) - 2
         /\ \A i \in DOMAIN Rest(s) : i + 2 \in DOMAIN s /\ Rest(s)[i] = s[i + 2]
<1>1. Len(s) \in Nat /\ DOMAIN s = 1 .. Len(s)
  BY LenProperties
<1>2. \A i \in 3 .. Len(s) : s[i] \in FromClient
  BY <1>1, ElementOfSeq
<1>3. /\ Rest(s) \in Seq(FromClient)
      /\ Len(Rest(s)) = IF 3 <= Len(s) THEN Len(s) - 3 + 1 ELSE 0
      /\ \A i \in 1 .. Len(s) - 3 + 1 : Rest(s)[i] = s[3 + i - 1]
  BY <1>1, <1>2, SubSeqProperties DEF Rest
<1>4. Len(Rest(s)) = Len(s) - 2
  <2>1. \A n \in Nat : n >= 2 => (IF 3 <= n THEN n - 3 + 1 ELSE 0) = n - 2
    OBVIOUS
  <2> QED
    BY <1>1, <1>3, <2>1, Zenon
<1>5. DOMAIN Rest(s) = 1 .. Len(s) - 2
  BY <1>3, <1>4, LenProperties
<1>6. \A i \in 1 .. Len(s) - 2 : i + 2 \in DOMAIN s /\ Rest(s)[i] = s[i + 2]
  <2>1. \A n \in Nat : n >= 2 =>
          \A i \in 1 .. n - 2 :
            i + 2 \in 1 .. n /\ i \in 1 .. n - 3 + 1 /\ 3 + i - 1 = i + 2
    OBVIOUS
  <2> QED
    BY <1>1, <1>3, <2>1, Zenon
<1> QED
  BY <1>3, <1>4, <1>5, <1>6

(***************************************************************************)
(* Reading moves the head of what is on the wire, which leaves the whole   *)
(* as it was.                                                              *)
(***************************************************************************)
LEMMA Reading ==
  ASSUME NEW S, NEW r \in Seq(S), NEW w \in Seq(S), NEW n \in 1 .. Len(w)
  PROVE  /\ r \o SubSeq(w, 1, n) \in Seq(S)
         /\ SubSeq(w, n + 1, Len(w)) \in Seq(S)
         /\ (r \o SubSeq(w, 1, n)) \o SubSeq(w, n + 1, Len(w)) = r \o w
<1>1. Len(w) \in Nat /\ DOMAIN w = 1 .. Len(w) /\ \A i \in 1 .. Len(w) : w[i] \in S
  BY LenProperties, ElementOfSeq
<1>2. n \in Int /\ n + 1 \in Int /\ 1 .. n \subseteq 1 .. Len(w) /\ n + 1 .. Len(w) \subseteq 1 .. Len(w)
  BY <1>1
<1> DEFINE a == SubSeq(w, 1, n)
           b == SubSeq(w, n + 1, Len(w))
<1>3. a \in Seq(S)
  BY <1>1, <1>2, SubSeqProperties
<1>4. b \in Seq(S)
  BY <1>1, <1>2, SubSeqProperties
<1>5. a \o b = w
  <2>1. 1 \in 1 .. Len(w) + 1 /\ n \in 1 - 1 .. Len(w) /\ Len(w) \in n .. Len(w)
    BY <1>1
  <2>2. a \o b = SubSeq(w, 1, Len(w))
    BY <2>1, ConcatAdjacentSubSeq
  <2> QED
    BY <2>2, SubSeqFull
<1> HIDE DEF a, b
<1>6. (r \o a) \o b = r \o (a \o b)
  BY <1>3, <1>4, ConcatAssociative, SMTT(60)
<1>7. r \o a \in Seq(S)
  BY <1>3, ConcatProperties
<1> QED
  BY <1>4, <1>5, <1>6, <1>7 DEF a, b

(***************************************************************************)
(* Where a message is ready, it is the first of the stream, and to consume *)
(* it from the read BIO is to consume it from the stream.                  *)
(***************************************************************************)
LEMMA FirstOfStream ==
  ASSUME NEW r \in Seq(FromClient), NEW w \in Seq(FromClient), Len(r) >= 2
  PROVE  /\ Len(r \o w) >= 2 /\ (r \o w)[2] = r[2]
         /\ Rest(r) \o w = Rest(r \o w)
<1> DEFINE s == r \o w
<1>1. /\ s \in Seq(FromClient) /\ Len(s) = Len(r) + Len(w)
      /\ \A i \in 1 .. Len(r) + Len(w) : s[i] = IF i <= Len(r) THEN r[i] ELSE w[i - Len(r)]
  BY ConcatProperties
<1>2. Len(r) \in Nat /\ Len(w) \in Nat
  BY LenProperties
<1> HIDE DEF s
<1>3. Len(s) >= 2 /\ s[2] = r[2]
  BY <1>1, <1>2
<1> DEFINE a == Rest(r)
           b == Rest(s)
<1>4. /\ a \in Seq(FromClient) /\ Len(a) = Len(r) - 2 /\ DOMAIN a = 1 .. Len(r) - 2
      /\ \A i \in DOMAIN a : a[i] = r[i + 2]
  BY Consuming, LenProperties
<1>5. /\ b \in Seq(FromClient) /\ Len(b) = Len(s) - 2 /\ DOMAIN b = 1 .. Len(s) - 2
      /\ \A i \in DOMAIN b : b[i] = s[i + 2]
  BY <1>1, <1>3, Consuming, LenProperties
<1> HIDE DEF a, b
<1>6. /\ a \o w \in Seq(FromClient) /\ Len(a \o w) = Len(a) + Len(w)
      /\ \A i \in 1 .. Len(a) + Len(w) :
           (a \o w)[i] = IF i <= Len(a) THEN a[i] ELSE w[i - Len(a)]
  BY <1>4, ConcatProperties
<1>7. Len(a \o w) = Len(b)
  BY <1>1, <1>2, <1>4, <1>5, <1>6
<1>8. ASSUME NEW i \in 1 .. Len(a \o w)
      PROVE  (a \o w)[i] = b[i]
  <2>1. i \in Nat /\ i >= 1 /\ i + 2 \in 1 .. Len(r) + Len(w) /\ i \in DOMAIN b
        /\ i \in 1 .. Len(a) + Len(w)
    BY <1>1, <1>2, <1>4, <1>5, <1>6
  <2>2. b[i] = s[i + 2]
    BY <2>1, <1>5
  <2>3. CASE i <= Len(a)
    <3>1. i \in DOMAIN a /\ i + 2 <= Len(r)
      BY <2>1, <2>3, <1>2, <1>4
    <3>2. (a \o w)[i] = r[i + 2]
      BY <3>1, <2>1, <2>3, <1>4, <1>6
    <3>3. s[i + 2] = r[i + 2]
      BY <3>1, <2>1, <1>1
    <3> QED
      BY <2>2, <3>2, <3>3
  <2>4. CASE ~(i <= Len(a))
    <3>1. ~(i + 2 <= Len(r)) /\ i - Len(a) = (i + 2) - Len(r)
      BY <2>1, <2>4, <1>2, <1>4
    <3>2. (a \o w)[i] = w[(i + 2) - Len(r)]
      BY <3>1, <2>1, <2>4, <1>6
    <3>3. s[i + 2] = w[(i + 2) - Len(r)]
      BY <3>1, <2>1, <1>1
    <3> QED
      BY <2>2, <3>2, <3>3
  <2> QED
    BY <2>3, <2>4
<1>9. a \o w = b
  BY <1>5, <1>6, <1>7, <1>8, SeqEqual
<1> QED
  BY <1>3, <1>9 DEF a, b, s

(***************************************************************************)
(* A message that is no request changes nothing of what a stream carries.  *)
(***************************************************************************)
LEMMA CarriesOther ==
  ASSUME NEW s \in Seq(FromClient), NEW m \in FromClient, ~IsRequest(m),
         NEW first \in Nat, NEW last \in Nat, Carries(s, first, last)
  PROVE  Carries(s \o Cut(m), first, last)
<1> DEFINE t == s \o Cut(m)
<1>1. /\ t \in Seq(FromClient) /\ Len(t) = Len(s) + 2
      /\ \A i \in DOMAIN s : t[i] = s[i]
      /\ t[Len(s) + 1] = Part /\ t[Len(s) + 2] = m
  BY Sending
<1> HIDE DEF t
<1>2. ~IsRequest(Part)
  BY DEF IsRequest, Part
<1>3. \A i \in DOMAIN t : IsRequest(t[i]) => i \in DOMAIN s
  BY <1>1, <1>2
<1>4. \A i \in DOMAIN s : i \in DOMAIN t
  BY <1>1
<1>5. \A i \in DOMAIN t : IsRequest(t[i]) => \E n \in first .. last : t[i] = Request(n)
  BY <1>1, <1>3 DEF Carries
<1>6. \A n \in first .. last : \E i \in DOMAIN t : t[i] = Request(n)
  BY <1>1, <1>4 DEF Carries
<1>7. \A i, j \in DOMAIN t :
        i < j /\ IsRequest(t[i]) /\ IsRequest(t[j]) => t[i].id < t[j].id
  BY <1>1, <1>3 DEF Carries
<1> QED
  BY <1>5, <1>6, <1>7 DEF Carries, t

(***************************************************************************)
(* The next request comes behind the ones that are carried.                *)
(***************************************************************************)
LEMMA CarriesNext ==
  ASSUME NEW s \in Seq(FromClient), NEW first \in Nat, NEW last \in Nat,
         first <= last + 1, Carries(s, first, last)
  PROVE  Carries(s \o Cut(Request(last + 1)), first, last + 1)
<1> DEFINE m == Request(last + 1)
           t == s \o Cut(m)
<1>0. m \in FromClient /\ m.id = last + 1
  BY DEF FromClient, Requests, Request
<1> HIDE DEF m
<1>1. /\ t \in Seq(FromClient) /\ Len(t) = Len(s) + 2
      /\ \A i \in DOMAIN s : t[i] = s[i]
      /\ t[Len(s) + 1] = Part /\ t[Len(s) + 2] = m
  BY <1>0, Sending
<1> HIDE DEF t
<1>2. ~IsRequest(Part)
  BY DEF IsRequest, Part
<1>3. \A i \in DOMAIN t : IsRequest(t[i]) => i \in DOMAIN s \/ i = Len(s) + 2
  BY <1>1, <1>2
<1>4. \A i \in DOMAIN s : i \in DOMAIN t
  BY <1>1
<1>5. \A i \in DOMAIN t : IsRequest(t[i]) => \E n \in first .. last + 1 : t[i] = Request(n)
  BY <1>1, <1>3 DEF Carries, m
<1>6. \A n \in first .. last + 1 : \E i \in DOMAIN t : t[i] = Request(n)
  <2>1. Len(s) + 2 \in DOMAIN t
    BY <1>1
  <2>2. \A n \in first .. last + 1 : n = last + 1 \/ n \in first .. last
    OBVIOUS
  <2> QED
    BY <1>1, <1>4, <2>1, <2>2 DEF Carries, m
<1>7. \A i \in DOMAIN s : IsRequest(s[i]) => s[i].id < last + 1
  BY DEF Carries, Request
<1>8. ASSUME NEW i \in DOMAIN t, NEW j \in DOMAIN t,
             i < j, IsRequest(t[i]), IsRequest(t[j])
      PROVE  t[i].id < t[j].id
  <2>1. i \in DOMAIN s
    BY <1>1, <1>3, <1>8
  <2>2. CASE j \in DOMAIN s
    BY <2>1, <2>2, <1>1, <1>8 DEF Carries
  <2>3. CASE j = Len(s) + 2
    BY <2>1, <2>3, <1>0, <1>1, <1>7, <1>8
  <2> QED
    BY <2>2, <2>3, <1>3, <1>8
<1> QED
  BY <1>5, <1>6, <1>8 DEF Carries, t, m

(***************************************************************************)
(* To consume another message changes nothing of what a stream carries.    *)
(***************************************************************************)
LEMMA CarriesAfterOther ==
  ASSUME NEW s \in Seq(FromClient), Len(s) >= 2, Aligned(s), ~IsRequest(s[2]),
         NEW first \in Nat, NEW last \in Nat, Carries(s, first, last)
  PROVE  Carries(Rest(s), first, last)
<1> DEFINE t == Rest(s)
<1>1. /\ t \in Seq(FromClient) /\ Len(t) = Len(s) - 2
      /\ \A i \in DOMAIN t : i + 2 \in DOMAIN s /\ t[i] = s[i + 2]
  BY Consuming
<1> HIDE DEF t
<1>2. \A i \in DOMAIN s : IsRequest(s[i]) => i > 2
  BY DEF Aligned
<1>3. \A i \in DOMAIN t : IsRequest(t[i]) => \E n \in first .. last : t[i] = Request(n)
  BY <1>1 DEF Carries
<1>4. ASSUME NEW n \in first .. last
      PROVE  \E i \in DOMAIN t : t[i] = Request(n)
  <2>1. PICK i \in DOMAIN s : s[i] = Request(n)
    BY DEF Carries
  <2>2. i > 2
    BY <2>1, <1>2 DEF Request, IsRequest
  <2>3. i - 2 \in DOMAIN t /\ (i - 2) + 2 = i
    BY <2>2, <1>1
  <2> QED
    BY <2>1, <2>3, <1>1
<1>5. ASSUME NEW i \in DOMAIN t, NEW j \in DOMAIN t,
             i < j, IsRequest(t[i]), IsRequest(t[j])
      PROVE  t[i].id < t[j].id
  <2>1. i + 2 \in DOMAIN s /\ j + 2 \in DOMAIN s /\ i + 2 < j + 2
    BY <1>1, <1>5
  <2>2. IsRequest(s[i + 2]) /\ IsRequest(s[j + 2])
    BY <1>1, <1>5
  <2> QED
    BY <2>1, <2>2, <1>1 DEF Carries
<1> QED
  BY <1>3, <1>4, <1>5 DEF Carries, t

(***************************************************************************)
(* A request that comes first is the one that is due, and the rest carries *)
(* those after it.                                                         *)
(***************************************************************************)
LEMMA CarriesAfterRequest ==
  ASSUME NEW s \in Seq(FromClient), Len(s) >= 2, Aligned(s), IsRequest(s[2]),
         NEW first \in Nat, NEW last \in Nat, Carries(s, first, last)
  PROVE  /\ s[2] = Request(first) /\ first <= last
         /\ Carries(Rest(s), first + 1, last)
<1> DEFINE t == Rest(s)
<1>1. /\ t \in Seq(FromClient) /\ Len(t) = Len(s) - 2
      /\ \A i \in DOMAIN t : i + 2 \in DOMAIN s /\ t[i] = s[i + 2]
  BY Consuming
<1> HIDE DEF t
<1>2. \A i \in DOMAIN s : IsRequest(s[i]) => i >= 2
  BY DEF Aligned
<1>0. 2 \in DOMAIN s
  BY LenProperties
<1>3. PICK k \in first .. last : s[2] = Request(k)
  BY <1>0 DEF Carries
<1>4. PICK i \in DOMAIN s : s[i] = Request(first)
  <2>1. first \in first .. last
    BY <1>3
  <2> QED
    BY <2>1 DEF Carries
<1>5. k = first
  <2>1. i = 2 \/ i > 2
    BY <1>2, <1>4 DEF IsRequest, Request
  <2>2. i > 2 => s[2].id < s[i].id
    BY <1>4 DEF Carries, IsRequest, Request
  <2> QED
    BY <1>3, <1>4, <2>1, <2>2 DEF Request
<1>6. \A n \in DOMAIN t : IsRequest(t[n]) => \E l \in first + 1 .. last : t[n] = Request(l)
  <2> SUFFICES ASSUME NEW n \in DOMAIN t, IsRequest(t[n])
               PROVE  \E l \in first + 1 .. last : t[n] = Request(l)
    OBVIOUS
  <2>1. t[n] = s[n + 2] /\ n + 2 \in DOMAIN s /\ n + 2 > 2
    BY <1>1
  <2>2. PICK l \in first .. last : s[n + 2] = Request(l)
    BY <2>1 DEF Carries
  <2>3. s[2].id < s[n + 2].id
    BY <2>1, SMTT(30) DEF Carries
  <2>4. l > first
    BY <2>2, <2>3, <1>3, <1>5 DEF Request
  <2> QED
    BY <2>1, <2>2, <2>4
<1>7. ASSUME NEW n \in first + 1 .. last
      PROVE  \E l \in DOMAIN t : t[l] = Request(n)
  <2>1. PICK l \in DOMAIN s : s[l] = Request(n)
    BY DEF Carries
  <2>2. l >= 2 /\ l # 2
    BY <2>1, <1>2, <1>3, <1>5 DEF Request, IsRequest
  <2>3. l - 2 \in DOMAIN t /\ (l - 2) + 2 = l
    BY <2>2, <1>1
  <2> QED
    BY <2>1, <2>3, <1>1
<1>8. ASSUME NEW n \in DOMAIN t, NEW l \in DOMAIN t,
             n < l, IsRequest(t[n]), IsRequest(t[l])
      PROVE  t[n].id < t[l].id
  <2>1. n + 2 \in DOMAIN s /\ l + 2 \in DOMAIN s /\ n + 2 < l + 2
    BY <1>1, <1>8
  <2>2. IsRequest(s[n + 2]) /\ IsRequest(s[l + 2])
    BY <1>1, <1>8
  <2> QED
    BY <2>1, <2>2, <1>1 DEF Carries
<1>9. first <= last
  BY <1>3
<1> QED
  BY <1>3, <1>5, <1>6, <1>7, <1>8, <1>9 DEF Carries, t

-----------------------------------------------------------------------------
(***************************************************************************)
(* The thread serves a connection while it is in a callback, and what each *)
(* of them has received and decrypted are sequences of messages.           *)
(***************************************************************************)
LEMMA Sequences ==
  ASSUME TypeOK
  PROVE  /\ pc # "idle" => cur \in Conns
         /\ \A c \in Conns : /\ Stream(c) \in Seq(FromClient)
                             /\ Taken(c) \in Seq(Requests)
                             /\ asked[c] \in Nat
<1>1. pc # "idle" => cur \in Conns
  BY DEF TypeOK
<1>2. ASSUME NEW c \in Conns
      PROVE  /\ Stream(c) \in Seq(FromClient)
             /\ Taken(c) \in Seq(Requests)
             /\ asked[c] \in Nat
  <2>1. read_bio_[c] \in Seq(FromClient) /\ toServer[c] \in Seq(FromClient)
    BY DEF TypeOK
  <2>2. handled[c] \in Seq(Requests) /\ decrypted_buffer_[c] \in Seq(Requests)
    BY DEF TypeOK
  <2>3. Stream(c) \in Seq(FromClient)
    BY <2>1, ConcatProperties DEF Stream
  <2>4. Taken(c) \in Seq(Requests)
    BY <2>2, ConcatProperties DEF Taken
  <2> QED
    BY <2>3, <2>4 DEF TypeOK
<1> QED
  BY <1>1, <1>2

(***************************************************************************)
(* Initially the variables have their types.                               *)
(***************************************************************************)
LEMMA InitTypes == Init => TypeOK
<1>1. Init => asked \in [Conns -> Nat] /\ \A c \in Conns : asked[c] <= MaxRequests[c]
  BY SslAssumption DEF Init
<1> QED
  BY <1>1, SslAssumption DEF Init, TypeOK

(***************************************************************************)
(* The variables keep their types when a client sends.                     *)
(***************************************************************************)
LEMMA ClientTypes ==
  ASSUME TypeOK, NEW c \in Conns, Client(c)
  PROVE  TypeOK'
<1> USE DEF config, connVars
<1>1. ASSUME NEW m \in FromClient, NEW next \in {"start", "hello", "finished", "done"},
             ClientSends(c, m, next), asked' \in [Conns -> Nat],
             \A d \in Conns : asked'[d] <= MaxRequests[d]
      PROVE  TypeOK'
  <2>1. toServer[c] \o Cut(m) \in Seq(FromClient)
    BY Sending DEF TypeOK
  <2>2. toServer' \in [Conns -> Seq(FromClient)]
    BY <1>1, <2>1 DEF TypeOK, ClientSends
  <2>3. client' \in [Conns -> {"start", "hello", "finished", "done"}]
    BY <1>1 DEF TypeOK, ClientSends
  <2> QED
    BY <1>1, <2>2, <2>3 DEF TypeOK, ClientSends
<1>2. \A k \in {"hello", "finish", "close_notify", "noise"} : Msg(k) \in FromClient
  BY DEF FromClient
<1>3. CASE UNCHANGED asked
  <2>1. asked' \in [Conns -> Nat] /\ \A d \in Conns : asked'[d] <= MaxRequests[d]
    BY <1>3 DEF TypeOK
  <2>2. CASE ClientAsks(c)
    BY <2>2, <1>3 DEF ClientAsks, TypeOK
  <2> QED
    BY <1>1, <1>2, <2>1, <2>2
    DEF Client, ClientHello, ClientFinish, ClientEnds
<1>4. CASE ClientAsks(c)
  <2>1. asked[c] \in Nat /\ asked[c] < MaxRequests[c] /\ MaxRequests[c] \in Nat
    BY <1>4, SslAssumption DEF ClientAsks, TypeOK
  <2>2. [kind |-> "request", id |-> asked[c] + 1] \in FromClient
    BY <2>1 DEF FromClient, Requests
  <2>3. asked' \in [Conns -> Nat] /\ \A d \in Conns : asked'[d] <= MaxRequests[d]
    <3>1. asked' = [asked EXCEPT ![c] = asked[c] + 1] /\ asked[c] + 1 <= MaxRequests[c]
      BY <1>4, <2>1 DEF ClientAsks
    <3>2. asked \in [Conns -> Nat] /\ \A d \in Conns : asked[d] <= MaxRequests[d]
      BY DEF TypeOK
    <3>3. asked' \in [Conns -> Nat]
      BY <3>1, <3>2, <2>1
    <3>4. asked'[c] = asked[c] + 1 /\ \A d \in Conns \ {c} : asked'[d] = asked[d]
      BY <3>1, <3>2
    <3> QED
      BY <3>1, <3>2, <3>3, <3>4
  <2> QED
    BY <1>1, <1>4, <2>2, <2>3 DEF ClientAsks
<1> QED
  BY <1>3, <1>4 DEF Client, ClientHello, ClientFinish, ClientEnds

(***************************************************************************)
(* The variables keep their types when a connection comes, goes or reads.  *)
(***************************************************************************)
LEMMA ConnectionTypes ==
  ASSUME TypeOK, NEW c \in Conns, ConnectionUp(c) \/ ConnectionDown(c) \/ on_read(c)
  PROVE  TypeOK'
<1> USE DEF config, clientVars
<1>1. CASE ConnectionUp(c)
  BY <1>1 DEF ConnectionUp, TypeOK
<1>2. CASE ConnectionDown(c)
  BY <1>2 DEF ConnectionDown, TypeOK
<1>3. CASE on_read(c)
  <2>1. PICK n \in 1 .. Len(toServer[c]) :
          /\ read_bio_' = [read_bio_ EXCEPT ![c] = @ \o SubSeq(toServer[c], 1, n)]
          /\ toServer' = [toServer EXCEPT ![c] = SubSeq(@, n + 1, Len(@))]
    BY <1>3 DEF on_read
  <2>2. read_bio_[c] \in Seq(FromClient) /\ toServer[c] \in Seq(FromClient)
    BY DEF TypeOK
  <2>3. /\ read_bio_[c] \o SubSeq(toServer[c], 1, n) \in Seq(FromClient)
        /\ SubSeq(toServer[c], n + 1, Len(toServer[c])) \in Seq(FromClient)
    BY <2>2, Reading
  <2>4. read_bio_' \in [Conns -> Seq(FromClient)] /\ toServer' \in [Conns -> Seq(FromClient)]
    BY <2>1, <2>3 DEF TypeOK
  <2>5. errors' \in Nat
    BY <1>3 DEF on_read, TypeOK
  <2>6. /\ pc' \in {"idle", "handshake", "decrypt", "message"}
        /\ cur' \in Conns \cup {NoConn} /\ (cur' = NoConn <=> pc' = "idle")
    BY <1>3, SslAssumption DEF on_read, TypeOK
  <2> QED
    BY <1>3, <2>4, <2>5, <2>6 DEF on_read, TypeOK
<1> QED
  BY <1>1, <1>2, <1>3

(***************************************************************************)
(* OpenSSL takes one message out of the read BIO, if it is there.          *)
(***************************************************************************)
LEMMA ConsumeTypes ==
  ASSUME TypeOK, pc # "idle", Ready(cur)
  PROVE  /\ Message(cur) \in FromClient
         /\ Consume(cur) => read_bio_' \in [Conns -> Seq(FromClient)]
<1>1. cur \in Conns /\ read_bio_[cur] \in Seq(FromClient) /\ read_bio_ \in [Conns -> Seq(FromClient)]
  BY Sequences DEF TypeOK
<1>2. Len(read_bio_[cur]) >= 2
  BY DEF Ready, Cut
<1>3. Message(cur) \in FromClient
  <2>1. 2 \in 1 .. Len(read_bio_[cur])
    BY <1>1, <1>2, LenProperties
  <2> QED
    BY <1>1, <2>1, ElementOfSeq DEF Message
<1>4. Rest(read_bio_[cur]) \in Seq(FromClient)
  BY <1>1, <1>2, Consuming
<1>5. Consume(cur) => read_bio_' \in [Conns -> Seq(FromClient)]
  BY <1>1, <1>4 DEF Consume, Rest
<1> QED
  BY <1>3, <1>5

(***************************************************************************)
(* The variables keep their types in a handshake.                          *)
(***************************************************************************)
LEMMA HandshakeTypes ==
  ASSUME TypeOK, handle_handshake
  PROVE  TypeOK'
<1> USE DEF config, clientVars
<1>1. pc # "idle" /\ cur \in Conns
  BY Sequences
  DEF handle_handshake, HandshakeHello, HandshakeDone, HandshakeWantsRead, HandshakeFails,
      HandshakeFailedBefore
<1>2. ASSUME NEW k \in {"flight", "finished", "tickets", "alert"}, Says(cur, k)
      PROVE  write_bio_' \in [Conns -> Seq(FromServer)]
  <2>1. Msg(k) \in FromServer
    BY DEF FromServer
  <2>2. Append(write_bio_[cur], Msg(k)) \in Seq(FromServer)
    BY <1>1, <2>1, AppendProperties DEF TypeOK
  <2> QED
    BY <1>2, <2>2 DEF Says, TypeOK
<1>3. Ready(cur) /\ Consume(cur) => read_bio_' \in [Conns -> Seq(FromClient)]
  BY <1>1, ConsumeTypes
<1>4. CASE HandshakeHello
  BY <1>1, <1>2, <1>3, <1>4 DEF HandshakeHello, TypeOK
<1>5. CASE HandshakeDone
  <2>1. write_bio_' \in [Conns -> Seq(FromServer)]
    BY <1>2, <1>5 DEF HandshakeDone
  <2>2. read_bio_' \in [Conns -> Seq(FromClient)]
    BY <1>3, <1>5 DEF HandshakeDone
  <2> QED
    BY <1>1, <1>5, <2>1, <2>2 DEF HandshakeDone, TypeOK
<1>6. CASE HandshakeWantsRead
  <2>1. toClient[cur] \in Seq(FromServer) /\ write_bio_[cur] \in Seq(FromServer)
        /\ << >> \in Seq(FromServer)
    BY <1>1 DEF TypeOK
  <2>2. (toClient[cur] \o write_bio_[cur]) \o << >> \in Seq(FromServer)
    BY <2>1, ConcatProperties
  <2>3. /\ toClient' \in [Conns -> Seq(FromServer)]
        /\ write_bio_' \in [Conns -> Seq(FromServer)]
    BY <1>6, <2>1, <2>2 DEF HandshakeWantsRead, Drain, TypeOK
  <2> QED
    BY <1>6, <2>3 DEF HandshakeWantsRead, Return, TypeOK
<1>7. CASE HandshakeFails
  <2>1. write_bio_' \in [Conns -> Seq(FromServer)]
    BY <1>2, <1>7 DEF HandshakeFails
  <2>2. read_bio_' \in [Conns -> Seq(FromClient)]
    BY <1>3, <1>7 DEF HandshakeFails
  <2>3. errors' \in Nat
    BY <1>7 DEF HandshakeFails, Popped, TypeOK
  <2> QED
    BY <1>1, <1>7, <2>1, <2>2, <2>3 DEF HandshakeFails, Return, Shutdown, TypeOK
<1>8. CASE HandshakeFailedBefore
  BY <1>1, <1>8 DEF HandshakeFailedBefore, Return, Shutdown, Popped, TypeOK
<1> QED
  BY <1>4, <1>5, <1>6, <1>7, <1>8 DEF handle_handshake

(***************************************************************************)
(* The variables keep their types when something is decrypted.             *)
(***************************************************************************)
LEMMA DecryptTypes ==
  ASSUME TypeOK, on_decrypted
  PROVE  TypeOK'
<1> USE DEF config, clientVars
<1>1. pc # "idle" /\ cur \in Conns
  BY Sequences
  DEF on_decrypted, DecryptRecord, DecryptWantsRead, DecryptCloseNotify, DecryptFails
<1>2. Ready(cur) => Message(cur) \in FromClient
  BY <1>1, ConsumeTypes
<1>3. Ready(cur) /\ Consume(cur) => read_bio_' \in [Conns -> Seq(FromClient)]
  BY <1>1, ConsumeTypes
<1>4. CASE DecryptRecord
  <2>1. Message(cur) \in Requests
    BY <1>2, <1>4 DEF DecryptRecord, FromClient, Part, Msg
  <2>2. Append(decrypted_buffer_[cur], Message(cur)) \in Seq(Requests)
    BY <1>1, <2>1, AppendProperties DEF TypeOK
  <2>3. decrypted_buffer_' \in [Conns -> Seq(Requests)]
    BY <1>4, <2>2 DEF DecryptRecord, TypeOK
  <2> QED
    BY <1>3, <1>4, <2>3 DEF DecryptRecord, TypeOK
<1>5. CASE DecryptWantsRead
  <2>1. errors' \in Nat
    BY <1>5 DEF DecryptWantsRead, Popped, TypeOK
  <2>2. /\ state_' \in [Conns -> {"HANDSHAKE", "ESTABLISHED", "ERROR"}]
        /\ tcp' \in [Conns -> {"new", "connected", "disconnecting", "disconnected"}]
    BY <1>5, ZenonT(40) DEF DecryptWantsRead, Fails, Shutdown, TypeOK
  <2> QED
    BY <1>1, <1>5, <2>1, <2>2 DEF DecryptWantsRead, TypeOK
<1>6. CASE DecryptCloseNotify
  BY <1>1, <1>3, <1>6 DEF DecryptCloseNotify, Fails, Shutdown, Popped, TypeOK
<1>7. CASE DecryptFails
  <2>1. Msg("alert") \in FromServer
    BY DEF FromServer
  <2>2. Append(write_bio_[cur], Msg("alert")) \in Seq(FromServer)
    BY <1>1, <2>1, AppendProperties DEF TypeOK
  <2>3. write_bio_' \in [Conns -> Seq(FromServer)]
    BY <1>7, <2>2 DEF DecryptFails, Says, TypeOK
  <2>4. errors' \in Nat
    BY <1>7 DEF DecryptFails, Popped, TypeOK
  <2> QED
    BY <1>1, <1>3, <1>7, <2>3, <2>4 DEF DecryptFails, Fails, Shutdown, TypeOK
<1> QED
  BY <1>4, <1>5, <1>6, <1>7 DEF on_decrypted

(***************************************************************************)
(* The variables keep their types in the callback of HttpServer.           *)
(***************************************************************************)
LEMMA MessageTypes ==
  ASSUME TypeOK, NothingDecrypted \/ OnMessage
  PROVE  TypeOK'
<1> USE DEF config, clientVars
<1>1. CASE NothingDecrypted
  BY <1>1 DEF NothingDecrypted, Return, connVars, TypeOK
<1>2. CASE OnMessage
  <2> DEFINE request == Head(decrypted_buffer_[cur])
  <2>1. cur \in Conns /\ decrypted_buffer_[cur] \in Seq(Requests) /\ decrypted_buffer_[cur] # << >>
    BY <1>2, Sequences DEF OnMessage, TypeOK
  <2>2. request \in Requests /\ Tail(decrypted_buffer_[cur]) \in Seq(Requests)
    BY <2>1, HeadTailProperties
  <2> HIDE DEF request
  <2>3. Append(handled[cur], request) \in Seq(Requests)
    BY <2>1, <2>2, AppendProperties DEF TypeOK
  <2>4. handled' \in [Conns -> Seq(Requests)] /\ decrypted_buffer_' \in [Conns -> Seq(Requests)]
    BY <1>2, <2>2, <2>3 DEF OnMessage, request, TypeOK
  <2>5. PICK whole \in BOOLEAN :
          Send(cur, <<[kind |-> "response", of |-> request.id, whole |-> whole]>>)
    BY <1>2 DEF OnMessage, request
  <2> DEFINE response == [kind |-> "response", of |-> request.id, whole |-> whole]
  <2>6. response \in FromServer
    BY <2>2 DEF FromServer, Requests
  <2> HIDE DEF response
  <2>7. <<response>> \in Seq(FromServer)
    BY <2>6
  <2>8. (toClient[cur] \o write_bio_[cur]) \o <<response>> \in Seq(FromServer)
    BY <2>1, <2>7, ConcatProperties DEF TypeOK
  <2>9. Send(cur, <<response>>)
    BY <2>5 DEF response
  <2>10. /\ toClient' \in [Conns -> Seq(FromServer)]
         /\ write_bio_' \in [Conns -> Seq(FromServer)]
    <3>1. CASE Drain(cur, <<response>>)
      <4>1. toClient' = [toClient EXCEPT ![cur] = (toClient[cur] \o write_bio_[cur]) \o <<response>>]
        BY <3>1 DEF Drain
      <4>2. write_bio_' = [write_bio_ EXCEPT ![cur] = << >>]
        BY <3>1 DEF Drain
      <4>3. toClient' \in [Conns -> Seq(FromServer)]
        BY <4>1, <2>8 DEF TypeOK
      <4>4. write_bio_' \in [Conns -> Seq(FromServer)]
        <5>1. << >> \in Seq(FromServer) /\ write_bio_ \in [Conns -> Seq(FromServer)]
          BY EmptySeq DEF TypeOK
        <5> QED
          BY <4>2, <5>1
      <4> QED
        BY <4>3, <4>4
    <3>2. CASE UNCHANGED <<toClient, write_bio_>>
      BY <3>2 DEF TypeOK
    <3> QED
      BY <2>9, <3>1, <3>2 DEF Send
  <2>11. tcp' \in [Conns -> {"new", "connected", "disconnecting", "disconnected"}]
    BY <1>2, ZenonT(40) DEF OnMessage, Shutdown, TypeOK
  <2> QED
    BY <1>2, <2>4, <2>10, <2>11 DEF OnMessage, Return, TypeOK
<1> QED
  BY <1>1, <1>2

(***************************************************************************)
(* Every step keeps the types of the variables.                            *)
(***************************************************************************)
LEMMA StepTypes == TypeOK /\ [Next]_vars => TypeOK'
<1> SUFFICES ASSUME TypeOK, [Next]_vars
             PROVE  TypeOK'
  OBVIOUS
<1>1. CASE UNCHANGED vars
  BY <1>1 DEF vars, config, clientVars, connVars, TypeOK
<1> QED
  BY <1>1, ClientTypes, ConnectionTypes, HandshakeTypes, DecryptTypes, MessageTypes
  DEF Next, Callback

-----------------------------------------------------------------------------
(* What a step does to a connection, as far as the invariant can tell.     *)

(* Nothing, or it sends what the write BIO holds once OpenSSL has spoken.  *)
Same(c) ==
  /\ Stream(c)' = Stream(c) /\ Taken(c)' = Taken(c)
  /\ client'[c] = client[c] /\ asked'[c] = asked[c] /\ tls'[c] = tls[c]
  /\ tls[c] = "accept" /\ toClient[c] = << >> /\ write_bio_[c] = << >> =>
       toClient'[c] = << >> /\ write_bio_'[c] = << >>

(* Its client sends a message, and how far it is then.                     *)
Sends(c, m) ==
  /\ Stream(c)' = Stream(c) \o Cut(m) /\ Taken(c)' = Taken(c)
  /\ tls'[c] = tls[c] /\ toClient'[c] = toClient[c] /\ write_bio_'[c] = write_bio_[c]
  /\ \/ /\ client[c] = "start" /\ client'[c] = "hello" /\ asked'[c] = asked[c]
        /\ m = Msg("hello")
     \/ /\ client[c] = "hello" /\ toClient[c] # << >> /\ client'[c] = "finished"
        /\ asked'[c] = asked[c] /\ m = Msg("finish")
     \/ /\ client[c] = "finished" /\ client'[c] = "finished"
        /\ asked'[c] = asked[c] + 1 /\ m = Request(asked[c] + 1)
     \/ client'[c] = "done" /\ asked'[c] = asked[c] /\ Ends(m) /\ ~IsRequest(m)

(* OpenSSL consumes a message, and the handshake goes on or is over.       *)
Consumes(c) ==
  /\ Len(Stream(c)) >= 2 /\ Stream(c)' = Rest(Stream(c))
  /\ client'[c] = client[c] /\ asked'[c] = asked[c]

(* The message is no request,                                              *)
Skips(c) ==
  /\ Consumes(c) /\ ~IsRequest(Stream(c)[2]) /\ Taken(c)' = Taken(c)
  /\ \/ tls'[c] \in {"done", "failed"}
     \/ tls[c] = "accept" /\ tls'[c] = "flight"

(* or it is, and comes out of OpenSSL.                                     *)
Decrypts(c) ==
  /\ Consumes(c) /\ IsRequest(Stream(c)[2]) /\ Taken(c)' = Append(Taken(c), Stream(c)[2])
  /\ tls'[c] = "done"

Quiet == \A c \in Conns : Same(c)

(* At most one connection is concerned.                                    *)
OnlyConcerns(c) == \A d \in Conns \ {c} : Same(d)

(***************************************************************************)
(* What a client sends comes last in its stream.                           *)
(***************************************************************************)
LEMMA ClientEffect ==
  ASSUME TypeOK, NEW c \in Conns, Client(c)
  PROVE  OnlyConcerns(c) /\ \E m \in FromClient : Sends(c, m)
<1> USE DEF config, connVars
<1>1. ASSUME NEW m \in FromClient, NEW next, ClientSends(c, m, next)
      PROVE  /\ Stream(c)' = Stream(c) \o Cut(m)
             /\ Taken(c)' = Taken(c)
             /\ client'[c] = next
             /\ tls'[c] = tls[c] /\ toClient'[c] = toClient[c] /\ write_bio_'[c] = write_bio_[c]
             /\ \A d \in Conns \ {c} :
                  /\ Stream(d)' = Stream(d) /\ Taken(d)' = Taken(d)
                  /\ client'[d] = client[d] /\ tls'[d] = tls[d]
                  /\ toClient'[d] = toClient[d] /\ write_bio_'[d] = write_bio_[d]
  <2>1. /\ toServer' = [toServer EXCEPT ![c] = toServer[c] \o Cut(m)]
        /\ client' = [client EXCEPT ![c] = next]
        /\ UNCHANGED <<read_bio_, handled, decrypted_buffer_, tls, toClient, write_bio_>>
    BY <1>1 DEF ClientSends
  <2>2. read_bio_[c] \in Seq(FromClient) /\ toServer[c] \in Seq(FromClient)
    BY DEF TypeOK
  <2>3. Cut(m) \in Seq(FromClient)
    BY DEF Cut, FromClient
  <2>4. toServer'[c] = toServer[c] \o Cut(m)
    BY <2>1 DEF TypeOK
  <2> DEFINE r == read_bio_[c]
             w == toServer[c]
             p == Cut(m)
  <2> HIDE DEF r, w, p
  <2>5. (r \o w) \o p = r \o (w \o p)
    <3>1. r \in Seq(FromClient) /\ w \in Seq(FromClient) /\ p \in Seq(FromClient)
      BY <2>2, <2>3 DEF r, w, p
    <3> QED
      BY <3>1, ConcatAssociative, SMTT(60)
  <2>6. Stream(c)' = Stream(c) \o Cut(m)
    BY <2>1, <2>4, <2>5 DEF Stream, r, w, p
  <2>7. ASSUME NEW d \in Conns \ {c}
        PROVE  /\ Stream(d)' = Stream(d) /\ client'[d] = client[d]
    BY <2>1, <2>7 DEF Stream, TypeOK
  <2>8. client'[c] = next
    BY <2>1 DEF TypeOK
  <2> QED
    BY <2>1, <2>6, <2>7, <2>8 DEF Taken
<1>2. \A k \in {"hello", "finish", "close_notify", "noise"} : Msg(k) \in FromClient
  BY DEF FromClient
<1>3. CASE ClientHello(c)
  <2>1. Msg("hello") \in FromClient /\ ClientSends(c, Msg("hello"), "hello") /\ UNCHANGED asked
    BY <1>2, <1>3 DEF ClientHello
  <2> QED
    BY <1>1, <1>3, <2>1 DEF ClientHello, Sends, OnlyConcerns, Same
<1>4. CASE ClientFinish(c)
  <2>1. Msg("finish") \in FromClient /\ ClientSends(c, Msg("finish"), "finished")
        /\ UNCHANGED asked
    BY <1>2, <1>4 DEF ClientFinish
  <2>2. toClient[c] # << >>
    BY <1>4, EmptySeq DEF ClientFinish, Got, TypeOK
  <2> QED
    BY <1>1, <1>4, <2>1, <2>2 DEF ClientFinish, Sends, OnlyConcerns, Same
<1>5. CASE ClientAsks(c)
  <2>1. asked[c] \in Nat
    BY DEF TypeOK
  <2>2. Request(asked[c] + 1) \in FromClient /\ ClientSends(c, Request(asked[c] + 1), "finished")
    BY <1>5, <2>1 DEF ClientAsks, Request, FromClient, Requests
  <2>3. client[c] = "finished"
    BY <1>5 DEF ClientAsks, Open
  <2>4. asked'[c] = asked[c] + 1 /\ \A d \in Conns \ {c} : asked'[d] = asked[d]
    BY <1>5 DEF ClientAsks, TypeOK
  <2> QED
    BY <1>1, <2>2, <2>3, <2>4 DEF Sends, OnlyConcerns, Same
<1>6. CASE ClientEnds(c)
  <2>1. PICK k \in {"close_notify", "noise"} : ClientSends(c, Msg(k), "done")
    BY <1>6 DEF ClientEnds
  <2>2. Msg(k) \in FromClient /\ Ends(Msg(k)) /\ ~IsRequest(Msg(k)) /\ UNCHANGED asked
    BY <1>2, <1>6 DEF ClientEnds, Ends, IsRequest, Msg
  <2> QED
    BY <1>1, <2>1, <2>2 DEF Sends, OnlyConcerns, Same
<1> QED
  BY <1>3, <1>4, <1>5, <1>6 DEF Client

(***************************************************************************)
(* To read is to move what a client has sent from the wire to the BIO.     *)
(***************************************************************************)
LEMMA ConnectionEffect ==
  ASSUME TypeOK, NEW c \in Conns, ConnectionUp(c) \/ ConnectionDown(c) \/ on_read(c)
  PROVE  Quiet
<1>1. CASE ConnectionUp(c) \/ ConnectionDown(c)
  BY <1>1 DEF ConnectionUp, ConnectionDown, clientVars, Quiet, Same, Stream, Taken
<1>2. CASE on_read(c)
  <2>1. PICK n \in 1 .. Len(toServer[c]) :
          /\ read_bio_' = [read_bio_ EXCEPT ![c] = @ \o SubSeq(toServer[c], 1, n)]
          /\ toServer' = [toServer EXCEPT ![c] = SubSeq(@, n + 1, Len(@))]
    BY <1>2 DEF on_read
  <2>2. read_bio_[c] \in Seq(FromClient) /\ toServer[c] \in Seq(FromClient)
    BY DEF TypeOK
  <2>3. (read_bio_[c] \o SubSeq(toServer[c], 1, n)) \o SubSeq(toServer[c], n + 1, Len(toServer[c]))
          = read_bio_[c] \o toServer[c]
    BY <2>2, Reading, ZenonT(40)
  <2>4. Stream(c)' = Stream(c)
    BY <2>1, <2>3 DEF Stream, TypeOK
  <2>5. \A d \in Conns \ {c} : Stream(d)' = Stream(d)
    BY <2>1 DEF Stream, TypeOK
  <2> QED
    BY <1>2, <2>4, <2>5 DEF on_read, Quiet, Same, Taken
<1> QED
  BY <1>1, <1>2

(***************************************************************************)
(* Where a message is ready it is the first of the stream.                 *)
(***************************************************************************)
LEMMA ConsumeEffect ==
  ASSUME TypeOK, NEW c \in Conns, c = cur, Ready(cur), Consume(cur), UNCHANGED clientVars
  PROVE  /\ Consumes(c) /\ Stream(c)[2] = Message(cur)
         /\ \A d \in Conns \ {c} :
              /\ Stream(d)' = Stream(d)
              /\ client'[d] = client[d] /\ asked'[d] = asked[d]
<1>1. c = cur /\ read_bio_[cur] \in Seq(FromClient) /\ toServer[cur] \in Seq(FromClient)
  BY Sequences DEF TypeOK
<1>2. Len(read_bio_[cur]) >= 2
  BY DEF Ready, Cut
<1>3. /\ read_bio_'[c] = Rest(read_bio_[cur])
      /\ \A d \in Conns \ {c} : read_bio_'[d] = read_bio_[d]
      /\ UNCHANGED <<toServer, client, asked>>
  BY <1>1 DEF Consume, Rest, clientVars, TypeOK
<1>4. /\ Len(read_bio_[cur] \o toServer[cur]) >= 2
      /\ (read_bio_[cur] \o toServer[cur])[2] = read_bio_[cur][2]
      /\ Rest(read_bio_[cur]) \o toServer[cur] = Rest(read_bio_[cur] \o toServer[cur])
  BY <1>1, <1>2, FirstOfStream
<1>5. Stream(c)' = Rest(Stream(c))
  BY <1>1, <1>3, <1>4 DEF Stream
<1> QED
  BY <1>1, <1>3, <1>4, <1>5 DEF Stream, Message, Consumes

(***************************************************************************)
(* A handshake waits, or consumes a message which is no request, because   *)
(* no client asks before its last handshake message.                       *)
(***************************************************************************)
LEMMA HandshakeEffect ==
  ASSUME TypeOK, NEW c \in Conns, c = cur, RequestsComeLast(c), handle_handshake
  PROVE  Quiet \/ (OnlyConcerns(c) /\ Skips(c))
<1>1. c = cur
  OBVIOUS
<1>2. ASSUME Ready(cur), Consume(cur), UNCHANGED <<clientVars, handled, decrypted_buffer_, toClient>>,
             NEW k, Says(cur, k), NEW how, tls' = [tls EXCEPT ![cur] = how],
             how \in {"done", "failed"} \/ (tls[cur] = "accept" /\ how = "flight"),
             ~IsRequest(Message(cur))
      PROVE  OnlyConcerns(c) /\ Skips(c)
  <2>1. /\ Consumes(c) /\ Stream(c)[2] = Message(cur)
        /\ \A d \in Conns \ {c} :
             /\ Stream(d)' = Stream(d)
             /\ client'[d] = client[d] /\ asked'[d] = asked[d]
    BY <1>1, <1>2, ConsumeEffect
  <2>2. Taken(c)' = Taken(c) /\ \A d \in Conns \ {c} : Taken(d)' = Taken(d)
    BY <1>2 DEF Taken
  <2>3. /\ tls'[c] = how
        /\ \A d \in Conns \ {c} :
             tls'[d] = tls[d] /\ write_bio_'[d] = write_bio_[d] /\ toClient'[d] = toClient[d]
    BY <1>1, <1>2 DEF Says, TypeOK
  <2> QED
    BY <1>2, <2>1, <2>2, <2>3 DEF OnlyConcerns, Same, Skips
<1>3. CASE HandshakeHello
  BY <1>2, <1>3 DEF HandshakeHello, IsRequest
<1>4. CASE HandshakeDone
  BY <1>2, <1>4 DEF HandshakeDone, IsRequest
<1>5. CASE HandshakeWantsRead
  <2>1. \A d \in Conns : Stream(d)' = Stream(d) /\ Taken(d)' = Taken(d)
    BY <1>5 DEF HandshakeWantsRead, clientVars, Stream, Taken
  <2>2. toClient[cur] = << >> /\ write_bio_[cur] = << >> =>
          toClient'[c] = << >> /\ write_bio_'[c] = << >>
    BY <1>1, <1>5 DEF HandshakeWantsRead, Drain, TypeOK
  <2>3. \A d \in Conns \ {c} : toClient'[d] = toClient[d] /\ write_bio_'[d] = write_bio_[d]
    BY <1>1, <1>5 DEF HandshakeWantsRead, Drain, TypeOK
  <2> QED
    BY <1>5, <2>1, <2>2, <2>3 DEF HandshakeWantsRead, clientVars, Quiet, Same
<1>6. CASE HandshakeFails
  <2>1. Ready(cur) /\ Consume(cur) /\ UNCHANGED clientVars
    BY <1>6 DEF HandshakeFails
  <2>2. Stream(c)[2] = Message(cur) /\ Consumes(c)
    BY <1>1, <2>1, ConsumeEffect
  <2>3. 2 \in DOMAIN Stream(c)
    BY <1>1, <2>2, Sequences, LenProperties DEF Consumes
  <2>4. ~IsRequest(Stream(c)[2])
    BY <1>1, <1>6, <2>3
    DEF HandshakeFails, RequestsComeLast, NoRequests, FinishIsNext, IsRequest, Msg
  <2> QED
    BY <1>2, <1>6, <2>2, <2>4 DEF HandshakeFails
<1>7. CASE HandshakeFailedBefore
  BY <1>7 DEF HandshakeFailedBefore, clientVars, Quiet, Same, Stream, Taken
<1> QED
  BY <1>3, <1>4, <1>5, <1>6, <1>7 DEF handle_handshake

(***************************************************************************)
(* What is decrypted goes to the end of what was, the rest is dropped.     *)
(***************************************************************************)
LEMMA DecryptEffect ==
  ASSUME TypeOK, Established, NEW c \in Conns, c = cur, on_decrypted
  PROVE  Quiet \/ (OnlyConcerns(c) /\ (Skips(c) \/ Decrypts(c)))
<1>1. pc = "decrypt" /\ c = cur /\ cur \in Conns /\ tls[cur] = "done"
  BY Sequences
  DEF on_decrypted, DecryptRecord, DecryptWantsRead, DecryptCloseNotify, DecryptFails,
     Established
<1>2. CASE DecryptRecord
  <2>1. /\ Consumes(c) /\ Stream(c)[2] = Message(cur)
        /\ \A d \in Conns \ {c} :
             /\ Stream(d)' = Stream(d)
             /\ client'[d] = client[d] /\ asked'[d] = asked[d]
    BY <1>1, <1>2, ConsumeEffect DEF DecryptRecord
  <2>2. Message(cur) \in Requests
    BY <1>1, <1>2, ConsumeTypes DEF DecryptRecord, FromClient, Part, Msg
  <2>3. handled[cur] \in Seq(Requests) /\ decrypted_buffer_[cur] \in Seq(Requests)
    BY <1>1 DEF TypeOK
  <2> DEFINE h == handled[cur]
             b == decrypted_buffer_[cur]
             m == Message(cur)
  <2>4. h \o Append(b, m) = Append(h \o b, m)
    <3>1. h \in Seq(Requests) /\ b \in Seq(Requests) /\ m \in Requests
      BY <2>2, <2>3
    <3> HIDE DEF h, b, m
    <3> QED
      BY <3>1, AppendOfConcat
  <2>5. /\ decrypted_buffer_'[c] = Append(decrypted_buffer_[cur], Message(cur))
        /\ \A d \in Conns \ {c} : decrypted_buffer_'[d] = decrypted_buffer_[d]
        /\ UNCHANGED <<handled, tls, toClient, write_bio_>>
    BY <1>1, <1>2 DEF DecryptRecord, TypeOK
  <2>6. Taken(c)' = Append(Taken(c), Stream(c)[2])
    BY <1>1, <2>1, <2>4, <2>5 DEF Taken
  <2> QED
    BY <1>1, <1>2, <2>1, <2>5, <2>6
    DEF DecryptRecord, IsRequest, Taken, OnlyConcerns, Same, Decrypts
<1>3. CASE DecryptWantsRead
  BY <1>3 DEF DecryptWantsRead, clientVars, Quiet, Same, Stream, Taken
<1>4. CASE DecryptCloseNotify
  <2>1. /\ Consumes(c) /\ Stream(c)[2] = Message(cur)
        /\ \A d \in Conns \ {c} :
             /\ Stream(d)' = Stream(d)
             /\ client'[d] = client[d] /\ asked'[d] = asked[d]
    BY <1>1, <1>4, ConsumeEffect DEF DecryptCloseNotify
  <2> QED
    BY <1>1, <1>4, <2>1
    DEF DecryptCloseNotify, IsRequest, Taken, OnlyConcerns, Same, Skips
<1>5. CASE DecryptFails
  <2>1. /\ Consumes(c) /\ Stream(c)[2] = Message(cur)
        /\ \A d \in Conns \ {c} :
             /\ Stream(d)' = Stream(d)
             /\ client'[d] = client[d] /\ asked'[d] = asked[d]
    BY <1>1, <1>5, ConsumeEffect DEF DecryptFails
  <2>2. /\ tls'[c] = "failed"
        /\ \A d \in Conns \ {c} : tls'[d] = tls[d] /\ write_bio_'[d] = write_bio_[d]
    BY <1>1, <1>5 DEF DecryptFails, Says, TypeOK
  <2> QED
    BY <1>1, <1>5, <2>1, <2>2 DEF DecryptFails, IsRequest, Taken, OnlyConcerns, Same,
       Skips
<1> QED
  BY <1>2, <1>3, <1>4, <1>5 DEF on_decrypted

(***************************************************************************)
(* on_message moves the first request from what is decrypted to what is    *)
(* handled, and sends only where the handshake is done.                    *)
(***************************************************************************)
LEMMA MessageEffect ==
  ASSUME TypeOK, Established, NEW c \in Conns, c = cur, NothingDecrypted \/ OnMessage
  PROVE  Quiet
<1>1. CASE NothingDecrypted
  BY <1>1 DEF NothingDecrypted, clientVars, connVars, Quiet, Same, Stream, Taken
<1>2. CASE OnMessage
  <2>1. /\ cur \in Conns /\ handled[cur] \in Seq(Requests)
        /\ decrypted_buffer_[cur] \in Seq(Requests) /\ decrypted_buffer_[cur] # << >>
    BY <1>2, Sequences DEF OnMessage, TypeOK
  <2>2. /\ handled'[c] = Append(handled[cur], Head(decrypted_buffer_[cur]))
        /\ decrypted_buffer_'[c] = Tail(decrypted_buffer_[cur])
        /\ \A d \in Conns \ {c} :
             handled'[d] = handled[d] /\ decrypted_buffer_'[d] = decrypted_buffer_[d]
    BY <1>2, <2>1 DEF OnMessage, TypeOK
  <2>3. Append(handled[cur], Head(decrypted_buffer_[cur])) \o Tail(decrypted_buffer_[cur])
          = handled[cur] \o decrypted_buffer_[cur]
    BY <2>1, Shifting
  <2>4. \A d \in Conns : Taken(d)' = Taken(d)
    BY <2>2, <2>3 DEF Taken
  <2>5. UNCHANGED <<client, asked, toServer, read_bio_, tls>>
    BY <1>2 DEF OnMessage, clientVars
  <2>6. \A d \in Conns : tls[d] = "accept" =>
          toClient'[d] = toClient[d] /\ write_bio_'[d] = write_bio_[d]
    BY <1>2, <2>1 DEF OnMessage, Send, Drain, Established, TypeOK
  <2> QED
    BY <2>4, <2>5, <2>6 DEF Quiet, Same, Stream
<1> QED
  BY <1>1, <1>2

(***************************************************************************)
(* Together: what a step does is one of four things.                       *)
(***************************************************************************)
LEMMA Effects ==
  ASSUME TypeOK, Established, \A c \in Conns : RequestsComeLast(c), [Next]_vars
  PROVE  \/ Quiet
         \/ \E c \in Conns :
              /\ OnlyConcerns(c)
              /\ \/ \E m \in FromClient : Sends(c, m)
                 \/ Skips(c)
                 \/ Decrypts(c)
<1>1. CASE UNCHANGED vars
  BY <1>1 DEF vars, clientVars, connVars, Quiet, Same, Stream, Taken
<1>2. CASE Callback
  <2>1. PICK c \in Conns : c = cur
    BY <1>2, Sequences
    DEF Callback, handle_handshake, HandshakeHello, HandshakeDone, HandshakeWantsRead,
        HandshakeFails, HandshakeFailedBefore, on_decrypted, DecryptRecord, DecryptWantsRead,
        DecryptCloseNotify, DecryptFails, NothingDecrypted, OnMessage
  <2> QED
    BY <1>2, <2>1, HandshakeEffect, DecryptEffect, MessageEffect DEF Callback
<1> QED
  BY <1>1, <1>2, ClientEffect, ConnectionEffect DEF Next

-----------------------------------------------------------------------------
(* The inductive invariant, part by part.                                  *)

(***************************************************************************)
(* It holds initially: nothing was sent.                                   *)
(***************************************************************************)
LEMMA InitInvariant == Init => IInv
<1> SUFFICES ASSUME Init
             PROVE  IInv
  OBVIOUS
<1>1. TypeOK
  BY InitTypes
<1>2. << >> \o << >> = << >> /\ Len(<< >>) = 0 /\ DOMAIN << >> = {}
  OBVIOUS
<1>3. \A c \in Conns : Stream(c) = << >> /\ Taken(c) = << >> /\ asked[c] = 0
  BY <1>2 DEF Init, Stream, Taken
<1>4. Established /\ QueueIsClean /\ NoForeignError
  BY DEF Init, Established, QueueIsClean, NoForeignError
<1>5. Carries(<< >>, 0 + 1, 0)
  <2>1. (0 + 1) .. 0 = {}
    OBVIOUS
  <2> QED
    BY <1>2, <2>1 DEF Carries
<1>6. ASSUME NEW c \in Conns
      PROVE  InOrder(c)
  <2>1. EndIsLast(c) /\ InTwoParts(c)
    BY <1>2, <1>3 DEF EndIsLast, InTwoParts, Aligned
  <2>2. HandshakeOrder(c) /\ RequestsComeLast(c)
    BY <1>2, <1>3 DEF Init, HandshakeOrder, RequestsComeLast, NoRequests
  <2>3. Complete(c)
    BY <1>2, <1>3, <1>5 DEF Complete
  <2> QED
    BY <2>1, <2>2, <2>3 DEF InOrder
<1> QED
  BY <1>1, <1>4, <1>6 DEF IInv

(***************************************************************************)
(* Only a handshake that is done is decrypted, and OpenSSL forgets it only *)
(* with an error of the connection.                                        *)
(***************************************************************************)
LEMMA EstablishedStep == IInv /\ [Next]_vars => Established'
<1> SUFFICES ASSUME IInv, [Next]_vars
             PROVE  Established'
  OBVIOUS
<1> USE DEF Established, clientVars, connVars
<1>0. /\ TypeOK /\ Established
      /\ pc # "idle" => cur \in Conns
      /\ tls \in [Conns -> {"accept", "flight", "done", "failed"}]
      /\ state_ \in [Conns -> {"HANDSHAKE", "ESTABLISHED", "ERROR"}]
  BY Sequences DEF IInv, TypeOK
<1>1. CASE UNCHANGED vars
  BY <1>0, <1>1 DEF vars
<1>2. ASSUME NEW c \in Conns, Client(c)
      PROVE  Established'
  BY <1>0, <1>2
  DEF Client, ClientHello, ClientFinish, ClientAsks, ClientEnds, ClientSends
<1>3. ASSUME NEW c \in Conns, ConnectionUp(c) \/ ConnectionDown(c) \/ on_read(c)
      PROVE  Established'
  BY <1>0, <1>3 DEF ConnectionUp, ConnectionDown, on_read
<1>4. CASE handle_handshake
  <2>1. CASE HandshakeHello
    BY <1>0, <2>1 DEF HandshakeHello
  <2>2. CASE HandshakeDone
    BY <1>0, <2>2 DEF HandshakeDone
  <2>3. CASE HandshakeWantsRead
    BY <1>0, <2>3 DEF HandshakeWantsRead, Return
  <2>4. CASE HandshakeFails
    BY <1>0, <2>4 DEF HandshakeFails, Return
  <2>5. CASE HandshakeFailedBefore
    BY <1>0, <2>5 DEF HandshakeFailedBefore, Return
  <2> QED
    BY <1>4, <2>1, <2>2, <2>3, <2>4, <2>5 DEF handle_handshake
<1>5. CASE on_decrypted
  <2>1. CASE DecryptRecord
    BY <1>0, <2>1 DEF DecryptRecord
  <2>2. CASE DecryptWantsRead
    BY <1>0, <2>2 DEF DecryptWantsRead, Fails
  <2>3. CASE DecryptCloseNotify
    BY <1>0, <2>3 DEF DecryptCloseNotify, Fails
  <2>4. CASE DecryptFails
    BY <1>0, <2>4 DEF DecryptFails, Fails
  <2> QED
    BY <1>5, <2>1, <2>2, <2>3, <2>4 DEF on_decrypted
<1>6. CASE NothingDecrypted \/ OnMessage
  BY <1>0, <1>6 DEF NothingDecrypted, OnMessage, Return
<1> QED
  BY <1>1, <1>2, <1>3, <1>4, <1>5, <1>6 DEF Next, Callback

(***************************************************************************)
(* Where a failure leaves one entry, each failure takes its own out again. *)
(***************************************************************************)
LEMMA QueueStep == IInv /\ [Next]_vars => QueueIsClean'
<1> SUFFICES ASSUME IInv, [Next]_vars
             PROVE  QueueIsClean'
  OBVIOUS
<1> USE DEF QueueIsClean, config, Popped
<1>0. QueueIsClean
  BY DEF IInv
<1>1. CASE UNCHANGED vars
  BY <1>0, <1>1 DEF vars
<1>2. ASSUME NEW c \in Conns, Client(c)
      PROVE  QueueIsClean'
  BY <1>0, <1>2
  DEF Client, ClientHello, ClientFinish, ClientAsks, ClientEnds, ClientSends
<1>3. ASSUME NEW c \in Conns, ConnectionUp(c) \/ ConnectionDown(c) \/ on_read(c)
      PROVE  QueueIsClean'
  BY <1>0, <1>3 DEF ConnectionUp, ConnectionDown, on_read
<1>4. CASE handle_handshake
  BY <1>0, <1>4
  DEF handle_handshake, HandshakeHello, HandshakeDone, HandshakeWantsRead, HandshakeFails,
      HandshakeFailedBefore
<1>5. CASE on_decrypted
  BY <1>0, <1>5
  DEF on_decrypted, DecryptRecord, DecryptWantsRead, DecryptCloseNotify, DecryptFails
<1>6. CASE NothingDecrypted \/ OnMessage
  BY <1>0, <1>6 DEF NothingDecrypted, OnMessage
<1> QED
  BY <1>1, <1>2, <1>3, <1>4, <1>5, <1>6 DEF Next, Callback

(***************************************************************************)
(* A client that is done stays so, and the message that ends a session was *)
(* sent by one.                                                            *)
(***************************************************************************)
LEMMA ForeignErrorStep == IInv /\ [Next]_vars => NoForeignError'
<1> SUFFICES ASSUME IInv, [Next]_vars, leaves' = 1, NEW c \in Conns, state_'[c] = "ERROR"
             PROVE  client'[c] = "done"
  BY DEF NoForeignError
<1> USE DEF config, clientVars, connVars
<1>0. /\ TypeOK
      /\ pc # "idle" => cur \in Conns
      /\ client \in [Conns -> {"start", "hello", "finished", "done"}]
      /\ state_ \in [Conns -> {"HANDSHAKE", "ESTABLISHED", "ERROR"}]
  BY Sequences DEF IInv, TypeOK
<1>1. leaves = 1
  BY DEF vars, Next, Callback, Client, ClientHello, ClientFinish, ClientAsks, ClientEnds,
         ClientSends, ConnectionUp, ConnectionDown, on_read, handle_handshake, HandshakeHello,
         HandshakeDone, HandshakeWantsRead, HandshakeFails, HandshakeFailedBefore,
         on_decrypted, DecryptRecord, DecryptWantsRead, DecryptCloseNotify, DecryptFails,
         NothingDecrypted, OnMessage
<1>2. errors = 0 /\ (state_[c] = "ERROR" => client[c] = "done")
  BY <1>1 DEF IInv, QueueIsClean, NoForeignError
<1>3. client[c] = "done" => client'[c] = "done"
  <2>1. ASSUME NEW d \in Conns, Client(d), client[c] = "done"
        PROVE  client'[c] = "done"
    BY <1>0, <2>1
    DEF Client, ClientHello, ClientFinish, ClientAsks, Open, ClientEnds, ClientSends
  <2>2. ASSUME ~\E d \in Conns : Client(d)
        PROVE  client' = client
    BY <2>2
    DEF vars, Next, Callback, ConnectionUp, ConnectionDown, on_read, handle_handshake,
        HandshakeHello, HandshakeDone, HandshakeWantsRead, HandshakeFails,
        HandshakeFailedBefore, on_decrypted, DecryptRecord, DecryptWantsRead,
        DecryptCloseNotify, DecryptFails, NothingDecrypted, OnMessage
  <2> QED
    BY <2>1, <2>2
<1>4. ASSUME state_[c] # "ERROR"
      PROVE  c = cur /\ (DecryptCloseNotify \/ DecryptFails)
  <2>1. CASE state_' = state_
    BY <1>4, <2>1
  <2>2. CASE HandshakeDone
    BY <1>0, <1>4, <2>2 DEF HandshakeDone
  <2>3. CASE DecryptWantsRead
    BY <1>2, <1>4, <2>3 DEF DecryptWantsRead
  <2>4. CASE DecryptCloseNotify \/ DecryptFails
    BY <1>0, <1>4, <2>4 DEF DecryptCloseNotify, DecryptFails, Fails
  <2>5. state_' = state_ \/ HandshakeDone \/ DecryptWantsRead \/ DecryptCloseNotify \/ DecryptFails
    BY DEF vars, Next, Callback, Client, ClientHello, ClientFinish, ClientAsks,
       ClientEnds,
           ClientSends, ConnectionUp, ConnectionDown, on_read, handle_handshake,
           HandshakeHello, HandshakeWantsRead, HandshakeFails, HandshakeFailedBefore,
           on_decrypted, DecryptRecord, NothingDecrypted, OnMessage
  <2> QED
    BY <2>1, <2>2, <2>3, <2>4, <2>5
<1>5. ASSUME c = cur, DecryptCloseNotify \/ DecryptFails
      PROVE  client[c] = "done"
  <2>1. Consumes(c) /\ Stream(c)[2] = Message(cur)
    BY <1>0, <1>5, ConsumeEffect DEF DecryptCloseNotify, DecryptFails
  <2>2. 2 \in DOMAIN Stream(c)
    BY <1>0, <2>1, Sequences, LenProperties DEF Consumes
  <2>3. Ends(Stream(c)[2])
    BY <1>5, <2>1 DEF DecryptCloseNotify, DecryptFails, Ends
  <2> QED
    BY <2>2, <2>3 DEF IInv, InOrder, EndIsLast
<1> QED
  BY <1>2, <1>3, <1>4, <1>5

(***************************************************************************)
(* A connection that a step does not concern stays in order.               *)
(***************************************************************************)
LEMMA SameKeeps ==
  ASSUME NEW c \in Conns, InOrder(c), Same(c)
  PROVE  InOrder(c)'
<1>1. EndIsLast(c)'
  BY DEF InOrder, EndIsLast, Same
<1>2. HandshakeOrder(c)'
  BY DEF InOrder, HandshakeOrder, Same
<1>3. RequestsComeLast(c)'
  BY DEF InOrder, RequestsComeLast, Same
<1>4. InTwoParts(c)'
  BY DEF InOrder, InTwoParts, Same
<1>5. Complete(c)'
  BY DEF InOrder, Complete, Same
<1> QED
  BY <1>1, <1>2, <1>3, <1>4, <1>5 DEF InOrder

(***************************************************************************)
(* A message is sent behind those before it: nobody sends after the end,   *)
(* nor asks before its part of the handshake is sent.                      *)
(***************************************************************************)
LEMMA SendsKeeps ==
  ASSUME TypeOK, NEW c \in Conns, InOrder(c), NEW m \in FromClient, Sends(c, m)
  PROVE  InOrder(c)'
<1> DEFINE s == Stream(c)
           t == Stream(c) \o Cut(m)
<1>1. s \in Seq(FromClient) /\ Taken(c) \in Seq(Requests) /\ asked[c] \in Nat
  BY Sequences
<1>2. /\ t \in Seq(FromClient) /\ Len(t) = Len(s) + 2
      /\ \A i \in DOMAIN s : t[i] = s[i]
      /\ t[Len(s) + 1] = Part /\ t[Len(s) + 2] = m
  BY <1>1, Sending
<1>3. Len(s) \in Nat /\ DOMAIN s = 1 .. Len(s) /\ DOMAIN t = 1 .. Len(s) + 2
  BY <1>1, <1>2, LenProperties
<1>4. \A i \in DOMAIN t : i \in DOMAIN s \/ i = Len(s) + 1 \/ i = Len(s) + 2
  BY <1>3
<1>5. ~IsRequest(Part) /\ ~Ends(Part)
  BY DEF IsRequest, Ends, Part
<1>6. Stream(c)' = t /\ Taken(c)' = Taken(c)
  BY DEF Sends
<1>7. EndIsLast(c) /\ HandshakeOrder(c) /\ RequestsComeLast(c) /\ InTwoParts(c) /\ Complete(c)
  BY DEF InOrder
<1> HIDE DEF s, t
<1>8. EndIsLast(c)'
  <2>1. \A i \in DOMAIN s : ~Ends(s[i]) \/ client[c] = "done"
    BY <1>7 DEF EndIsLast, s
  <2>2. Ends(m) => client'[c] = "done"
    BY DEF Sends, Ends, Msg, Request
  <2>3. client[c] = "done" => client'[c] = "done"
    BY DEF Sends
  <2> QED
    BY <1>2, <1>4, <1>5, <1>6, <2>1, <2>2, <2>3 DEF EndIsLast
<1>9. FinishIsNext(s) => FinishIsNext(t)
  <2>1. Len(s) >= 2 => 2 \in DOMAIN s
    BY <1>3
  <2> QED
    BY <1>2, <1>3, <2>1 DEF FinishIsNext
<1>10. s = << >> => FinishIsNext(t) \/ m # Msg("finish")
  BY <1>2, <1>3 DEF FinishIsNext
<1>11. s = << >> => t = Cut(m)
  <2>1. Cut(m) \in Seq(FromClient)
    BY DEF Cut, FromClient
  <2> QED
    BY <2>1, ConcatEmptySeq DEF s, t
<1>12. HandshakeOrder(c)'
  BY <1>6, <1>7, <1>9, <1>10, <1>11 DEF HandshakeOrder, Sends, s
<1>13. RequestsComeLast(c)'
  <2>1. IsRequest(m) => client[c] = "finished"
    BY DEF Sends, IsRequest, Msg
  <2>2. NoRequests(s) /\ ~IsRequest(m) => NoRequests(t)
    BY <1>2, <1>4, <1>5 DEF NoRequests
  <2> QED
    BY <1>6, <1>7, <1>9, <2>1, <2>2 DEF RequestsComeLast, HandshakeOrder, Sends, s
<1>14. InTwoParts(c)'
  <2>1. Len(s) % 2 = 0 /\ Aligned(s)
    BY <1>7 DEF InTwoParts, s
  <2>2. Len(t) % 2 = 0 /\ (Len(s) + 2) % 2 = 0
    BY <1>2, <1>3, <2>1
  <2>3. Aligned(t)
    BY <1>2, <1>4, <1>5, <2>1, <2>2 DEF Aligned
  <2> QED
    BY <1>6, <2>2, <2>3 DEF InTwoParts
<1>15. Complete(c)'
  <2> DEFINE n == Len(Taken(c))
  <2>1. n \in Nat /\ n <= asked[c] /\ Carries(s, n + 1, asked[c])
    BY <1>1, <1>7 DEF Complete, s
  <2>2. CASE asked'[c] = asked[c] /\ ~IsRequest(m)
    <3>1. Carries(t, n + 1, asked[c])
      <4>1. n + 1 \in Nat /\ t = s \o Cut(m)
        BY <2>1 DEF s, t
      <4> HIDE DEF n
      <4> QED
        BY <1>1, <2>1, <2>2, <4>1, CarriesOther
    <3> QED
      BY <1>6, <1>7, <2>2, <3>1 DEF Complete
  <2>3. CASE asked'[c] = asked[c] + 1 /\ m = Request(asked[c] + 1)
    <3>1. Carries(t, n + 1, asked[c] + 1)
      <4>1. n + 1 \in Nat /\ n + 1 <= asked[c] + 1 /\ t = s \o Cut(Request(asked[c] + 1))
        BY <1>1, <2>1, <2>3 DEF s, t
      <4> HIDE DEF n
      <4> QED
        BY <1>1, <2>1, <4>1, CarriesNext
    <3>2. n <= asked[c] + 1
      BY <1>1, <2>1
    <3> QED
      BY <1>6, <1>7, <2>3, <3>1, <3>2 DEF Complete
  <2> QED
    BY <2>2, <2>3 DEF Sends, IsRequest, Msg
<1> QED
  BY <1>8, <1>12, <1>13, <1>14, <1>15 DEF InOrder

(***************************************************************************)
(* A message that is consumed leaves the rest in order, and with it comes  *)
(* the next request, if it is one.                                         *)
(***************************************************************************)
LEMMA ConsumesKeeps ==
  ASSUME TypeOK, NEW c \in Conns, InOrder(c), Skips(c) \/ Decrypts(c)
  PROVE  InOrder(c)'
<1> DEFINE s == Stream(c)
           t == Rest(Stream(c))
<1>1. /\ s \in Seq(FromClient) /\ Taken(c) \in Seq(Requests) /\ asked[c] \in Nat
      /\ Len(s) >= 2 /\ Stream(c)' = t /\ client'[c] = client[c] /\ asked'[c] = asked[c]
  BY Sequences DEF Skips, Decrypts, Consumes
<1>2. /\ t \in Seq(FromClient) /\ Len(t) = Len(s) - 2
      /\ \A i \in DOMAIN t : i + 2 \in DOMAIN s /\ t[i] = s[i + 2]
  BY <1>1, Consuming
<1>3. Len(s) \in Nat /\ DOMAIN s = 1 .. Len(s) /\ DOMAIN t = 1 .. Len(s) - 2
  BY <1>1, <1>2, LenProperties
<1>4. EndIsLast(c) /\ HandshakeOrder(c) /\ RequestsComeLast(c) /\ InTwoParts(c) /\ Complete(c)
  BY DEF InOrder
<1>5. client[c] # "start"
  <2>1. s # << >>
    BY <1>1
  <2> QED
    BY <1>4, <2>1 DEF HandshakeOrder
<1>6. client[c] = "hello" /\ tls[c] = "accept" => t = << >>
  <2>1. s = Cut(Msg("hello")) => Len(t) = 0
    BY <1>2 DEF Cut
  <2> QED
    BY <1>2, <1>4, <2>1, EmptySeq DEF HandshakeOrder
<1> HIDE DEF s, t
<1>7. EndIsLast(c)'
  BY <1>1, <1>2, <1>4 DEF EndIsLast, s
<1>8. NoRequests(s) => NoRequests(t)
  BY <1>2 DEF NoRequests
<1>9. HandshakeOrder(c)'
  BY <1>1, <1>4, <1>5, <1>6 DEF HandshakeOrder, Skips, Decrypts
<1>10. RequestsComeLast(c)'
  BY <1>1, <1>4, <1>8 DEF RequestsComeLast, Skips, Decrypts, s
<1>11. InTwoParts(c)'
  <2>1. Len(s) % 2 = 0 /\ Aligned(s)
    BY <1>4 DEF InTwoParts, s
  <2>2. Len(t) % 2 = 0
    BY <1>1, <1>2, <1>3, <2>1
  <2>3. \A i \in DOMAIN t : (i + 2) % 2 = 0 => i % 2 = 0
    BY <1>3
  <2>4. Aligned(t)
    BY <1>2, <2>1, <2>3 DEF Aligned
  <2> QED
    BY <1>1, <2>2, <2>4 DEF InTwoParts
<1>12. Complete(c)'
  <2> DEFINE n == Len(Taken(c))
  <2>1. n \in Nat /\ n <= asked[c] /\ Carries(s, n + 1, asked[c]) /\ Aligned(s)
    BY <1>1, <1>4 DEF Complete, InTwoParts, s
  <2>2. CASE Skips(c)
    <3>1. ~IsRequest(s[2]) /\ Taken(c)' = Taken(c)
      BY <2>2 DEF Skips, s
    <3>2. Carries(t, n + 1, asked[c])
      BY <1>1, <2>1, <3>1, CarriesAfterOther DEF s, t
    <3> QED
      BY <1>1, <1>4, <3>1, <3>2 DEF Complete
  <2>3. CASE Decrypts(c)
    <3>1. IsRequest(s[2]) /\ Taken(c)' = Append(Taken(c), s[2])
      BY <2>3 DEF Decrypts, s
    <3>2. s[2] = Request(n + 1) /\ n + 1 <= asked[c] /\ Carries(t, (n + 1) + 1, asked[c])
      BY <1>1, <2>1, <3>1, CarriesAfterRequest DEF s, t
    <3>3. Request(n + 1) \in Requests
      BY <2>1 DEF Request, Requests
    <3>4. /\ Len(Taken(c)') = n + 1
          /\ \A i \in 1 .. n : Taken(c)'[i] = Taken(c)[i]
          /\ Taken(c)'[n + 1] = Request(n + 1)
          /\ Taken(c)' \in Seq(Requests)
      BY <1>1, <3>1, <3>2, <3>3, AppendProperties
    <3>5. DOMAIN Taken(c)' = 1 .. n + 1 /\ DOMAIN Taken(c) = 1 .. n
      BY <1>1, <3>4, LenProperties
    <3>6. \A i \in DOMAIN Taken(c)' : Taken(c)'[i] = Request(i)
      BY <1>4, <2>1, <3>4, <3>5 DEF Complete
    <3> QED
      BY <1>1, <3>2, <3>4, <3>6 DEF Complete
  <2> QED
    BY <2>2, <2>3
<1> QED
  BY <1>7, <1>9, <1>10, <1>11, <1>12 DEF InOrder

(***************************************************************************)
(* Every step keeps every connection in order.                             *)
(***************************************************************************)
LEMMA InOrderStep ==
  ASSUME IInv, [Next]_vars
  PROVE  \A c \in Conns : InOrder(c)'
<1>1. /\ TypeOK /\ Established
      /\ \A c \in Conns : InOrder(c) /\ RequestsComeLast(c)
  BY DEF IInv, InOrder
<1> SUFFICES ASSUME NEW c \in Conns
             PROVE  InOrder(c)'
  OBVIOUS
<1>2. CASE Quiet
  BY <1>1, <1>2, SameKeeps DEF Quiet
<1>3. ASSUME NEW d \in Conns, OnlyConcerns(d),
             (\E m \in FromClient : Sends(d, m)) \/ Skips(d) \/ Decrypts(d)
      PROVE  InOrder(c)'
  <2>1. CASE c = d
    BY <1>1, <1>3, <2>1, SendsKeeps, ConsumesKeeps
  <2>2. CASE c # d
    BY <1>1, <1>3, <2>2, SameKeeps DEF OnlyConcerns
  <2> QED
    BY <2>1, <2>2
<1> QED
  BY <1>1, <1>2, <1>3, Effects

-----------------------------------------------------------------------------
(* The theorems.                                                           *)

(***************************************************************************)
(* The inductive invariant holds in every state of every behaviour.        *)
(***************************************************************************)
THEOREM Invariance == Spec => []IInv
<1>1. Init => IInv
  BY InitInvariant
<1>2. IInv /\ [Next]_vars => IInv'
  <2> SUFFICES ASSUME IInv, [Next]_vars
               PROVE  IInv'
    OBVIOUS
  <2>1. TypeOK'
    BY StepTypes DEF IInv
  <2>2. Established' /\ QueueIsClean' /\ NoForeignError'
    BY EstablishedStep, QueueStep, ForeignErrorStep
  <2>3. \A c \in Conns : InOrder(c)'
    BY InOrderStep
  <2> QED
    BY <2>1, <2>2, <2>3 DEF IInv
<1> QED
  BY <1>1, <1>2, PTL DEF Spec

(***************************************************************************)
(* The variables of the TLS connections keep their types.                  *)
(***************************************************************************)
THEOREM TypeCorrect == Spec => []TypeOK
<1>1. IInv => TypeOK
  BY DEF IInv
<1> QED
  BY <1>1, Invariance, PTL

(***************************************************************************)
(* No client pays for the errors of another one of its thread, as long as  *)
(* a failure leaves one entry in the error queue.                          *)
(***************************************************************************)
THEOREM NobodyPaysForOthers == Spec => []NoForeignError
<1>1. IInv => NoForeignError
  BY DEF IInv
<1> QED
  BY <1>1, Invariance, PTL

(***************************************************************************)
(* Whatever a client asked is handled, decrypted, received or under way,   *)
(* once and in order, however the network cuts it and however on_read, the *)
(* handshake and on_message take turns.                                    *)
(***************************************************************************)
THEOREM NothingIsLost == Spec => []NothingLostInTheBios
<1>1. IInv => NothingLostInTheBios
  BY DEF IInv, InOrder, Complete, NothingLostInTheBios, Stream, Taken
<1> QED
  BY <1>1, Invariance, PTL
=============================================================================
