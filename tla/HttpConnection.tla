--------------------------- MODULE HttpConnection ---------------------------
(***************************************************************************)
(* One plain TCP connection of HttpServer: the incremental parser          *)
(* HttpContext that hangs on it, and the callbacks on_message, on_request  *)
(* and send, which the connection's I/O loop runs one after another.  The  *)
(* client writes requests to the wire, the network cuts them where it      *)
(* likes, and the loop appends whatever has arrived to the input buffer    *)
(* before it calls on_message.                                             *)
(*                                                                         *)
(* The bytes of a request are abstracted to tokens: the text of a line, a  *)
(* CRLF, a byte of the body.  The wire and the buffer hold the places of   *)
(* tokens, the parser looks at the tokens: a line is what lies before the  *)
(* first CRLF of the buffer.                                               *)
(***************************************************************************)
EXTENDS Integers, Sequences, SequencesExt

CONSTANTS
  Requests,     (* the requests a client may send (see IsRequest)          *)
  MaxRequests   (* bound: how many of them on one connection               *)

(***************************************************************************)
(* What a request consists of.  connection is the value of the header      *)
(* Connection, "" if there is none, length that of Content-Length, 0 if    *)
(* there is none.  flaw says what is wrong with it: nothing, an            *)
(* unparsable request line, a header line without a colon, or a            *)
(* Content-Length that is no number.                                       *)
(***************************************************************************)
IsRequest(r) ==
  /\ r.version \in {"HTTP/1.0", "HTTP/1.1"}
  /\ r.connection \in {"", "keep-alive", "close"}
  /\ r.length \in Nat
  /\ r.flaw \in {"none", "line", "header", "length"}

ASSUME HttpAssumption ==
  /\ \A r \in Requests : IsRequest(r)
  /\ MaxRequests \in Nat \ {0}

VARIABLES
  script,    (* the requests of this client                                *)
  splits,    (* may the network cut a request line or the headers          *)
  pipelines, (* may the client send before the last response came          *)
  sent,      (* how many of them it has written                            *)
  wire,      (* what is under way                                          *)
  buffer,    (* muduo's input buffer                                       *)
  state,     (* state_ of the HttpContext                                  *)
  request,   (* request_ of the HttpContext                                *)
  pc,        (* "idle", or where on_message is                             *)
  conn,      (* the state of the TcpConnection                             *)
  handled,   (* history: the requests callback_ was called with            *)
  out        (* history: the responses written to the connection           *)

config     == <<script, splits, pipelines>>
clientVars == <<config, sent>>
vars == <<clientVars, wire, buffer, state, request, pc, conn, handled, out>>

NoId == 0

-----------------------------------------------------------------------------
(* The text of a request: token k of request i is known by its place.      *)

Place == (1 .. MaxRequests) \X (Nat \ {0})

(* What is in the header Content-Length, 0 if it is not sent.              *)
ContentLength(r) == IF r.flaw = "length" THEN -1 ELSE r.length

RequestLine(r, i) ==
  IF r.flaw = "line" THEN [kind |-> "noise"]
                     ELSE [kind |-> "start", id |-> i, version |-> r.version]

HeaderLines(r) ==
  (IF r.connection = "" THEN << >> ELSE <<[kind |-> "connection", value |-> r.connection]>>)
  \o (IF ContentLength(r) = 0 THEN << >>
        ELSE <<[kind |-> "length", value |-> ContentLength(r)]>>)
  \o (IF r.flaw = "header" THEN <<[kind |-> "noise"]>> ELSE << >>)

LinesOf(i) == <<RequestLine(script[i], i)>> \o HeaderLines(script[i])

(* Each line of the head and an empty one end in a CRLF; the body follows. *)
HeadSize(i) == 2 * Len(LinesOf(i)) + 1
SizeOf(i) == HeadSize(i) + script[i].length

Crlf == [kind |-> "crlf"]

Token(p) ==
  CASE p[2] > HeadSize(p[1]) -> [kind |-> "byte"]
    [] p[2] < HeadSize(p[1]) /\ p[2] % 2 = 1 -> LinesOf(p[1])[(p[2] + 1) \div 2]
    [] OTHER -> Crlf

BodyOf(i) == [j \in 1 .. script[i].length |-> <<i, HeadSize(i) + j>>]

(* A request as the parser delivers it.                                    *)
EmptyRequest ==
  [id |-> NoId, version |-> "", connection |-> "", length |-> 0, content |-> << >>]

Parsed(i) ==
  [id |-> i, version |-> script[i].version, connection |-> script[i].connection,
   length |-> script[i].length, content |-> BodyOf(i)]

ReadsLines == state \in {"ExpectRequestLine", "ExpectHeaders"}

Responses ==
  [of : 0 .. MaxRequests, status : {"ok", "bad request"}, close : BOOLEAN]

ParsedRequest ==
  [id : 0 .. MaxRequests, version : {"", "HTTP/1.0", "HTTP/1.1"},
   connection : {"", "keep-alive", "close"}, length : Nat \cup {-1},
   content : Seq(Place)]

TypeOK ==
  /\ script \in Seq(Requests) /\ Len(script) <= MaxRequests
  /\ splits \in BOOLEAN /\ pipelines \in BOOLEAN
  /\ sent \in 0 .. Len(script)
  /\ wire \in Seq(Place) /\ buffer \in Seq(Place)
  /\ state \in {"ExpectRequestLine", "ExpectHeaders", "ExpectBody", "ExpectComplete"}
  /\ request \in ParsedRequest
  /\ ~ReadsLines => request.length >= 0
  /\ handled \in Seq(ParsedRequest)
  /\ pc \in {"idle", "parse", "request"}
  /\ conn \in {"connected", "disconnecting", "disconnected"}
  /\ out \in Seq(Responses)

(* A connection is accepted: setContext(HttpContext()).                    *)
Init ==
  /\ script \in BoundedSeq(Requests, MaxRequests)
  /\ splits \in BOOLEAN /\ pipelines \in BOOLEAN
  /\ sent = 0
  /\ wire = << >>
  /\ buffer = << >>
  /\ state = "ExpectRequestLine"
  /\ request = EmptyRequest
  /\ pc = "idle"
  /\ conn = "connected"
  /\ handled = << >>
  /\ out = << >>

-----------------------------------------------------------------------------
(* The client and the network.                                             *)

Closing == \E i \in DOMAIN out : out[i].close

ClientSend ==
  /\ sent < Len(script) /\ conn # "disconnected" /\ ~Closing
  /\ pipelines \/ Len(out) = sent
  /\ sent' = sent + 1
  /\ wire' = wire \o [k \in 1 .. SizeOf(sent + 1) |-> <<sent + 1, k>>]
  /\ UNCHANGED <<config, buffer, state, request, pc, conn, handled, out>>

(* The peer closes: on_connection runs with connected() false.             *)
PeerCloses ==
  /\ conn # "disconnected" /\ pc = "idle"
  /\ conn' = "disconnected"
  /\ UNCHANGED <<clientVars, wire, buffer, state, request, pc, handled, out>>

(* May the network cut the stream behind the token at p?                   *)
MayCut(p) == splits \/ p[2] >= HeadSize(p[1])

(* Some tokens have arrived; a half-closed connection still reads.         *)
Receive ==
  /\ conn # "disconnected" /\ pc = "idle"
  /\ \E n \in DOMAIN wire :
       /\ MayCut(wire[n])
       /\ buffer' = buffer \o SubSeq(wire, 1, n)
       /\ wire' = SubSeq(wire, n + 1, Len(wire))
  /\ pc' = "parse"
  /\ UNCHANGED <<clientVars, state, request, conn, handled, out>>

-----------------------------------------------------------------------------
(* Writing to the connection.                                              *)

send(response) ==
  out' = IF conn = "connected" THEN Append(out, response) ELSE out

shutdown == conn' = IF conn = "connected" THEN "disconnecting" ELSE conn

(* Mutant: a bad request does not close the connection.                    *)
BadRequestKeepsOpen ==
  /\ send([of |-> NoId, status |-> "bad request", close |-> TRUE])
  /\ pc' = "idle"
  /\ UNCHANGED conn

(* on_message when parse_request returned false.                           *)
BadRequest ==
  /\ send([of |-> NoId, status |-> "bad request", close |-> TRUE])
  /\ shutdown
  /\ pc' = "idle"

-----------------------------------------------------------------------------
(* HttpContext::parse_request, one iteration of its loop per step.         *)

IsCrlf(n) == Token(buffer[n]) = Crlf

(* findCRLF.                                                               *)
HasLine == \E n \in DOMAIN buffer : IsCrlf(n)
EndOfLine ==
  CHOOSE n \in DOMAIN buffer : IsCrlf(n) /\ \A m \in 1 .. n - 1 : ~IsCrlf(m)
Retrieve(n) == buffer' = SubSeq(buffer, n + 1, Len(buffer))

(* The line before it: empty, or one token of some kind.                   *)
LineIsEmpty == EndOfLine = 1
Line == Token(buffer[1])
IsLine(kind) == EndOfLine = 2 /\ Line.kind = kind

(* No CRLF in the buffer.                                                  *)
ParseNoLine ==
  /\ pc = "parse" /\ ReadsLines /\ ~HasLine
  /\ BadRequest
  /\ UNCHANGED <<clientVars, wire, buffer, state, request, handled>>

(* parse_request_line: the whole line must have the expected form.         *)
ParseRequestLine ==
  /\ pc = "parse" /\ state = "ExpectRequestLine" /\ HasLine
  /\ Retrieve(EndOfLine)
  /\ \/ /\ IsLine("start")
        /\ request' = [request EXCEPT !.id = Line.id, !.version = Line.version]
        /\ state' = "ExpectHeaders"
        /\ UNCHANGED <<pc, conn, out>>
     \/ /\ ~IsLine("start")
        /\ BadRequest
        /\ UNCHANGED <<request, state>>
  /\ UNCHANGED <<clientVars, wire, handled>>

(* parse_headers, a line with a colon: a later header of a name replaces.  *)
ParseHeader ==
  /\ pc = "parse" /\ state = "ExpectHeaders" /\ HasLine
  /\ \/ /\ IsLine("connection")
        /\ request' = [request EXCEPT !.connection = Line.value]
     \/ /\ IsLine("length")
        /\ request' = [request EXCEPT !.length = Line.value]
  /\ Retrieve(EndOfLine)
  /\ UNCHANGED <<clientVars, wire, state, pc, conn, handled, out>>

(* Mutant: the length is not checked.                                      *)
ParseEmptyLineAnyLength ==
  /\ pc = "parse" /\ state = "ExpectHeaders" /\ HasLine /\ LineIsEmpty
  /\ Retrieve(EndOfLine)
  /\ state' = IF request.length <= 0 THEN "ExpectComplete" ELSE "ExpectBody"
  /\ UNCHANGED <<clientVars, wire, request, pc, conn, handled, out>>

(* parse_headers, the empty line: stoull throws if the length is no number.*)
ParseEmptyLine ==
  /\ pc = "parse" /\ state = "ExpectHeaders" /\ HasLine /\ LineIsEmpty
  /\ Retrieve(EndOfLine)
  /\ \/ /\ request.length < 0
        /\ BadRequest
        /\ UNCHANGED state
     \/ /\ request.length >= 0
        /\ state' = IF request.length = 0 THEN "ExpectComplete" ELSE "ExpectBody"
        /\ UNCHANGED <<pc, conn, out>>
  /\ UNCHANGED <<clientVars, wire, request, handled>>

(* parse_headers, anything else.                                           *)
ParseBadHeader ==
  /\ pc = "parse" /\ state = "ExpectHeaders" /\ HasLine
  /\ ~IsLine("connection") /\ ~IsLine("length") /\ ~LineIsEmpty
  /\ Retrieve(EndOfLine)
  /\ BadRequest
  /\ UNCHANGED <<clientVars, wire, state, request, handled>>

(* Mutants: the last byte of the body is left in the buffer, ...           *)
ParseBodyLeavesByte ==
  /\ pc = "parse" /\ state = "ExpectBody"
  /\ IF Len(buffer) >= request.length
     THEN /\ request' = [request EXCEPT !.content = SubSeq(buffer, 1, request.length)]
          /\ Retrieve(request.length - 1)
          /\ state' = "ExpectComplete"
          /\ UNCHANGED pc
     ELSE pc' = "idle" /\ UNCHANGED <<request, buffer, state>>
  /\ UNCHANGED <<clientVars, wire, conn, handled, out>>

(* ... or the parser waits for more than the body.                         *)
ParseBodyWantsMore ==
  /\ pc = "parse" /\ state = "ExpectBody"
  /\ IF Len(buffer) > request.length
     THEN /\ request' = [request EXCEPT !.content = SubSeq(buffer, 1, request.length)]
          /\ Retrieve(request.length)
          /\ state' = "ExpectComplete"
          /\ UNCHANGED pc
     ELSE pc' = "idle" /\ UNCHANGED <<request, buffer, state>>
  /\ UNCHANGED <<clientVars, wire, conn, handled, out>>

(* parse_body; on_message returns and waits if the body is not all there.  *)
ParseBody ==
  /\ pc = "parse" /\ state = "ExpectBody"
  /\ \/ /\ Len(buffer) >= request.length
        /\ request' = [request EXCEPT !.content = SubSeq(buffer, 1, request.length)]
        /\ Retrieve(request.length)
        /\ state' = "ExpectComplete"
        /\ UNCHANGED pc
     \/ /\ Len(buffer) < request.length
        /\ pc' = "idle"
        /\ UNCHANGED <<request, buffer, state>>
  /\ UNCHANGED <<clientVars, wire, conn, handled, out>>

(* is_parse_complete: on_message goes on to on_request.                    *)
ParseComplete ==
  /\ pc = "parse" /\ state = "ExpectComplete"
  /\ pc' = "request"
  /\ UNCHANGED <<clientVars, wire, buffer, state, request, conn, handled, out>>

-----------------------------------------------------------------------------
(* on_request, then HttpContext::reset.                                    *)

Close ==
  \/ request.connection = "close"
  \/ request.version = "1.0" /\ request.connection # "keep-alive"

(* Mutant: the request is not swapped with a fresh one.                    *)
reset_state_only ==
  /\ state' = "ExpectRequestLine"
  /\ UNCHANGED request

reset ==
  /\ state' = "ExpectRequestLine"
  /\ request' = EmptyRequest

(* callback_ may ask for a close, as it does for a path without a route.   *)
OnRequest ==
  /\ pc = "request"
  /\ handled' = Append(handled, request)
  /\ \E close \in {Close, TRUE} :
       /\ send([of |-> request.id, status |-> "ok", close |-> close])
       /\ IF close THEN shutdown ELSE UNCHANGED conn
  /\ reset
  /\ pc' = "idle"
  /\ UNCHANGED <<clientVars, wire, buffer>>

Parse ==
  ParseNoLine \/ ParseRequestLine \/ ParseHeader \/ ParseEmptyLine
    \/ ParseBadHeader \/ ParseBody \/ ParseComplete

on_message == Receive \/ Parse \/ OnRequest

Next == ClientSend \/ PeerCloses \/ on_message

Spec == Init /\ [][Next]_vars

(* The network delivers, and the I/O loop runs the callbacks it has begun. *)
FairSpec == Spec /\ WF_vars(Receive) /\ WF_vars(Parse) /\ WF_vars(OnRequest)

-----------------------------------------------------------------------------
WellFormed(i) == script[i].flaw = "none"

(***************************************************************************)
(* Parsing does not depend on how the network cuts the stream: the handler *)
(* gets the client's requests, in order, each once, each with its own      *)
(* headers and body and nothing of the request before it, and none that is *)
(* malformed.  For well-formed clients this is so for ever, for others     *)
(* until the server shuts the connection down, which a 400 does; what the  *)
(* half-closed connection reads after it is parsed from where the parser   *)
(* stopped, and may be taken for a request.                                *)
(***************************************************************************)
HandledIsPrefix ==
  conn = "connected" \/ (\A i \in DOMAIN script : WellFormed(i)) =>
    /\ IsPrefix(handled, [i \in DOMAIN script |-> Parsed(i)])
    /\ \A i \in DOMAIN handled : WellFormed(i)

(***************************************************************************)
(* Responses are matched by their order, so they must come in the order of *)
(* the requests, one for each request handled while the connection is up.  *)
(***************************************************************************)
AnswersInOrder ==
  /\ \A i \in DOMAIN out :
       out[i].status = "ok" => i <= Len(handled) /\ out[i].of = handled[i].id
  /\ conn = "connected" => Len(out) = Len(handled)

Answered(i) == Len(out) >= i \/ Closing \/ conn = "disconnected"

(***************************************************************************)
(* A client that waits for each response before it sends the next request  *)
(* gets them all, or the connection ends, however the stream is cut.  (One *)
(* that does not wait may have to send more to get what it is owed: the    *)
(* second of two requests in one read is not parsed.)                      *)
(***************************************************************************)
AnsweredIfAwaited ==
  \A i \in 1 .. MaxRequests : sent >= i /\ ~pipelines ~> Answered(i)

(***************************************************************************)
(* 400 goes only to a client that sent something malformed.                *)
(***************************************************************************)
BadRequestOnlyForMalformed ==
  \A i \in DOMAIN out :
    out[i].status = "bad request" => \E j \in 1 .. sent : ~WellFormed(j)

(***************************************************************************)
(* So much the code achieves: that is true of heads that arrive whole,     *)
(* whatever becomes of the bodies and of the requests behind them.         *)
(***************************************************************************)
BadRequestIfHeadsWhole == ~splits => BadRequestOnlyForMalformed
=============================================================================
