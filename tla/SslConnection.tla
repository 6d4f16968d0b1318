---------------------------- MODULE SslConnection ----------------------------
(***************************************************************************)
(* The TLS connections of one I/O thread of HttpServer: for each           *)
(* TcpConnection an SslConnection, which feeds what arrives to OpenSSL     *)
(* through a read BIO, takes what OpenSSL wants to send out of a write     *)
(* BIO, and calls on_message with what it has decrypted.  OpenSSL keeps    *)
(* one queue of errors per thread, so the connections of a thread share    *)
(* it: what one of them leaves there the next one finds.                   *)
(*                                                                         *)
(* A TLS flight, a record and an alert are one message each, which the     *)
(* network may deliver in two parts.  An HTTP request fills one record;    *)
(* how requests are cut out of a stream is the subject of HttpConnection.  *)
(***************************************************************************)
EXTENDS Integers, Sequences, FiniteSets, FiniteSetsExt, SequencesExt

CONSTANTS
  Conns,        (* the connections of the thread                           *)
  NoConn,       (* none of them                                            *)
  Configured,   (* the values SslConfig's version may have                 *)
  Offers,       (* the sets of versions the clients may offer              *)
  MaxRequests   (* bound: the requests of each client                      *)

Versions == 10 .. 13   (* TLS 1.0 to 1.3 *)

ASSUME SslAssumption ==
  /\ NoConn \notin Conns
  /\ Configured \subseteq Versions
  /\ Offers \subseteq [Conns -> SUBSET Versions]
  /\ MaxRequests \in [Conns -> Nat]

VARIABLES
  version,   (* config_.version_                                           *)
  leaves,    (* how many entries a failure leaves in the error queue       *)
  pipelines, (* may a client ask before its last answer came               *)
  offers,    (* the versions each client offers                            *)
  client,    (* where the client is                                        *)
  asked,     (* how many requests the client has sent                      *)
  toServer,  (* what is under way to the server                            *)
  toClient,  (* all that was sent to the client                            *)
  tcp,       (* the state of the TcpConnection                             *)
  state_,    (* the SslState                                               *)
  tls,       (* how far OpenSSL is with the handshake                      *)
  read_bio_, write_bio_,
  decrypted_buffer_,
  handled,   (* history: the requests on_message took                      *)
  errors,    (* the length of the thread's error queue                     *)
  pc,        (* "idle", or where the thread is in on_read                  *)
  cur        (* the connection it serves                                   *)

config     == <<version, leaves, pipelines, offers>>
clientVars == <<client, asked, toServer>>
connVars   == <<toClient, tcp, state_, tls, read_bio_, write_bio_,
                decrypted_buffer_, handled>>
vars == <<config, clientVars, connVars, errors, pc, cur>>

Requests == [kind : {"request"}, id : Nat]

(* A message is cut into its first part and the rest.                      *)
Part   == [kind |-> "part"]
Cut(m) == <<Part, m>>
Msg(k) == [kind |-> k]

FromClient ==
  {Part} \cup {Msg(k) : k \in {"hello", "finish", "close_notify", "noise"}} \cup Requests

FromServer ==
  {Msg(k) : k \in {"flight", "finished", "tickets", "alert"}}
    \cup [kind : {"response"}, of : Nat, whole : BOOLEAN]

TypeOK ==
  /\ version \in Configured /\ leaves \in 1 .. 2 /\ pipelines \in BOOLEAN
  /\ offers \in Offers
  /\ client \in [Conns -> {"start", "hello", "finished", "done"}]
  /\ asked \in [Conns -> Nat] /\ \A c \in Conns : asked[c] <= MaxRequests[c]
  /\ toServer \in [Conns -> Seq(FromClient)]
  /\ toClient \in [Conns -> Seq(FromServer)]
  /\ tcp \in [Conns -> {"new", "connected", "disconnecting", "disconnected"}]
  /\ state_ \in [Conns -> {"HANDSHAKE", "ESTABLISHED", "ERROR"}]
  /\ tls \in [Conns -> {"accept", "flight", "done", "failed"}]
  /\ read_bio_ \in [Conns -> Seq(FromClient)]
  /\ write_bio_ \in [Conns -> Seq(FromServer)]
  /\ decrypted_buffer_ \in [Conns -> Seq(Requests)]
  /\ handled \in [Conns -> Seq(Requests)]
  /\ errors \in Nat
  /\ pc \in {"idle", "handshake", "decrypt", "message"}
  /\ cur \in Conns \cup {NoConn} /\ (cur = NoConn <=> pc = "idle")

Init ==
  /\ version \in Configured /\ leaves \in 1 .. 2 /\ pipelines \in BOOLEAN
  /\ offers \in Offers
  /\ client = [c \in Conns |-> "start"]
  /\ asked = [c \in Conns |-> 0]
  /\ toServer = [c \in Conns |-> << >>]
  /\ toClient = [c \in Conns |-> << >>]
  /\ tcp = [c \in Conns |-> "new"]
  /\ state_ = [c \in Conns |-> "HANDSHAKE"]
  /\ tls = [c \in Conns |-> "accept"]
  /\ read_bio_ = [c \in Conns |-> << >>]
  /\ write_bio_ = [c \in Conns |-> << >>]
  /\ decrypted_buffer_ = [c \in Conns |-> << >>]
  /\ handled = [c \in Conns |-> << >>]
  /\ errors = 0
  /\ pc = "idle"
  /\ cur = NoConn

-----------------------------------------------------------------------------
(* SslContext::setup_protocal: the configured version is switched off.     *)
Offered == Versions \ {version}

(* OpenSSL takes the newest version both sides offer.                      *)
Common(c)     == Offered \cap offers[c]
Negotiated(c) == Max(Common(c))

-----------------------------------------------------------------------------
(* The clients.  A callback of the thread does not look at the wire, so    *)
(* that nothing is lost if clients move between the callbacks only.        *)

Got(c, kind) == \E i \in DOMAIN toClient[c] : toClient[c][i].kind = kind

(* The responses the client has whole.  One it has the beginning of only   *)
(* is no answer: the client waits for the rest.                            *)
IsResponse(m) == m.kind = "response"
Answers(c)    == SelectSeq(toClient[c], LAMBDA m : IsResponse(m) /\ m.whole)
Truncated(c)  == \E i \in DOMAIN toClient[c] :
                   IsResponse(toClient[c][i]) /\ ~toClient[c][i].whole

ClientSends(c, m, next) ==
  /\ pc = "idle" /\ tcp[c] \in {"connected", "disconnecting"}
  /\ toServer' = [toServer EXCEPT ![c] = @ \o Cut(m)]
  /\ client' = [client EXCEPT ![c] = next]
  /\ UNCHANGED <<config, connVars, errors, pc, cur>>

ClientHello(c) ==
  /\ client[c] = "start"
  /\ ClientSends(c, Msg("hello"), "hello")
  /\ UNCHANGED asked

ClientFinish(c) ==
  /\ client[c] = "hello" /\ Got(c, "flight")
  /\ ClientSends(c, Msg("finish"), "finished")
  /\ UNCHANGED asked

(* Before 1.3 the client must see the server's Finished to go on.          *)
Open(c) ==
  client[c] = "finished" /\ (Negotiated(c) = 13 \/ Got(c, "finished"))

ClientAsks(c) ==
  /\ Open(c) /\ asked[c] < MaxRequests[c]
  /\ pipelines \/ Len(Answers(c)) = asked[c]
  /\ asked' = [asked EXCEPT ![c] = @ + 1]
  /\ ClientSends(c, [kind |-> "request", id |-> asked[c] + 1], "finished")

(* The client ends the session, or what it sends is not what TLS expects.  *)
ClientEnds(c) ==
  /\ client[c] # "done"
  /\ \/ Open(c) /\ ClientSends(c, Msg("close_notify"), "done")
     \/ ClientSends(c, Msg("noise"), "done")
  /\ UNCHANGED asked

-----------------------------------------------------------------------------
(* HttpServer::on_connection.                                              *)

(* Connected: the SslConnection is made, and its handshake() has nothing   *)
(* to read yet; SSL_do_handshake clears the error queue.                   *)
ConnectionUp(c) ==
  /\ pc = "idle" /\ tcp[c] = "new"
  /\ tcp' = [tcp EXCEPT ![c] = "connected"]
  /\ errors' = 0
  /\ UNCHANGED <<config, clientVars, toClient, state_, tls, read_bio_, write_bio_,
                 decrypted_buffer_, handled, pc, cur>>

(* The peer has closed: the SslConnection is erased with its BIOs.         *)
ConnectionDown(c) ==
  /\ pc = "idle" /\ tcp[c] \in {"connected", "disconnecting"}
  /\ tcp' = [tcp EXCEPT ![c] = "disconnected"]
  /\ UNCHANGED <<config, clientVars, toClient, state_, tls, read_bio_, write_bio_,
                 decrypted_buffer_, handled, errors, pc, cur>>

-----------------------------------------------------------------------------
(* The parts of on_read that several steps share.                          *)

Return == pc' = "idle" /\ cur' = NoConn

Shutdown(c) ==
  tcp' = [tcp EXCEPT ![c] = IF @ = "connected" THEN "disconnecting" ELSE @]

Fails(c) == state_' = [state_ EXCEPT ![c] = "ERROR"] /\ Shutdown(c)

(* drain_write_bio, after OpenSSL has put more into the BIO.               *)
Drain(c, more) ==
  /\ toClient' = [toClient EXCEPT ![c] = @ \o write_bio_[c] \o more]
  /\ write_bio_' = [write_bio_ EXCEPT ![c] = << >>]

(* Is a whole message in the BIO, which one, and it is consumed.           *)
Ready(c)   == Len(read_bio_[c]) >= Len(Cut(Part))
Message(c) == read_bio_[c][2]
Consume(c) == read_bio_' = [read_bio_ EXCEPT ![c] = SubSeq(@, 3, Len(@))]

(* OpenSSL keeps what it has to say for the write BIO.                     *)
Says(c, kind) == write_bio_' = [write_bio_ EXCEPT ![c] = Append(@, Msg(kind))]

(* Mutant: an empty queue is not thought of.                               *)
PoppedAlways(n) == n - 1

(* ERR_get_error takes one entry off the queue.                            *)
Popped(n) == IF n = 0 THEN 0 ELSE n - 1

(* on_read: all that has arrived goes into the read BIO.  SSL_do_handshake *)
(* clears the error queue unless this handshake has failed before.         *)
on_read(c) ==
  /\ pc = "idle" /\ tcp[c] \in {"connected", "disconnecting"}
  /\ \E n \in 1 .. Len(toServer[c]) :
       /\ read_bio_' = [read_bio_ EXCEPT ![c] = @ \o SubSeq(toServer[c], 1, n)]
       /\ toServer' = [toServer EXCEPT ![c] = SubSeq(@, n + 1, Len(@))]
  /\ \/ state_[c] = "HANDSHAKE"   /\ pc' = "handshake" /\ cur' = c
     \/ state_[c] = "ESTABLISHED" /\ pc' = "decrypt" /\ cur' = c
     \/ state_[c] = "ERROR"       /\ UNCHANGED <<pc, cur>>
  /\ errors' = IF state_[c] = "HANDSHAKE" /\ tls[c] # "failed" THEN 0 ELSE errors
  /\ UNCHANGED <<config, client, asked, toClient, tcp, state_, tls, write_bio_,
                 decrypted_buffer_, handled>>

-----------------------------------------------------------------------------
(* handle_handshake.                                                       *)

Expected(c) == IF tls[c] = "accept" THEN "hello" ELSE "finish"

(* OpenSSL answers the hello and looks for more.                           *)
HandshakeHello ==
  /\ pc = "handshake" /\ tls[cur] = "accept" /\ Ready(cur)
  /\ Message(cur).kind = "hello" /\ Common(cur) # {}
  /\ Consume(cur)
  /\ Says(cur, "flight")
  /\ tls' = [tls EXCEPT ![cur] = "flight"]
  /\ UNCHANGED <<config, clientVars, toClient, tcp, state_, decrypted_buffer_,
                 handled, errors, pc, cur>>

(* It returns 1: what it has to say last stays in the write BIO.           *)
HandshakeDone ==
  /\ pc = "handshake" /\ tls[cur] = "flight" /\ Ready(cur)
  /\ Message(cur).kind = "finish"
  /\ Consume(cur)
  /\ Says(cur, IF Negotiated(cur) = 13 THEN "tickets" ELSE "finished")
  /\ tls' = [tls EXCEPT ![cur] = "done"]
  /\ state_' = [state_ EXCEPT ![cur] = "ESTABLISHED"]
  /\ pc' = "decrypt"
  /\ UNCHANGED <<config, clientVars, toClient, tcp, decrypted_buffer_, handled,
                 errors, cur>>

(* Mutant: the flight is not drained.                                      *)
HandshakeWantsReadNoDrain ==
  /\ pc = "handshake" /\ tls[cur] \in {"accept", "flight"} /\ ~Ready(cur)
  /\ Return
  /\ UNCHANGED <<config, clientVars, connVars, errors>>

(* WANT_READ: the flight is sent.                                          *)
HandshakeWantsRead ==
  /\ pc = "handshake" /\ tls[cur] \in {"accept", "flight"} /\ ~Ready(cur)
  /\ Drain(cur, << >>)
  /\ Return
  /\ UNCHANGED <<config, clientVars, tcp, state_, tls, read_bio_, decrypted_buffer_,
                 handled, errors>>

(* The message is not the one expected, or no version is common: the alert *)
(* stays in the write BIO, state_ remains HANDSHAKE.                       *)
HandshakeFails ==
  /\ pc = "handshake" /\ tls[cur] \in {"accept", "flight"} /\ Ready(cur)
  /\ Message(cur).kind # Expected(cur) \/ Common(cur) = {}
  /\ Consume(cur)
  /\ Says(cur, "alert")
  /\ tls' = [tls EXCEPT ![cur] = "failed"]
  /\ errors' = Popped(errors + leaves)
  /\ Shutdown(cur)
  /\ Return
  /\ UNCHANGED <<config, clientVars, toClient, state_, decrypted_buffer_, handled>>

(* OpenSSL does not go on after a failure, and says so again.              *)
HandshakeFailedBefore ==
  /\ pc = "handshake" /\ tls[cur] = "failed"
  /\ errors' = Popped(errors)
  /\ Shutdown(cur)
  /\ Return
  /\ UNCHANGED <<config, clientVars, toClient, state_, tls, read_bio_, write_bio_,
                 decrypted_buffer_, handled>>

handle_handshake ==
  HandshakeHello \/ HandshakeDone \/ HandshakeWantsRead
    \/ HandshakeFails \/ HandshakeFailedBefore

-----------------------------------------------------------------------------
(* on_decrypted: SSL_read until it has nothing more.                       *)

(* Mutant: what on_message left in the buffer is overwritten.              *)
DecryptRecordOverwrites ==
  /\ pc = "decrypt" /\ Ready(cur) /\ Message(cur).kind = "request"
  /\ decrypted_buffer_' = [decrypted_buffer_ EXCEPT ![cur] = <<Message(cur)>>]
  /\ Consume(cur)
  /\ UNCHANGED <<config, clientVars, toClient, tcp, state_, tls, write_bio_, handled,
                 errors, pc, cur>>

DecryptRecord ==
  /\ pc = "decrypt" /\ Ready(cur) /\ Message(cur).kind = "request"
  /\ decrypted_buffer_' = [decrypted_buffer_ EXCEPT ![cur] = Append(@, Message(cur))]
  /\ Consume(cur)
  /\ UNCHANGED <<config, clientVars, toClient, tcp, state_, tls, write_bio_, handled,
                 errors, pc, cur>>

(* SSL_get_error looks at the error queue before anything else: WANT_READ  *)
(* is only seen if the queue is empty.                                     *)
DecryptWantsRead ==
  /\ pc = "decrypt" /\ ~Ready(cur)
  /\ \/ errors = 0 /\ UNCHANGED <<tcp, state_>>
     \/ errors > 0 /\ Fails(cur)
  /\ errors' = Popped(errors)
  /\ pc' = "message"
  /\ UNCHANGED <<config, clientVars, toClient, tls, read_bio_, write_bio_,
                 decrypted_buffer_, handled, cur>>

(* close_notify is an UNKNOWN error, and handle_error takes one entry.     *)
DecryptCloseNotify ==
  /\ pc = "decrypt" /\ Ready(cur) /\ Message(cur).kind = "close_notify"
  /\ Consume(cur)
  /\ Fails(cur)
  /\ errors' = Popped(errors)
  /\ pc' = "message"
  /\ UNCHANGED <<config, clientVars, toClient, tls, write_bio_, decrypted_buffer_,
                 handled, cur>>

(* Mutant: the error is logged by its code only, the queue keeps it.       *)
DecryptFailsNoPop ==
  /\ pc = "decrypt" /\ Ready(cur) /\ Message(cur).kind = "noise"
  /\ Consume(cur)
  /\ Says(cur, "alert")
  /\ tls' = [tls EXCEPT ![cur] = "failed"]
  /\ Fails(cur)
  /\ errors' = errors + leaves
  /\ pc' = "message"
  /\ UNCHANGED <<config, clientVars, toClient, decrypted_buffer_, handled, cur>>

(* A record that is none: get_last_error is SSL.                           *)
DecryptFails ==
  /\ pc = "decrypt" /\ Ready(cur) /\ Message(cur).kind = "noise"
  /\ Consume(cur)
  /\ Says(cur, "alert")
  /\ tls' = [tls EXCEPT ![cur] = "failed"]
  /\ Fails(cur)
  /\ errors' = Popped(errors + leaves)
  /\ pc' = "message"
  /\ UNCHANGED <<config, clientVars, toClient, decrypted_buffer_, handled, cur>>

on_decrypted == DecryptRecord \/ DecryptWantsRead \/ DecryptCloseNotify \/ DecryptFails

-----------------------------------------------------------------------------
(* message_callback_, which is HttpServer::on_message.                     *)

NothingDecrypted ==
  /\ pc = "message" /\ decrypted_buffer_[cur] = << >>
  /\ Return
  /\ UNCHANGED <<config, clientVars, connVars, errors>>

(* Mutant: what was encrypted stays in the write BIO.                      *)
SendNoDrain(c, response) ==
  /\ write_bio_' = [write_bio_ EXCEPT ![c] = @ \o response]
  /\ UNCHANGED toClient

(* HttpServer::send and SslConnection::send.  SSL_write takes one record   *)
(* of the response, which is the whole of it only if it is short; nobody   *)
(* looks at how much it took.                                              *)
Send(c, response) ==
  \/ tcp[c] = "connected" /\ state_[c] = "ESTABLISHED" /\ Drain(c, response)
  \/ /\ tcp[c] # "connected" \/ state_[c] # "ESTABLISHED"
     /\ UNCHANGED <<toClient, write_bio_>>

(* on_message takes one request out of the buffer, whatever else is there. *)
OnMessage ==
  /\ pc = "message" /\ decrypted_buffer_[cur] # << >>
  /\ LET request == Head(decrypted_buffer_[cur]) IN
       /\ handled' = [handled EXCEPT ![cur] = Append(@, request)]
       /\ \E whole \in BOOLEAN :
            Send(cur, <<[kind |-> "response", of |-> request.id, whole |-> whole]>>)
  /\ decrypted_buffer_' = [decrypted_buffer_ EXCEPT ![cur] = Tail(@)]
  /\ \E close \in BOOLEAN : IF close THEN Shutdown(cur) ELSE UNCHANGED tcp
  /\ Return
  /\ UNCHANGED <<config, clientVars, state_, tls, read_bio_, errors>>

Callback == handle_handshake \/ on_decrypted \/ NothingDecrypted \/ OnMessage

Client(c) ==
  ClientHello(c) \/ ClientFinish(c) \/ ClientAsks(c) \/ ClientEnds(c)

Next ==
  \/ \E c \in Conns : Client(c) \/ ConnectionUp(c) \/ ConnectionDown(c) \/ on_read(c)
  \/ Callback

Spec == Init /\ [][Next]_vars

(* The loop reads and runs its callbacks, and a client goes on with the    *)
(* handshake it has begun.                                                 *)
FairSpec ==
  /\ Spec
  /\ WF_vars(Callback)
  /\ \A c \in Conns : WF_vars(on_read(c)) /\ WF_vars(ClientFinish(c))

-----------------------------------------------------------------------------
Request(n) == [kind |-> "request", id |-> n]
IsRequest(m) == m.kind = "request"

(* Among what s carries are the requests from first to last, each once and *)
(* in order, and no other one.                                             *)
Carries(s, first, last) ==
  /\ \A i \in DOMAIN s : IsRequest(s[i]) => \E n \in first .. last : s[i] = Request(n)
  /\ \A n \in first .. last : \E i \in DOMAIN s : s[i] = Request(n)
  /\ \A i, j \in DOMAIN s :
       i < j /\ IsRequest(s[i]) /\ IsRequest(s[j]) => s[i].id < s[j].id

(***************************************************************************)
(* Between the wire and on_message a request passes two buffers and        *)
(* OpenSSL, and may be cut on the way: at any moment the requests handled, *)
(* decrypted, received and under way are the ones the client sent, each    *)
(* once and in order, even after an error of the connection.               *)
(***************************************************************************)
NothingLostInTheBios ==
  \A c \in Conns :
    LET taken == handled[c] \o decrypted_buffer_[c] IN
    /\ \A i \in DOMAIN taken : taken[i] = Request(i)
    /\ Carries(read_bio_[c] \o toServer[c], Len(taken) + 1, asked[c])

(***************************************************************************)
(* No client pays for the errors of another: as long as a failure leaves   *)
(* one entry in the error queue, which is the one the code takes out, a    *)
(* connection ends in ERROR only if its own client ended the session or    *)
(* sent something that is not TLS.  (With two entries the next SSL_read of *)
(* the thread, on whatever connection, takes the rest for its own error.)  *)
(***************************************************************************)
NoForeignError ==
  leaves = 1 => \A c \in Conns : state_[c] = "ERROR" => client[c] = "done"

Over(c) == client[c] = "done" \/ tcp[c] \in {"disconnecting", "disconnected"}

(***************************************************************************)
(* A client that has said hello completes the handshake, unless it gives   *)
(* up or the connection ends: with TLS 1.3, where the server has nothing   *)
(* to say at the end of the handshake that the client needs.  With TLS 1.2 *)
(* the server's last flight stays in the write BIO.                        *)
(***************************************************************************)
HandshakeEndsIn13 ==
  \A c \in Conns :
    client[c] = "hello" /\ 13 \in Common(c) ~> Open(c) \/ Over(c)

(***************************************************************************)
(* A client that awaits each answer before it asks again gets a whole      *)
(* answer to every request, also if the request came in the segment that   *)
(* ended the handshake and however it was cut, as long as every response   *)
(* fits in a record.  Of a longer one send() writes the first record and   *)
(* forgets the rest (partial writes are enabled, and SSL_write is called   *)
(* once): that client, and only that one, waits for ever.                  *)
(***************************************************************************)
AnsweredIfAwaited ==
  \A c \in Conns : \A i \in 1 .. MaxRequests[c] :
    asked[c] >= i /\ ~pipelines ~> Len(Answers(c)) >= i \/ Truncated(c) \/ Over(c)
=============================================================================
