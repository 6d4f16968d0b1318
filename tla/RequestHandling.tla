--------------------------- MODULE RequestHandling ---------------------------
(***************************************************************************)
(* HttpServer::handle_request: what happens to one parsed request between  *)
(* on_request and the response, that is, the middleware chain, the CORS    *)
(* middleware, the router with the four kinds of routes, and the two catch *)
(* blocks around them.  The routes are registered before the request       *)
(* comes; requests share nothing else, so one of them is enough.           *)
(*                                                                         *)
(* A path is a sequence of segments.  In a pattern the segment Param       *)
(* stands for :name; its other segments contain no regular expression      *)
(* metacharacters.                                                         *)
(***************************************************************************)
EXTENDS Integers, Sequences

CONSTANTS
  Catalogue,      (* the routes that may be registered                     *)
  MaxRoutes,      (* bound: how many of them                               *)
  Chains,         (* the middleware chains a server may have               *)
  AllowOrigins,   (* the values allow_origins_ may have                    *)
  Requests,       (* the requests that may come                            *)
  Param, OptionsPath, ServerOrigin, Star, NoOrigin

Kinds == <<"handler", "callback", "regex_handler", "regex_callback">>
IsExact(r) == r.kind \in {"handler", "callback"}

ASSUME RoutesAssumption ==
  /\ MaxRoutes \in Nat
  /\ \A r \in Catalogue : \E k \in DOMAIN Kinds : r.kind = Kinds[k]
  /\ \A c \in Chains : c \in Seq({"cors", "other", "null"})
  /\ \A a \in AllowOrigins : a \in Seq({a[i] : i \in DOMAIN a})
  /\ \A r \in Requests : r \in [method : {r.method}, path : {r.path}, origin : {r.origin},
                                keepAlive : BOOLEAN]

VARIABLES
  registered,       (* history: the registrations, in order                *)
  handlers,         (* handlers_, as a set of <<method, path, target>>     *)
  callbacks,        (* callbacks_                                          *)
  regex_handlers,   (* regex_handlers_, as a sequence of the same          *)
  regex_callbacks,  (* regex_callbacks_                                    *)
  middlewares,      (* middlewares_                                        *)
  allow_origins,    (* allow_origins_ of the CORS middleware               *)
  pc,               (* where handle_request is                             *)
  index,            (* the middleware that is next                         *)
  request,          (* the request as on_request got it                    *)
  req,              (* the copy that handle_request works on               *)
  response,
  calls             (* history: what was called, and how that ended        *)

tables  == <<registered, handlers, callbacks, regex_handlers, regex_callbacks>>
config  == <<middlewares, allow_origins>>
vars == <<tables, config, pc, index, request, req, response, calls>>

(***************************************************************************)
(* A response: its status, is_keep_alive_, request_origin_, and the header *)
(* Access-Control-Allow-Origin.                                            *)
(***************************************************************************)
Response(status, keepAlive, origin) ==
  [status |-> status, keepAlive |-> keepAlive, origin |-> origin, allow |-> NoOrigin]

Statuses == {"unknown", "ok", "not found", "error", "no content", "forbidden", "thrown"}
Origins  == {r.origin : r \in Requests} \cup {Star, NoOrigin}
              \cup UNION {{a[i] : i \in DOMAIN a} : a \in AllowOrigins}
NoRequest == [method |-> "none", path |-> << >>, origin |-> NoOrigin, keepAlive |-> FALSE]

(* The server's own answer to OPTIONS is registered by its constructor.    *)
DefaultOptions == [kind |-> "callback", method |-> "OPTIONS", path |-> OptionsPath]

Key(r) == <<r.method, r.path>>
Entry(r, target) == [key |-> Key(r), target |-> target]

Entries == {Entry(registered[i], i) : i \in DOMAIN registered}

Call == [what : {"before", "handle", "after"}, who : Nat,
         end : {"return", "exception", "response", "not found"}]

TypeOK ==
  /\ registered \in Seq(Catalogue \cup {DefaultOptions})
  /\ Len(registered) \in 1 .. MaxRoutes + 1
  /\ handlers \subseteq Entries /\ callbacks \subseteq Entries
  /\ \A e, f \in handlers : e.key = f.key => e = f
  /\ \A e, f \in callbacks : e.key = f.key => e = f
  /\ regex_handlers \in Seq(Entries) /\ regex_callbacks \in Seq(Entries)
  /\ middlewares \in Chains /\ allow_origins \in AllowOrigins
  /\ pc \in {"setup", "before", "route", "after", "done"}
  /\ index \in 0 .. Len(middlewares) + 1
  /\ request \in Requests \cup {NoRequest}
  /\ req \in {request, [request EXCEPT !.path = OptionsPath]}
  /\ response \in [status : Statuses, keepAlive : BOOLEAN, origin : Origins, allow : Origins]
  /\ calls \in Seq(Call)

Init ==
  /\ registered = <<DefaultOptions>>
  /\ handlers = {}
  /\ callbacks = {Entry(DefaultOptions, 1)}
  /\ regex_handlers = << >>
  /\ regex_callbacks = << >>
  /\ middlewares \in Chains
  /\ allow_origins \in AllowOrigins
  /\ pc = "setup"
  /\ index = 0
  /\ request = NoRequest
  /\ req = NoRequest
  /\ response = Response("unknown", FALSE, NoOrigin)
  /\ calls = << >>

-----------------------------------------------------------------------------
(* Registration.                                                           *)

(* Mutant: a second registration of a key does not replace the first.      *)
StoredBeside(table, e) == table \cup {e}

(* table[key] = target                                                     *)
Stored(table, e) == {f \in table : f.key # e.key} \cup {e}

Register(r) ==
  LET e == Entry(r, Len(registered) + 1) IN
  /\ pc = "setup" /\ Len(registered) <= MaxRoutes
  /\ registered' = Append(registered, r)
  /\ \/ /\ r.kind = "handler"
        /\ handlers' = Stored(handlers, e)
        /\ UNCHANGED <<callbacks, regex_handlers, regex_callbacks>>
     \/ /\ r.kind = "callback"
        /\ callbacks' = Stored(callbacks, e)
        /\ UNCHANGED <<handlers, regex_handlers, regex_callbacks>>
     \/ /\ r.kind = "regex_handler"
        /\ regex_handlers' = Append(regex_handlers, e)
        /\ UNCHANGED <<handlers, callbacks, regex_callbacks>>
     \/ /\ r.kind = "regex_callback"
        /\ regex_callbacks' = Append(regex_callbacks, e)
        /\ UNCHANGED <<handlers, callbacks, regex_handlers>>
  /\ UNCHANGED <<config, pc, index, request, req, response, calls>>

(* on_request prepares the response and calls handle_request.              *)
Begin ==
  /\ pc = "setup"
  /\ request' \in Requests
  /\ req' = request'
  /\ response' = Response("unknown", request'.keepAlive, request'.origin)
  /\ pc' = "before"
  /\ index' = 1
  /\ UNCHANGED <<tables, config, calls>>

-----------------------------------------------------------------------------
(* How a call ends.  who is the middleware or the handler that was called. *)

Called(what, who, end) ==
  calls' = Append(calls, [what |-> what, who |-> who, end |-> end])

(* The catch blocks of handle_request: a thrown response replaces ...      *)
CatchResponse(r) ==
  /\ response' = r
  /\ pc' = "done"
  /\ UNCHANGED index

(* ... and an exception makes the response at hand a 500.                  *)
CatchException ==
  /\ response' = [response EXCEPT !.status = "error"]
  /\ pc' = "done"
  /\ UNCHANGED index

(* What code outside the repository throws as a response.                  *)
ThrownResponse == Response("thrown", FALSE, NoOrigin)

-----------------------------------------------------------------------------
(* The CORS middleware.                                                    *)

is_cors_request(origin) == origin # NoOrigin /\ origin # ServerOrigin

Allows(origin) == \E i \in DOMAIN allow_origins : allow_origins[i] = origin
is_origin_allowed(origin) == allow_origins = << >> \/ Allows(Star) \/ Allows(origin)

handle_preflight_request ==
  LET answer == Response(IF is_origin_allowed(req.origin) THEN "no content" ELSE "forbidden",
                         FALSE, NoOrigin)
  IN IF is_origin_allowed(req.origin) THEN [answer EXCEPT !.allow = req.origin] ELSE answer

(* Mutant: the origin of the request is echoed.                            *)
cors_origin_echoed == IF Allows(Star) THEN Star ELSE response.origin

(* after: which origin it puts into the header.                            *)
cors_origin == IF allow_origins = << >> \/ Allows(Star) THEN Star ELSE allow_origins[1]

cors_after ==
  IF is_cors_request(response.origin) THEN [response EXCEPT !.allow = cors_origin]
                                      ELSE response

-----------------------------------------------------------------------------
(* MiddlewareChain::process_before.                                        *)

InChain == index \in DOMAIN middlewares

Advance(end) ==
  /\ Called("before", index, end)
  /\ index' = index + 1
  /\ UNCHANGED <<pc, response>>

BeforeNull ==
  /\ pc = "before" /\ InChain /\ middlewares[index] = "null"
  /\ index' = index + 1
  /\ UNCHANGED <<tables, config, pc, request, req, response, calls>>

BeforeCors ==
  /\ pc = "before" /\ InChain /\ middlewares[index] = "cors"
  /\ IF req.method = "OPTIONS" /\ is_cors_request(req.origin)
     THEN Called("before", index, "response") /\ CatchResponse(handle_preflight_request)
     ELSE Advance("return")
  /\ UNCHANGED <<tables, config, request, req>>

BeforeOther ==
  /\ pc = "before" /\ InChain /\ middlewares[index] = "other"
  /\ \/ Advance("return")
     \/ Called("before", index, "exception") /\ CatchException
     \/ Called("before", index, "response") /\ CatchResponse(ThrownResponse)
  /\ UNCHANGED <<tables, config, request, req>>

(* All of them are done; an OPTIONS request is sent to its own path.       *)
BeforeDone ==
  /\ pc = "before" /\ ~InChain
  /\ req' = IF req.method = "OPTIONS" THEN [req EXCEPT !.path = OptionsPath] ELSE req
  /\ pc' = "route"
  /\ UNCHANGED <<tables, config, index, request, response, calls>>

-----------------------------------------------------------------------------
(* Router::route.                                                          *)

(* regex_match with the pattern that convert_to_regex made of a path.      *)
MatchesPattern(path, pattern) ==
  /\ Len(path) = Len(pattern)
  /\ \A i \in DOMAIN path : pattern[i] \in {Param, path[i]}

Fits(e) == e.key[1] = req.method /\ MatchesPattern(req.path, e.key[2])

Hit(table) == {e.target : e \in {f \in table : f.key = <<req.method, req.path>>}}

(* Mutant: the search goes on after a match.                               *)
LastHit(list) ==
  {list[i].target : i \in {j \in DOMAIN list :
     Fits(list[j]) /\ \A k \in j + 1 .. Len(list) : ~Fits(list[k])}}

FirstHit(list) ==
  {list[i].target : i \in {j \in DOMAIN list :
     Fits(list[j]) /\ \A k \in 1 .. j - 1 : ~Fits(list[k])}}

(* The target as a set of at most one number.                              *)
route ==
  LET searches == <<Hit(handlers), Hit(callbacks), FirstHit(regex_handlers),
                    FirstHit(regex_callbacks)>>
      found == {i \in DOMAIN searches : searches[i] # {}}
  IN IF found = {} THEN {} ELSE searches[CHOOSE i \in found : \A j \in found : i <= j]

ToAfter == pc' = "after" /\ index' = Len(middlewares)

(* The handler may set any status; what it may not do is listed in README. *)
Handle ==
  /\ pc = "route"
  /\ \E target \in route :
       \/ /\ Called("handle", target, "return")
          /\ response' = [response EXCEPT !.status = "ok"]
          /\ ToAfter
       \/ Called("handle", target, "exception") /\ CatchException
       \/ Called("handle", target, "response") /\ CatchResponse(ThrownResponse)
  /\ UNCHANGED <<tables, config, request, req>>

NotFound ==
  /\ pc = "route" /\ route = {}
  /\ Called("handle", 0, "not found")
  /\ response' = [response EXCEPT !.status = "not found", !.keepAlive = FALSE]
  /\ ToAfter
  /\ UNCHANGED <<tables, config, request, req>>

-----------------------------------------------------------------------------
(* MiddlewareChain::process_after, from the last to the first; it swallows *)
(* exceptions, a thrown response passes through it.                        *)

Retreat(end) ==
  /\ Called("after", index, end)
  /\ index' = index - 1
  /\ UNCHANGED pc

AfterNull ==
  /\ pc = "after" /\ InChain /\ middlewares[index] = "null"
  /\ index' = index - 1
  /\ UNCHANGED <<tables, config, pc, request, req, response, calls>>

AfterCors ==
  /\ pc = "after" /\ InChain /\ middlewares[index] = "cors"
  /\ response' = cors_after
  /\ Retreat("return")
  /\ UNCHANGED <<tables, config, request, req>>

(* Mutant: an exception ends the processing of the response.               *)
AfterOtherStops ==
  /\ pc = "after" /\ InChain /\ middlewares[index] = "other"
  /\ \/ Retreat("return") /\ UNCHANGED response
     \/ Called("after", index, "exception") /\ CatchException
     \/ Called("after", index, "response") /\ CatchResponse(ThrownResponse)
  /\ UNCHANGED <<tables, config, request, req>>

AfterOther ==
  /\ pc = "after" /\ InChain /\ middlewares[index] = "other"
  /\ \/ \E end \in {"return", "exception"} : Retreat(end) /\ UNCHANGED response
     \/ Called("after", index, "response") /\ CatchResponse(ThrownResponse)
  /\ UNCHANGED <<tables, config, request, req>>

AfterDone ==
  /\ pc = "after" /\ ~InChain
  /\ pc' = "done"
  /\ UNCHANGED <<tables, config, index, request, req, response, calls>>

process_before == BeforeNull \/ BeforeCors \/ BeforeOther \/ BeforeDone
process_after  == AfterNull \/ AfterCors \/ AfterOther \/ AfterDone

Next ==
  \/ \E r \in Catalogue : Register(r)
  \/ Begin
  \/ process_before \/ Handle \/ NotFound \/ process_after

Spec == Init /\ [][Next]_vars

-----------------------------------------------------------------------------
(* Where a call belongs: the middlewares take the places before and behind *)
(* that of the handler.                                                    *)
HandlerPlace    == Len(middlewares) + 1
BehindPlace(m)  == 2 * HandlerPlace - m

Place(c) ==
  CASE c.what = "before" -> c.who
    [] c.what = "handle" -> HandlerPlace
    [] c.what = "after"  -> BehindPlace(c.who)

(* The places that are called if nothing ends the processing.              *)
Due ==
  LET present == {m \in DOMAIN middlewares : middlewares[m] # "null"} IN
  present \cup {HandlerPlace} \cup {BehindPlace(m) : m \in present}

CalledAt(p) == \E i \in DOMAIN calls : Place(calls[i]) = p

Ends(c) ==
  \/ c.end = "response"
  \/ c.end = "exception" /\ c.what # "after"

(***************************************************************************)
(* The chain is an onion: the middlewares see the request in order, then   *)
(* the handler, then they see the response in reverse order, each of them  *)
(* exactly once and none left out; nothing more is called after the first  *)
(* call that ended the processing, and only an exception before the        *)
(* response, or a thrown response, does.                                   *)
(***************************************************************************)
Onion ==
  /\ \A i, j \in DOMAIN calls : i < j => Place(calls[i]) < Place(calls[j])
  /\ \A i \in DOMAIN calls :
       /\ Place(calls[i]) \in Due
       /\ \A p \in Due : p < Place(calls[i]) => CalledAt(p)
       /\ Ends(calls[i]) => i = Len(calls)
  /\ pc = "done" => (\A p \in Due : CalledAt(p)) \/ Ends(calls[Len(calls)])

(***************************************************************************)
(* Which route serves a request, said of the registrations and not of the  *)
(* tables: exact routes come before dynamic ones and handlers before       *)
(* callbacks; among equals the last exact route counts, or the first       *)
(* dynamic one; and there is a 404 only if nothing registered matches.     *)
(***************************************************************************)
Serves(r) ==
  /\ r.method = req.method
  /\ IF IsExact(r) THEN r.path = req.path ELSE MatchesPattern(req.path, r.path)

Rank(r) == CHOOSE k \in DOMAIN Kinds : Kinds[k] = r.kind

Beats(i, j) ==
  LET a == registered[i]
      b == registered[j]
  IN \/ Rank(a) < Rank(b)
     \/ Rank(a) = Rank(b) /\ (IF IsExact(a) THEN i > j ELSE i < j)

Candidates == {i \in DOMAIN registered : Serves(registered[i])}

RoutedAsRegistered ==
  \A n \in DOMAIN calls :
    calls[n].what = "handle" =>
      IF calls[n].end = "not found" THEN Candidates = {}
      ELSE /\ calls[n].who \in Candidates
           /\ \A j \in Candidates \ {calls[n].who} : Beats(calls[n].who, j)

(***************************************************************************)
(* A script of a foreign origin is allowed to read a response only if the  *)
(* configuration allows that origin, whichever way the response was made.  *)
(***************************************************************************)
Grants == response.allow # NoOrigin /\ response.allow \in {Star, request.origin}

OnlyAllowedOrigins == Grants => is_origin_allowed(request.origin)
=============================================================================
