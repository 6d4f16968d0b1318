------------------------- MODULE MCRequestHandling -------------------------
(***************************************************************************)
(* TLC instances of RequestHandling: routes that compete for two paths and *)
(* for the path of OPTIONS, chains with a middleware that throws on either *)
(* side of the CORS middleware, and origins inside and outside the list.   *)
(***************************************************************************)
EXTENDS RequestHandling

CONSTANTS first, second, evil

Me  == <<"users", "me">>
You == <<"users", "you">>
ThePath == <<"options", "method">>

Route(k, m, p) == [kind |-> k, method |-> m, path |-> p]

Routes ==
  {Route(Kinds[k], "GET", Me) : k \in 1 .. 4}
    \cup {Route(Kinds[k], m, <<"users", Param>>) : k \in 3 .. 4, m \in {"GET", "POST"}}
    \cup {Route("handler", "OPTIONS", ThePath), Route("regex_callback", "GET", <<Param, Param>>)}

Ask(m, p, o, k) == [method |-> m, path |-> p, origin |-> o, keepAlive |-> k]

Plain == {Ask(m, p, NoOrigin, TRUE) : m \in {"GET", "POST"}, p \in {Me, You}}

CrossOrigin ==
  {Ask(m, Me, o, k) : m \in {"GET", "OPTIONS"}, o \in {ServerOrigin, first, second, evil},
                      k \in BOOLEAN}

Asked == Plain \cup CrossOrigin

SomeChains ==
  {<< >>, <<"other", "cors", "other">>, <<"null", "cors", "other">>,
   <<"other", "other", "null", "other">>}

SomeOrigins == {<< >>, <<Star>>, <<first, second>>, <<first, Star>>}
=============================================================================
