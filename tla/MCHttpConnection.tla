-------------------------- MODULE MCHttpConnection --------------------------
(***************************************************************************)
(* TLC instances of HttpConnection: the catalogues of requests the client  *)
(* chooses its script from.                                                *)
(***************************************************************************)
EXTENDS HttpConnection

Request(v, c, n, f) == [version |-> v, connection |-> c, length |-> n, flaw |-> f]

Plain    == Request("HTTP/1.1", "", 0, "none")
Posted   == Request("HTTP/1.1", "keep-alive", 2, "none")
Last11   == Request("HTTP/1.1", "close", 1, "none")
Old      == Request("HTTP/1.0", "", 0, "none")
OldAlive == Request("HTTP/1.0", "keep-alive", 0, "none")

WellFormedRequests == {Plain, Posted, Last11, Old, OldAlive}

MalformedRequests ==
  {Request("HTTP/1.1", "close", 0, f) : f \in {"line", "header", "length"}}

AllRequests == WellFormedRequests \cup MalformedRequests
=============================================================================
