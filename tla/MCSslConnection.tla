--------------------------- MODULE MCSslConnection ---------------------------
(***************************************************************************)
(* TLC instance of SslConnection.                                          *)
(***************************************************************************)
EXTENDS SslConnection

CONSTANTS c1, c2

TwoConns == {c1, c2}

(* One client comes back with a second request.                            *)
OneOrTwo == (c1 :> 2) @@ (c2 :> 1)

(* The default, which leaves 1.3 on, and the value that leaves 1.2.        *)
SomeConfigured == {12, 13}

(* A client of before 1.3 or a present one, beside a present one.          *)
SomeOffers ==
  {(c1 :> vs) @@ (c2 :> {12, 13}) : vs \in {{12}, {12, 13}}}
=============================================================================
