------------------------------ MODULE MCLogging ------------------------------
(***************************************************************************)
(* TLC instance of Logging.                                                *)
(***************************************************************************)
EXTENDS Logging, TLC

CONSTANTS t1, t2, t3, root, http, b1

ThreeThreads == {t1, t2, t3}
TwoLoggers  == {root, http}
OneBucket == {b1}

Payload(x, n, w) == [text |-> x, bytes |-> n, wide |-> w]
ToRoot == [logger |-> root, payload |-> Payload("short", 1, FALSE)]
ToHttp == [logger |-> http, payload |-> Payload("long", 2, FALSE)]
Wide   == [logger |-> http, payload |-> Payload("wide", 3, TRUE)]

SomeCalls == (t1 :> <<ToHttp, ToHttp>>) @@ (t2 :> <<ToRoot>>) @@ (t3 :> <<Wide>>)

Common   == <<Text("["), Conv("d", TimeFormatDefault), Conv("m", "")>>
Default  == <<Conv("d", ""), Percent, Conv("m", "")>>
Refused  == <<Broken, Conv("d", "")>>
Other    == <<Conv("m", ""), Conv("d", "%M"), Text("]")>>

(* Patterns that agree on the time, and two of which none is kept whole.   *)
SomePatterns ==
  {(root :> p[1]) @@ (http :> p[2]) : p \in {<<Common, Default>>, <<Refused, Other>>}}
=============================================================================
