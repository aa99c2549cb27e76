------------------------------ MODULE MCService ------------------------------
(* Instances of Service: which request has which key and which caller.     *)
EXTENDS Service, TLC

CONSTANTS h1, h2, h3, h4, k1, k2, p1, p2

(* Requests for one key, by different callers, and one for another key;    *)
(* one of the chained requests is refused.                                 *)
MCKeyOf == [h \in Handlers |-> IF h = h3 THEN k2 ELSE k1]
MCPeerOf == [h \in Handlers |-> IF h = h2 THEN p2 ELSE p1]
MCDenied == {h2}
=============================================================================
