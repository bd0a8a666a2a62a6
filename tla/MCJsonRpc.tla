------------------------------ MODULE MCJsonRpc ------------------------------
(* A small instance of JsonRpc for TLC: a proxy with two requests and a     *)
(* notification, and another with a request.                                *)
EXTENDS JsonRpc

CONSTANTS h1, h2

MCHandlerOf == (1 :> h1) @@ (2 :> h1) @@ (3 :> h1) @@ (4 :> h2)
=============================================================================
