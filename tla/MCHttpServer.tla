----------------------------- MODULE MCHttpServer -----------------------------
(* An instance of HttpServer for TLC: one client that asks for all sorts of   *)
(* things, one that may come to use its socket's number.                      *)
EXTENDS HttpServer

CONSTANTS c1, c2

MCScripts ==
  [c \in {c1, c2} |->
     IF c = c1
     THEN {<<"async", "sync">>, <<"async", "bad">>, <<"close", "sync">>, <<"sync", "lost">>,
           <<"upgrade", "sync", "bad">>, <<"upgrade", "async", "sync", "garbage">>,
           <<"sync", "async", "close">>}
     ELSE {<<"async">>}]
=============================================================================
