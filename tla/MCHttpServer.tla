----------------------------- MODULE MCHttpServer -----------------------------
(* A small instance of HttpServer.                                          *)
EXTENDS HttpServer

Asks(m, p, t, b, q, n) ==
  [method |-> m, path |-> p, query |-> t, browser |-> b, query_ok |-> q,
   head |-> n]

\* With a buffer of 2 bytes for the head: a head a byte too long, one that
\* just fits, and one of each answer; the page and its picture as the browser
\* asks for them, and a token behind a stale one.
MCRequests ==
  {Asks("GET", "stream", <<>>, TRUE, TRUE, 2),
   Asks("GET", "stream", <<"stale", "token">>, TRUE, TRUE, 1),
   Asks("GET", "index", <<"token">>, FALSE, TRUE, 3),
   Asks("GET", "index", <<"token">>, TRUE, TRUE, 1),
   Asks("GET", "status", <<>>, FALSE, TRUE, 1),
   Asks("GET", "status", <<>>, FALSE, FALSE, 1),
   Asks("GET", "other", <<"token">>, FALSE, TRUE, 1),
   Asks("PUT", "update", <<"token">>, FALSE, TRUE, 1),
   Asks("malformed", "other", <<>>, FALSE, TRUE, 1)}

===============================================================================
