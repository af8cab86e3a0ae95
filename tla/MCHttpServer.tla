---------------------------- MODULE MCHttpServer ----------------------------
(* The instance of HttpServer that TLC checks.  Requests are alike, and so *)
(* are clients.                                                            *)
EXTENDS HttpServer, TLC

Alike == Permutations(Requests) \cup Permutations(Clients)
=============================================================================
