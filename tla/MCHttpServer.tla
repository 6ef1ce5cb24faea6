---------------------------- MODULE MCHttpServer ----------------------------
(* Small instances of HttpServer for TLC.  The runs check liveness, so the     *)
(* sessions are not declared symmetric.                                        *)
EXTENDS HttpServer
=============================================================================
