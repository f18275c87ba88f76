---------------------------- MODULE HttpServerMC ----------------------------
(* Small instances of HttpServer for TLC. *)
EXTENDS HttpServer
=============================================================================
