---------------------------- MODULE MCWebServer -----------------------------
(***************************************************************************)
(* Bounded instance of WebServer.                                          *)
(***************************************************************************)
EXTENDS WebServer
=============================================================================
