------------------------------- MODULE MCHttp2 -------------------------------
(* A client and a server with four streams, of which the server's limit      *)
(* admits two at a time, and windows of a few bytes.                         *)
EXTENDS Http2Exchange
===============================================================================
