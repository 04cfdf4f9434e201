----------------------------- MODULE MCResponseSend -----------------------------
(***************************************************************************)
(* A response of 5 bytes through a buffer of 2: it needs the peer to read, *)
(* as a response larger than the socket's buffer does.  Two signals (SIGINT *)
(* and SIGTERM) may cut the call short; the clock runs past the timeout.   *)
(***************************************************************************)
EXTENDS ResponseSend
==============================================================================
