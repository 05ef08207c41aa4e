-------------------------- MODULE MCClientCapture --------------------------
(***************************************************************************)
(* Small instances of ClientCapture.                                       *)
(***************************************************************************)
EXTENDS ClientCapture
=============================================================================
