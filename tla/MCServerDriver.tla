--------------------------- MODULE MCServerDriver ---------------------------
(***************************************************************************)
(* Small instances of ServerDriver.                                        *)
(***************************************************************************)
EXTENDS ServerDriver
=============================================================================
