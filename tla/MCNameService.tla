--------------------------- MODULE MCNameService ---------------------------
(***************************************************************************)
(* Small instances of NameService for TLC.                                 *)
(***************************************************************************)
EXTENDS NameService

=============================================================================
