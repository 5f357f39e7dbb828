-------------------------- MODULE MCTcpConnection --------------------------
(***************************************************************************)
(* A small instance of TcpConnection for TLC: every constant is a small    *)
(* number, which the configurations give.                                  *)
(***************************************************************************)
EXTENDS TcpConnection

=============================================================================
