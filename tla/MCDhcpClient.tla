---------------------------- MODULE MCDhcpClient ----------------------------
(***************************************************************************)
(* A small instance of DhcpClient for TLC: two servers, each of which      *)
(* answers in one of the two modes, so that an answer to one discovery may *)
(* still be under way when the other server answers the next.  The leases  *)
(* of one are long enough for the renewals, those of the other are not.    *)
(***************************************************************************)
EXTENDS DhcpClient, TLC

CONSTANTS s1, s2

MCLease == s1 :> 6 @@ s2 :> 1
MCHandles == s1 :> {TRUE} @@ s2 :> {FALSE}

=============================================================================
