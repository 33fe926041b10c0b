---------------------------- MODULE MCTunnelUDP ----------------------------
(***************************************************************************)
(* Instance of TunnelUDP for TLC: names at the lengths where the           *)
(* arithmetic of Addr.String changes.                                      *)
(***************************************************************************)
EXTENDS TunnelUDP

CONSTANTS plain, long

Name(host, len) ==
    [type |-> Domain, len |-> len, host |-> host, hi |-> 1, lo |-> 187]

MCShort == {Name(plain, 7)}

MCDests == {Name(plain, 252), Name(long, 253), Name(long, 254)}
=============================================================================
