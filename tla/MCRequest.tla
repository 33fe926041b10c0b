------------------------------ MODULE MCRequest ------------------------------
(***************************************************************************)
(* Instance of Request for TLC: every proxy alone, before or behind the    *)
(* others that it can meet, and names at the lengths where the arithmetic  *)
(* of Addr.String changes.                                                 *)
(***************************************************************************)
EXTENDS Request

CONSTANTS plain, listed, starred, spaced, odd

MCChains == {
    <<"none">>, <<"unix">>, <<"wireguard">>, <<"drop">>, <<"env", "none">>,
    <<"http", "none">>, <<"socks", "none">>, <<"ss", "none">>, <<"ss", "unix">>,
    <<"block", "none">>, <<"block", "unix">>, <<"block", "ss", "none">>,
    <<"http", "http", "none">>, <<"ss", "http", "none">>,
    <<"http", "block", "none">>, <<"block", "http", "socks", "none">>}

Name(host, len) ==
    [type |-> Domain, len |-> len, host |-> host, hi |-> 1, lo |-> 187]

MCWireAddrs ==
    {Name(plain, len) : len \in {7, 252, 253, 254, 255}}
      \cup {Name(host, 7) : host \in {listed, starred, spaced, odd}}
      \cup {[type |-> t, len |-> 127, host |-> plain, hi |-> 0, lo |-> 53] :
              t \in {IPv4, IPv6}}
=============================================================================
