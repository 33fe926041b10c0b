------------------------------ MODULE SocksAddr ------------------------------
(***************************************************************************)
(* pkgs/socks/addr.go: an address as it is on the wire, and as the text    *)
(* that a Dialer is given.                                                 *)
(*                                                                         *)
(* A wire address is a record: its type byte, for a domain its length      *)
(* byte, the host it spells, and the two bytes of the port.  A text is a   *)
(* pair of a host and a port, or NoText when String panics.                *)
(***************************************************************************)
EXTENDS Integers

CONSTANTS
    Hosts,          \* hosts that addresses name
    NoText          \* the text of an address that has none

ASSUME TextAssumption == NoText \notin Hosts \X Nat

IPv4 == 1
Domain == 3
IPv6 == 4

Bytes == 0..255
WireAddr == [type : {IPv4, Domain, IPv6}, len : Bytes, host : Hosts,
             hi : Bytes, lo : Bytes]

MaxPort == 65535
Ports == 0..MaxPort
Port(hi, lo) == 256 * hi + lo

\* Index expressions with addr.data[1] are of type byte.
Uint8(n) == n % 256

\* A byte of the name, which is no more than that.
NameByte == 97

\* addr.data[i] of a domain address.
Data(a, i) ==
    CASE i = 0 -> a.type
      [] i = 1 -> a.len
      [] i = 2 + a.len -> a.hi
      [] i = 2 + a.len + 1 -> a.lo
      [] OTHER -> NameByte

\* Mutant: the high byte of the port is shifted too far.
TextOverShifted(a) == <<a.host, 65536 * a.hi + a.lo>>

\* String: the slice data[2:2+len] panics when its end wraps below its start.
Text(a) ==
    IF a.type = Domain
    THEN LET end == Uint8(2 + a.len) IN
         IF end < 2 THEN NoText
         ELSE <<a.host, Port(Data(a, end), Data(a, Uint8(end + 1)))>>
    ELSE <<a.host, Port(a.hi, a.lo)>>

\* Lengths up to which the index expressions do not wrap.
Fits(a) == a.type = Domain => 2 + a.len + 1 \in Bytes
=============================================================================
