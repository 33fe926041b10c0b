------------------------------- MODULE Outbound -------------------------------
(***************************************************************************)
(* One Dial or ListenPacket through the outbound proxies of app/proxy*.go. *)
(*                                                                         *)
(* A proxy may have a pre_proxy that it dials through, so proxies form a   *)
(* chain, outermost first.  A call goes down the chain, each proxy asking  *)
(* the next for its own server; the last one opens the one real            *)
(* connection; and on the way up each proxy does its handshake on it,      *)
(* which tells its server the address that it was itself asked for.  Any   *)
(* of these steps may fail, and a peer may never answer.                   *)
(*                                                                         *)
(* Kinds of proxy: "none", "wireguard" and "unix" open the connection;     *)
(* "drop" refuses; "block" is BlockDomain; "socks", "http" and "ss"        *)
(* (Shadowsocks) relay through a server; "env" is one of the dialers of    *)
(* golang.org/x/net/proxy that passes on what it is asked for.             *)
(*                                                                         *)
(* What comes back on the connection are response heads of HTTP proxies    *)
(* and then the bytes of the target, which may speak first.                *)
(***************************************************************************)
EXTENDS Sequences, SocksAddr

CONSTANTS
    Chains,         \* configured chains of proxies
    BlockedHosts,   \* names that BlockDomain's tree finds
    NilHosts,       \* names at which it comes to the nil node of a "**"
    SpacedHosts,    \* names with control characters or spaces in them
    OddHosts,       \* names that net.SplitHostPort does not split
    Server,         \* stands for the host of a proxy's server
    NoAddr,         \* no address, the "" of ListenPacket("udp", "")
    MaxDown         \* bytes that the target sends

Relays == {"socks", "http", "ss"}
Bases == {"none", "wireguard", "unix"}
Kinds == Relays \cup Bases \cup {"drop", "block", "env"}

ASSUME HostsAssumption ==
    /\ BlockedHosts \subseteq Hosts /\ SpacedHosts \subseteq Hosts
    /\ NilHosts \subseteq Hosts \ BlockedHosts
    /\ OddHosts \subseteq Hosts /\ Server \notin Hosts

ASSUME ChainsAssumption ==
    /\ Chains \subseteq Seq(Kinds)
    /\ \A c \in Chains : \E n \in 1..Len(c) :
         n = Len(c) /\ c[n] \in Bases \cup {"drop"}

ASSUME MaxDownAssumption == MaxDown \in Nat

\* The address of the server of hop i.
ServerOf(i) == <<Server, i>>

\* What is read from a connection: a response head, a byte of the target (its
\* number), or nothing, as once from a rewound connection.
ResponseHead == 0
Nothing == -1
IsPayload(x) == x > 0

VARIABLES
    chain,          \* the proxy that requests are handed to
    net,            \* "tcp" (Dial) or "udp" (ListenPacket)
    dial,           \* "idle", "down", "up", "reply" (waiting for one), and how it
                    \* ended: "ok", "failed" or "panic"
    at,             \* the hop that the call is in
    asked,          \* asked[i]: the address hop i is asked for
    told,           \* told[i]: the address hop i has told its peer
    conn,           \* the connection: "none", "open" or "closed"
    ahead,          \* what rawconn gives before it reads the connection
    arrived,        \* what has arrived on the connection and is unread
    sent            \* bytes that the target has sent

dialVars == <<chain, net, dial, at, asked, told, conn, ahead, arrived, sent>>

\* What the peers do and the call does not touch.
stream == <<ahead, arrived, sent>>

Hops == DOMAIN chain
Kind == chain[at]
Target == asked[at]
Texts == (Hosts \X Ports) \cup ({Server} \X Hops)

DialTypeOK ==
    /\ chain \in Chains
    /\ net \in {"tcp", "udp"}
    /\ dial \in {"idle", "down", "up", "reply", "ok", "failed", "panic"}
    /\ at \in Hops
    /\ asked \in [Hops -> Texts \cup {NoAddr}]
    /\ told \in [Hops -> Texts \cup {NoAddr}]
    /\ conn \in {"none", "open", "closed"}
    /\ ahead \in Seq(Nothing..MaxDown) /\ arrived \in Seq(Nothing..MaxDown)
    /\ sent \in 0..MaxDown

DialInit ==
    /\ chain \in Chains
    /\ net = "tcp" /\ dial = "idle" /\ at = 1 /\ conn = "none"
    /\ asked = [i \in Hops |-> NoAddr] /\ told = [i \in Hops |-> NoAddr]
    /\ ahead = <<>> /\ arrived = <<>> /\ sent = 0

\* The caller of the outermost proxy.
StartDial(network, x) ==
    /\ dial' = "down" /\ net' = network
    /\ asked' = [asked EXCEPT ![1] = x]
    /\ UNCHANGED <<chain, at, told, conn, stream>>

-----------------------------------------------------------------------------
(* Down the chain.                                                         *)

Splits(x) == x[1] \notin OddHosts

\* BlockDomain looks a name up for TCP only: a UDP session asks for "".
Blocked(x) == net = "tcp" /\ (~Splits(x) \/ x[1] \in BlockedHosts)

\* The lookup of a name with a label "**" dereferences the nil node that a listed
\* "**" has become.
Panics == Kind = "block" /\ net = "tcp" /\ Splits(Target) /\ Target[1] \in NilHosts

\* What a proxy refuses before it dials.  Only these carry UDP: a direct
\* socket, BlockDomain and Shadowsocks over one; wireguard cannot parse "".
Refused ==
    \/ Kind = "drop"
    \/ Kind = "block" /\ Blocked(Target)
    \/ Kind = "http" /\ net = "tcp" /\ Target[1] \in SpacedHosts
    \/ net = "udp" /\ Kind \notin {"none", "block", "ss"}

Refuse ==
    /\ dial = "down" /\ Refused
    /\ dial' = "failed"
    /\ UNCHANGED <<chain, net, at, asked, told, conn, stream>>

BlockPanics ==
    /\ dial = "down" /\ Panics
    /\ dial' = "panic"
    /\ UNCHANGED <<chain, net, at, asked, told, conn, stream>>

\* Mutant: a relay has its pre_proxy dial the target.
DescendPassingOn ==
    /\ dial = "down" /\ ~Refused /\ ~Panics /\ Kind \notin Bases
    /\ at' = at + 1
    /\ asked' = [asked EXCEPT ![at + 1] = Target]
    /\ UNCHANGED <<chain, net, dial, told, conn, stream>>

\* A proxy with a pre_proxy asks it for its server, or for the same address.
Descend ==
    /\ dial = "down" /\ ~Refused /\ ~Panics /\ Kind \notin Bases
    /\ at' = at + 1
    /\ asked' = [asked EXCEPT ![at + 1] =
                   IF Kind \in Relays /\ net = "tcp" THEN ServerOf(at) ELSE Target]
    /\ UNCHANGED <<chain, net, dial, told, conn, stream>>

\* A direct dial needs a name that resolves.
Resolves ==
    net = "tcp" /\ Kind # "unix" => Target[1] \notin OddHosts \cup SpacedHosts

\* net.Dial, net.ListenPacket or the dial of the unix socket.
Connect ==
    /\ dial = "down" /\ ~Refused /\ Kind \in Bases /\ Resolves
    /\ dial' = "up" /\ conn' = "open"
    /\ told' = [told EXCEPT ![at] = IF Kind = "unix" THEN NoAddr ELSE Target]
    /\ UNCHANGED <<chain, net, at, asked, stream>>

ConnectFails ==
    /\ dial = "down" /\ ~Refused /\ Kind \in Bases
    /\ dial' = "failed"
    /\ UNCHANGED <<chain, net, at, asked, told, conn, stream>>

-----------------------------------------------------------------------------
(* Up the chain.                                                           *)

\* The hop is through: the outermost returns to the caller.
Ascend == IF at = 1 THEN dial' = "ok" /\ UNCHANGED at
                    ELSE dial' = "up" /\ at' = at - 1

Shakes == net = "tcp" /\ Kind \in Relays \cup {"unix"}

\* A proxy without a handshake of its own; Shadowsocks wraps a packet socket.
Pass ==
    /\ dial = "up" /\ ~Shakes
    /\ Ascend
    /\ UNCHANGED <<chain, net, asked, told, conn, stream>>

\* The handshake of the unix, SOCKS5 or Shadowsocks proxy, or the CONNECT
\* request, for which HttpProxy then awaits a response.
Handshake ==
    /\ dial = "up" /\ Shakes
    /\ Kind = "http" \/ Splits(Target)
    /\ told' = [told EXCEPT ![at] = Target]
    /\ IF Kind = "http" THEN dial' = "reply" /\ UNCHANGED at ELSE Ascend
    /\ UNCHANGED <<chain, net, asked, conn, stream>>

\* The handshake fails: the connection is closed, but UnixProxy just returns.
HandshakeFails ==
    /\ dial = "up" /\ Shakes
    /\ dial' = "failed"
    /\ conn' = IF Kind = "unix" THEN conn ELSE "closed"
    /\ UNCHANGED <<chain, net, at, asked, told, stream>>

\* Shadowsocks' ListenPacket cannot resolve its server: it just returns.
ResolveFails ==
    /\ dial = "up" /\ Kind = "ss" /\ net = "udp"
    /\ dial' = "failed"
    /\ UNCHANGED <<chain, net, at, asked, told, conn, stream>>

Rewound(rest) == IF rest = <<>> THEN <<>> ELSE Append(rest, Nothing)

\* Mutant: what bufio has read past the response head is dropped.
ReadResponseDropping ==
    /\ dial = "reply"
    /\ \E n \in 1..Len(arrived) :
         /\ arrived[1] = ResponseHead
         /\ arrived' = SubSeq(arrived, n + 1, Len(arrived))
    /\ Ascend
    /\ UNCHANGED <<chain, net, asked, told, conn, ahead, sent>>

\* ReadResponse through a bufio.Reader, which takes whatever has arrived, up to
\* its size, and rawconn puts back what is left behind the head.
ReadResponse ==
    /\ dial = "reply"
    /\ \E n \in 1..Len(arrived) :
         /\ arrived[1] = ResponseHead
         /\ arrived' = SubSeq(arrived, n + 1, Len(arrived))
         /\ ahead' = Rewound(SubSeq(arrived, 2, n)) \o ahead
    /\ Ascend
    /\ UNCHANGED <<chain, net, asked, told, conn, sent>>

\* Mutant: a failed response leaves the connection to nobody.
ResponseFailsOpen ==
    /\ dial = "reply"
    /\ dial' = "failed"
    /\ UNCHANGED <<chain, net, at, asked, told, conn, stream>>

\* No response, no valid one, or a status other than 200.
ResponseFails ==
    /\ dial = "reply"
    /\ dial' = "failed" /\ conn' = "closed"
    /\ UNCHANGED <<chain, net, at, asked, told, stream>>

-----------------------------------------------------------------------------
(* The peers.                                                              *)

\* The proxy's server answers the CONNECT request.
ServerReplies ==
    /\ dial = "reply" /\ arrived = <<>>
    /\ arrived' = <<ResponseHead>>
    /\ UNCHANGED <<chain, net, dial, at, asked, told, conn, ahead, sent>>

\* The target is connected to once every server has been told where to go.
Reached ==
    \/ dial = "ok"
    \/ dial = "reply" /\ arrived # <<>> /\ \A i \in 1..(at - 1) : chain[i] \notin Relays

\* A target that is connected to sends the next byte.
TargetSends ==
    /\ Reached /\ conn = "open" /\ net = "tcp" /\ sent < MaxDown
    /\ sent' = sent + 1
    /\ arrived' = Append(arrived, sent + 1)
    /\ UNCHANGED <<chain, net, dial, at, asked, told, conn, ahead>>

DialNext ==
    \/ Refuse \/ BlockPanics \/ Descend \/ Connect \/ ConnectFails
    \/ Pass \/ Handshake \/ HandshakeFails \/ ResolveFails
    \/ ReadResponse \/ ResponseFails
    \/ ServerReplies \/ TargetSends
=============================================================================
