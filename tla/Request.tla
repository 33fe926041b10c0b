------------------------------- MODULE Request -------------------------------
(***************************************************************************)
(* One trojan request from its arrival to its report: ServeHTTP of         *)
(* modules/handler/handler.go for CONNECT and WebSocket, the part of       *)
(* modules/listener/listener.go behind the sniff (which module Listener    *)
(* models), HandleWithDialer of pkgs/trojan/trojan.go, and the proxies of  *)
(* module Outbound.                                                        *)
(*                                                                         *)
(* The client may go away, and any party may stay silent, at every step.   *)
(* The header is read in parts; what its bytes say is chosen as they are   *)
(* read.  The tunnel is an abstraction of TunnelTCP and TunnelUDP: it      *)
(* moves bytes both ways in order, ends at any time, closes the outbound   *)
(* connection and returns what it has moved.                               *)
(*                                                                         *)
(* A panic in the goroutine of an HTTP request is the HTTP server's to     *)
(* recover; one in the listener's goroutine, or in the reader goroutine    *)
(* of a UDP session, ends the process.  Either way the request is over.    *)
(***************************************************************************)
EXTENDS Outbound

CONSTANTS
    WireAddrs,      \* addresses that headers may name
    MaxUp           \* bytes that the client sends into the tunnel

ASSUME WireAssumption == WireAddrs \subseteq WireAddr /\ MaxUp \in Nat

VARIABLES
    transport,      \* "connect", "websocket" or "tcp"
    pc,             \* where the request's goroutine is
    client,         \* "alive" or "gone"
    inbound,        \* the client's connection: "open" or "closed"
    timer,          \* its read deadline: "none", "armed" or "expired"
    reader,         \* Conn.Reader of a WebSocket: "eof", "message" or "nil"
    known,          \* Validate has accepted the user
    addr,           \* the address of the header
    up, got,        \* bytes moved up; the bytes moved down, in order
    reports         \* the traffic reported with Consume

control == <<transport, pc, client, inbound, timer, reader, known, addr, up,
             got, reports>>
vars == <<control, dialVars>>

\* What a step leaves alone, in groups.
fixed == <<transport, addr>>
link == <<inbound, timer>>
moved == <<up, got, reports>>

Reading == {"header", "command", "addr", "rest", "crlf"}
Ended == {"next", "done", "panic"}
Stages == Reading \cup Ended
            \cup {"arrival", "validate", "dial", "tunnel", "drain", "report"}
Traffic == [up : 0..MaxUp, down : Nat]

\* Stages of a request whose user is known: no deadline may reach them.
Served == {"command", "addr", "rest", "crlf", "dial", "tunnel", "drain"}

TypeOK ==
    /\ DialTypeOK
    /\ transport \in {"connect", "websocket", "tcp"}
    /\ pc \in Stages
    /\ client \in {"alive", "gone"} /\ inbound \in {"open", "closed"}
    /\ timer \in {"none", "armed", "expired"}
    /\ reader \in {"eof", "message", "nil"}
    /\ known \in BOOLEAN
    /\ addr \in WireAddrs
    /\ up \in 0..MaxUp /\ got \in Seq(Nothing..MaxDown)
    /\ reports \in Seq(Traffic)

\* The listener's goroutine comes here from its Validate.
Init ==
    /\ DialInit
    /\ transport \in {"connect", "websocket", "tcp"}
    /\ pc = IF transport = "tcp" THEN "command" ELSE "arrival"
    /\ known = (transport = "tcp")
    /\ client = "alive" /\ inbound = "open" /\ timer = "none" /\ reader = "eof"
    /\ addr \in WireAddrs
    /\ up = 0 /\ got = <<>> /\ reports = <<>>

\* A step of the goroutine from one stage to another.
Go(from, to) == pc = from /\ pc' = to /\ UNCHANGED <<fixed, client>>

\* The deferred Closes; the HTTP server closes the stream of a CONNECT.
Leave(from, to) ==
    /\ Go(from, to)
    /\ inbound' = "closed" /\ timer' = "none"

-----------------------------------------------------------------------------
(* Arrival.                                                                *)

\* CONNECT: the header's key came with the request (see RateLimiter for the
\* refusals, which go to the next handler).
AcceptConnect ==
    /\ transport = "connect" /\ Go("arrival", "command")
    /\ known' = TRUE
    /\ UNCHANGED <<link, moved, reader, dialVars>>

RefuseConnect ==
    /\ transport = "connect" /\ Go("arrival", "next")
    /\ UNCHANGED <<link, moved, reader, known, dialVars>>

\* WebSocket: upgraded, the header must arrive within headerTimeout.
Upgrade ==
    /\ transport = "websocket" /\ Go("arrival", "header")
    /\ timer' = "armed"
    /\ UNCHANGED <<moved, inbound, reader, known, dialVars>>

\* The upgrade fails: a foreign origin (checkOrigin) or a bad handshake.
UpgradeFails ==
    /\ transport = "websocket" /\ Leave("arrival", "done")
    /\ UNCHANGED <<moved, reader, known, dialVars>>

-----------------------------------------------------------------------------
(* Reading from the client.                                                *)

\* Conn.Read of a WebSocket leaves a message reader behind, or, when NextReader
\* fails, none: to Read once more would dereference nil.
ReadOK == IF transport = "websocket"
          THEN reader # "nil" /\ reader' = "message" ELSE UNCHANGED reader
ReadBroken == reader' = IF transport = "websocket" THEN "nil" ELSE reader

\* A Read brings less than was asked for, or an empty message: ReadFull goes on.
ReadSome ==
    /\ pc \in Reading
    /\ ReadOK
    /\ UNCHANGED <<fixed, pc, client, link, moved, known, dialVars>>

\* A Read fails: the client has gone or the deadline has passed.
ReadFails ==
    /\ pc \in Reading /\ (client = "gone" \/ timer = "expired")
    /\ ReadBroken
    /\ IF known THEN Go(pc, "report") /\ UNCHANGED link
                ELSE Leave(pc, "done")
    /\ UNCHANGED <<moved, known, dialVars>>

\* The 58 bytes of the header have arrived, with a good CRLF ...
ReadHeader ==
    /\ Go("header", "validate") /\ ReadOK
    /\ UNCHANGED <<link, moved, known, dialVars>>

\* ... or with a bad one.
BadHeader ==
    /\ Leave("header", "done") /\ ReadOK
    /\ UNCHANGED <<moved, known, dialVars>>

\* Mutant: the header's deadline is left to the tunnel.
ValidatedUnderDeadline ==
    /\ Go("validate", "command")
    /\ known' = TRUE
    /\ UNCHANGED <<link, moved, reader, dialVars>>

\* The user is known: clearHeaderDeadline, also if it has passed meanwhile.
Validated ==
    /\ Go("validate", "command")
    /\ known' = TRUE /\ timer' = "none"
    /\ UNCHANGED <<moved, inbound, reader, dialVars>>

UnknownUser ==
    /\ Leave("validate", "done")
    /\ UNCHANGED <<moved, reader, known, dialVars>>

\* HandleWithDialer reads the command, the address in two parts, and the CRLF.
ReadPart ==
    /\ \/ Go("command", "addr") \/ Go("addr", "rest") \/ Go("rest", "crlf")
    /\ ReadOK
    /\ UNCHANGED <<link, moved, known, dialVars>>

\* An unknown command or address type, or a bad CRLF.
BadPart ==
    /\ \E stage \in {"command", "addr", "crlf"} : Go(stage, "report")
    /\ ReadOK
    /\ UNCHANGED <<link, moved, known, dialVars>>

\* HandleTCP: the address as text goes to Dial.
DialTCP ==
    /\ ReadOK /\ Text(addr) # NoText
    /\ Go("crlf", "dial")
    /\ StartDial("tcp", Text(addr))
    /\ UNCHANGED <<link, moved, known>>

\* String panics, and the deferred calls run.
DialPanics ==
    /\ ReadOK /\ Text(addr) = NoText
    /\ Leave("crlf", "panic")
    /\ UNCHANGED <<moved, known, dialVars>>

\* HandleUDP: a socket for any address.
DialUDP ==
    /\ ReadOK /\ Go("crlf", "dial")
    /\ StartDial("udp", NoAddr)
    /\ UNCHANGED <<link, moved, known>>

-----------------------------------------------------------------------------
(* The tunnel and what follows.                                            *)

\* main may be through with the download ("drain") before the upload has ended.
Tunnelling == pc \in {"tunnel", "drain"}

Dialling == pc = "dial" /\ DialNext /\ UNCHANGED control

TargetTalks == Tunnelling /\ TargetSends /\ UNCHANGED control

DialFails ==
    /\ dial = "failed" /\ Go("dial", "report")
    /\ UNCHANGED <<link, moved, reader, known, dialVars>>

\* BlockDomain's lookup has panicked.
LookupPanics ==
    /\ dial = "panic" /\ Leave("dial", "panic")
    /\ UNCHANGED <<moved, reader, known, dialVars>>

StartTunnel ==
    /\ dial = "ok" /\ Go("dial", "tunnel")
    /\ UNCHANGED <<link, moved, reader, known, dialVars>>

\* The reader goroutine reads from the client until a Read fails.
Upload ==
    /\ Tunnelling /\ up < MaxUp
    /\ ReadOK
    /\ up' = up + 1
    /\ UNCHANGED <<fixed, pc, client, link, known, got, reports, dialVars>>

UploadEnds ==
    /\ Tunnelling /\ client = "gone" /\ reader # "nil"
    /\ ReadBroken
    /\ UNCHANGED <<fixed, pc, client, link, moved, known, dialVars>>

\* rawconn's Read: what was read ahead, then (0, nil) once, then the connection.
ReadConn ==
    IF ahead # <<>> THEN ahead' = Tail(ahead) /\ UNCHANGED arrived
    ELSE arrived # <<>> /\ arrived' = Tail(arrived) /\ UNCHANGED ahead

\* main reads and writes to the client, with FlushWriter or WriteMessage.
Download ==
    /\ pc = "tunnel" /\ ReadConn
    /\ LET x == (ahead \o arrived)[1] IN
         got' = IF x = Nothing THEN got ELSE Append(got, x)
    /\ UNCHANGED <<fixed, pc, client, link, reader, known, up, reports>>
    /\ UNCHANGED <<chain, net, dial, at, asked, told, conn, sent>>

\* The Write to a client that has gone fails: what was read is lost, and main only
\* waits for the reader goroutine.
DownloadFails ==
    /\ client = "gone" /\ Go("tunnel", "drain")
    /\ ReadConn
    /\ UNCHANGED <<link, moved, reader, known>>
    /\ UNCHANGED <<chain, net, dial, at, asked, told, conn, sent>>

\* Both goroutines are through, or a buffer could not be allocated.
TunnelEnds ==
    /\ \E stage \in {"tunnel", "drain"} : Go(stage, "report")
    /\ conn' = "closed"
    /\ UNCHANGED <<link, moved, reader, known>>
    /\ UNCHANGED <<chain, net, dial, at, asked, told, stream>>

\* The reader goroutine of a UDP session comes to a frame without a text: the
\* process ends, unless main is quick enough with what the goroutine still sends.
TunnelPanics ==
    /\ net = "udp" /\ dial = "ok" /\ reader # "nil"
    /\ \E stage \in {"tunnel", "report"} : Leave(stage, "panic")
    /\ conn' = "closed"
    /\ UNCHANGED <<moved, reader, known>>
    /\ UNCHANGED <<chain, net, dial, at, asked, told, stream>>

\* What HandleWithDialer returns: the download of a UDP session is not counted.
Moved == [up |-> up, down |-> IF net = "udp" THEN 0 ELSE Len(got)]

\* Mutant: a request that failed to dial is not reported, nor is one whose
\* client broke off.
ReportOnSuccess ==
    /\ Leave("report", "done")
    /\ reports' = IF client = "alive" /\ dial = "ok" THEN Append(reports, Moved)
                  ELSE reports
    /\ UNCHANGED <<reader, known, up, got, dialVars>>

\* Consume, whether HandleWithDialer returned an error or not.
Report ==
    /\ Leave("report", "done")
    /\ reports' = Append(reports, Moved)
    /\ UNCHANGED <<reader, known, up, got, dialVars>>

ClientGoes ==
    /\ client = "alive"
    /\ client' = "gone"
    /\ UNCHANGED <<fixed, pc, link, moved, reader, known, dialVars>>

Expire ==
    /\ timer = "armed"
    /\ timer' = "expired"
    /\ UNCHANGED <<fixed, pc, client, moved, inbound, reader, known, dialVars>>

Next ==
    \/ AcceptConnect \/ RefuseConnect \/ Upgrade \/ UpgradeFails
    \/ ReadSome \/ ReadFails \/ ReadHeader \/ BadHeader
    \/ Validated \/ UnknownUser
    \/ ReadPart \/ BadPart \/ DialTCP \/ DialPanics \/ DialUDP
    \/ Dialling \/ DialFails \/ LookupPanics \/ StartTunnel
    \/ TargetTalks \/ Upload \/ UploadEnds \/ Download \/ DownloadFails
    \/ TunnelEnds \/ TunnelPanics
    \/ Report \/ ClientGoes \/ Expire

Spec == Init /\ [][Next]_vars

\* Deadlines expire, and a Read past its deadline fails.
FairSpec == Spec /\ WF_vars(Expire) /\ WF_vars(ReadFails)

-----------------------------------------------------------------------------
(* Properties.                                                             *)

\* The relays before hop i, and the last of them, which asks it for its server.
Before(i) == {j \in 1..(i - 1) : chain[j] \in Relays}
Asks(j, i) == j \in Before(i) /\ \A k \in Before(i) : k <= j

\* Every hop that has told its peer where to go has named the server of the relay
\* that asked it or, with no relay before it, what the header names, exactly as
\* long as the length of a name fits the byte arithmetic of Addr.String; and a
\* blocked name is told to nobody when BlockDomain stands before the first relay.
PeersAreToldAsNamed ==
    \A i \in Hops : told[i] # NoAddr =>
        /\ \A j \in Before(i) : Asks(j, i) => told[i] = ServerOf(j)
        /\ Before(i) = {} =>
             /\ Fits(addr) => told[i] = <<addr.host, Port(addr.hi, addr.lo)>>
             /\ told[i][1] \in BlockedHosts => \A j \in 1..i : chain[j] # "block"

\* When a request has ended, no connection is left open that nobody owns,
\* whichever step failed: neither the client's nor the outbound one.  The two
\* exceptions are the code's: UnixProxy.Dial after a failed handshake and
\* Shadowsocks' ListenPacket after a failed lookup.
NothingLeftOpen ==
    pc \in {"done", "panic"} =>
        /\ inbound = "closed"
        /\ conn = "open" =>
             dial = "failed" /\ (Kind = "unix" \/ (Kind = "ss" /\ net = "udp"))

\* The traffic of every validated request is reported exactly once, with what the
\* tunnel moved, on every way out: a bad header, a failed dial, a client that
\* breaks off.  A request that is not validated reports nothing.  Only a panic
\* skips the report: one of the reader goroutine of a UDP session, when traffic may
\* have been moved, or, before any is, one over the header's name, which does not
\* fit or which BlockDomain, with no relay before it, cannot look up.  No WebSocket
\* is read again after a Read of it has failed.
TrafficReportedOnce ==
    /\ pc \in Ended => reports = IF known /\ pc # "panic" THEN <<Moved>> ELSE <<>>
    /\ pc = "panic" =>
         \/ net = "udp" /\ dial = "ok"
         \/ /\ Moved = [up |-> 0, down |-> 0]
            /\ \/ ~Fits(addr)
               \/ Kind = "block" /\ Before(at) = {} /\ addr.host \in NilHosts
    /\ reader = "nil" => pc \notin Reading
    /\ pc \notin Ended => reports = <<>>

\* The client gets the target's bytes in order and without a gap, those included
\* that arrived together with a proxy's response, and never a response head.  Until
\* a Write to it fails, what it has got and what is on its way to it hold the bytes
\* sent so far, in order.
DownloadIsWhole ==
    /\ \A i \in DOMAIN got : got[i] = i
    /\ conn = "open" /\ pc # "drain" =>
        LET way == got \o ahead \o arrived IN
        /\ \A n \in 1..sent : \E i \in DOMAIN way : way[i] = n
        /\ \A i, j \in DOMAIN way :
             i < j /\ IsPayload(way[i]) /\ IsPayload(way[j]) => way[i] < way[j]
        /\ \A i \in DOMAIN way : way[i] <= sent

\* An unauthenticated client cannot hold the goroutine by staying silent, and the
\* deadline that sees to it reaches neither the later reads of a request whose
\* user is known nor the tunnel.
HeaderDeadline ==
    /\ [](pc \in Served => timer = "none")
    /\ pc = "header" ~> pc # "header"
=============================================================================
