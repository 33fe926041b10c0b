---------------------------- MODULE RequestProofs ----------------------------
(***************************************************************************)
(* What holds of a request through any configured chain of proxies, for    *)
(* any addresses and amounts of data: both connections are released on     *)
(* every way out, the traffic of a validated user is reported once, every  *)
(* server is told the right address, the download is whole, and the        *)
(* header's deadline does not outlive it.                                  *)
(***************************************************************************)
EXTENDS Request, SequenceTheorems, TLAPS

-----------------------------------------------------------------------------
(* Who has the outbound connection, by the stage of the dial.              *)

\* The ways out of a dial that return without closing the connection.
LeftByTheCode == dial = "failed" /\ (Kind = "unix" \/ (Kind = "ss" /\ net = "udp"))

ConnInv ==
    /\ conn \in {"none", "open", "closed"}
    /\ dial \in {"idle", "down", "up", "reply", "ok", "failed", "panic"}
    /\ dial \in {"idle", "down", "panic"} => conn = "none"
    /\ dial \in {"up", "reply"} => conn = "open"
    /\ dial = "ok" /\ pc \in {"dial", "tunnel", "drain"} => conn = "open"
    /\ dial = "failed" /\ conn = "open" => LeftByTheCode
    /\ pc \in {"tunnel", "drain"} => dial = "ok"
    /\ pc \in {"report", "done", "panic"} /\ dial = "ok" => conn = "closed"
    /\ dial # "idle" => pc \in {"dial", "tunnel", "drain", "report", "done", "panic"}
    /\ dial = "panic" => pc \in {"dial", "panic"}
    /\ dial \in {"down", "up", "reply"} => pc = "dial"
    /\ pc \in {"done", "panic"} => inbound = "closed"

LEMMA ConnInit == Init => ConnInv
BY DEF Init, DialInit, ConnInv

LEMMA ConnDial ==
    ASSUME ConnInv, Dialling PROVE ConnInv'
<1> USE DEF Dialling, ConnInv, control, stream, LeftByTheCode, Kind
<1>1. CASE Refuse BY <1>1 DEF Refuse
<1>2. CASE Descend BY <1>2 DEF Descend
<1>3. CASE Connect BY <1>3 DEF Connect
<1>4. CASE ConnectFails BY <1>4 DEF ConnectFails
<1>5. CASE Pass BY <1>5 DEF Pass, Ascend
<1>6. CASE Handshake BY <1>6 DEF Handshake, Ascend
<1>7. CASE HandshakeFails BY <1>7 DEF HandshakeFails
<1>8. CASE ResolveFails BY <1>8 DEF ResolveFails
<1>9. CASE ReadResponse BY <1>9 DEF ReadResponse, Ascend
<1>10. CASE ResponseFails BY <1>10 DEF ResponseFails
<1>11. CASE ServerReplies BY <1>11 DEF ServerReplies
<1>12. CASE TargetSends BY <1>12 DEF TargetSends
<1>13. CASE BlockPanics BY <1>13 DEF BlockPanics
<1> QED BY <1>1, <1>2, <1>3, <1>4, <1>5, <1>6, <1>7, <1>8, <1>9, <1>10, <1>11,
           <1>12, <1>13 DEF DialNext

LEMMA ConnStep ==
    ASSUME ConnInv, [Next]_vars PROVE ConnInv'
<1> USE DEF ConnInv, Tunnelling, LeftByTheCode, Kind, Go, Leave, dialVars, stream, fixed,
            link, moved, Reading
<1>1. CASE AcceptConnect BY <1>1 DEF AcceptConnect
<1>2. CASE RefuseConnect BY <1>2 DEF RefuseConnect
<1>3. CASE Upgrade BY <1>3 DEF Upgrade
<1>4. CASE UpgradeFails BY <1>4 DEF UpgradeFails
<1>5. CASE ReadSome BY <1>5 DEF ReadSome
<1>6. CASE ReadFails BY <1>6 DEF ReadFails
<1>7. CASE ReadHeader BY <1>7 DEF ReadHeader
<1>8. CASE BadHeader BY <1>8 DEF BadHeader
<1>9. CASE Validated BY <1>9 DEF Validated
<1>10. CASE UnknownUser BY <1>10 DEF UnknownUser
<1>11. CASE ReadPart BY <1>11 DEF ReadPart
<1>12. CASE BadPart BY <1>12 DEF BadPart
<1>13. CASE DialTCP BY <1>13 DEF DialTCP, StartDial
<1>14. CASE DialPanics BY <1>14 DEF DialPanics
<1>15. CASE DialUDP BY <1>15 DEF DialUDP, StartDial
<1>16. CASE Dialling BY <1>16, ConnDial
<1>17. CASE DialFails BY <1>17 DEF DialFails
<1>18. CASE StartTunnel BY <1>18 DEF StartTunnel
<1>19. CASE TargetTalks BY <1>19 DEF TargetTalks, TargetSends, control
<1>20. CASE Upload BY <1>20 DEF Upload
<1>21. CASE UploadEnds BY <1>21 DEF UploadEnds
<1>22. CASE Download BY <1>22 DEF Download
<1>23. CASE TunnelEnds BY <1>23 DEF TunnelEnds
<1>24. CASE Report BY <1>24 DEF Report
<1>25. CASE ClientGoes BY <1>25 DEF ClientGoes
<1>26. CASE Expire BY <1>26 DEF Expire
<1>27. CASE UNCHANGED vars BY <1>27 DEF vars, control
<1>28. CASE LookupPanics BY <1>28 DEF LookupPanics
<1>29. CASE DownloadFails BY <1>29 DEF DownloadFails
<1>30. CASE TunnelPanics BY <1>30 DEF TunnelPanics
<1> QED BY <1>1, <1>2, <1>3, <1>4, <1>5, <1>6, <1>7, <1>8, <1>9, <1>10, <1>11,
           <1>12, <1>13, <1>14, <1>15, <1>16, <1>17, <1>18, <1>19, <1>20, <1>21,
           <1>22, <1>23, <1>24, <1>25, <1>26, <1>27, <1>28, <1>29, <1>30 DEF Next

\* Whatever chain is configured and whichever step fails, a request that has
\* ended leaves neither the client's nor the outbound connection open, but for
\* the two proxies that the property names.
THEOREM ConnectionsReleased == Spec => []NothingLeftOpen
<1>1. ConnInv => NothingLeftOpen
    BY DEF ConnInv, NothingLeftOpen, LeftByTheCode
<1> QED BY ConnInit, ConnStep, <1>1, PTL DEF Spec

-----------------------------------------------------------------------------
(* What has been moved and reported, by the stage of the request.          *)

Validating == {"arrival", "next", "header", "validate"}

ReportInv ==
    /\ addr \in WireAddrs /\ known \in BOOLEAN
    /\ pc \in Validating => known = FALSE
    /\ pc \notin Validating \cup {"done"} => known = TRUE
    /\ pc \notin {"tunnel", "drain", "report", "done", "panic"} => up = 0 /\ got = <<>>
    /\ pc = "panic" /\ dial # "ok" => up = 0 /\ got = <<>>
    /\ reports = IF pc = "done" /\ known THEN <<Moved>> ELSE <<>>
    /\ pc = "panic" =>
         (dial = "idle" /\ ~Fits(addr)) \/ dial = "panic" \/ (dial = "ok" /\ net = "udp")
    /\ reader = "nil" => pc \notin Reading \cup {"arrival", "validate"}

LEMMA PortIsNat == ASSUME NEW x \in Nat, NEW y \in Nat PROVE Port(x, y) \in Nat
BY DEF Port

\* String panics only on a name that does not fit: the text of any other is a
\* pair of a host and a port.
LEMMA FittingHasText ==
    ASSUME NEW a \in WireAddr, Text(a) = NoText PROVE ~Fits(a)
<1>1. \A h \in Hosts, p \in Nat : <<h, p>> # NoText
    BY TextAssumption
<1>2. a.host \in Hosts /\ a.hi \in Nat /\ a.lo \in Nat
    BY DEF WireAddr, Bytes
<1>3. CASE a.type # Domain
    <2>1. Port(a.hi, a.lo) \in Nat BY <1>2, PortIsNat
    <2> QED BY <1>1, <1>2, <1>3, <2>1 DEF Text
<1>4. CASE a.type = Domain /\ Uint8(2 + a.len) < 2
    <2>1. a.len \in 0..255 BY DEF WireAddr, Bytes
    <2>2. (2 + a.len) % 256 < 2 BY <1>4 DEF Uint8
    <2>3. 2 + a.len >= 256 BY <2>1, <2>2
    <2> QED BY <1>4, <2>1, <2>3 DEF Fits, Bytes
<1>5. CASE a.type = Domain /\ ~(Uint8(2 + a.len) < 2)
    <2>1. a.len \in 0..255 /\ a.type \in Nat BY DEF WireAddr, Bytes, IPv4, Domain, IPv6
    <2>2. \A i : Data(a, i) \in Nat BY <1>2, <2>1 DEF Data, NameByte
    <2>3. Port(Data(a, Uint8(2 + a.len)), Data(a, Uint8(Uint8(2 + a.len) + 1))) \in Nat
        BY <2>2, PortIsNat
    <2> QED BY <1>1, <1>2, <1>5, <2>3 DEF Text
<1> QED BY <1>3, <1>4, <1>5

LEMMA ReportInit == Init => ReportInv
BY DEF Init, DialInit, ReportInv, Validating, Reading

LEMMA DialKeepsNet ==
    ASSUME Dialling PROVE net' = net
BY DEF Dialling, DialNext, Refuse, BlockPanics, Descend, Connect, ConnectFails, Pass, Handshake,
       HandshakeFails, ResolveFails, ReadResponse, ResponseFails, ServerReplies,
       TargetSends

LEMMA ReportStep ==
    ASSUME ConnInv, ReportInv, [Next]_vars PROVE ReportInv'
<1> USE DEF ReportInv, Validating, Reading, Moved, Fits, Go, Leave, dialVars,
            stream, fixed, link, moved, Tunnelling
<1>1. CASE AcceptConnect BY <1>1 DEF AcceptConnect
<1>2. CASE RefuseConnect BY <1>2 DEF RefuseConnect
<1>3. CASE Upgrade BY <1>3 DEF Upgrade
<1>4. CASE UpgradeFails BY <1>4 DEF UpgradeFails
<1>5. CASE ReadSome BY <1>5 DEF ReadSome, ReadOK
<1>6. CASE ReadFails BY <1>6 DEF ReadFails, ReadBroken
<1>7. CASE ReadHeader BY <1>7 DEF ReadHeader, ReadOK
<1>8. CASE BadHeader BY <1>8 DEF BadHeader, ReadOK
<1>9. CASE Validated BY <1>9 DEF Validated
<1>10. CASE UnknownUser BY <1>10 DEF UnknownUser
<1>11. CASE ReadPart BY <1>11 DEF ReadPart, ReadOK
<1>12. CASE BadPart BY <1>12 DEF BadPart, ReadOK
<1>13. CASE DialTCP BY <1>13 DEF DialTCP, StartDial, ReadOK
<1>14. CASE DialPanics
    <2>1. ~Fits(addr) /\ dial = "idle"
        BY <1>14, FittingHasText, WireAssumption DEF DialPanics, ConnInv
    <2> QED BY <1>14, <2>1 DEF DialPanics, ReadOK
<1>15. CASE DialUDP BY <1>15 DEF DialUDP, StartDial, ReadOK
<1>16. CASE Dialling BY <1>16, DialKeepsNet DEF Dialling, control
<1>17. CASE DialFails BY <1>17 DEF DialFails
<1>18. CASE StartTunnel BY <1>18 DEF StartTunnel
<1>19. CASE TargetTalks BY <1>19 DEF TargetTalks, TargetSends, control
<1>20. CASE Upload BY <1>20 DEF Upload, ReadOK
<1>21. CASE UploadEnds BY <1>21 DEF UploadEnds, ReadBroken
<1>22. CASE Download BY <1>22 DEF Download
<1>23. CASE TunnelEnds BY <1>23 DEF TunnelEnds
<1>24. CASE Report
    <2>1. reports = <<>> /\ known = TRUE BY <1>24 DEF Report
    <2>2. reports' = <<Moved>> BY <1>24, <2>1 DEF Report
    <2>3. Moved' = Moved BY <1>24 DEF Report
    <2> QED BY <1>24, <2>1, <2>2, <2>3 DEF Report
<1>25. CASE ClientGoes BY <1>25 DEF ClientGoes
<1>26. CASE Expire BY <1>26 DEF Expire
<1>27. CASE UNCHANGED vars BY <1>27 DEF vars, control
<1>28. CASE LookupPanics BY <1>28 DEF LookupPanics
<1>29. CASE DownloadFails BY <1>29 DEF DownloadFails
<1>30. CASE TunnelPanics BY <1>30 DEF TunnelPanics
<1> QED BY <1>1, <1>2, <1>3, <1>4, <1>5, <1>6, <1>7, <1>8, <1>9, <1>10, <1>11,
           <1>12, <1>13, <1>14, <1>15, <1>16, <1>17, <1>18, <1>19, <1>20,
           <1>21, <1>22, <1>23, <1>24, <1>25, <1>26, <1>27, <1>28, <1>29, <1>30
        DEF Next

-----------------------------------------------------------------------------
(* Types.  The sets that addresses and bytes range over are kept folded.   *)

Addrs == Texts \cup {NoAddr}
Items == Nothing..MaxDown
Streams == Seq(Items)

RouteOK ==
    /\ chain \in Chains
    /\ net \in {"tcp", "udp"}
    /\ dial \in {"idle", "down", "up", "reply", "ok", "failed", "panic"}
    /\ at \in Hops
    /\ asked \in [Hops -> Addrs] /\ told \in [Hops -> Addrs]
    /\ conn \in {"none", "open", "closed"}

StreamOK == ahead \in Streams /\ arrived \in Streams /\ sent \in 0..MaxDown

LEMMA DialTypeParts == DialTypeOK <=> RouteOK /\ StreamOK
BY DEF DialTypeOK, RouteOK, StreamOK, Addrs, Items, Streams

LEMMA SameChain == chain' = chain => Hops' = Hops /\ Addrs' = Addrs
BY DEF Hops, Addrs, Texts

LEMMA ChainFacts ==
    ASSUME NEW c \in Chains
    PROVE  /\ Len(c) \in Nat \ {0} /\ DOMAIN c = 1..Len(c)
           /\ c[Len(c)] \in Bases \cup {"drop"}
           /\ \A i \in 1..Len(c) : c[i] \in Kinds
BY ChainsAssumption

LEMMA TwoBytes ==
    ASSUME NEW x \in Int, NEW y \in Int, 0 <= x, x <= 255, 0 <= y, y <= 255
    PROVE  /\ MaxPort \in Int
           /\ Port(x, y) \in Int /\ 0 <= Port(x, y) /\ Port(x, y) <= MaxPort
BY DEF Port, MaxPort

LEMMA PortIsPort ==
    ASSUME NEW h \in 0..255, NEW l \in 0..255 PROVE Port(h, l) \in Ports
<1>1. h \in Int /\ 0 <= h /\ h <= 255 /\ l \in Int /\ 0 <= l /\ l <= 255
    OBVIOUS
<1>2. MaxPort \in Int /\ Port(h, l) \in Int /\ 0 <= Port(h, l) /\ Port(h, l) <= MaxPort
    BY <1>1, TwoBytes
<1> QED BY <1>2 DEF Ports

\* The text that Dial is given is one of Texts.
LEMMA TextIsText ==
    ASSUME NEW a \in WireAddr, Text(a) # NoText PROVE Text(a) \in Addrs
<1> DEFINE end == Uint8(2 + a.len)
           port == Port(Data(a, end), Data(a, Uint8(end + 1)))
<1>1. a.host \in Hosts /\ a.hi \in 0..255 /\ a.lo \in 0..255 /\ a.len \in 0..255
      /\ a.type \in 0..255
    BY DEF WireAddr, Bytes, IPv4, Domain, IPv6
<1>2. \A i : Data(a, i) \in 0..255
    BY <1>1 DEF Data, NameByte
<1>3. \A p \in Ports : <<a.host, p>> \in Addrs
    <2> SUFFICES ASSUME NEW p \in Ports PROVE <<a.host, p>> \in Addrs
        OBVIOUS
    <2>1. <<a.host, p>> \in Hosts \X Ports
        BY <1>1
    <2> QED BY <2>1, Zenon DEF Texts, Addrs
<1>4. CASE a.type = Domain
    <2>1. Text(a) = <<a.host, port>> BY <1>4 DEF Text
    <2>2. Data(a, end) \in 0..255 /\ Data(a, Uint8(end + 1)) \in 0..255
        BY <1>2, Zenon
    <2>3. port \in Ports BY <2>2, PortIsPort, Zenon
    <2> QED BY <2>1, <2>3, <1>3, Zenon
<1>5. CASE a.type # Domain
    <2>1. Text(a) = <<a.host, Port(a.hi, a.lo)>> BY <1>5 DEF Text
    <2>2. Port(a.hi, a.lo) \in Ports BY <1>1, PortIsPort, Zenon
    <2> QED BY <2>1, <2>2, <1>3, Zenon
<1> QED BY <1>4, <1>5

LEMMA ServerIsText == ASSUME NEW i \in Hops PROVE ServerOf(i) \in Addrs
<1>1. ServerOf(i) \in {Server} \X Hops
    BY DEF ServerOf
<1> QED BY <1>1, Zenon DEF Addrs, Texts

LEMMA RouteStep ==
    ASSUME RouteOK, DialNext PROVE RouteOK'
<1> USE DEF RouteOK, stream
<1>0. /\ Hops = 1..Len(chain) /\ Len(chain) \in Nat \ {0} /\ at \in 1..Len(chain)
      /\ Kind \in Kinds /\ chain[Len(chain)] \in Bases \cup {"drop"}
      /\ Target \in Addrs
    BY ChainFacts DEF Hops, Kind, Target
<1>1. CASE Refuse BY <1>1, SameChain DEF Refuse
<1>2. CASE Descend
    <2>1. at # Len(chain) BY <1>0, <1>2 DEF Descend, Refused, Kind
    <2>2. at + 1 \in Hops BY <1>0, <2>1
    <2>3. ServerOf(at) \in Addrs BY ServerIsText
    <2>4. asked' \in [Hops -> Addrs]
        BY <1>0, <1>2, <2>2, <2>3 DEF Descend
    <2> QED BY <1>2, <2>2, <2>4, SameChain DEF Descend
<1>3. CASE Connect BY <1>0, <1>3, SameChain DEF Connect, Addrs
<1>4. CASE ConnectFails BY <1>4, SameChain DEF ConnectFails
<1>5. CASE Pass BY <1>0, <1>5, SameChain DEF Pass, Ascend
<1>6. CASE Handshake
    <2>1. told' \in [Hops -> Addrs] BY <1>0, <1>6 DEF Handshake
    <2>2. at' \in Hops /\ dial' \in {"ok", "up", "reply"}
        BY <1>0, <1>6 DEF Handshake, Ascend
    <2> QED BY <1>6, <2>1, <2>2, SameChain DEF Handshake
<1>7. CASE HandshakeFails BY <1>7, SameChain DEF HandshakeFails
<1>8. CASE ResolveFails BY <1>8, SameChain DEF ResolveFails
<1>9. CASE ReadResponse
    <2>1. at' \in Hops /\ dial' \in {"ok", "up"}
        BY <1>0, <1>9 DEF ReadResponse, Ascend
    <2> QED BY <1>9, <2>1, SameChain DEF ReadResponse
<1>10. CASE ResponseFails BY <1>10, SameChain DEF ResponseFails
<1>11. CASE ServerReplies BY <1>11, SameChain DEF ServerReplies
<1>12. CASE TargetSends BY <1>12, SameChain DEF TargetSends
<1>13. CASE BlockPanics BY <1>13, SameChain DEF BlockPanics
<1> QED BY <1>1, <1>2, <1>3, <1>4, <1>5, <1>6, <1>7, <1>8, <1>9, <1>10, <1>11,
           <1>12, <1>13 DEF DialNext

LEMMA ItemFacts ==
    /\ MaxDown \in Nat /\ Nothing \in Items /\ ResponseHead \in Items
    /\ \A n \in 1..MaxDown : n \in Items
    /\ Items' = Items /\ Streams' = Streams
BY MaxDownAssumption DEF Items, Streams, Nothing, ResponseHead

LEMMA StreamStep ==
    ASSUME StreamOK, DialNext PROVE StreamOK'
<1> USE DEF StreamOK
<1>1. CASE UNCHANGED stream BY <1>1, ItemFacts DEF stream
<1>2. CASE ReadResponse
    <2>1. PICK n \in 1..Len(arrived) :
             /\ arrived' = SubSeq(arrived, n + 1, Len(arrived))
             /\ ahead' = Rewound(SubSeq(arrived, 2, n)) \o ahead
        BY <1>2 DEF ReadResponse
    <2>2. Len(arrived) \in Nat /\ n \in Nat BY LenProperties DEF Streams
    <2>3. \A i \in 1..Len(arrived) : arrived[i] \in Items
        BY ElementOfSeq DEF Streams
    <2>4. arrived' \in Streams
        <3>1. \A i \in (n + 1)..Len(arrived) : arrived[i] \in Items BY <2>2, <2>3
        <3> QED BY <2>1, <2>2, <3>1, SubSeqProperties DEF Streams
    <2>5. SubSeq(arrived, 2, n) \in Streams
        <3>1. \A i \in 2..n : arrived[i] \in Items BY <2>2, <2>3
        <3> QED BY <2>2, <3>1, SubSeqProperties DEF Streams
    <2>6. Rewound(SubSeq(arrived, 2, n)) \in Streams
        BY <2>5, ItemFacts, EmptySeq, AppendProperties DEF Rewound, Streams
    <2>7. ahead' \in Streams BY <2>1, <2>6, ConcatProperties DEF Streams
    <2> QED BY <1>2, <2>4, <2>7, ItemFacts DEF ReadResponse
<1>3. CASE ServerReplies
    <2>1. <<ResponseHead>> \in Streams
        BY ItemFacts, EmptySeq, AppendProperties DEF Streams
    <2> QED BY <1>3, <2>1, ItemFacts DEF ServerReplies
<1>4. CASE TargetSends
    <2>1. sent + 1 \in 1..MaxDown BY <1>4, ItemFacts DEF TargetSends
    <2>2. arrived' \in Streams
        BY <1>4, <2>1, ItemFacts, AppendProperties DEF TargetSends, Streams
    <2> QED BY <1>4, <2>1, <2>2, ItemFacts DEF TargetSends
<1> QED BY <1>1, <1>2, <1>3, <1>4 DEF DialNext, Refuse, BlockPanics, Descend, Connect,
           ConnectFails, Pass, Handshake, HandshakeFails, ResolveFails, ResponseFails
TrafficOK ==
    /\ up \in 0..MaxUp /\ got \in Streams /\ reports \in Seq(Traffic)

ControlOK ==
    /\ transport \in {"connect", "websocket", "tcp"}
    /\ pc \in Stages
    /\ client \in {"alive", "gone"} /\ inbound \in {"open", "closed"}
    /\ timer \in {"none", "armed", "expired"}
    /\ reader \in {"eof", "message", "nil"}
    /\ known \in BOOLEAN
    /\ addr \in WireAddrs

LEMMA TypeParts == TypeOK <=> RouteOK /\ StreamOK /\ TrafficOK /\ ControlOK
BY DialTypeParts DEF TypeOK, TrafficOK, ControlOK, Streams, Items

LEMMA TypeInit == Init => TypeOK
<1> SUFFICES ASSUME Init PROVE TypeOK
    OBVIOUS
<1>1. RouteOK
    <2>1. 1 \in Hops BY ChainFacts DEF Init, DialInit, Hops
    <2> QED BY <2>1 DEF Init, DialInit, RouteOK, Addrs
<1>2. StreamOK
    BY EmptySeq, ItemFacts DEF Init, DialInit, StreamOK, Streams
<1>3. TrafficOK
    BY EmptySeq, WireAssumption DEF Init, TrafficOK, Streams
<1>4. ControlOK
    BY DEF Init, ControlOK, Stages, Reading, Ended
<1> QED BY <1>1, <1>2, <1>3, <1>4, TypeParts

LEMMA ControlStep ==
    ASSUME ControlOK, [Next]_vars PROVE ControlOK'
<1> USE DEF ControlOK, Go, Leave, fixed, link, Stages, Reading, Ended, ReadOK, ReadBroken
<1>1. CASE AcceptConnect BY <1>1 DEF AcceptConnect
<1>2. CASE RefuseConnect BY <1>2 DEF RefuseConnect
<1>3. CASE Upgrade BY <1>3 DEF Upgrade
<1>4. CASE UpgradeFails BY <1>4 DEF UpgradeFails
<1>5. CASE ReadSome BY <1>5 DEF ReadSome
<1>6. CASE ReadFails BY <1>6 DEF ReadFails
<1>7. CASE ReadHeader BY <1>7 DEF ReadHeader
<1>8. CASE BadHeader BY <1>8 DEF BadHeader
<1>9. CASE Validated BY <1>9 DEF Validated
<1>10. CASE UnknownUser BY <1>10 DEF UnknownUser
<1>11. CASE ReadPart BY <1>11 DEF ReadPart
<1>12. CASE BadPart BY <1>12 DEF BadPart
<1>13. CASE DialTCP BY <1>13 DEF DialTCP
<1>14. CASE DialPanics BY <1>14 DEF DialPanics
<1>15. CASE DialUDP BY <1>15 DEF DialUDP
<1>16. CASE Dialling BY <1>16 DEF Dialling, control
<1>17. CASE DialFails BY <1>17 DEF DialFails
<1>18. CASE StartTunnel BY <1>18 DEF StartTunnel
<1>19. CASE TargetTalks BY <1>19 DEF TargetTalks, control
<1>20. CASE Upload BY <1>20 DEF Upload
<1>21. CASE UploadEnds BY <1>21 DEF UploadEnds
<1>22. CASE Download BY <1>22 DEF Download
<1>23. CASE TunnelEnds BY <1>23 DEF TunnelEnds
<1>24. CASE Report BY <1>24 DEF Report
<1>25. CASE ClientGoes BY <1>25 DEF ClientGoes
<1>26. CASE Expire BY <1>26 DEF Expire
<1>27. CASE UNCHANGED vars BY <1>27 DEF vars, control
<1>28. CASE LookupPanics BY <1>28 DEF LookupPanics
<1>29. CASE DownloadFails BY <1>29 DEF DownloadFails
<1>30. CASE TunnelPanics BY <1>30 DEF TunnelPanics
<1> QED BY <1>1, <1>2, <1>3, <1>4, <1>5, <1>6, <1>7, <1>8, <1>9, <1>10, <1>11,
           <1>12, <1>13, <1>14, <1>15, <1>16, <1>17, <1>18, <1>19, <1>20,
           <1>21, <1>22, <1>23, <1>24, <1>25, <1>26, <1>27, <1>28, <1>29, <1>30
        DEF Next

\* The steps that leave the dial alone, and the others.
LEMMA DialSteps ==
    ASSUME [Next]_vars
    PROVE  UNCHANGED dialVars \/ Dialling \/ TargetTalks \/ DialTCP \/ DialUDP
             \/ Download \/ DownloadFails \/ TunnelEnds \/ TunnelPanics
BY DEF Next, vars, AcceptConnect, RefuseConnect, Upgrade, UpgradeFails, ReadSome,
       ReadFails, ReadHeader, BadHeader, Validated, UnknownUser, ReadPart, BadPart,
       DialPanics, DialFails, LookupPanics, StartTunnel, Upload, UploadEnds, Report, ClientGoes,
       Expire

LEMMA RouteNext ==
    ASSUME RouteOK, ControlOK, [Next]_vars PROVE RouteOK'
<1>1. CASE UNCHANGED dialVars BY <1>1, SameChain DEF RouteOK, dialVars
<1>2. CASE Dialling \/ TargetTalks
    BY <1>2, RouteStep DEF Dialling, TargetTalks, DialNext
<1>3. CASE DialTCP
    <2>1. Text(addr) \in Addrs
        BY <1>3, TextIsText, WireAssumption DEF DialTCP, ControlOK
    <2> QED BY <1>3, <2>1, SameChain DEF DialTCP, StartDial, RouteOK
<1>4. CASE DialUDP
    <2>1. NoAddr \in Addrs BY DEF Addrs
    <2> QED BY <1>4, <2>1, SameChain DEF DialUDP, StartDial, RouteOK
<1>5. CASE Download \/ DownloadFails
    BY <1>5, SameChain DEF Download, DownloadFails, RouteOK
<1>6. CASE TunnelEnds \/ TunnelPanics
    BY <1>6, SameChain DEF TunnelEnds, TunnelPanics, RouteOK
<1> QED BY <1>1, <1>2, <1>3, <1>4, <1>5, <1>6, DialSteps

LEMMA ConnRead ==
    ASSUME StreamOK, ReadConn
    PROVE  ahead' \in Streams /\ arrived' \in Streams /\ (ahead \o arrived)[1] \in Items
<1>1. CASE ahead # <<>>
    <2>1. Len(ahead) \in Nat \ {0} BY <1>1, EmptySeq DEF StreamOK, Streams
    <2>2. ahead' \in Streams BY <1>1, HeadTailProperties DEF ReadConn, StreamOK, Streams
    <2>3. (ahead \o arrived)[1] = ahead[1]
        BY <2>1, ConcatProperties DEF StreamOK, Streams
    <2>4. ahead[1] \in Items BY <2>1, ElementOfSeq DEF StreamOK, Streams
    <2> QED BY <1>1, <2>2, <2>3, <2>4 DEF ReadConn, StreamOK
<1>2. CASE ahead = <<>>
    <2>1. arrived # <<>> BY <1>2 DEF ReadConn
    <2>2. Len(arrived) \in Nat \ {0} BY <2>1, EmptySeq DEF StreamOK, Streams
    <2>3. arrived' \in Streams
        BY <1>2, <2>1, HeadTailProperties DEF ReadConn, StreamOK, Streams
    <2>4. ahead \o arrived = arrived
        BY <1>2, ConcatEmptySeq DEF StreamOK, Streams
    <2>5. arrived[1] \in Items BY <2>2, ElementOfSeq DEF StreamOK, Streams
    <2> QED BY <1>2, <2>3, <2>4, <2>5 DEF ReadConn, StreamOK
<1> QED BY <1>1, <1>2

LEMMA StreamNext ==
    ASSUME StreamOK, [Next]_vars PROVE StreamOK'
<1>1. CASE UNCHANGED dialVars \/ DialTCP \/ DialUDP \/ TunnelEnds \/ TunnelPanics
    BY <1>1, ItemFacts DEF StreamOK, dialVars, stream, DialTCP, DialUDP, StartDial,
                           TunnelEnds, TunnelPanics
<1>2. CASE Dialling \/ TargetTalks
    BY <1>2, StreamStep DEF Dialling, TargetTalks, DialNext
<1>3. CASE Download \/ DownloadFails
    BY <1>3, ConnRead, ItemFacts DEF Download, DownloadFails, StreamOK
<1> QED BY <1>1, <1>2, <1>3, DialSteps

LEMMA TrafficNext ==
    ASSUME StreamOK, TrafficOK, [Next]_vars PROVE TrafficOK'
<1>1. CASE UNCHANGED moved BY <1>1, ItemFacts DEF TrafficOK, moved, Traffic
<1>2. CASE Upload
    BY <1>2, ItemFacts, WireAssumption DEF Upload, TrafficOK, Traffic
<1>3. CASE Download
    <2>1. PICK x \in Items : got' = IF x = Nothing THEN got ELSE Append(got, x)
        BY <1>3, ConnRead DEF Download
    <2>2. got' \in Streams BY <2>1, AppendProperties DEF TrafficOK, Streams
    <2> QED BY <1>3, <2>2, ItemFacts DEF Download, TrafficOK, Traffic
<1>4. CASE Report
    <2>1. Len(got) \in Nat BY LenProperties DEF TrafficOK, Streams
    <2>2. Moved \in Traffic BY <2>1 DEF Moved, TrafficOK, Traffic
    <2>3. reports' \in Seq(Traffic)
        BY <1>4, <2>2, AppendProperties DEF Report, TrafficOK
    <2> QED BY <1>4, <2>3, ItemFacts DEF Report, TrafficOK, Traffic
<1>5. UNCHANGED moved \/ Upload \/ Download \/ Report
    BY DEF Next, vars, control, moved, AcceptConnect, RefuseConnect, Upgrade,
           UpgradeFails, ReadSome, ReadFails, ReadHeader, BadHeader, Validated,
           UnknownUser, ReadPart, BadPart, DialTCP, DialPanics, DialUDP, Dialling,
           DialFails, LookupPanics, StartTunnel, TargetTalks, UploadEnds,
           DownloadFails, TunnelEnds, TunnelPanics, ClientGoes, Expire
<1> QED BY <1>1, <1>2, <1>3, <1>4, <1>5

\* The request's state keeps its types, through any configured chain.
THEOREM TypeCorrect == Spec => []TypeOK
<1>1. TypeOK /\ [Next]_vars => TypeOK'
    <2> SUFFICES ASSUME TypeOK, [Next]_vars PROVE TypeOK'
        OBVIOUS
    <2>1. RouteOK' /\ StreamOK' /\ TrafficOK' /\ ControlOK'
        BY TypeParts, RouteNext, StreamNext, TrafficNext, ControlStep
    <2>2. (RouteOK /\ StreamOK /\ TrafficOK /\ ControlOK)' => TypeOK'
        BY TypeParts, PTL
    <2> QED BY <2>1, <2>2
<1> QED BY TypeInit, <1>1, PTL DEF Spec

-----------------------------------------------------------------------------
(* What each proxy is asked for and tells its peer, in a chain c for a     *)
(* request for t.                                                          *)

RelaysBefore(c, i) == {j \in 1..(i - 1) : c[j] \in Relays}

\* x is what hop i must be asked for.
IsFor(c, t, x, i) ==
    /\ \A j \in RelaysBefore(c, i) :
         (\A k \in RelaysBefore(c, i) : k <= j) => x = ServerOf(j)
    /\ RelaysBefore(c, i) = {} => x = t
    /\ RelaysBefore(c, i) # {} => x[1] = Server

\* Hop i has not let a blocked name pass.
Clear(c, t, i) ==
    RelaysBefore(c, i) = {} /\ c[i] = "block" => t[1] \notin BlockedHosts

\* Hop i has told its peer x.
Told(c, t, x, i) ==
    x # NoAddr =>
        IsFor(c, t, x, i) /\ c[i] # "block" /\ \A j \in 1..(i - 1) : Clear(c, t, j)

\* Hop i is a BlockDomain that was asked for t and cannot look it up.
NotLookedUp(c, t, i) ==
    t # NoText /\ c[i] = "block" /\ RelaysBefore(c, i) = {} /\ t[1] \in NilHosts

PeerInv ==
    /\ dial = "idle" => net = "tcp" /\ told = [i \in Hops |-> NoAddr]
    /\ net = "udp" => asked = [i \in Hops |-> NoAddr] /\ told = [i \in Hops |-> NoAddr]
    /\ net = "tcp" /\ dial \in {"down", "up", "reply"} =>
         /\ \A i \in 1..at : IsFor(chain, Text(addr), asked[i], i)
         /\ \A i \in 1..(at - 1) : Clear(chain, Text(addr), i)
         /\ dial # "down" => Clear(chain, Text(addr), at)
    /\ \A i \in Hops : Told(chain, Text(addr), told[i], i)
    /\ dial = "idle" => asked = [i \in Hops |-> NoAddr] /\ at = 1
    /\ net = "tcp" /\ dial # "idle" => Text(addr) # NoText
    /\ dial = "panic" => NotLookedUp(chain, Text(addr), at)

LEMMA NextHop ==
    ASSUME NEW c, NEW t, NEW x, NEW i \in Nat \ {0}, IsFor(c, t, x, i)
    PROVE  IsFor(c, t, IF c[i] \in Relays THEN ServerOf(i) ELSE x, i + 1)
<1>1. RelaysBefore(c, i + 1) =
        IF c[i] \in Relays THEN RelaysBefore(c, i) \cup {i} ELSE RelaysBefore(c, i)
    BY DEF RelaysBefore
<1>2. \A j \in RelaysBefore(c, i) : j \in Nat /\ j < i
    BY DEF RelaysBefore
<1>3. CASE c[i] \in Relays
    <2>1. RelaysBefore(c, i + 1) = RelaysBefore(c, i) \cup {i} BY <1>1, <1>3
    <2>2. \A j \in RelaysBefore(c, i + 1) :
            (\A k \in RelaysBefore(c, i + 1) : k <= j) => j = i
        BY <1>2, <2>1
    <2>3. ServerOf(i)[1] = Server BY DEF ServerOf
    <2> QED BY <1>3, <2>1, <2>2, <2>3 DEF IsFor
<1>4. CASE c[i] \notin Relays
    BY <1>1, <1>4 DEF IsFor
<1> QED BY <1>3, <1>4

LEMMA PeerDial ==
    ASSUME RouteOK, PeerInv, DialNext, UNCHANGED addr PROVE PeerInv'
<1> DEFINE t == Text(addr)
<1> USE DEF stream
<1>0. /\ Hops = 1..Len(chain) /\ Len(chain) \in Nat \ {0} /\ at \in 1..Len(chain)
      /\ net \in {"tcp", "udp"}
      /\ \A i \in Hops : asked[i] \in Addrs /\ told[i] \in Addrs
    BY ChainFacts DEF Hops, RouteOK
<1>1. CASE Refuse BY <1>1, SameChain DEF Refuse, PeerInv
<1>2. CASE Descend
    <2>1. CASE net = "udp"
        <3>1. asked' = [i \in Hops |-> NoAddr]
            BY <1>0, <1>2, <2>1 DEF Descend, PeerInv, RouteOK, Target
        <3> QED BY <1>2, <2>1, <3>1, SameChain DEF Descend, PeerInv
    <2>2. CASE net = "tcp"
        <3>1. IsFor(chain, t, asked[at], at) BY <1>0, <1>2, <2>2 DEF Descend, PeerInv
        <3>2. at # Len(chain)
            BY ChainFacts, <1>0, <1>2 DEF Descend, Refused, Kind, RouteOK
        <3>3. asked'[at + 1] = IF chain[at] \in Relays THEN ServerOf(at) ELSE asked[at]
            BY <1>0, <1>2, <2>2, <3>2 DEF Descend, RouteOK, Kind, Target
        <3>4. IsFor(chain, t, asked'[at + 1], at + 1) BY <1>0, <3>1, <3>3, NextHop
        <3>5. \A i \in 1..at : asked'[i] = asked[i] BY <1>0, <1>2 DEF Descend, RouteOK
        <3>6. \A i \in 1..(at + 1) : IsFor(chain, t, asked'[i], i)
            BY <1>0, <1>2, <2>2, <3>4, <3>5 DEF Descend, PeerInv
        <3>7. Clear(chain, t, at)
            <4>1. CASE RelaysBefore(chain, at) = {} /\ chain[at] = "block"
                <5>1. asked[at] = t BY <3>1, <4>1 DEF IsFor
                <5> QED BY <1>2, <2>2, <4>1, <5>1
                        DEF Descend, Refused, Blocked, Kind, Target, Clear
            <4> QED BY <4>1 DEF Clear
        <3>8. \A i \in 1..at : Clear(chain, t, i)
            BY <1>0, <1>2, <2>2, <3>7 DEF Descend, PeerInv
        <3> QED BY <1>0, <1>2, <2>2, <3>6, <3>8, SameChain DEF Descend, PeerInv
    <2> QED BY <1>0, <2>1, <2>2
<1>3. CASE Connect
    <2>1. CASE net = "udp"
        <3>1. told' = [i \in Hops |-> NoAddr]
            BY <1>0, <1>3, <2>1 DEF Connect, PeerInv, RouteOK, Target
        <3> QED BY <1>3, <2>1, <3>1, SameChain DEF Connect, PeerInv
    <2>2. CASE net = "tcp"
        <3>1. chain[at] # "block" BY <1>3 DEF Connect, Kind, Bases
        <3>2. Clear(chain, t, at) BY <3>1 DEF Clear
        <3>3. IsFor(chain, t, asked[at], at) /\ \A j \in 1..(at - 1) : Clear(chain, t, j)
            BY <1>0, <1>3, <2>2 DEF Connect, PeerInv
        <3>4. Told(chain, t, told'[at], at)
            BY <1>0, <1>3, <3>1, <3>3 DEF Connect, RouteOK, Target, Told
        <3>5. \A i \in Hops : Told(chain, t, told'[i], i)
            BY <1>0, <1>3, <3>4 DEF Connect, RouteOK, PeerInv
        <3> QED BY <1>0, <1>3, <2>2, <3>2, <3>5, SameChain DEF Connect, PeerInv
    <2> QED BY <1>0, <2>1, <2>2
<1>4. CASE ConnectFails BY <1>4, SameChain DEF ConnectFails, PeerInv
<1>5. CASE Pass BY <1>0, <1>5, SameChain DEF Pass, Ascend, PeerInv
<1>6. CASE Handshake
    <2>1. net = "tcp" /\ chain[at] # "block"
        BY <1>6 DEF Handshake, Shakes, Kind, Relays
    <2>2. IsFor(chain, t, asked[at], at) /\ \A j \in 1..(at - 1) : Clear(chain, t, j)
        BY <1>0, <1>6, <2>1 DEF Handshake, PeerInv
    <2>3. Told(chain, t, told'[at], at)
        BY <1>0, <1>6, <2>1, <2>2 DEF Handshake, RouteOK, Target, Told
    <2>4. \A i \in Hops : Told(chain, t, told'[i], i)
        BY <1>0, <1>6, <2>3 DEF Handshake, RouteOK, PeerInv
    <2> QED BY <1>0, <1>6, <2>1, <2>4, SameChain DEF Handshake, Ascend, PeerInv
<1>7. CASE HandshakeFails BY <1>7, SameChain DEF HandshakeFails, PeerInv
<1>8. CASE ResolveFails BY <1>8, SameChain DEF ResolveFails, PeerInv
<1>9. CASE ReadResponse BY <1>0, <1>9, SameChain DEF ReadResponse, Ascend, PeerInv
<1>10. CASE ResponseFails BY <1>10, SameChain DEF ResponseFails, PeerInv
<1>11. CASE ServerReplies BY <1>11, SameChain DEF ServerReplies, PeerInv
<1>12. CASE TargetSends BY <1>12, SameChain DEF TargetSends, PeerInv
<1>13. CASE BlockPanics
    <2>1. /\ net = "tcp" /\ dial = "down" /\ chain[at] = "block" /\ asked[at][1] \in NilHosts
          /\ dial' = "panic" /\ UNCHANGED <<chain, net, at, asked, told, addr>>
        BY <1>13 DEF BlockPanics, Panics, Kind, Target
    <2>2. IsFor(chain, t, asked[at], at) /\ t # NoText
        BY <1>0, <2>1 DEF PeerInv
    <2>3. RelaysBefore(chain, at) = {}
        BY <2>1, <2>2, HostsAssumption DEF IsFor
    <2>4. NotLookedUp(chain, t, at)
        BY <2>1, <2>2, <2>3 DEF IsFor, NotLookedUp
    <2> QED BY <2>1, <2>4, SameChain DEF PeerInv
<1> QED BY <1>1, <1>2, <1>3, <1>4, <1>5, <1>6, <1>7, <1>8, <1>9, <1>10, <1>11,
           <1>12, <1>13 DEF DialNext

LEMMA PeerInit == Init => PeerInv
BY DEF Init, DialInit, PeerInv, Told

LEMMA PeerNext ==
    ASSUME RouteOK, ConnInv, PeerInv, [Next]_vars PROVE PeerInv'
<1>0. UNCHANGED addr
    BY DEF Next, vars, control, AcceptConnect, RefuseConnect, Upgrade, UpgradeFails,
           ReadSome, ReadFails, ReadHeader, BadHeader, Validated, UnknownUser, ReadPart,
           BadPart, DialTCP, DialPanics, DialUDP, Dialling, DialFails, LookupPanics,
           StartTunnel, TargetTalks, Upload, UploadEnds, Download, DownloadFails,
           TunnelEnds, TunnelPanics, Report, ClientGoes, Expire, Go, Leave, fixed
<1>1. CASE UNCHANGED dialVars BY <1>0, <1>1, SameChain DEF PeerInv, dialVars
<1>2. CASE Dialling \/ TargetTalks
    BY <1>0, <1>2, PeerDial DEF Dialling, TargetTalks, DialNext
<1>3. CASE DialTCP
    <2>1. dial = "idle" BY <1>3 DEF DialTCP, Go, ConnInv
    <2>2. 1 \in Hops /\ asked'[1] = Text(addr)
        BY <1>3, <2>1, ChainFacts DEF DialTCP, StartDial, RouteOK, Hops
    <2>3. IsFor(chain, Text(addr), asked'[1], 1)
        BY <2>2 DEF IsFor, RelaysBefore
    <2>4. /\ net' = "tcp" /\ dial' = "down" /\ at' = 1 /\ told' = told /\ chain' = chain
          /\ Text(addr) # NoText
        BY <1>3, <2>1 DEF DialTCP, StartDial, PeerInv
    <2> QED BY <1>0, <2>1, <2>3, <2>4, SameChain DEF PeerInv
<1>4. CASE DialUDP
    <2>1. dial = "idle" BY <1>4 DEF DialUDP, Go, ConnInv
    <2>2. asked' = asked
        BY <1>4, <2>1, ChainFacts DEF DialUDP, StartDial, RouteOK, PeerInv, Hops
    <2>3. net' = "udp" /\ dial' = "down" /\ told' = told /\ chain' = chain
        BY <1>4 DEF DialUDP, StartDial
    <2> QED BY <1>0, <2>1, <2>2, <2>3, SameChain DEF PeerInv
<1>5. CASE Download \/ DownloadFails
    BY <1>0, <1>5, SameChain DEF Download, DownloadFails, PeerInv
<1>6. CASE TunnelEnds \/ TunnelPanics
    BY <1>0, <1>6, SameChain DEF TunnelEnds, TunnelPanics, PeerInv
<1> QED BY <1>1, <1>2, <1>3, <1>4, <1>5, <1>6, DialSteps

LEMMA FittingText ==
    ASSUME NEW a \in WireAddr, Fits(a) PROVE Text(a) = <<a.host, Port(a.hi, a.lo)>>
<1>1. CASE a.type # Domain BY <1>1 DEF Text
<1>2. CASE a.type = Domain
    <2>1. a.len \in Nat /\ 2 + a.len + 1 <= 255 BY <1>2 DEF WireAddr, Bytes, Fits
    <2>2. Uint8(2 + a.len) = 2 + a.len /\ Uint8(2 + a.len + 1) = 2 + a.len + 1
        BY <2>1 DEF Uint8
    <2>3. Data(a, 2 + a.len) = a.hi /\ Data(a, 2 + a.len + 1) = a.lo
        BY <2>1 DEF Data
    <2> QED BY <1>2, <2>1, <2>2, <2>3 DEF Text
<1> QED BY <1>1, <1>2

\* Through any chain of proxies every server is told where the proxy that relies on
\* it wants to go, the last one what the header names, and no relay or target a
\* name that BlockDomain stands before.
THEOREM ToldAsNamed == Spec => []PeersAreToldAsNamed
<1>1. RouteOK /\ ControlOK /\ PeerInv => PeersAreToldAsNamed
    <2> SUFFICES ASSUME RouteOK, ControlOK, PeerInv, NEW i \in Hops, told[i] # NoAddr
                 PROVE  /\ \A j \in Before(i) : Asks(j, i) => told[i] = ServerOf(j)
                        /\ Before(i) = {} =>
                             /\ Fits(addr) => told[i] = <<addr.host, Port(addr.hi, addr.lo)>>
                             /\ told[i][1] \in BlockedHosts =>
                                  \A j \in 1..i : chain[j] # "block"
        BY DEF PeersAreToldAsNamed
    <2>1. /\ IsFor(chain, Text(addr), told[i], i) /\ chain[i] # "block"
          /\ \A j \in 1..(i - 1) : Clear(chain, Text(addr), j)
        BY DEF PeerInv, Told
    <2>2. Before(i) = RelaysBefore(chain, i) BY DEF Before, RelaysBefore
    <2>3. i \in Nat \ {0} BY ChainFacts DEF RouteOK, Hops
    <2>4. \A j \in Before(i) : Asks(j, i) => told[i] = ServerOf(j)
        BY <2>1, <2>2 DEF IsFor, Asks
    <2>5. ASSUME Before(i) = {}, Fits(addr)
          PROVE  told[i] = <<addr.host, Port(addr.hi, addr.lo)>>
        BY <2>1, <2>2, <2>5, FittingText, WireAssumption DEF IsFor, ControlOK
    <2>6. ASSUME Before(i) = {}, told[i][1] \in BlockedHosts, NEW j \in 1..i
          PROVE  chain[j] # "block"
        <3>1. told[i] = Text(addr) BY <2>1, <2>2, <2>6 DEF IsFor
        <3>2. CASE j = i BY <2>1, <3>2
        <3>3. CASE j # i
            <4>1. j \in 1..(i - 1) BY <2>3, <3>3
            <4>2. RelaysBefore(chain, j) = {}
                BY <2>2, <2>3, <2>6, <4>1 DEF RelaysBefore
            <4> QED BY <2>1, <2>6, <3>1, <4>1, <4>2 DEF Clear
        <3> QED BY <3>2, <3>3
    <2> QED BY <2>4, <2>5, <2>6
<1>2. Init => RouteOK /\ ControlOK /\ ConnInv /\ PeerInv
    BY TypeInit, TypeParts, ConnInit, PeerInit
<1>3. RouteOK /\ ControlOK /\ ConnInv /\ PeerInv /\ [Next]_vars
        => RouteOK' /\ ControlOK' /\ ConnInv' /\ PeerInv'
    BY RouteNext, ControlStep, ConnStep, PeerNext
<1> QED BY <1>1, <1>2, <1>3, PTL DEF Spec

\* A text is one at the host that the address spells.
LEMMA TextHost ==
    ASSUME NEW a \in WireAddr, Text(a) # NoText PROVE Text(a)[1] = a.host
<1> DEFINE end == Uint8(2 + a.len)
           port == Port(Data(a, end), Data(a, Uint8(end + 1)))
<1>1. Text(a) = <<a.host, port>> \/ Text(a) = <<a.host, Port(a.hi, a.lo)>>
    BY DEF Text
<1> HIDE DEF port
<1> QED BY <1>1

\* For any user, header, chain and failure: the traffic of a validated request is
\* reported once and in full, that of any other never.  Only three panics keep a
\* report from being made: over a name that does not fit or that BlockDomain cannot
\* look up, before anything is moved, and over a frame of a UDP session.  And no
\* failed WebSocket is read again.
THEOREM ReportedOnce == Spec => []TrafficReportedOnce
<1>1. ControlOK /\ ConnInv /\ ReportInv /\ PeerInv => TrafficReportedOnce
    <2> SUFFICES ASSUME ControlOK, ConnInv, ReportInv, PeerInv
                 PROVE  TrafficReportedOnce
        OBVIOUS
    <2>1. /\ pc \in Ended => reports = IF known /\ pc # "panic" THEN <<Moved>> ELSE <<>>
          /\ reader = "nil" => pc \notin Reading
          /\ pc \notin Ended => reports = <<>>
        BY DEF ReportInv, Ended, Validating
    <2>2. ASSUME pc = "panic", ~(net = "udp" /\ dial = "ok")
          PROVE  Moved = [up |-> 0, down |-> 0]
        <3>1. up = 0 /\ Len(got) = 0 BY <2>2, EmptySeq DEF ReportInv
        <3> QED BY <3>1 DEF Moved
    <2>3. ASSUME dial = "panic"
          PROVE  Kind = "block" /\ Before(at) = {} /\ addr.host \in NilHosts
        <3>1. NotLookedUp(chain, Text(addr), at) BY <2>3 DEF PeerInv
        <3>2. Text(addr)[1] = addr.host
            BY <3>1, TextHost, WireAssumption DEF ControlOK, NotLookedUp
        <3> QED BY <3>1, <3>2 DEF NotLookedUp, Kind, Before, RelaysBefore
    <2>4. pc = "panic" =>
            (dial = "idle" /\ ~Fits(addr)) \/ dial = "panic" \/ (dial = "ok" /\ net = "udp")
        BY DEF ReportInv
    <2> QED BY <2>1, <2>2, <2>3, <2>4 DEF TrafficReportedOnce
<1>2. Init => RouteOK /\ ControlOK /\ ConnInv /\ ReportInv /\ PeerInv
    BY TypeInit, TypeParts, ConnInit, ReportInit, PeerInit
<1>3. RouteOK /\ ControlOK /\ ConnInv /\ ReportInv /\ PeerInv /\ [Next]_vars
        => RouteOK' /\ ControlOK' /\ ConnInv' /\ ReportInv' /\ PeerInv'
    BY RouteNext, ControlStep, ConnStep, ReportStep, PeerNext
<1> QED BY <1>1, <1>2, <1>3, PTL DEF Spec

-----------------------------------------------------------------------------
(* What is on its way to the client, position by position.  The target is  *)
(* connected to when the last relay's server has been told, so bytes can   *)
(* arrive together with one response at most, the outermost one.           *)

\* How many bytes rawconn has put back: the last item ahead is its (0, nil).
PutBack == IF ahead = <<>> THEN 0 ELSE Len(ahead) - 1

\* What was got is what was sent first.
GotInOrder == \A i \in 1..Len(got) : got[i] = i

\* What is unread goes on where what was got ends.
Flowing ==
    /\ \A i \in 1..Len(got) : got[i] = i
    /\ \A i \in 1..PutBack : ahead[i] = Len(got) + i
    /\ ahead # <<>> => ahead[Len(ahead)] = Nothing
    /\ \A i \in 1..Len(arrived) : arrived[i] = Len(got) + PutBack + i
    /\ Len(got) + PutBack + Len(arrived) = sent

Quiet == ahead = <<>> /\ arrived = <<>> /\ sent = 0

\* A response is awaited, or has arrived with the first bytes behind it.
Awaiting ==
    /\ ahead = <<>>
    /\ \A i \in 1..Len(arrived) : arrived[i] = i - 1
    /\ (arrived = <<>> /\ sent = 0) \/ Len(arrived) = sent + 1

\* A relay among the first n hops.
RelayWithin(n) == \E j \in 1..n : chain[j] \in Relays

WholeInv ==
    /\ conn = "none" => Quiet /\ dial \notin {"up", "reply", "ok"}
    /\ conn = "open" /\ dial = "reply" =>
         /\ Kind = "http" /\ Awaiting
         /\ RelayWithin(at - 1) => sent = 0
    /\ conn = "open" /\ dial = "up" /\ RelayWithin(at) => Quiet
    /\ conn = "open" /\ dial # "reply" => Flowing \/ pc = "drain"
    /\ GotInOrder

LEMMA Lengths ==
    ASSUME StreamOK, TrafficOK
    PROVE  /\ Len(got) \in Nat /\ Len(ahead) \in Nat /\ Len(arrived) \in Nat
           /\ PutBack \in Nat /\ sent \in Nat
           /\ ahead # <<>> => Len(ahead) = PutBack + 1
<1>1. got \in Streams /\ ahead \in Streams /\ arrived \in Streams /\ sent \in Nat
    BY MaxDownAssumption DEF StreamOK, TrafficOK
<1>2. ahead # <<>> => Len(ahead) # 0
    BY <1>1, EmptySeq DEF Streams
<1> QED BY <1>1, <1>2, LenProperties DEF Streams, PutBack

\* The next byte of the target goes to the end of what has arrived.
LEMMA WholeSends ==
    ASSUME StreamOK, TrafficOK, ConnInv, WholeInv, TargetSends, UNCHANGED <<got, pc>>
    PROVE  WholeInv'
<1> USE DEF GotInOrder
<1>1. /\ conn = "open" /\ dial \in {"ok", "reply"}
      /\ UNCHANGED <<chain, dial, at, conn, ahead, got>>
      /\ arrived \in Seq(Items) /\ sent' = sent + 1
      /\ arrived' = Append(arrived, sent + 1)
    BY DEF TargetSends, Reached, StreamOK, Streams
<1>2. /\ Len(arrived') = Len(arrived) + 1
      /\ arrived'[Len(arrived) + 1] = sent + 1
      /\ \A i \in 1..Len(arrived) : arrived'[i] = arrived[i]
    BY <1>1, AppendProperties
<1>3. PutBack' = PutBack
    BY <1>1 DEF PutBack
<1>4. CASE dial = "ok" /\ pc # "drain"
    <2>1. Flowing BY <1>1, <1>4 DEF WholeInv
    <2>2. \A i \in 1..Len(arrived') : arrived'[i] = Len(got) + PutBack + i
        BY <1>2, <2>1, Lengths DEF Flowing
    <2>3. Len(got) + PutBack + Len(arrived') = sent'
        BY <1>1, <1>2, <2>1, Lengths DEF Flowing
    <2>4. Flowing' BY <1>1, <1>3, <2>1, <2>2, <2>3 DEF Flowing
    <2> QED BY <1>1, <1>4, <2>4 DEF WholeInv
<1>5. CASE dial = "reply"
    <2>1. Kind = "http" /\ Awaiting /\ arrived # <<>>
        BY <1>1, <1>5 DEF WholeInv, TargetSends, Reached
    <2>2. ~RelayWithin(at - 1)
        BY <1>5 DEF TargetSends, Reached, RelayWithin
    <2>3. \A i \in 1..Len(arrived') : arrived'[i] = i - 1
        BY <1>2, <2>1, Lengths DEF Awaiting
    <2>4. Len(arrived') = sent' + 1
        BY <1>1, <1>2, <2>1, Lengths DEF Awaiting
    <2>5. Awaiting' BY <1>1, <2>1, <2>3, <2>4 DEF Awaiting
    <2>6. ~RelayWithin(at - 1)' BY <1>1, <2>2 DEF RelayWithin
    <2> QED BY <1>1, <1>5, <2>1, <2>5, <2>6 DEF WholeInv, Kind
<1>6. CASE dial = "ok" /\ pc = "drain"
    BY <1>1, <1>6 DEF WholeInv
<1> QED BY <1>1, <1>4, <1>5, <1>6

\* What bufio has read past the head is put back in front of the rest.
LEMMA WholeResponse ==
    ASSUME RouteOK, StreamOK, TrafficOK, WholeInv, ReadResponse, got = <<>>,
           UNCHANGED <<got, pc>>
    PROVE  WholeInv'
<1> USE DEF GotInOrder
<1>1. PICK n \in 1..Len(arrived) :
        /\ arrived[1] = ResponseHead
        /\ arrived' = SubSeq(arrived, n + 1, Len(arrived))
        /\ ahead' = Rewound(SubSeq(arrived, 2, n)) \o ahead
    BY DEF ReadResponse
<1>2. /\ UNCHANGED <<chain, conn, sent, got>> /\ dial = "reply"
      /\ IF at = 1 THEN dial' = "ok" /\ at' = at ELSE dial' = "up" /\ at' = at - 1
    BY DEF ReadResponse, Ascend
<1>3. CASE conn # "open"
    BY <1>2, <1>3 DEF WholeInv
<1>4. CASE conn = "open"
    <2>1. /\ ahead = <<>> /\ Len(arrived) = sent + 1 /\ n \in Nat \ {0}
          /\ \A i \in 1..Len(arrived) : arrived[i] = i - 1
          /\ RelayWithin(at - 1) => sent = 0
        BY <1>1, <1>2, <1>4, Lengths DEF WholeInv, Awaiting
    <2> DEFINE b == SubSeq(arrived, 2, n)
    <2>2. /\ Len(arrived') = Len(arrived) - n
          /\ \A i \in 1..Len(arrived') : arrived'[i] = n + i - 1
        BY <1>1, <2>1, Lengths, SubSeqProperties DEF StreamOK, Streams
    <2>3. /\ Len(b) = n - 1 /\ b \in Seq(Items)
          /\ \A i \in 1..Len(b) : b[i] = i
        <3>1. \A i \in 2..n : arrived[i] \in Items
            BY <1>1, <2>1, ElementOfSeq DEF StreamOK, Streams
        <3> QED BY <1>1, <2>1, <3>1, Lengths, SubSeqProperties DEF StreamOK, Streams
    <2> HIDE DEF b
    <2>4. ahead' = Rewound(b)
        <3>1. Rewound(b) \in Seq(Items)
            BY <2>3, ItemFacts, EmptySeq, AppendProperties DEF Rewound
        <3> QED BY <1>1, <2>1, <3>1, ConcatEmptySeq DEF b
    <2>5. Flowing'
        <3>1. /\ PutBack' = n - 1
              /\ \A i \in 1..(n - 1) : ahead'[i] = i
              /\ ahead' # <<>> => ahead'[Len(ahead')] = Nothing
            <4>1. CASE n = 1
                <5>1. b = <<>> BY <2>3, <4>1, EmptySeq
                <5>2. ahead' = <<>> BY <2>4, <5>1 DEF Rewound
                <5> QED BY <4>1, <5>2 DEF PutBack
            <4>2. CASE n # 1
                <5>1. b # <<>> BY <2>1, <2>3, <4>2, EmptySeq
                <5>2. ahead' = Append(b, Nothing) BY <2>4, <5>1 DEF Rewound
                <5>3. /\ Len(ahead') = n /\ ahead'[n] = Nothing
                      /\ \A i \in 1..(n - 1) : ahead'[i] = b[i]
                    BY <2>1, <2>3, <5>2, ItemFacts, AppendProperties
                <5>4. ahead' # <<>> BY <2>1, <5>3, EmptySeq
                <5> QED BY <2>1, <2>3, <5>3, <5>4 DEF PutBack
            <4> QED BY <4>1, <4>2
        <3>2. Len(got') = 0 BY <1>2, EmptySeq
        <3>3. \A i \in 1..PutBack' : ahead'[i] = Len(got') + i
            BY <3>1, <3>2
        <3>4. \A i \in 1..Len(arrived') : arrived'[i] = Len(got') + PutBack' + i
            BY <2>1, <2>2, <3>1, <3>2
        <3>5. Len(got') + PutBack' + Len(arrived') = sent'
            BY <1>2, <2>1, <2>2, <3>1, <3>2, Lengths
        <3>6. \A i \in 1..Len(got') : got'[i] = i
            BY <3>2
        <3> QED BY <3>1, <3>3, <3>4, <3>5, <3>6 DEF Flowing
    <2>6. dial' = "up" /\ RelayWithin(at)' => Quiet'
        <3> SUFFICES ASSUME dial' = "up", RelayWithin(at)' PROVE Quiet'
            OBVIOUS
        <3>1. at' = at - 1 /\ RelayWithin(at - 1)
            BY <1>2 DEF RelayWithin
        <3>2. sent' = 0 /\ n = 1 BY <1>1, <1>2, <2>1, <3>1
        <3>3. b = <<>> BY <2>3, <3>2, EmptySeq
        <3>4. ahead' = <<>> BY <2>4, <3>3 DEF Rewound
        <3>5. arrived' = <<>>
            <4>1. Len(arrived') = 0 BY <1>2, <2>1, <2>2, <3>2
            <4> QED BY <4>1, <1>1, <2>1, <3>2, EmptySeq, SubSeqProperties
                    DEF StreamOK, Streams
        <3> QED BY <3>2, <3>4, <3>5 DEF Quiet
    <2> QED BY <1>2, <1>4, <2>5, <2>6 DEF WholeInv
<1> QED BY <1>3, <1>4

LEMMA WholeDial ==
    ASSUME RouteOK, StreamOK, TrafficOK, ConnInv, WholeInv, DialNext,
           got = <<>>, UNCHANGED <<got, pc>>
    PROVE  WholeInv'
<1> USE DEF GotInOrder
<1>0. at \in Nat /\ Len(got) = 0
    BY ChainFacts, EmptySeq DEF RouteOK, Hops
<1>1. CASE Refuse
    BY <1>1 DEF Refuse, stream, WholeInv, ConnInv, Quiet
<1>2. CASE Descend
    BY <1>2 DEF Descend, stream, WholeInv, ConnInv, Quiet
<1>3. CASE Connect
    <2>1. Quiet BY <1>3 DEF Connect, ConnInv, WholeInv
    <2>2. Quiet' BY <1>3, <2>1 DEF Connect, stream, Quiet
    <2>3. Flowing'
        <3>1. ahead' = <<>> /\ arrived' = <<>> /\ got' = <<>> /\ sent' = 0
            BY <2>2 DEF Quiet
        <3> QED BY <3>1, EmptySeq DEF Flowing, PutBack
    <2> QED BY <1>3, <2>2, <2>3 DEF Connect, WholeInv
<1>4. CASE ConnectFails
    BY <1>4 DEF ConnectFails, stream, WholeInv, ConnInv, Quiet
<1>5. CASE Pass
    <2>1. RelayWithin(at)' => RelayWithin(at)
        BY <1>0, <1>5 DEF Pass, Ascend, RelayWithin
    <2>2. Quiet' = Quiet /\ Flowing' = Flowing
        BY <1>5 DEF Pass, stream, Quiet, Flowing, PutBack
    <2> QED BY <1>5, <2>1, <2>2 DEF Pass, Ascend, WholeInv
<1>6. CASE Handshake
    <2>1. RelayWithin(at)' => RelayWithin(at)
        BY <1>0, <1>6 DEF Handshake, Ascend, RelayWithin
    <2>2. Quiet' = Quiet /\ Flowing' = Flowing
        BY <1>6 DEF Handshake, stream, Quiet, Flowing, PutBack
    <2>3. CASE Kind = "http"
        <3>1. at \in 1..at BY <1>0, ChainFacts DEF RouteOK, Hops
        <3>2. RelayWithin(at) BY <2>3, <3>1 DEF RelayWithin, Kind, Relays
        <3>3. conn = "open" => Quiet BY <1>6, <3>2 DEF Handshake, WholeInv
        <3>4. Quiet => Awaiting'
            BY <1>6, EmptySeq DEF Handshake, stream, Quiet, Awaiting
        <3> QED BY <1>6, <2>2, <2>3, <3>3, <3>4 DEF Handshake, stream, WholeInv, Kind, Quiet
    <2>4. CASE Kind # "http"
        BY <1>6, <2>1, <2>2, <2>4 DEF Handshake, Ascend, WholeInv
    <2> QED BY <2>3, <2>4
<1>7. CASE HandshakeFails \/ ResolveFails
    <2>1. Quiet' = Quiet /\ Flowing' = Flowing
        BY <1>7 DEF HandshakeFails, ResolveFails, stream, Quiet, Flowing, PutBack
    <2>2. dial = "up" /\ dial' = "failed" /\ conn' \in {conn, "closed"}
        BY <1>7 DEF HandshakeFails, ResolveFails
    <2> QED BY <2>1, <2>2 DEF WholeInv
<1>8. CASE ReadResponse
    BY <1>8, WholeResponse
<1>9. CASE ResponseFails
    BY <1>9 DEF ResponseFails, WholeInv
<1>10. CASE ServerReplies
    <2>1. /\ dial = "reply" /\ arrived = <<>> /\ arrived' = <<ResponseHead>>
          /\ UNCHANGED <<chain, dial, at, conn, ahead, sent>>
        BY <1>10 DEF ServerReplies
    <2>2. CASE conn = "open"
        <3>1. Kind = "http" /\ ahead = <<>> /\ sent = 0
            BY <2>1, <2>2, EmptySeq, Lengths DEF WholeInv, Awaiting
        <3>2. Awaiting'
            BY <2>1, <3>1 DEF Awaiting, ResponseHead
        <3> QED BY <2>1, <2>2, <3>1, <3>2 DEF WholeInv, Kind
    <2>3. CASE conn # "open"
        BY <2>1, <2>3 DEF WholeInv
    <2> QED BY <2>2, <2>3
<1>11. CASE TargetSends
    BY <1>11, WholeSends
<1>12. CASE BlockPanics
    BY <1>12 DEF BlockPanics, stream, WholeInv, ConnInv, Quiet
<1> QED BY <1>1, <1>2, <1>3, <1>4, <1>5, <1>6, <1>7, <1>8, <1>9, <1>10, <1>11, <1>12
        DEF DialNext

\* The client gets the byte after those that it has got.
LEMMA NextIsGot ==
    ASSUME StreamOK, TrafficOK, \A i \in 1..Len(got) : got[i] = i,
           NEW x \in Items, x = Len(got) + 1, got' = Append(got, x)
    PROVE  /\ Len(got') = Len(got) + 1
           /\ \A i \in 1..Len(got') : got'[i] = i
<1>1. got \in Seq(Items) /\ Len(got) \in Nat
    BY Lengths DEF TrafficOK, Streams
<1>2. /\ Len(got') = Len(got) + 1 /\ got'[Len(got) + 1] = x
      /\ \A i \in 1..Len(got) : got'[i] = got[i]
    BY <1>1, AppendProperties
<1>3. ASSUME NEW i \in 1..Len(got') PROVE got'[i] = i
    <2>1. i \in 1..Len(got) \/ i = Len(got) + 1 BY <1>1, <1>2
    <2> QED BY <1>2, <2>1
<1> QED BY <1>2, <1>3

\* rawconn gives the byte that comes next.
LEMMA WholeDownload ==
    ASSUME StreamOK, TrafficOK, WholeInv, ConnInv, Download
    PROVE  WholeInv'
<1> USE DEF GotInOrder
<1> DEFINE x == (ahead \o arrived)[1]
<1>1. /\ UNCHANGED <<pc, chain, dial, at, conn, sent>>
      /\ pc = "tunnel" /\ dial = "ok" /\ conn = "open"
      /\ got' = IF x = Nothing THEN got ELSE Append(got, x)
      /\ ReadConn
    BY DEF Download, ConnInv
<1>2. /\ got \in Seq(Items) /\ ahead \in Seq(Items) /\ arrived \in Seq(Items)
    BY DEF StreamOK, TrafficOK, Streams
<1>3. ASSUME Flowing' PROVE WholeInv'
    <2>1. GotInOrder' BY <1>3 DEF Flowing
    <2> QED BY <1>1, <1>3, <2>1 DEF WholeInv
<1>4. CASE conn = "open"
    <2>1. Flowing BY <1>1, <1>4 DEF WholeInv
    <2>2. CASE ahead # <<>>
        <3>1. /\ ahead' = Tail(ahead) /\ arrived' = arrived
              /\ Len(ahead) = PutBack + 1 /\ x = ahead[1]
            BY <1>1, <1>2, <2>2, Lengths, ConcatProperties DEF ReadConn
        <3>2. /\ Len(ahead') = PutBack
              /\ \A i \in 1..PutBack : ahead'[i] = ahead[i + 1]
            BY <1>2, <2>2, <3>1, Lengths, HeadTailProperties
        <3>3. CASE PutBack = 0
            <4>1. x = Nothing BY <2>1, <2>2, <3>1, <3>3 DEF Flowing
            <4>2. ahead' = <<>>
                BY <1>2, <2>2, <3>1, <3>2, <3>3, HeadTailProperties, EmptySeq
            <4>3. got' = got /\ PutBack' = 0 BY <1>1, <4>1, <4>2 DEF PutBack
            <4>4. Flowing' BY <1>1, <2>1, <3>1, <3>3, <4>2, <4>3, Lengths DEF Flowing
            <4> QED BY <1>3, <4>4
        <3>4. CASE PutBack # 0
            <4>1. x = Len(got) + 1 /\ x # Nothing
                BY <2>1, <3>1, <3>4, Lengths DEF Flowing, Nothing
            <4>2. /\ Len(got') = Len(got) + 1
                  /\ \A i \in 1..Len(got') : got'[i] = i
                <5>1. x \in Items BY <1>1, ConnRead
                <5>2. got' = Append(got, x) BY <1>1, <4>1
                <5> QED BY <2>1, <4>1, <5>1, <5>2, NextIsGot DEF Flowing
            <4>3. ahead' # <<>> /\ PutBack' = PutBack - 1
                BY <3>2, <3>4, Lengths, EmptySeq DEF PutBack
            <4>4. ahead'[Len(ahead')] = Nothing
                <5>1. ahead'[PutBack] = ahead[PutBack + 1] BY <3>2, <3>4, Lengths
                <5> QED BY <2>1, <2>2, <3>1, <3>2, <5>1 DEF Flowing
            <4>5. ASSUME NEW i \in 1..PutBack' PROVE ahead'[i] = Len(got') + i
                <5>1. i \in 1..PutBack /\ i + 1 \in 1..PutBack
                    BY <3>4, <4>3, Lengths
                <5>2. ahead'[i] = Len(got) + (i + 1) BY <2>1, <3>2, <5>1 DEF Flowing
                <5> QED BY <4>2, <5>1, <5>2, Lengths
            <4>6. ASSUME NEW i \in 1..Len(arrived')
                  PROVE  arrived'[i] = Len(got') + PutBack' + i
                <5>1. arrived'[i] = Len(got) + PutBack + i
                    BY <2>1, <3>1 DEF Flowing
                <5> QED BY <3>1, <4>2, <4>3, <5>1, Lengths
            <4>7. Len(got') + PutBack' + Len(arrived') = sent'
                BY <1>1, <2>1, <3>1, <4>2, <4>3, Lengths DEF Flowing
            <4>8. Flowing' BY <4>2, <4>4, <4>5, <4>6, <4>7 DEF Flowing
            <4> QED BY <1>3, <4>8
        <3> QED BY <3>3, <3>4
    <2>3. CASE ahead = <<>>
        <3>1. /\ ahead' = <<>> /\ arrived' = Tail(arrived) /\ arrived # <<>>
              /\ x = arrived[1]
            BY <1>1, <1>2, <2>3, ConcatEmptySeq DEF ReadConn
        <3>2. /\ Len(arrived) # 0 /\ Len(arrived') = Len(arrived) - 1
              /\ \A i \in 1..Len(arrived') : arrived'[i] = arrived[i + 1]
            BY <1>2, <3>1, HeadTailProperties, EmptySeq
        <3>3. PutBack = 0 /\ PutBack' = 0 BY <2>3, <3>1 DEF PutBack
        <3>4. x = Len(got) + 1 /\ x # Nothing
            BY <2>1, <3>1, <3>2, <3>3, Lengths DEF Flowing, Nothing
        <3>5. /\ Len(got') = Len(got) + 1
              /\ \A i \in 1..Len(got') : got'[i] = i
            <4>1. x \in Items BY <1>1, ConnRead
            <4>2. got' = Append(got, x) BY <1>1, <3>4
            <4> QED BY <2>1, <3>4, <4>1, <4>2, NextIsGot DEF Flowing
        <3>6. /\ \A i \in 1..Len(arrived') : arrived'[i] = Len(got') + PutBack' + i
              /\ Len(got') + PutBack' + Len(arrived') = sent'
            BY <1>1, <2>1, <3>2, <3>3, <3>5, Lengths DEF Flowing
        <3>7. Flowing' BY <3>1, <3>3, <3>5, <3>6 DEF Flowing
        <3> QED BY <1>3, <3>7
    <2> QED BY <2>2, <2>3
<1> QED BY <1>1, <1>4

LEMMA WholeInit == Init => WholeInv
<1>1. Init => got = <<>> /\ Len(got) = 0
    BY EmptySeq DEF Init
<1> QED BY <1>1 DEF Init, DialInit, WholeInv, GotInOrder, Quiet

\* A download that has been given up is not taken up again.
LEMMA DrainStays ==
    ASSUME ConnInv, [Next]_vars, pc = "drain"
    PROVE  pc' = "drain" \/ conn' = "closed"
<1> USE DEF Go, Leave, Reading
<1>1. dial = "ok" BY DEF ConnInv
<1>2. CASE TunnelEnds \/ TunnelPanics
    BY <1>2 DEF TunnelEnds, TunnelPanics
<1>3. ~Dialling /\ ~DialFails /\ ~LookupPanics
    BY DEF Dialling, DialFails, LookupPanics
<1>4. UNCHANGED pc \/ TunnelEnds \/ TunnelPanics
    BY <1>3
    DEF Next, vars, control, fixed, AcceptConnect, RefuseConnect, Upgrade, UpgradeFails,
        ReadSome, ReadFails, ReadHeader, BadHeader, Validated, UnknownUser, ReadPart,
        BadPart, DialTCP, DialPanics, DialUDP, StartTunnel, TargetTalks, Upload,
        UploadEnds, Download, DownloadFails, Report, ClientGoes, Expire
<1> QED BY <1>2, <1>4

LEMMA WholeNext ==
    ASSUME RouteOK, StreamOK, TrafficOK, ConnInv, ReportInv, WholeInv, [Next]_vars
    PROVE  WholeInv'
<1>1. CASE UNCHANGED <<dialVars, got>>
    BY <1>1, DrainStays DEF dialVars, WholeInv, GotInOrder, Quiet, Awaiting, Flowing, PutBack, RelayWithin, Kind
<1>2. CASE Dialling
    <2>1. got = <<>> /\ got' = got /\ pc' = pc BY <1>2 DEF Dialling, ReportInv, control
    <2> QED BY <1>2, <2>1, WholeDial DEF Dialling
<1>3. CASE TargetTalks
    BY <1>3, WholeSends DEF TargetTalks, control
<1>4. CASE DialTCP \/ DialUDP
    <2>1. dial = "idle" /\ dial' = "down" /\ UNCHANGED <<conn, ahead, arrived, sent>>
        BY <1>4 DEF DialTCP, DialUDP, StartDial, Go, ConnInv, stream
    <2>2. conn = "none" BY <2>1 DEF ConnInv
    <2>3. got' = got BY <1>4 DEF DialTCP, DialUDP, moved
    <2> QED BY <2>1, <2>2, <2>3 DEF WholeInv, GotInOrder, Quiet
<1>5. CASE Download
    BY <1>5, WholeDownload
<1>6. CASE TunnelEnds \/ TunnelPanics
    BY <1>6 DEF TunnelEnds, TunnelPanics, moved, WholeInv, GotInOrder
<1>8. CASE DownloadFails
    <2>1. /\ UNCHANGED <<chain, dial, at, conn, sent, got>> /\ pc' = "drain"
          /\ conn = "open" /\ dial = "ok"
        BY <1>8 DEF DownloadFails, Go, moved, ConnInv
    <2> QED BY <2>1 DEF WholeInv, GotInOrder
<1>7. UNCHANGED dialVars => got' = got \/ Download
    BY DEF Next, vars, control, moved, AcceptConnect, RefuseConnect, Upgrade,
           UpgradeFails, ReadSome, ReadFails, ReadHeader, BadHeader, Validated,
           UnknownUser, ReadPart, BadPart, DialTCP, DialPanics, DialUDP, Dialling,
           DialFails, LookupPanics, StartTunnel, TargetTalks, Upload, UploadEnds,
           DownloadFails, TunnelEnds, TunnelPanics, Report, ClientGoes, Expire
<1> QED BY <1>1, <1>2, <1>3, <1>4, <1>5, <1>6, <1>7, <1>8, DialSteps

\* What is on its way holds the bytes sent, in order.
InOrder(way) ==
    /\ \A n \in 1..sent : \E i \in DOMAIN way : way[i] = n
    /\ \A i, j \in DOMAIN way :
         i < j /\ IsPayload(way[i]) /\ IsPayload(way[j]) => way[i] < way[j]
    /\ \A i \in DOMAIN way : way[i] <= sent

LEMMA Joined ==
    ASSUME NEW s \in Seq(Items), NEW t \in Seq(Items)
    PROVE  \E u \in Seq(Items) :
             /\ u = s \o t /\ Len(u) = Len(s) + Len(t) /\ DOMAIN u = 1..Len(u)
             /\ \A i \in 1..Len(s) : u[i] = s[i]
             /\ \A i \in 1..Len(t) : u[Len(s) + i] = t[i]
<1>1. /\ s \o t \in Seq(Items) /\ Len(s \o t) = Len(s) + Len(t)
      /\ \A i \in 1..Len(s) + Len(t) :
           (s \o t)[i] = IF i <= Len(s) THEN s[i] ELSE t[i - Len(s)]
      /\ Len(s) \in Nat /\ Len(t) \in Nat
    BY ConcatProperties, LenProperties
<1>2. ASSUME NEW i \in 1..Len(s) PROVE (s \o t)[i] = s[i]
    <2>1. i \in 1..Len(s) + Len(t) /\ i <= Len(s) BY <1>1
    <2> QED BY <1>1, <2>1
<1>3. ASSUME NEW i \in 1..Len(t) PROVE (s \o t)[Len(s) + i] = t[i]
    <2>1. /\ Len(s) + i \in 1..Len(s) + Len(t) /\ ~(Len(s) + i <= Len(s))
          /\ Len(s) + i - Len(s) = i
        BY <1>1
    <2> QED BY <1>1, <2>1
<1>4. DOMAIN (s \o t) = 1..Len(s \o t) BY <1>1
<1> QED BY <1>1, <1>2, <1>3, <1>4

LEMMA FlowingInOrder ==
    ASSUME StreamOK, TrafficOK, Flowing
    PROVE  InOrder(got \o ahead \o arrived)
<1> DEFINE last == Len(got) + PutBack
<1>1. /\ got \in Seq(Items) /\ ahead \in Seq(Items) /\ arrived \in Seq(Items)
    BY DEF StreamOK, TrafficOK, Streams
<1>2. PICK front \in Seq(Items) :
        /\ front = got \o ahead /\ Len(front) = Len(got) + Len(ahead)
        /\ \A i \in 1..Len(got) : front[i] = got[i]
        /\ \A i \in 1..Len(ahead) : front[Len(got) + i] = ahead[i]
    <2>1. ASSUME NEW s \in Seq(Items), NEW t \in Seq(Items)
          PROVE  \E u \in Seq(Items) :
                   /\ u = s \o t /\ Len(u) = Len(s) + Len(t)
                   /\ \A i \in 1..Len(s) : u[i] = s[i]
                   /\ \A i \in 1..Len(t) : u[Len(s) + i] = t[i]
        BY Joined
    <2> QED BY <1>1, <2>1, Zenon
<1>3. PICK way \in Seq(Items) :
        /\ way = front \o arrived /\ Len(way) = Len(front) + Len(arrived)
        /\ DOMAIN way = 1..Len(way)
        /\ \A i \in 1..Len(front) : way[i] = front[i]
        /\ \A i \in 1..Len(arrived) : way[Len(front) + i] = arrived[i]
    BY <1>1, Joined
<1>4. DOMAIN way = 1..Len(way)
    BY <1>3
<1>5. /\ Len(front) \in Nat /\ Len(way) \in Nat /\ last \in Nat /\ sent \in Nat
      /\ Len(front) = last \/ Len(front) = last + 1
      /\ Len(way) = Len(front) + (sent - last) /\ last <= sent
    <2>1. Len(ahead) = PutBack \/ Len(ahead) = PutBack + 1
        <3>1. ahead = <<>> => Len(ahead) = 0 /\ PutBack = 0 BY EmptySeq DEF PutBack
        <3> QED BY <3>1, Lengths
    <2>2. last + Len(arrived) = sent BY DEF Flowing
    <2>3. /\ Len(got) \in Nat /\ Len(ahead) \in Nat /\ Len(arrived) \in Nat
          /\ PutBack \in Nat /\ sent \in Nat
        BY Lengths
    <2>4. last \in Nat /\ last <= sent /\ sent - last = Len(arrived)
        BY <2>2, <2>3
    <2>5. Len(front) \in Nat /\ (Len(front) = last \/ Len(front) = last + 1)
        <3>1. Len(front) = Len(got) + Len(ahead) BY <1>2
        <3> QED BY <2>1, <2>3, <3>1
    <2> QED BY <1>3, <2>3, <2>4, <2>5
<1>6. ASSUME NEW i \in 1..last PROVE i \in DOMAIN way /\ way[i] = i
    <2>1. i \in 1..Len(front) /\ i \in 1..Len(way) BY <1>5
    <2>2. CASE i <= Len(got)
        <3>1. i \in 1..Len(got) BY <2>2, Lengths
        <3>2. got[i] = i BY <3>1 DEF Flowing
        <3> QED BY <1>2, <1>3, <1>4, <2>1, <3>1, <3>2
    <2>3. CASE i > Len(got)
        <3>1. i - Len(got) \in 1..PutBack BY <2>3, Lengths
        <3>2. ahead[i - Len(got)] = Len(got) + (i - Len(got)) BY <3>1 DEF Flowing
        <3>3. Len(got) + (i - Len(got)) = i BY Lengths
        <3>4. i - Len(got) \in 1..Len(ahead) BY <1>2, <1>5, <2>1, <2>3, Lengths
        <3> QED BY <1>2, <1>3, <1>4, <2>1, <3>2, <3>3, <3>4
    <2> QED BY <2>2, <2>3, Lengths
<1>7. Len(front) = last + 1 => way[last + 1] = Nothing
    <2> SUFFICES ASSUME Len(front) = last + 1 PROVE way[last + 1] = Nothing
        OBVIOUS
    <2>1. ahead # <<>> /\ Len(ahead) = PutBack + 1
        BY <1>2, EmptySeq, Lengths DEF PutBack
    <2>2. front[Len(got) + Len(ahead)] = ahead[Len(ahead)] BY <1>2, <2>1, Lengths
    <2>3. Len(got) + Len(ahead) = last + 1 BY <2>1, Lengths
    <2>4. last + 1 \in 1..Len(front) BY <1>5
    <2> QED BY <1>3, <2>1, <2>2, <2>3, <2>4 DEF Flowing
<1>8. ASSUME NEW n \in 1..(sent - last)
      PROVE  Len(front) + n \in DOMAIN way /\ way[Len(front) + n] = last + n
    <2>1. Len(front) + n \in 1..Len(way) /\ n \in 1..Len(arrived)
        BY <1>3, <1>5
    <2>2. way[Len(front) + n] = arrived[n] BY <1>3, <1>5, <2>1
    <2> QED BY <1>4, <2>1, <2>2 DEF Flowing
<1>9. ASSUME NEW i \in DOMAIN way
      PROVE  \/ i \in 1..last
             \/ i = last + 1 /\ Len(front) = last + 1
             \/ \E n \in 1..(sent - last) : i = Len(front) + n
    <2>1. i \in 1..Len(way) BY <1>4
    <2>2. CASE i > Len(front)
        <3>1. i - Len(front) \in 1..(sent - last) BY <1>5, <2>1, <2>2
        <3>2. i = Len(front) + (i - Len(front)) BY <1>5, <2>1
        <3> QED BY <3>1, <3>2
    <2> QED BY <1>5, <2>1, <2>2
<1> HIDE DEF last
<1>10. ASSUME NEW n \in 1..sent PROVE \E i \in DOMAIN way : way[i] = n
    <2>1. CASE n <= last BY <1>5, <1>6, <2>1
    <2>2. CASE n > last
        <3>1. n - last \in 1..(sent - last) BY <1>5, <2>2
        <3>2. way[Len(front) + (n - last)] = last + (n - last)
              /\ Len(front) + (n - last) \in DOMAIN way
            BY <1>8, <3>1
        <3>3. last + (n - last) = n BY <1>5
        <3> QED BY <3>2, <3>3
    <2> QED BY <1>5, <2>1, <2>2
<1>11. ASSUME NEW i \in DOMAIN way
       PROVE  /\ i \in Nat
              /\ \/ way[i] = Nothing /\ i = last + 1 /\ Len(front) = last + 1
                 \/ way[i] = i /\ i <= last
                 \/ /\ way[i] = last + (i - Len(front)) /\ i > Len(front)
                    /\ i - Len(front) <= sent - last
    <2>1. CASE \E n \in 1..(sent - last) : i = Len(front) + n
        <3>1. PICK n \in 1..(sent - last) : i = Len(front) + n BY <2>1
        <3> QED BY <1>5, <1>8, <3>1
    <2>2. CASE i \in 1..last
        BY <1>5, <1>6, <2>2
    <2>3. CASE i = last + 1 /\ Len(front) = last + 1
        BY <1>5, <1>7, <2>3
    <2> QED BY <1>9, <2>1, <2>2, <2>3
<1>12. \A i \in DOMAIN way : way[i] <= sent
    BY <1>5, <1>11 DEF Nothing
<1>13. ASSUME NEW i \in DOMAIN way, NEW j \in DOMAIN way,
              i < j, IsPayload(way[i]), IsPayload(way[j])
       PROVE  way[i] < way[j]
    <2>1. way[i] # Nothing /\ way[j] # Nothing BY <1>13 DEF IsPayload, Nothing
    <2> QED BY <1>5, <1>11, <1>13, <2>1
<1> QED BY <1>2, <1>3, <1>10, <1>12, <1>13 DEF InOrder

LEMMA AwaitingInOrder ==
    ASSUME StreamOK, TrafficOK, Awaiting, got = <<>>
    PROVE  InOrder(got \o ahead \o arrived)
<1>1. arrived \in Seq(Items)
    BY DEF StreamOK, Streams
<1>2. got \o ahead \o arrived = arrived
    <2>1. got \o ahead = <<>> BY EmptySeq, ConcatEmptySeq DEF Awaiting
    <2> QED BY <1>1, <2>1, ConcatEmptySeq
<1>3. DOMAIN arrived = 1..Len(arrived) /\ Len(arrived) \in Nat /\ sent \in Nat
    BY <1>1, Lengths
<1>4. CASE arrived = <<>> /\ sent = 0
    <2>1. Len(arrived) = 0 BY <1>4, EmptySeq
    <2> QED BY <1>2, <1>3, <1>4, <2>1 DEF InOrder
<1>5. CASE Len(arrived) = sent + 1
    <2>1. \A i \in DOMAIN arrived : i \in 1..(sent + 1) /\ arrived[i] = i - 1
        BY <1>3, <1>5 DEF Awaiting
    <2>2. ASSUME NEW n \in 1..sent PROVE \E i \in DOMAIN arrived : arrived[i] = n
        <3>1. n + 1 \in DOMAIN arrived /\ (n + 1) - 1 = n BY <1>3, <1>5
        <3> QED BY <2>1, <3>1
    <2>3. ASSUME NEW i \in DOMAIN arrived, NEW j \in DOMAIN arrived, i < j
          PROVE  arrived[i] < arrived[j]
        <3>1. arrived[i] = i - 1 /\ arrived[j] = j - 1 /\ i \in Nat /\ j \in Nat
            BY <1>3, <2>1
        <3> QED BY <2>3, <3>1
    <2>4. \A i \in DOMAIN arrived : arrived[i] <= sent BY <1>3, <2>1
    <2> QED BY <1>2, <2>2, <2>3, <2>4 DEF InOrder
<1> QED BY <1>4, <1>5 DEF Awaiting

\* The client gets what the target sent, in order and whole, through any chain of
\* proxies and whatever has arrived when a proxy's response is read.
THEOREM DownloadsAreWhole == Spec => []DownloadIsWhole
<1>1. StreamOK /\ TrafficOK /\ ConnInv /\ ReportInv /\ WholeInv => DownloadIsWhole
    <2> SUFFICES ASSUME StreamOK, TrafficOK, ConnInv, ReportInv, WholeInv
                 PROVE  /\ \A i \in DOMAIN got : got[i] = i
                        /\ conn = "open" /\ pc # "drain"
                               => InOrder(got \o ahead \o arrived)
        BY DEF DownloadIsWhole, InOrder
    <2>1. \A i \in DOMAIN got : got[i] = i
        <3>1. \A i \in DOMAIN got : i \in 1..Len(got) BY DEF TrafficOK, Streams
        <3> QED BY <3>1 DEF WholeInv, GotInOrder
    <2>2. CASE conn = "open" /\ pc # "drain" /\ dial # "reply"
        <3>1. Flowing BY <2>2 DEF WholeInv
        <3> QED BY <2>1, <3>1, FlowingInOrder
    <2>3. CASE conn = "open" /\ dial = "reply"
        <3>1. got = <<>> BY <2>3 DEF ConnInv, ReportInv
        <3> QED BY <2>1, <2>3, <3>1, AwaitingInOrder DEF WholeInv
    <2> QED BY <2>1, <2>2, <2>3
<1>2. Init => RouteOK /\ StreamOK /\ TrafficOK /\ ControlOK
                /\ ConnInv /\ ReportInv /\ WholeInv
    BY TypeInit, TypeParts, ConnInit, ReportInit, WholeInit
<1>3. RouteOK /\ StreamOK /\ TrafficOK /\ ControlOK /\ ConnInv /\ ReportInv
        /\ WholeInv /\ [Next]_vars
        => RouteOK' /\ StreamOK' /\ TrafficOK' /\ ControlOK' /\ ConnInv' /\ ReportInv'
             /\ WholeInv'
    BY RouteNext, StreamNext, TrafficNext, ControlStep, ConnStep, ReportStep, WholeNext
<1> QED BY <1>1, <1>2, <1>3, PTL DEF Spec

-----------------------------------------------------------------------------
(* The deadline of the header.                                             *)

DeadlineInv ==
    /\ pc \notin {"header", "validate"} => timer = "none"
    /\ pc \in {"arrival", "header"} => ~known

LEMMA DeadlineStep ==
    ASSUME DeadlineInv, [Next]_vars PROVE DeadlineInv'
<1> USE DEF DeadlineInv, Go, Leave, link, fixed, moved
<1>1. CASE AcceptConnect \/ RefuseConnect \/ Upgrade \/ UpgradeFails
    BY <1>1 DEF AcceptConnect, RefuseConnect, Upgrade, UpgradeFails
<1>2. CASE ReadSome \/ ReadFails \/ ReadHeader \/ BadHeader
    BY <1>2 DEF ReadSome, ReadFails, ReadHeader, BadHeader, Reading
<1>3. CASE Validated \/ UnknownUser \/ ReadPart \/ BadPart
    BY <1>3 DEF Validated, UnknownUser, ReadPart, BadPart
<1>4. CASE DialTCP \/ DialPanics \/ DialUDP \/ Dialling
    BY <1>4 DEF DialTCP, DialPanics, DialUDP, Dialling, control
<1>5. CASE DialFails \/ StartTunnel \/ TargetTalks \/ Upload \/ UploadEnds
    BY <1>5 DEF DialFails, StartTunnel, TargetTalks, Upload, UploadEnds, control
<1>6. CASE Download \/ TunnelEnds \/ Report \/ ClientGoes \/ Expire
    BY <1>6 DEF Download, TunnelEnds, Report, ClientGoes, Expire
<1>8. CASE LookupPanics \/ DownloadFails \/ TunnelPanics
    BY <1>8 DEF LookupPanics, DownloadFails, TunnelPanics
<1>7. CASE UNCHANGED vars
    BY <1>7 DEF vars, control
<1> QED BY <1>1, <1>2, <1>3, <1>4, <1>5, <1>6, <1>7, <1>8 DEF Next

\* clearHeaderDeadline comes before whatever else a validated request reads,
\* also when the deadline has just passed: the safety half of HeaderDeadline.
THEOREM TunnelsHaveNoDeadline == Spec => [](pc \in Served => timer = "none")
<1>1. Init => DeadlineInv
    BY DEF Init, DeadlineInv
<1>2. DeadlineInv => (pc \in Served => timer = "none")
    BY DEF DeadlineInv, Served
<1> QED BY DeadlineStep, <1>1, <1>2, PTL DEF Spec

-----------------------------------------------------------------------------
(* Who is billed sees a tunnel: the one that the request opened, or, when  *)
(* it came to none, one that moves nothing.                                *)

Billed == INSTANCE Tunnel WITH down <- Moved.down, results <- reports

\* Everything but the two copy loops, the report and the start of a dial leaves
\* alone what is moved and the network.
LEMMA MovedStays ==
    ASSUME [Next]_vars
    PROVE  \/ UNCHANGED <<up, got, reports, net>>
           \/ Upload \/ Download \/ Report \/ DialTCP \/ DialUDP
BY DialKeepsNet
DEF Next, vars, dialVars, control, moved, AcceptConnect, RefuseConnect, Upgrade,
    UpgradeFails, ReadSome, ReadFails, ReadHeader, BadHeader, Validated, UnknownUser,
    ReadPart, BadPart, DialPanics, Dialling, DialFails, LookupPanics, StartTunnel,
    TargetTalks, TargetSends, UploadEnds, DownloadFails, TunnelEnds, TunnelPanics,
    ClientGoes, Expire

\* A request, seen by the one it reports to, implements the Tunnel that HandleTCP
\* and HandleUDP implement: its traffic grows by one piece at a time, it is reported
\* once, with all that was moved by then, whichever step of header, dial or tunnel
\* failed, and nothing is moved behind the report.
THEOREM BilledAsATunnel == Spec => Billed!Spec
<1>1. Init => Billed!Init
    BY DEF Init, Billed!Init, Moved
<1>2. TypeOK /\ ConnInv /\ ReportInv /\ [Next]_vars => [Billed!Next]_<<up, Moved.down, reports>>
    <2> SUFFICES ASSUME TypeOK, ConnInv, ReportInv, [Next]_vars
                 PROVE  Billed!Next \/ UNCHANGED <<up, Moved.down, reports>>
        OBVIOUS
    <2>1. CASE UNCHANGED <<up, got, reports, net>>
        BY <2>1 DEF Moved
    <2>2. CASE Upload
        <3>1. reports = <<>> /\ UNCHANGED <<got, reports, net>> /\ up' = up + 1
            BY <2>2 DEF Upload, Tunnelling, ReportInv, dialVars
        <3> QED BY <3>1 DEF Moved, Billed!Next, Billed!MoveUp, Billed!Running
    <2>3. CASE Download
        <3>1. reports = <<>> /\ UNCHANGED <<up, reports, net>>
            BY <2>3 DEF Download, ReportInv
        <3>2. PICK x : got' = IF x = Nothing THEN got ELSE Append(got, x)
            BY <2>3 DEF Download
        <3>3. Len(got') \in {Len(got), Len(got) + 1}
            BY <3>2 DEF TypeOK
        <3>4. Moved'.down \in {Moved.down, Moved.down + 1}
            BY <3>1, <3>3 DEF Moved
        <3> QED BY <3>1, <3>4 DEF Billed!Next, Billed!MoveDown, Billed!Running
    <2>4. CASE Report
        <3>1. reports = <<>> /\ reports' = Append(reports, Moved)
              /\ UNCHANGED <<up, got, net>>
            BY <2>4 DEF Report, Leave, Go, ReportInv, dialVars
        <3>2. reports' = <<Moved>> /\ UNCHANGED Moved.down
            BY <3>1 DEF Moved
        <3>3. Moved = [up |-> up, down |-> Moved.down]
            BY DEF Moved
        <3> QED BY <3>1, <3>2, <3>3 DEF Billed!Next, Billed!End, Billed!Running
    <2>5. CASE DialTCP \/ DialUDP
        <3>1. got = <<>> /\ UNCHANGED <<up, got, reports>>
            BY <2>5 DEF DialTCP, DialUDP, Go, ReportInv, moved
        <3>2. Len(got) = 0
            BY <3>1
        <3> QED BY <3>1, <3>2 DEF Moved
    <2> QED BY <2>1, <2>2, <2>3, <2>4, <2>5, MovedStays
<1>3. Spec => []TypeOK
    BY TypeCorrect
<1> QED BY <1>1, <1>2, <1>3, ConnInit, ConnStep, ReportInit, ReportStep, PTL
        DEF Spec, Billed!Spec
=============================================================================
