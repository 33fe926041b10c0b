--------------------------- MODULE ListenerProofs ---------------------------
(***************************************************************************)
(* Proofs about Listener: who has a connection, what is given back of it   *)
(* and with which deadline, for any number of connections, any header size *)
(* and any capacity of the channel.                                        *)
(***************************************************************************)
EXTENDS Listener, TLAPS

\* What holds of one connection, from its goroutine's place on.
ConnInv(c) ==
    /\ go[c] = "none" => at[c] = "new" /\ n[c] = taken[c] + holes[c]
    /\ go[c] \in {"read", "check", "offer", "tunnel"} => at[c] = "held"
    /\ at[c] = "new" => go[c] = "none" /\ n[c] = 0
    /\ go[c] = "read" => n[c] < HeaderSize /\ n[c] = taken[c] + holes[c]
    /\ go[c] = "check" => HeaderSize = taken[c] + holes[c]
    /\ go[c] = "offer" \/ Handed(c) => replay[c] = taken[c] + holes[c]
    /\ go[c] \in {"check", "offer", "tunnel"} \/ Handed(c)
            => dl[c] \notin {"sniff", "expired"}

\* The channel holds each queued connection once.
QueueInv ==
    /\ IsInjective(queue)
    /\ \A c \in Conns : at[c] = "queued" <=> c \in ToSet(queue)

IInv == TypeOK /\ QueueInv /\ \A c \in Conns : ConnInv(c)

-----------------------------------------------------------------------------
(* The channel.                                                            *)

\* A connection that is not in the channel is in it once after the send.
LEMMA AppendOnce ==
    ASSUME NEW q \in Seq(Conns), NEW c \in Conns, IsInjective(q), c \notin ToSet(q)
    PROVE  IsInjective(Append(q, c)) /\ ToSet(Append(q, c)) = ToSet(q) \cup {c}
  <1> DEFINE r == Append(q, c)
  <1>1. /\ Len(q) \in Nat /\ DOMAIN q = 1 .. Len(q) /\ DOMAIN r = 1 .. Len(q) + 1
        /\ r[Len(q) + 1] = c /\ \A i \in 1 .. Len(q) : r[i] = q[i]
    OBVIOUS
  <1>2. \A i \in DOMAIN r : i = Len(q) + 1 \/ i \in DOMAIN q
    BY <1>1
  <1>3. IsInjective(r)
    <2> SUFFICES ASSUME NEW i \in DOMAIN r, NEW j \in DOMAIN r, r[i] = r[j] PROVE i = j
      BY DEF IsInjective
    <2> QED
      BY <1>1, <1>2 DEF IsInjective, ToSet
  <1>4. ToSet(r) = ToSet(q) \cup {c}
    BY <1>1, <1>2 DEF ToSet
  <1> QED
    BY <1>3, <1>4

\* The connection that is received is in the channel no more.
LEMMA TailOnce ==
    ASSUME NEW q \in Seq(Conns), q # <<>>, IsInjective(q)
    PROVE  /\ Head(q) \in Conns /\ Tail(q) \in Seq(Conns) /\ Len(Tail(q)) <= Len(q)
           /\ Head(q) \in ToSet(q)
           /\ IsInjective(Tail(q)) /\ ToSet(Tail(q)) = ToSet(q) \ {Head(q)}
  <1> DEFINE r == Tail(q)
  <1>1. /\ Len(q) \in Nat /\ Len(q) >= 1 /\ DOMAIN q = 1 .. Len(q)
        /\ r \in Seq(Conns) /\ Len(r) = Len(q) - 1 /\ DOMAIN r = 1 .. Len(q) - 1
        /\ \A i \in 1 .. Len(q) - 1 : r[i] = q[i + 1]
        /\ Head(q) = q[1] /\ Head(q) \in Conns
    OBVIOUS
  <1>2. IsInjective(r)
    <2> SUFFICES ASSUME NEW i \in DOMAIN r, NEW j \in DOMAIN r, r[i] = r[j] PROVE i = j
      BY DEF IsInjective
    <2>1. i + 1 \in DOMAIN q /\ j + 1 \in DOMAIN q /\ q[i + 1] = q[j + 1]
      BY <1>1
    <2>2. i + 1 = j + 1
      BY <2>1 DEF IsInjective
    <2> QED
      BY <1>1, <2>2
  <1>3. 1 \in DOMAIN q /\ Head(q) \in ToSet(q)
    BY <1>1 DEF ToSet
  <1>4. ToSet(r) \subseteq ToSet(q) \ {Head(q)}
    <2> SUFFICES ASSUME NEW i \in DOMAIN r PROVE r[i] \in ToSet(q) /\ r[i] # Head(q)
      BY DEF ToSet
    <2>1. i + 1 \in DOMAIN q /\ i + 1 # 1 /\ r[i] = q[i + 1]
      BY <1>1
    <2> QED
      BY <1>1, <1>3, <2>1 DEF IsInjective, ToSet
  <1>5. ToSet(q) \ {Head(q)} \subseteq ToSet(r)
    <2> SUFFICES ASSUME NEW i \in DOMAIN q, q[i] # Head(q) PROVE q[i] \in ToSet(r)
      BY DEF ToSet
    <2>1. i - 1 \in DOMAIN r /\ r[i - 1] = q[i]
      BY <1>1
    <2> QED
      BY <2>1 DEF ToSet
  <1> QED
    BY <1>1, <1>2, <1>3, <1>4, <1>5

\* A step that leaves every connection but c, and the channel, as they are.
LEMMA LocalStep ==
    ASSUME IInv, TypeOK', NEW c \in Conns, queue' = queue,
           \A d \in Conns \ {c} :
                /\ at'[d] = at[d] /\ go'[d] = go[d] /\ dl'[d] = dl[d] /\ n'[d] = n[d]
                /\ taken'[d] = taken[d] /\ replay'[d] = replay[d] /\ holes'[d] = holes[d],
           at'[c] = "queued" <=> at[c] = "queued", ConnInv(c)'
    PROVE  IInv'
  <1>1. QueueInv'
    BY DEF IInv, QueueInv
  <1>2. ASSUME NEW d \in Conns \ {c} PROVE ConnInv(d)'
    BY <1>2 DEF IInv, ConnInv, Handed
  <1> QED
    BY <1>1, <1>2 DEF IInv

-----------------------------------------------------------------------------
(* The steps of a connection.                                              *)

\* What a Read of the sniff loop starts from.
LEMMA SniffFacts ==
    ASSUME IInv, NEW c \in Conns, go[c] = "read"
    PROVE  /\ HeaderSize \in Nat /\ n[c] \in Nat /\ taken[c] \in Nat /\ holes[c] \in Nat
           /\ n[c] < HeaderSize /\ n[c] = taken[c] + holes[c]
           /\ at[c] = "held"
  BY ConstantsAssumption DEF IInv, TypeOK, ConnInv

LEMMA LoopAcceptInv ==
    ASSUME IInv, NEW c \in Conns, LoopAccept(c)
    PROVE  IInv'
  <1>1. TypeOK'
    BY DEF IInv, TypeOK, LoopAccept
  <1>2. /\ at'[c] = "held" /\ go'[c] = "read" /\ dl'[c] = "sniff" /\ at[c] = "new"
        /\ n'[c] = n[c] /\ taken'[c] = taken[c] /\ holes'[c] = holes[c]
    BY DEF IInv, TypeOK, LoopAccept
  <1>3. ConnInv(c)'
    BY <1>2, ConstantsAssumption DEF IInv, ConnInv, Handed
  <1> QED
    BY <1>1, <1>2, <1>3, LocalStep DEF IInv, TypeOK, LoopAccept

\* A Read of one byte or of none: the loop goes on or has a header.
LEMMA AdvanceInv ==
    ASSUME IInv, NEW c \in Conns, ReadByte(c) \/ ReadNothing(c)
    PROVE  IInv'
  <1>1. go[c] = "read"
    BY DEF ReadByte, ReadNothing, Reading
  <1>2. /\ HeaderSize \in Nat /\ n[c] \in Nat /\ taken[c] \in Nat /\ holes[c] \in Nat
        /\ n[c] < HeaderSize /\ n[c] = taken[c] + holes[c] /\ at[c] = "held"
    BY <1>1, SniffFacts
  <1>3. /\ n' = [n EXCEPT ![c] = @ + 1]
        /\ UNCHANGED <<loop, inner, closed, server, queue, at, replay>>
        /\ \/ taken' = [taken EXCEPT ![c] = @ + 1] /\ holes' = holes
           \/ taken' = taken /\ holes' = [holes EXCEPT ![c] = @ + 1]
        /\ \/ n[c] + 1 = HeaderSize /\ go' = [go EXCEPT ![c] = "check"]
                /\ dl' = [dl EXCEPT ![c] = "none"]
           \/ n[c] + 1 # HeaderSize /\ go' = go /\ dl' = dl
    BY DEF ReadByte, ReadNothing, Advance
  <1>4. n[c] + 1 \in 0 .. HeaderSize /\ taken[c] + 1 \in 0 .. HeaderSize
        /\ holes[c] + 1 \in 0 .. HeaderSize
    BY <1>2
  <1>5. TypeOK'
    <2>1. n' \in [Conns -> 0 .. HeaderSize]
      BY <1>3, <1>4 DEF IInv, TypeOK
    <2>2. taken' \in [Conns -> 0 .. HeaderSize]
      BY <1>3, <1>4 DEF IInv, TypeOK
    <2>3. holes' \in [Conns -> 0 .. HeaderSize]
      BY <1>3, <1>4 DEF IInv, TypeOK
    <2>4. /\ go' \in [Conns -> {"none", "read", "check", "offer", "tunnel",
                               "exit", "done"}]
          /\ dl' \in [Conns -> {"none", "sniff", "expired", "server"}]
      BY <1>3 DEF IInv, TypeOK
    <2> QED
      BY <1>3, <2>1, <2>2, <2>3, <2>4 DEF IInv, TypeOK
  <1>6. /\ n'[c] = n[c] + 1 /\ at'[c] = "held"
        /\ taken'[c] + holes'[c] = taken[c] + holes[c] + 1
        /\ \/ n[c] + 1 = HeaderSize /\ go'[c] = "check" /\ dl'[c] = "none"
           \/ n[c] + 1 # HeaderSize /\ go'[c] = "read"
    BY <1>1, <1>2, <1>3 DEF IInv, TypeOK
  <1>7. ConnInv(c)'
    BY <1>2, <1>6 DEF ConnInv, Handed
  <1>8. \A d \in Conns \ {c} :
           /\ at'[d] = at[d] /\ go'[d] = go[d] /\ dl'[d] = dl[d] /\ n'[d] = n[d]
           /\ taken'[d] = taken[d] /\ replay'[d] = replay[d] /\ holes'[d] = holes[d]
    BY <1>3 DEF IInv, TypeOK
  <1> QED
    BY <1>2, <1>3, <1>5, <1>6, <1>7, <1>8, LocalStep

\* The connection is offered with what was read.
LEMMA OfferInv ==
    ASSUME IInv, NEW c \in Conns, NEW k \in 0 .. HeaderSize, NEW t \in 0 .. HeaderSize,
           Offer(c, k), go[c] \in {"read", "check"}, k = t + holes[c],
           taken' = [taken EXCEPT ![c] = t],
           UNCHANGED <<loop, inner, closed, server, queue, at, n, holes>>
    PROVE  IInv'
  <1>1. at[c] = "held"
    BY DEF IInv, ConnInv
  <1>2. TypeOK'
    BY DEF IInv, TypeOK, Offer
  <1>3. /\ go'[c] = "offer" /\ dl'[c] = "none" /\ replay'[c] = k /\ taken'[c] = t
        /\ at'[c] = "held" /\ holes'[c] = holes[c]
    BY <1>1 DEF IInv, TypeOK, Offer
  <1>4. ConnInv(c)'
    BY <1>3 DEF ConnInv, Handed
  <1>5. \A d \in Conns \ {c} :
           /\ at'[d] = at[d] /\ go'[d] = go[d] /\ dl'[d] = dl[d] /\ n'[d] = n[d]
           /\ taken'[d] = taken[d] /\ replay'[d] = replay[d] /\ holes'[d] = holes[d]
    BY DEF IInv, TypeOK, Offer
  <1> QED
    BY <1>1, <1>2, <1>3, <1>4, <1>5, LocalStep

\* The three ways out of the sniff loop that offer the connection, and a header
\* that is not valid.
LEMMA OfferingInv ==
    ASSUME IInv, NEW c \in Conns,
           ReadNewline(c) \/ ReadError(c) \/ HeaderInvalid(c)
    PROVE  IInv'
  <1>1. CASE ReadNewline(c)
    <2>1. go[c] = "read" /\ Offer(c, n[c] + 1) /\ taken' = [taken EXCEPT ![c] = taken[c] + 1]
          /\ UNCHANGED <<loop, inner, closed, server, queue, at, n, holes>>
      BY <1>1 DEF ReadNewline, Reading
    <2>2. /\ n[c] + 1 \in 0 .. HeaderSize /\ taken[c] + 1 \in 0 .. HeaderSize
          /\ n[c] + 1 = (taken[c] + 1) + holes[c]
      BY <2>1, SniffFacts
    <2> QED
      BY <2>1, <2>2, OfferInv
  <1>2. CASE ReadError(c)
    <2>1. PICK nr \in {0, 1} : /\ taken' = [taken EXCEPT ![c] = taken[c] + nr]
                              /\ Offer(c, n[c] + nr)
      BY <1>2 DEF ReadError
    <2>2. go[c] = "read" /\ UNCHANGED <<loop, inner, closed, server, queue, at, n, holes>>
      BY <1>2 DEF ReadError
    <2>3. /\ n[c] + nr \in 0 .. HeaderSize /\ taken[c] + nr \in 0 .. HeaderSize
          /\ n[c] + nr = (taken[c] + nr) + holes[c]
      BY <2>2, SniffFacts
    <2> QED
      BY <2>1, <2>2, <2>3, OfferInv
  <1>3. CASE HeaderInvalid(c)
    <2>1. go[c] = "check" /\ Offer(c, HeaderSize)
          /\ UNCHANGED <<loop, inner, closed, server, queue, at, n, taken, holes>>
      BY <1>3 DEF HeaderInvalid
    <2>2. HeaderSize \in 0 .. HeaderSize /\ HeaderSize = taken[c] + holes[c]
      BY <2>1, ConstantsAssumption DEF IInv, ConnInv
    <2>3. taken[c] \in 0 .. HeaderSize /\ taken' = [taken EXCEPT ![c] = taken[c]]
      BY <2>1 DEF IInv, TypeOK
    <2> QED
      BY <2>1, <2>2, <2>3, OfferInv
  <1> QED
    BY <1>1, <1>2, <1>3

\* The steps that change only where the connection is and its deadline.
LEMMA SettledInv ==
    ASSUME IInv, NEW c \in Conns,
           \/ ReadEOF(c) \/ SniffTimeout(c) \/ HeaderValid(c) \/ GiveUp(c)
           \/ TunnelEnds(c) \/ Exit(c) \/ ServerDeadline(c)
    PROVE  IInv'
  <1>1. TypeOK'
    BY DEF IInv, TypeOK, ReadEOF, SniffTimeout, HeaderValid, GiveUp, TunnelEnds, Exit,
           ServerDeadline, Reading
  <1>2. queue' = queue /\ \A d \in Conns \ {c} :
           /\ at'[d] = at[d] /\ go'[d] = go[d] /\ dl'[d] = dl[d] /\ n'[d] = n[d]
           /\ taken'[d] = taken[d] /\ replay'[d] = replay[d] /\ holes'[d] = holes[d]
    BY DEF IInv, TypeOK, ReadEOF, SniffTimeout, HeaderValid, GiveUp, TunnelEnds, Exit,
           ServerDeadline
  <1>3. n'[c] = n[c] /\ taken'[c] = taken[c] /\ replay'[c] = replay[c] /\ holes'[c] = holes[c]
    BY DEF ReadEOF, SniffTimeout, HeaderValid, GiveUp, TunnelEnds, Exit, ServerDeadline
  <1>4. ConnInv(c)
    BY DEF IInv
  <1>5. CASE ReadEOF(c) \/ GiveUp(c) \/ TunnelEnds(c)
    <2>1. go[c] \in {"read", "offer", "tunnel"} /\ at'[c] = "closed" /\ go'[c] = "exit"
      BY <1>5 DEF IInv, TypeOK, ReadEOF, GiveUp, TunnelEnds, Reading
    <2>2. at[c] # "queued" /\ ConnInv(c)'
      BY <1>4, <2>1 DEF ConnInv, Handed
    <2> QED
      BY <1>1, <1>2, <2>1, <2>2, LocalStep
  <1>6. CASE SniffTimeout(c)
    <2>1. go[c] = "read" /\ at'[c] = at[c] /\ go'[c] = go[c]
      BY <1>6 DEF SniffTimeout
    <2>2. ConnInv(c)'
      BY <1>3, <1>4, <2>1 DEF ConnInv, Handed
    <2> QED
      BY <1>1, <1>2, <2>1, <2>2, LocalStep
  <1>7. CASE HeaderValid(c)
    <2>1. go[c] = "check" /\ at'[c] = at[c] /\ go'[c] = "tunnel" /\ dl'[c] = dl[c]
      BY <1>7 DEF IInv, TypeOK, HeaderValid
    <2>2. ConnInv(c)'
      BY <1>3, <1>4, <2>1 DEF ConnInv, Handed
    <2> QED
      BY <1>1, <1>2, <2>1, <2>2, LocalStep
  <1>8. CASE Exit(c)
    <2>1. go[c] = "exit" /\ at'[c] = at[c] /\ go'[c] = "done" /\ dl'[c] = "none"
      BY <1>8 DEF IInv, TypeOK, Exit
    <2>2. ConnInv(c)'
      BY <1>3, <1>4, <2>1 DEF ConnInv, Handed
    <2> QED
      BY <1>1, <1>2, <2>1, <2>2, LocalStep
  <1>9. CASE ServerDeadline(c)
    <2>1. at[c] = "served" /\ at'[c] = at[c] /\ go'[c] = go[c] /\ dl'[c] = "server"
      BY <1>9 DEF IInv, TypeOK, ServerDeadline
    <2>2. ConnInv(c)'
      BY <1>3, <1>4, <2>1 DEF ConnInv, Handed
    <2> QED
      BY <1>1, <1>2, <2>1, <2>2, LocalStep
  <1> QED
    BY <1>5, <1>6, <1>7, <1>8, <1>9

-----------------------------------------------------------------------------
(* The steps of the channel and of the others.                             *)

LEMMA SendInv ==
    ASSUME IInv, NEW c \in Conns, Send(c)
    PROVE  IInv'
  <1>1. /\ go[c] = "offer" /\ Len(queue) < QueueCap /\ queue' = Append(queue, c)
        /\ at' = [at EXCEPT ![c] = "queued"] /\ go' = [go EXCEPT ![c] = "exit"]
        /\ UNCHANGED <<loop, inner, closed, server, dl, n, taken, replay, holes>>
    BY DEF Send
  <1>2. queue \in Seq(Conns) /\ Len(queue) \in Nat /\ QueueCap \in Nat
    BY ConstantsAssumption DEF IInv, TypeOK
  <1>3. at[c] = "held" /\ c \notin ToSet(queue) /\ IsInjective(queue)
    BY <1>1 DEF IInv, ConnInv, QueueInv
  <1>4. queue' \in Seq(Conns) /\ Len(queue') <= QueueCap
    BY <1>1, <1>2
  <1>5. TypeOK'
    BY <1>1, <1>4 DEF IInv, TypeOK
  <1>6. IsInjective(queue') /\ ToSet(queue') = ToSet(queue) \cup {c}
    BY <1>1, <1>2, <1>3, AppendOnce
  <1>7. \A d \in Conns : at'[d] = IF d = c THEN "queued" ELSE at[d]
    BY <1>1 DEF IInv, TypeOK
  <1>8. \A d \in Conns : go'[d] = IF d = c THEN "exit" ELSE go[d]
    BY <1>1 DEF IInv, TypeOK
  <1>9. QueueInv'
    BY <1>6, <1>7 DEF IInv, QueueInv
  <1>10. ASSUME NEW d \in Conns PROVE ConnInv(d)'
    BY <1>1, <1>7, <1>8 DEF IInv, ConnInv, Handed
  <1> QED
    BY <1>5, <1>9, <1>10 DEF IInv

LEMMA AcceptConnInv ==
    ASSUME IInv, AcceptConn
    PROVE  IInv'
  <1> DEFINE c == Head(queue)
  <1>1. /\ queue # <<>> /\ at' = [at EXCEPT ![c] = "served"] /\ queue' = Tail(queue)
        /\ UNCHANGED <<loop, inner, closed, server, go, dl, n, taken, replay, holes>>
    BY DEF AcceptConn
  <1>2. queue \in Seq(Conns) /\ IsInjective(queue) /\ Len(queue) <= QueueCap
    BY DEF IInv, TypeOK, QueueInv
  <1>3. /\ c \in Conns /\ queue' \in Seq(Conns) /\ Len(queue') <= Len(queue)
        /\ c \in ToSet(queue)
        /\ IsInjective(queue') /\ ToSet(queue') = ToSet(queue) \ {c}
    BY <1>1, <1>2, TailOnce
  <1>4. Len(queue') <= QueueCap
    BY <1>2, <1>3, ConstantsAssumption
  <1>5. TypeOK'
    BY <1>1, <1>3, <1>4 DEF IInv, TypeOK
  <1>6. at[c] = "queued"
    BY <1>3 DEF IInv, QueueInv
  <1>7. \A d \in Conns : at'[d] = IF d = c THEN "served" ELSE at[d]
    BY <1>1 DEF IInv, TypeOK
  <1>8. QueueInv'
    BY <1>3, <1>7 DEF IInv, QueueInv
  <1>9. ASSUME NEW d \in Conns PROVE ConnInv(d)'
    BY <1>1, <1>6, <1>7 DEF IInv, ConnInv, Handed
  <1> QED
    BY <1>5, <1>8, <1>9 DEF IInv

LEMMA OutsideInv ==
    ASSUME IInv, \/ LoopError \/ LoopWake \/ Close \/ AcceptClosed \/ InnerCloses
                 \/ UNCHANGED vars
    PROVE  IInv'
  <1>1. UNCHANGED <<queue, at, go, dl, n, taken, replay, holes>>
    BY DEF LoopError, LoopWake, Close, AcceptClosed, InnerCloses, vars, conn
  <1>2. /\ loop' \in {"accept", "sleep", "done"} /\ inner' \in {"open", "closed"}
        /\ server' \in {"serving", "stopped"}
    BY DEF IInv, TypeOK, LoopError, LoopWake, Close, AcceptClosed, InnerCloses, vars
  <1>3. closed' \in BOOLEAN
    <2>1. closed' = closed \/ closed' = TRUE
      BY DEF LoopError, LoopWake, Close, AcceptClosed, InnerCloses, vars
    <2> QED
      BY <2>1 DEF IInv, TypeOK
  <1>4. TypeOK'
    BY <1>1, <1>2, <1>3 DEF IInv, TypeOK
  <1>5. QueueInv'
    BY <1>1 DEF IInv, QueueInv
  <1>6. ASSUME NEW d \in Conns PROVE ConnInv(d)'
    BY <1>1 DEF IInv, ConnInv, Handed
  <1> QED
    BY <1>4, <1>5, <1>6 DEF IInv

-----------------------------------------------------------------------------
(* The theorems.                                                           *)

LEMMA InitInv == Init => IInv
  <1> SUFFICES ASSUME Init PROVE IInv
    OBVIOUS
  <1>1. /\ queue = <<>> /\ queue \in Seq(Conns) /\ Len(queue) = 0 /\ ToSet(queue) = {}
        /\ IsInjective(queue)
    BY DEF Init, ToSet, IsInjective
  <1>2. TypeOK
    <2>1. /\ n \in [Conns -> 0 .. HeaderSize] /\ taken \in [Conns -> 0 .. HeaderSize]
          /\ replay \in [Conns -> 0 .. HeaderSize] /\ holes \in [Conns -> 0 .. HeaderSize]
      BY ConstantsAssumption DEF Init
    <2>2. closed \in BOOLEAN
      BY DEF Init
    <2>3. Len(queue) <= QueueCap
      BY <1>1, ConstantsAssumption
    <2> QED
      BY <1>1, <2>1, <2>2, <2>3 DEF Init, TypeOK
  <1>3. QueueInv
    BY <1>1 DEF Init, QueueInv
  <1>4. ASSUME NEW c \in Conns PROVE ConnInv(c)
    BY ConstantsAssumption DEF Init, ConnInv, Handed
  <1> QED
    BY <1>2, <1>3, <1>4 DEF IInv

LEMMA Invariance == Spec => []IInv
  <1>1. IInv /\ [Next]_vars => IInv'
    BY LoopAcceptInv, AdvanceInv, OfferingInv, SettledInv, SendInv, AcceptConnInv,
       OutsideInv DEF Next
  <1> QED
    BY <1>1, InitInv, PTL DEF Spec

\* The listener's state keeps its types: in particular the sniff loop's index
\* stays within the header's buffer and the channel within its capacity.
THEOREM TypeCorrect == Spec => []TypeOK
  <1>1. IInv => TypeOK
    BY DEF IInv
  <1> QED
    BY <1>1, Invariance, PTL

\* The HTTP server is handed each connection at most once, by a goroutine that
\* is then through with it.
THEOREM OneOwner == Spec => []HandedOverOnce
  <1>1. IInv => HandedOverOnce
    <2> SUFFICES ASSUME IInv PROVE HandedOverOnce
      OBVIOUS
    <2>1. ASSUME NEW c \in Conns, Handed(c) PROVE go[c] \in {"exit", "done"}
      <3>1. go[c] \in {"none", "read", "check", "offer", "tunnel", "exit", "done"}
        BY DEF IInv, TypeOK
      <3> QED
        BY <2>1, <3>1 DEF IInv, ConnInv, Handed
    <2> QED
      BY <2>1 DEF IInv, QueueInv, HandedOverOnce
  <1> QED
    BY <1>1, Invariance, PTL

\* Neither the server nor a tunnel is given a connection with the sniff deadline.
THEOREM DeadlineCleared == Spec => []SniffDeadlineCleared
  <1>1. IInv => SniffDeadlineCleared
    BY DEF IInv, ConnInv, SniffDeadlineCleared
  <1> QED
    BY <1>1, Invariance, PTL

\* What the server reads first is what was read from the client, for any size of
\* header and whichever Read ended the sniff.
THEOREM RewoundAsRead == Spec => []ReplayIsFaithful
  <1>1. IInv => ReplayIsFaithful
    BY DEF IInv, ConnInv, ReplayIsFaithful
  <1> QED
    BY <1>1, Invariance, PTL

-----------------------------------------------------------------------------
(* Nothing is forgotten.                                                   *)

\* A connection that is neither handed over nor closed is in the hands of a
\* goroutine that has not returned.
NoneIsForgotten ==
    \A c \in Conns : at[c] = "held" => go[c] \in {"read", "check", "offer", "tunnel"}

\* Nobody waits without an end in sight: a sniffing goroutine is under its deadline,
\* and who has stopped accepting did so because the listener is closed, which is
\* what the goroutines with an offer see as well.
WaitsEnd ==
    /\ \A c \in Conns : go[c] = "read" => dl[c] \in {"sniff", "expired"}
    /\ server = "stopped" \/ loop = "done" => closed

LEMMA LoopAcceptKeeps ==
    ASSUME IInv, NoneIsForgotten, WaitsEnd, NEW c \in Conns, LoopAccept(c)
    PROVE  NoneIsForgotten' /\ WaitsEnd'
  <1>1. \A d \in Conns : /\ at'[d] = IF d = c THEN "held" ELSE at[d]
                         /\ go'[d] = IF d = c THEN "read" ELSE go[d]
                         /\ dl'[d] = IF d = c THEN "sniff" ELSE dl[d]
    BY DEF IInv, TypeOK, LoopAccept
  <1>2. UNCHANGED <<loop, server, closed>>
    BY DEF LoopAccept
  <1> QED
    BY <1>1, <1>2 DEF NoneIsForgotten, WaitsEnd

\* The goroutine of c goes on from g0 to g, in whose place it still has c.
LEMMA SniffKeeps ==
    ASSUME IInv, NoneIsForgotten, WaitsEnd, NEW c \in Conns,
           \/ ReadByte(c) \/ ReadNothing(c) \/ ReadNewline(c) \/ ReadError(c)
           \/ SniffTimeout(c) \/ HeaderValid(c) \/ HeaderInvalid(c)
    PROVE  NoneIsForgotten' /\ WaitsEnd'
  <1>1. UNCHANGED <<loop, server, closed, at>>
    BY DEF ReadByte, ReadNothing, ReadNewline, ReadError, SniffTimeout, HeaderValid,
           HeaderInvalid, Advance, Offer
  <1>2. \/ go' = go /\ dl' \in {dl, [dl EXCEPT ![c] = "expired"]}
        \/ /\ \E g \in {"check", "offer", "tunnel"} : go' = [go EXCEPT ![c] = g]
           /\ dl' \in {dl, [dl EXCEPT ![c] = "none"]}
    BY DEF ReadByte, ReadNothing, ReadNewline, ReadError, SniffTimeout, HeaderValid,
           HeaderInvalid, Advance, Offer
  <1>3. go \in [Conns -> {"none", "read", "check", "offer", "tunnel", "exit", "done"}]
        /\ dl \in [Conns -> {"none", "sniff", "expired", "server"}]
    BY DEF IInv, TypeOK
  <1>4. ASSUME NEW d \in Conns
        PROVE  /\ go'[d] = go[d] \/ go'[d] \in {"check", "offer", "tunnel"}
               /\ go'[d] = "read" => dl'[d] \in {dl[d], "expired"}
    BY <1>2, <1>3
  <1> QED
    BY <1>1, <1>4 DEF NoneIsForgotten, WaitsEnd

\* The goroutine of c has handed c over or closed it before it returns.
LEMMA LeaveKeeps ==
    ASSUME IInv, NoneIsForgotten, WaitsEnd, NEW c \in Conns,
           ReadEOF(c) \/ Send(c) \/ GiveUp(c) \/ TunnelEnds(c)
    PROVE  NoneIsForgotten' /\ WaitsEnd'
  <1>1. UNCHANGED <<loop, server, closed, dl>>
    BY DEF ReadEOF, Send, GiveUp, TunnelEnds
  <1>2. \A d \in Conns : IF d = c THEN at'[d] \in {"queued", "closed"} /\ go'[d] = "exit"
                                  ELSE at'[d] = at[d] /\ go'[d] = go[d]
    BY DEF IInv, TypeOK, ReadEOF, Send, GiveUp, TunnelEnds
  <1> QED
    BY <1>1, <1>2 DEF NoneIsForgotten, WaitsEnd

LEMMA ExitKeeps ==
    ASSUME IInv, NoneIsForgotten, WaitsEnd, NEW c \in Conns, Exit(c) \/ ServerDeadline(c)
    PROVE  NoneIsForgotten' /\ WaitsEnd'
  <1>1. UNCHANGED <<loop, server, closed, at>>
    BY DEF Exit, ServerDeadline
  <1>2. /\ at[c] # "held" /\ go'[c] # "read"
        /\ \A d \in Conns \ {c} : go'[d] = go[d] /\ dl'[d] = dl[d]
    BY DEF IInv, TypeOK, ConnInv, NoneIsForgotten, Exit, ServerDeadline
  <1> QED
    BY <1>1, <1>2 DEF NoneIsForgotten, WaitsEnd

LEMMA OutsideKeeps ==
    ASSUME IInv, NoneIsForgotten, WaitsEnd,
           \/ LoopError \/ LoopWake \/ Close \/ AcceptConn \/ AcceptClosed
           \/ InnerCloses \/ UNCHANGED vars
    PROVE  NoneIsForgotten' /\ WaitsEnd'
  <1>1. UNCHANGED <<go, dl>>
    BY DEF LoopError, LoopWake, Close, AcceptConn, AcceptClosed, InnerCloses, vars, conn
  <1>2. \A c \in Conns : at'[c] = at[c] \/ at'[c] = "served"
    BY DEF IInv, TypeOK, LoopError, LoopWake, Close, AcceptConn, AcceptClosed,
           InnerCloses, vars, conn
  <1>3. server' = "stopped" \/ loop' = "done" => closed'
    BY DEF WaitsEnd, LoopError, LoopWake, Close, AcceptConn, AcceptClosed, InnerCloses, vars
  <1> QED
    BY <1>1, <1>2, <1>3 DEF NoneIsForgotten, WaitsEnd

LEMMA KeptInvariance == Spec => [](NoneIsForgotten /\ WaitsEnd)
  <1>1. Init => NoneIsForgotten /\ WaitsEnd
    BY DEF Init, NoneIsForgotten, WaitsEnd
  <1>2. IInv /\ NoneIsForgotten /\ WaitsEnd /\ [Next]_vars
            => (NoneIsForgotten /\ WaitsEnd)'
    BY LoopAcceptKeeps, SniffKeeps, LeaveKeeps, ExitKeeps, OutsideKeeps DEF Next
  <1> QED
    BY <1>1, <1>2, Invariance, PTL DEF Spec

\* No connection is leaked: every way out of the goroutine, a newline, an error,
\* the client's end, a header that is not valid, a closed listener, the end of the
\* tunnel, has handed the connection over or closed it.
THEOREM NoConnectionIsLeaked == Spec => []NoneIsForgotten
  BY KeptInvariance, PTL

\* No goroutine reads a silent client without a deadline, and none with an offer
\* is left facing a server that has stopped accepting without Close.
THEOREM NoEndlessWait == Spec => []WaitsEnd
  BY KeptInvariance, PTL
==============================================================================
