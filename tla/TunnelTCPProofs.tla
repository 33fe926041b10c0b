-------------------------- MODULE TunnelTCPProofs --------------------------
(***************************************************************************)
(* Proofs about TunnelTCP: the hand-over on errCh, the traffic counts and  *)
(* that nothing is lost, for any amount of data in either direction.       *)
(***************************************************************************)
EXTENDS TunnelTCP, TLAPS

\* The hand-over: main takes the reader's result at most once, and drains or
\* returns only after it.
HandOver ==
    reader.pc = "done" <=> main.round = "later" \/ main.pc \in {"drain", "done"}

\* What each goroutine has counted so far.
Counts ==
    /\ reader.num = remote.got
    /\ main.nw + main.n = client.got
    /\ main.pc \notin {"read", "write"} => main.n = 0
    /\ reader.pc = "done" => main.nr = reader.num

TunnelInv == TypeOK /\ HandOver /\ Counts

LEMMA PeerStepType ==
  ASSUME NEW p \in Peer, NEW q, NEW max \in Nat, PeerStep(p, q, max)
  PROVE  q \in Peer /\ q.got = p.got
<1>1. CASE q = [p EXCEPT !.sent = p.sent + 1, !.unread = p.unread + 1]
  <2>1. q = [state |-> p.state, sent |-> p.sent + 1, unread |-> p.unread + 1,
             got |-> p.got, out |-> p.out]
    BY <1>1 DEF Peer
  <2> QED BY <2>1 DEF Peer
<1>2. CASE q = [p EXCEPT !.state = "fin"]
  BY <1>2 DEF Peer
<1>3. CASE q = [p EXCEPT !.state = "reset", !.unread = 0]
  BY <1>3 DEF Peer
<1> QED BY <1>1, <1>2, <1>3 DEF PeerStep

\* What the copy loops do to a peer.
LEMMA CopyType ==
  ASSUME NEW p \in Peer
  PROVE  /\ p.unread > 0 => Taken(p) \in Peer /\ Taken(p).got = p.got
         /\ Given(p) \in Peer /\ Given(p).got = p.got + 1
         /\ Closed(p) \in Peer /\ Closed(p).got = p.got
         /\ p.got \in Nat
  BY DEF Taken, Given, Closed, Peer

LEMMA ReadResultType ==
  ASSUME NEW p \in Peer, NEW d
  PROVE  /\ ReadResult(p, d) \in Failure \cup {"data", "blocked"}
         /\ ReadResult(p, d) = "data" => p.unread > 0
  BY DEF ReadResult, Failure, Peer

\* copyBuffer's return moves what it has counted into nw.
LEMMA CopyReturnsType ==
  ASSUME TunnelInv, NEW err \in Failure, CopyReturns(err), main.pc \in {"read", "write"},
         UNCHANGED <<env, dl, reader>>,
         client' \in Peer, remote' \in Peer,
         client'.got = client.got, remote'.got = remote.got
  PROVE  TunnelInv'
<1> USE DEF TunnelInv
<1>1. /\ main' = [main EXCEPT !.pc = AfterCopy(err), !.nw = main.nw + main.n, !.n = 0]
      /\ cut' \subseteq Cut
  BY DEF CopyReturns, TypeOK, Cut
<1>2. /\ AfterCopy(err) \in {"eof", "select", "abort", "drain", "done"}
      /\ main.round = "later" <=> AfterCopy(err) \in {"drain", "done"}
  BY DEF AfterCopy, Failure, TypeOK
<1>3. TypeOK'
  <2>1. main' = [pc |-> AfterCopy(err), round |-> main.round, n |-> 0,
                 nw |-> main.nw + main.n, nr |-> main.nr]
    BY <1>1 DEF TypeOK
  <2>2. main' \in [pc : {"eof", "select", "abort", "drain", "done"},
                   round : {"first", "later"}, n : Nat, nw : Nat, nr : Nat]
    BY <1>2, <2>1 DEF TypeOK
  <2> QED BY <1>1, <2>2 DEF TypeOK
<1>4. main'.round = main.round /\ main'.pc = AfterCopy(err)
  BY <1>1 DEF TypeOK
<1>5. HandOver'
  BY <1>2, <1>4 DEF HandOver
<1>6. main'.nw = main.nw + main.n /\ main'.n = 0 /\ main'.nr = main.nr
  BY <1>1 DEF TypeOK
<1>7. Counts'
  BY <1>4, <1>6 DEF Counts, TypeOK, Peer
<1> QED BY <1>3, <1>5, <1>7

LEMMA TunnelInit == Init => TunnelInv
<1> SUFFICES ASSUME Init PROVE TunnelInv
  OBVIOUS
<1>1. NewPeer \in Peer /\ NewPeer.got = 0
  BY DEF NewPeer, Peer
<1>2. TypeOK
  BY <1>1 DEF Init, TypeOK, Deadline, Failure, Cut
<1> QED BY <1>1, <1>2 DEF Init, TunnelInv, HandOver, Counts

LEMMA TunnelNext == TunnelInv /\ [Next]_vars => TunnelInv'
<1> SUFFICES ASSUME TunnelInv, [Next]_vars PROVE TunnelInv'
  OBVIOUS
<1> USE DEF TunnelInv
<1>0. client \in Peer /\ remote \in Peer
  BY DEF TypeOK
<1>1. CASE ReaderRead
  <2> DEFINE res == ReadResult(client, dl.cRead)
  <2>1. client' \in Peer /\ client'.got = client.got
    BY <1>0, <1>1, CopyType, ReadResultType DEF ReaderRead
  <2>2. /\ reader' \in [pc : {"write", "exit"}, num : {reader.num}, err : Failure]
        /\ reader.pc = "read"
    <3>1. /\ reader = [pc |-> "read", num |-> reader.num, err |-> reader.err]
          /\ reader.err \in Failure
      BY <1>1 DEF ReaderRead, TypeOK
    <3>2. CASE res = "data"
      <4>1. reader' = [reader EXCEPT !.pc = "write"]
        BY <1>1, <3>2 DEF ReaderRead
      <4>2. reader' = [pc |-> "write", num |-> reader.num, err |-> reader.err]
        BY <3>1, <4>1
      <4> QED BY <1>1, <3>1, <4>2 DEF ReaderRead
    <3>3. CASE res # "data"
      <4>1. res \in Failure /\ reader' = [reader EXCEPT !.pc = "exit", !.err = res]
        BY <1>0, <1>1, <3>3, ReadResultType DEF ReaderRead
      <4>2. reader' = [pc |-> "exit", num |-> reader.num, err |-> res]
        BY <3>1, <4>1
      <4> QED BY <1>1, <4>1, <4>2 DEF ReaderRead
    <3> QED BY <3>2, <3>3
  <2> QED BY <1>1, <2>1, <2>2 DEF ReaderRead, TypeOK, HandOver, Counts
<1>2. CASE ReaderWrite
  <2>1. PICK res \in RemoteWriteResults :
          IF res = "data"
          THEN /\ remote' = Given(remote)
               /\ reader' = [reader EXCEPT !.pc = "read", !.num = reader.num + 1]
          ELSE /\ reader' = [reader EXCEPT !.pc = "exit", !.err = res]
               /\ UNCHANGED remote
    BY <1>2 DEF ReaderWrite
  <2>2. res \in Failure \cup {"data"}
    BY DEF RemoteWriteResults, Failure
  <2>3. CASE res = "data"
    <3>1. remote' \in Peer /\ remote'.got = remote.got + 1
      BY <1>0, <2>1, <2>3, CopyType
    <3>2. /\ reader' = [pc |-> "read", num |-> reader.num + 1, err |-> reader.err]
          /\ reader.pc = "write" /\ reader.num \in Nat
      BY <1>2, <2>1, <2>3 DEF ReaderWrite, TypeOK
    <3> QED BY <1>2, <2>1, <2>3, <3>1, <3>2 DEF ReaderWrite, TypeOK, HandOver, Counts
  <2>4. CASE res # "data"
    BY <1>2, <2>1, <2>2, <2>4 DEF ReaderWrite, TypeOK, HandOver, Counts
  <2> QED BY <2>3, <2>4
<1>3. CASE ReaderExit
  BY <1>3 DEF ReaderExit, Closed, TypeOK, Peer, Deadline, Failure, HandOver, Counts
<1>4. CASE MainRead
  <2> DEFINE res == ReadResult(remote, dl.rcRead)
  <2>1. CASE res = "data"
    <3>1. remote' \in Peer /\ remote'.got = remote.got
      BY <1>0, <1>4, <2>1, CopyType, ReadResultType DEF MainRead
    <3> QED BY <1>4, <2>1, <3>1 DEF MainRead, TypeOK, HandOver, Counts
  <2>2. CASE res # "data"
    <3>1. res \in Failure
      BY <1>0, <1>4, <2>2, ReadResultType DEF MainRead
    <3> QED BY <1>0, <1>4, <2>2, <3>1, CopyReturnsType DEF MainRead
  <2> QED BY <2>1, <2>2
<1>5. CASE MainWrite
  <2>1. PICK res \in ClientWriteResults :
          IF res = "data"
          THEN /\ client' = Given(client)
               /\ main' = [main EXCEPT !.pc = "read", !.n = main.n + 1]
               /\ UNCHANGED cut
          ELSE CopyReturns(res) /\ UNCHANGED client
    BY <1>5 DEF MainWrite
  <2>2. res \in Failure \cup {"data"}
    BY DEF ClientWriteResults, Failure
  <2>3. CASE res = "data"
    <3>1. client' \in Peer /\ client'.got = client.got + 1 /\ client.got \in Nat
      BY <1>0, <2>1, <2>3, CopyType
    <3>2. /\ main.pc = "write" /\ main.n \in Nat /\ main.nw \in Nat
          /\ main' = [main EXCEPT !.pc = "read", !.n = main.n + 1]
      BY <1>5, <2>1, <2>3 DEF MainWrite, TypeOK
    <3>3. /\ main'.pc = "read" /\ main'.round = main.round
          /\ main'.n = main.n + 1 /\ main'.nw = main.nw /\ main'.nr = main.nr
      BY <3>2 DEF TypeOK
    <3>4. TypeOK'
      <4>1. main' = [pc |-> "read", round |-> main.round, n |-> main.n + 1,
                     nw |-> main.nw, nr |-> main.nr]
        BY <3>2 DEF TypeOK
      <4>2. main' \in [pc : {"read"}, round : {"first", "later"},
                       n : Nat, nw : Nat, nr : Nat]
        BY <3>2, <4>1 DEF TypeOK
      <4> QED BY <1>5, <2>1, <2>3, <3>1, <4>2 DEF MainWrite, TypeOK
    <3>5. HandOver'
      BY <1>5, <3>2, <3>3 DEF MainWrite, HandOver
    <3>6. Counts'
      BY <1>5, <3>1, <3>2, <3>3 DEF MainWrite, Counts
    <3> QED BY <3>4, <3>5, <3>6
  <2>4. CASE res # "data"
    BY <1>0, <1>5, <2>1, <2>2, <2>4, CopyReturnsType DEF MainWrite
  <2> QED BY <2>3, <2>4
<1>6. CASE RemoteEnded
  BY <1>6 DEF RemoteEnded, Closed, ClientDeadline, TypeOK, Peer, Deadline, HandOver, Counts
<1>7. CASE TakeResult
  BY <1>7 DEF TakeResult, Closed, TypeOK, Peer, HandOver, Counts
<1>8. CASE Drain
  BY <1>8 DEF Drain, TypeOK, Deadline, HandOver, Counts
<1>9. CASE GiveUp
  BY <1>9 DEF GiveUp, Closed, ClientDeadline, TypeOK, Peer, Deadline, Cut, HandOver, Counts
<1>10. CASE Abort
  BY <1>10 DEF Abort, Closed, ClientDeadline, TypeOK, Peer, Deadline, Cut, HandOver, Counts
<1>11. CASE AwaitResult
  BY <1>11 DEF AwaitResult, TypeOK, HandOver, Counts
<1>12. CASE ClientActs
  BY <1>12, PeerStepType, ConstantsAssumption DEF ClientActs, TypeOK, HandOver, Counts
<1>13. CASE RemoteActs
  BY <1>13, PeerStepType, ConstantsAssumption DEF RemoteActs, TypeOK, HandOver, Counts
<1>14. ASSUME NEW d \in DOMAIN dl, Expire(d)
       PROVE  TunnelInv'
  BY <1>14 DEF Expire, TypeOK, Deadline, Cut, HandOver, Counts
<1>15. CASE UNCHANGED vars
  BY <1>15 DEF vars, TypeOK, HandOver, Counts
<1> QED BY <1>1, <1>2, <1>3, <1>4, <1>5, <1>6, <1>7, <1>8, <1>9, <1>10, <1>11,
           <1>12, <1>13, <1>14, <1>15 DEF Next

\* The goroutines' program counters, counts and deadlines keep their types.
THEOREM TypeCorrect == Spec => []TypeOK
<1>1. TunnelInv => TypeOK
  BY DEF TunnelInv
<1> QED BY TunnelInit, TunnelNext, <1>1, PTL DEF Spec

\* HandleTCP's return, which frees the copy buffers, is never ahead of the
\* reader goroutine's hand-over, however the tunnel ends.
THEOREM NoUseAfterFree == Spec => []BuffersOutliveReader
<1>1. TunnelInv => BuffersOutliveReader
  BY DEF TunnelInv, HandOver, BuffersOutliveReader
<1> QED BY TunnelInit, TunnelNext, <1>1, PTL DEF Spec

\* HandleTCP returns what each direction delivered, for any amount of data and
\* any number of rounds of the drain loop.
THEOREM BilledAsDelivered == Spec => []TrafficIsDelivered
<1>1. TunnelInv => TrafficIsDelivered
  BY DEF TunnelInv, HandOver, Counts, TypeOK, Peer, TrafficIsDelivered
<1> QED BY TunnelInit, TunnelNext, <1>1, PTL DEF Spec

-----------------------------------------------------------------------------
(* Nothing is lost.                                                        *)

\* No failure and no deadline has cut the upload short.
UploadKept ==
    client.state # "reset" /\ remote.state # "reset" /\ cut \cap {"abort", "grace"} = {}

\* What the client sent is unread, in the reader's buffer or delivered, and the
\* reader stops only at the end of the client's stream.
Uploading ==
    /\ client.sent = client.unread + remote.got + (IF reader.pc = "write" THEN 1 ELSE 0)
    /\ dl.rcWrite = "none" /\ dl.cRead # "expired"
    /\ remote.out = "closed" => reader.pc \in {"send", "done"}
    /\ reader.pc \in {"exit", "send", "done"} =>
           client.state = "fin" /\ client.unread = 0

UploadInv == UploadKept => Uploading

\* No failure and no silence has cut the download short.
DownloadKept ==
    /\ client.state # "reset" /\ remote.state # "reset" /\ ~env.timed
    /\ cut \cap {"abort", "idle"} = {}

\* What the remote sent is unread, in main's buffer or delivered, and main stops
\* only at the end of the remote's stream: the reader has not failed, and an
\* interrupted Read leads to the drain loop.
Downloading ==
    /\ remote.sent = remote.unread + client.got + (IF main.pc = "write" THEN 1 ELSE 0)
    /\ remote.out = "closed" => reader.pc \in {"send", "done"}
    /\ reader.err # "error" /\ (reader.pc = "send" => reader.err = "nil")
    /\ main.pc # "abort"
    /\ main.pc \in {"eof", "wait", "done"} =>
           remote.state = "fin" /\ remote.unread = 0

DownloadInv == DownloadKept => Downloading

\* What a peer does adds to its unread data until it ends its stream.
LEMMA PeerStepKeeps ==
  ASSUME NEW p \in Peer, NEW q \in Peer, NEW max, PeerStep(p, q, max), q.state # "reset"
  PROVE  /\ p.state # "reset" /\ q.got = p.got /\ q.out = p.out
         /\ q.sent - q.unread = p.sent - p.unread
         /\ p.state = "fin" => q = p
<1>1. CASE q = [p EXCEPT !.sent = p.sent + 1, !.unread = p.unread + 1] /\ p.state = "open"
  BY <1>1 DEF Peer
<1>2. CASE q = [p EXCEPT !.state = "fin"] /\ p.state = "open"
  BY <1>2 DEF Peer
<1>3. CASE q = [p EXCEPT !.state = "reset", !.unread = 0]
  BY <1>3 DEF Peer
<1> QED BY <1>1, <1>2, <1>3 DEF PeerStep

\* What the copy loops keep of a peer.
LEMMA CopyKeeps ==
  ASSUME NEW p \in Peer
  PROVE  /\ Taken(p).state = p.state /\ Taken(p).sent = p.sent /\ Taken(p).out = p.out
         /\ Taken(p).unread = p.unread - 1 /\ Taken(p).got = p.got
         /\ Given(p).state = p.state /\ Given(p).sent = p.sent /\ Given(p).out = p.out
         /\ Given(p).unread = p.unread /\ Given(p).got = p.got + 1
         /\ Closed(p).state = p.state /\ Closed(p).sent = p.sent /\ Closed(p).out = "closed"
         /\ Closed(p).unread = p.unread /\ Closed(p).got = p.got
  BY DEF Taken, Given, Closed, Peer

\* A Read of a stream that is not reset ends by a deadline or at its end.
LEMMA ReadEnds ==
  ASSUME NEW p \in Peer, NEW d, p.state # "reset", ReadResult(p, d) \in Failure
  PROVE  \/ ReadResult(p, d) = "timeout" /\ d = "expired"
         \/ ReadResult(p, d) = "nil" /\ p.state = "fin" /\ p.unread = 0
  BY DEF ReadResult, Failure, Peer

\* What a round of main's copyBuffer can add to cut.
LEMMA CopyReturnsCuts ==
  ASSUME NEW err, CopyReturns(err)
  PROVE  /\ cut \subseteq cut' /\ cut' \subseteq cut \cup {"idle"}
         /\ main.round = "later" /\ main.n = 0 /\ err = "timeout" => "idle" \in cut'
  BY DEF CopyReturns

\* A cut or a reset is for good.
LEMMA CutStays ==
  ASSUME TunnelInv, [Next]_vars
  PROVE  cut \subseteq cut' /\ env' = env
<1>1. CASE MainRead \/ MainWrite
  BY <1>1 DEF MainRead, MainWrite, CopyReturns
<1> QED
  BY <1>1 DEF Next, vars, ReaderRead, ReaderWrite, ReaderExit, RemoteEnded, TakeResult,
     Drain, GiveUp, Abort, AwaitResult, ClientActs, RemoteActs, Expire

LEMMA ResetStays ==
  ASSUME TunnelInv, TunnelInv', [Next]_vars
  PROVE  /\ client.state = "reset" => client'.state = "reset"
         /\ remote.state = "reset" => remote'.state = "reset"
<1>0. client \in Peer /\ remote \in Peer /\ client' \in Peer /\ remote' \in Peer
  BY DEF TunnelInv, TypeOK
<1>1. CASE ClientActs
  BY <1>0, <1>1, PeerStepKeeps DEF ClientActs
<1>2. CASE RemoteActs
  BY <1>0, <1>2, PeerStepKeeps DEF RemoteActs
<1>3. CASE ~ClientActs /\ ~RemoteActs
  <2>1. /\ client' \in {client, Taken(client), Given(client), Closed(client)}
        /\ remote' \in {remote, Taken(remote), Given(remote), Closed(remote)}
    <3>1. CASE ReaderRead \/ ReaderWrite \/ ReaderExit
      BY <3>1 DEF ReaderRead, ReaderWrite, ReaderExit
    <3>2. CASE MainRead \/ MainWrite
      BY <3>2 DEF MainRead, MainWrite
    <3>3. CASE \/ RemoteEnded \/ TakeResult \/ Drain \/ GiveUp \/ Abort \/ AwaitResult
               \/ UNCHANGED vars \/ \E d \in DOMAIN dl : Expire(d)
      BY <3>3 DEF RemoteEnded, TakeResult, Drain, GiveUp, Abort, AwaitResult, Expire, vars
    <3> QED BY <1>3, <3>1, <3>2, <3>3 DEF Next
  <2> QED BY <1>0, <2>1, CopyKeeps
<1> QED BY <1>1, <1>2, <1>3

LEMMA UploadNext == TunnelInv /\ UploadInv /\ [Next]_vars => UploadInv'
<1> SUFFICES ASSUME TunnelInv, UploadInv, [Next]_vars, UploadKept'
             PROVE  Uploading'
  BY DEF UploadInv
<1>0. /\ client \in Peer /\ remote \in Peer /\ client' \in Peer /\ remote' \in Peer
      /\ TunnelInv'
  BY TunnelNext DEF TunnelInv, TypeOK
<1>a. UploadKept /\ Uploading
  BY <1>0, CutStays, ResetStays DEF UploadKept, UploadInv
<1>b. /\ client.sent \in Nat /\ client.unread \in Nat /\ remote.got \in Nat
      /\ DOMAIN dl = {"rcRead", "rcWrite", "cRead"}
      /\ DOMAIN reader = {"pc", "num", "err"}
      /\ reader.pc \in {"read", "write", "exit", "send", "done"}
  BY <1>0 DEF Peer, TunnelInv, TypeOK
<1>1. CASE ReaderRead
  <2> DEFINE res == ReadResult(client, dl.cRead)
  <2>1. CASE res = "data"
    BY <1>1, <1>0, <1>a, <1>b, <2>1, CopyKeeps DEF ReaderRead, Uploading
  <2>2. CASE res # "data"
    <3>1. client.state = "fin" /\ client.unread = 0
      BY <1>1, <1>0, <1>a, <2>2, ReadResultType, ReadEnds
      DEF ReaderRead, Uploading, UploadKept
    <3> QED BY <1>1, <1>a, <1>b, <2>2, <3>1 DEF ReaderRead, Uploading
  <2> QED BY <2>1, <2>2
<1>2. CASE ReaderWrite
  <2>1. RemoteWriteResults \subseteq {"data"}
    BY <1>2, <1>a DEF ReaderWrite, RemoteWriteResults, Uploading, UploadKept
  <2>2. remote' = Given(remote) /\ reader'.pc = "read" /\ UNCHANGED <<client, dl>>
    BY <1>2, <1>b, <2>1 DEF ReaderWrite
  <2> QED BY <1>2, <1>0, <1>a, <1>b, <2>2, CopyKeeps DEF ReaderWrite, Uploading
<1>3. CASE ReaderExit
  BY <1>3, <1>0, <1>a, <1>b, CopyKeeps DEF ReaderExit, Uploading
<1>4. CASE MainRead
  BY <1>4, <1>0, <1>a, <1>b, CopyKeeps DEF MainRead, Uploading
<1>5. CASE MainWrite
  BY <1>5, <1>0, <1>a, <1>b, CopyKeeps DEF MainWrite, Uploading
<1>6. CASE RemoteEnded
  BY <1>6, <1>0, <1>a, <1>b, CopyKeeps DEF RemoteEnded, ClientDeadline, Uploading
<1>7. CASE TakeResult
  BY <1>7, <1>0, <1>a, <1>b, CopyKeeps DEF TakeResult, Uploading
<1>8. CASE Drain
  BY <1>8, <1>a, <1>b DEF Drain, Uploading
<1>9. CASE GiveUp \/ Abort
  BY <1>9 DEF GiveUp, Abort, UploadKept
<1>10. CASE AwaitResult
  BY <1>10, <1>a, <1>b DEF AwaitResult, Uploading
<1>11. CASE ClientActs
  <2>1. UNCHANGED <<remote, dl, reader>>
    BY <1>11 DEF ClientActs
  <2>2. /\ client'.sent - client'.unread = client.sent - client.unread
        /\ client.state = "fin" => client' = client
    BY <1>11, <1>0, PeerStepKeeps DEF ClientActs, UploadKept
  <2>3. client'.sent \in Nat /\ client'.unread \in Nat
    BY <1>0 DEF Peer
  <2> QED BY <1>a, <1>b, <2>1, <2>2, <2>3 DEF Uploading
<1>12. CASE RemoteActs
  BY <1>12, <1>0, <1>a, PeerStepKeeps DEF RemoteActs, Uploading, UploadKept
<1>13. ASSUME NEW d \in DOMAIN dl, Expire(d)
       PROVE  Uploading'
  <2>1. d = "rcRead"
    BY <1>13, <1>b DEF Expire, UploadKept
  <2> QED BY <1>13, <1>a, <1>b, <2>1 DEF Expire, Uploading
<1>14. CASE UNCHANGED vars
  BY <1>14, <1>a DEF vars, Uploading
<1> QED BY <1>1, <1>2, <1>3, <1>4, <1>5, <1>6, <1>7, <1>8, <1>9, <1>10, <1>11,
           <1>12, <1>13, <1>14 DEF Next

LEMMA DownloadNext == TunnelInv /\ DownloadInv /\ [Next]_vars => DownloadInv'
<1> SUFFICES ASSUME TunnelInv, DownloadInv, [Next]_vars, DownloadKept'
             PROVE  Downloading'
  BY DEF DownloadInv
<1>0. /\ client \in Peer /\ remote \in Peer /\ client' \in Peer /\ remote' \in Peer
      /\ TunnelInv'
  BY TunnelNext DEF TunnelInv, TypeOK
<1>a. DownloadKept /\ Downloading
  BY <1>0, CutStays, ResetStays DEF DownloadKept, DownloadInv
<1>b. /\ remote.sent \in Nat /\ remote.unread \in Nat /\ client.got \in Nat
      /\ DOMAIN reader = {"pc", "num", "err"}
      /\ DOMAIN main = {"pc", "round", "n", "nw", "nr"}
      /\ main.n \in Nat /\ main.round \in {"first", "later"}
  BY <1>0 DEF Peer, TunnelInv, TypeOK
<1>1. CASE ReaderRead
  <2>1. ReadResult(client, dl.cRead) # "error"
    BY <1>0, <1>a DEF ReadResult, DownloadKept
  <2>2. reader.pc = "read" /\ UNCHANGED <<remote, main>> /\ client'.got = client.got
    BY <1>1, <1>0, CopyKeeps DEF ReaderRead
  <2>3. reader'.pc # "send" /\ reader'.err # "error"
    BY <1>1, <1>a, <1>b, <2>1 DEF ReaderRead, Downloading
  <2> QED BY <1>a, <2>2, <2>3 DEF Downloading
<1>2. CASE ReaderWrite
  <2>1. RemoteWriteResults \subseteq {"data", "timeout"}
    BY <1>2, <1>a DEF ReaderWrite, RemoteWriteResults, Downloading, DownloadKept
  <2>2. /\ remote' \in {remote, Given(remote)} /\ UNCHANGED <<client, main>>
        /\ reader'.err # "error" /\ reader'.pc # "send"
    BY <1>2, <1>a, <1>b, <2>1 DEF ReaderWrite, Downloading
  <2> QED BY <1>2, <1>0, <1>a, <1>b, <2>2, CopyKeeps DEF ReaderWrite, Downloading
<1>3. CASE ReaderExit
  BY <1>3, <1>0, <1>a, <1>b, CopyKeeps DEF ReaderExit, Downloading
<1>4. ASSUME NEW err, CopyReturns(err), UNCHANGED <<client, remote, reader>>,
             main.pc = "read",
             err = "timeout" \/ (err = "nil" /\ remote.state = "fin" /\ remote.unread = 0)
      PROVE  Downloading'
  <2>1. main'.pc = AfterCopy(err)
    BY <1>4, <1>b DEF CopyReturns
  <2>2. ~(main.round = "later" /\ main.n = 0 /\ err = "timeout")
    BY <1>4, CopyReturnsCuts DEF DownloadKept
  <2>3. /\ AfterCopy(err) \notin {"abort", "write", "wait"}
        /\ AfterCopy(err) \in {"eof", "done"} => remote.state = "fin" /\ remote.unread = 0
    BY <1>4, <1>b, <2>2 DEF AfterCopy
  <2> QED BY <1>4, <1>a, <2>1, <2>3 DEF Downloading
<1>5. CASE MainRead
  <2> DEFINE res == ReadResult(remote, dl.rcRead)
  <2>1. CASE res = "data"
    BY <1>5, <1>0, <1>a, <1>b, <2>1, CopyKeeps DEF MainRead, Downloading
  <2>2. CASE res # "data"
    <3>1. \/ res = "timeout"
          \/ res = "nil" /\ remote.state = "fin" /\ remote.unread = 0
      BY <1>5, <1>0, <1>a, <2>2, ReadResultType, ReadEnds DEF MainRead, DownloadKept
    <3> QED BY <1>4, <1>5, <2>2, <3>1 DEF MainRead
  <2> QED BY <2>1, <2>2
<1>6. CASE MainWrite
  <2>1. ClientWriteResults \subseteq {"data"}
    BY <1>a DEF ClientWriteResults, DownloadKept
  <2>2. client' = Given(client) /\ main'.pc = "read" /\ UNCHANGED <<remote, reader>>
    BY <1>6, <1>b, <2>1 DEF MainWrite
  <2> QED BY <1>6, <1>0, <1>a, <1>b, <2>2, CopyKeeps DEF MainWrite, Downloading
<1>7. CASE RemoteEnded
  BY <1>7, <1>0, <1>a, <1>b, CopyKeeps DEF RemoteEnded, Downloading
<1>8. CASE TakeResult
  BY <1>8, <1>0, <1>a, <1>b, CopyKeeps DEF TakeResult, Downloading
<1>9. CASE Drain
  BY <1>9, <1>a, <1>b DEF Drain, Downloading
<1>10. CASE GiveUp \/ Abort
  BY <1>10 DEF GiveUp, Abort, DownloadKept
<1>11. CASE AwaitResult
  BY <1>11, <1>a, <1>b DEF AwaitResult, Downloading
<1>12. CASE ClientActs
  BY <1>12, <1>0, <1>a, PeerStepKeeps DEF ClientActs, Downloading, DownloadKept
<1>13. CASE RemoteActs
  <2>1. UNCHANGED <<client, reader, main>>
    BY <1>13 DEF RemoteActs
  <2>2. /\ remote'.sent - remote'.unread = remote.sent - remote.unread
        /\ remote'.out = remote.out
        /\ remote.state = "fin" => remote' = remote
    BY <1>13, <1>0, PeerStepKeeps DEF RemoteActs, DownloadKept
  <2>3. remote'.sent \in Nat /\ remote'.unread \in Nat
    BY <1>0 DEF Peer
  <2> QED BY <1>a, <1>b, <2>1, <2>2, <2>3 DEF Downloading
<1>14. CASE UNCHANGED vars \/ \E d \in DOMAIN dl : Expire(d)
  BY <1>14, <1>a DEF Expire, vars, Downloading
<1> QED BY <1>1, <1>2, <1>3, <1>5, <1>6, <1>7, <1>8, <1>9, <1>10, <1>11,
           <1>12, <1>13, <1>14 DEF Next

\* Everything a client sends before it ends its stream reaches the remote, for
\* any amount of data: neither the remote's half-close nor the reader's own
\* deadlines truncate the upload.
THEOREM UploadIsComplete == Spec => []UploadComplete
<1>1. Init => UploadInv
  BY DEF Init, NewPeer, UploadInv, Uploading
<1>2. TunnelInv /\ UploadInv => UploadComplete
  <2> SUFFICES ASSUME TunnelInv, UploadInv, main.pc = "done", client.state = "fin",
                      remote.state # "reset", cut \cap {"abort", "grace"} = {}
               PROVE  remote.got = client.sent
    BY DEF UploadComplete
  <2>1. Uploading /\ reader.pc = "done"
    BY DEF UploadInv, UploadKept, TunnelInv, HandOver
  <2> QED BY <2>1 DEF Uploading, TunnelInv, TypeOK, Peer
<1> QED BY TunnelInit, TunnelNext, UploadNext, <1>1, <1>2, PTL DEF Spec

\* Everything a remote sends before it ends its stream reaches the client, for
\* any amount of data and rounds of the drain loop, also when the reader
\* interrupts main's Read because the client half-closed first.
THEOREM DownloadIsComplete == Spec => []DownloadComplete
<1>1. Init => DownloadInv
  BY DEF Init, NewPeer, DownloadInv, Downloading
<1>2. TunnelInv /\ DownloadInv => DownloadComplete
  <2> SUFFICES ASSUME TunnelInv, DownloadInv, main.pc = "done", remote.state = "fin",
                      client.state # "reset", ~env.timed,
                      cut \cap {"abort", "idle"} = {}
               PROVE  client.got = remote.sent
    BY DEF DownloadComplete
  <2>1. Downloading
    BY DEF DownloadInv, DownloadKept
  <2> QED BY <2>1 DEF Downloading, TunnelInv, TypeOK, Peer
<1> QED BY TunnelInit, TunnelNext, DownloadNext, <1>1, <1>2, PTL DEF Spec

-----------------------------------------------------------------------------
(* HandleTCP is a tunnel as Request takes it to be.                        *)

\* What HandleTCP returns, once it has.
Returned == IF main.pc = "done" THEN <<[up |-> main.nr, down |-> main.nw]>> ELSE <<>>

Abstract == INSTANCE Tunnel WITH up <- remote.got, down <- client.got, results <- Returned

\* Nothing is delivered.
NothingGiven == remote'.got = remote.got /\ client'.got = client.got

\* Only the two Writes deliver, one chunk and in one direction, and main, whose
\* Write it may be, does not return with it.
LEMMA GivenStep ==
  ASSUME TunnelInv, [Next]_vars
  PROVE  \/ NothingGiven
         \/ ReaderWrite /\ remote'.got = remote.got + 1 /\ client'.got = client.got
         \/ MainWrite /\ remote'.got = remote.got /\ client'.got = client.got + 1
                      /\ main.pc = "write" /\ main'.pc = "read"
<1> USE DEF NothingGiven
<1>0. client \in Peer /\ remote \in Peer /\ DOMAIN main = {"pc", "round", "n", "nw", "nr"}
  BY DEF TunnelInv, TypeOK
<1>1. CASE ReaderRead \/ ReaderExit \/ MainRead \/ RemoteEnded \/ TakeResult \/ GiveUp \/ Abort
  <2>1. /\ client' \in {client, Taken(client), Closed(client)}
        /\ remote' \in {remote, Taken(remote), Closed(remote)}
    BY <1>1 DEF ReaderRead, ReaderExit, MainRead, RemoteEnded, TakeResult, GiveUp, Abort
  <2> QED BY <1>0, <2>1, CopyKeeps
<1>2. CASE ReaderWrite
  BY <1>0, <1>2, CopyKeeps DEF ReaderWrite
<1>3. CASE MainWrite
  BY <1>0, <1>3, CopyKeeps DEF MainWrite
<1>4. CASE ClientActs \/ RemoteActs
  BY <1>0, <1>4, PeerStepType, ConstantsAssumption DEF ClientActs, RemoteActs
<1>5. CASE Drain \/ AwaitResult \/ (\E d \in DOMAIN dl : Expire(d)) \/ UNCHANGED vars
  BY <1>5 DEF Drain, AwaitResult, Expire, vars
<1> QED BY <1>1, <1>2, <1>3, <1>4, <1>5 DEF Next

\* When main has returned, nothing moves and the result stands.
LEMMA ReturnedStays ==
  ASSUME TunnelInv, [Next]_vars, main.pc = "done"
  PROVE  main' = main /\ NothingGiven
<1>1. reader.pc = "done"
  BY DEF TunnelInv, HandOver
<1>2. main' = main /\ ~ReaderWrite /\ ~MainWrite
  BY <1>1 DEF Next, vars, ReaderRead, ReaderWrite, ReaderExit, MainRead, MainWrite,
     RemoteEnded, TakeResult, Drain, GiveUp, Abort, AwaitResult, ClientActs, RemoteActs, Expire
<1> QED BY <1>2, GivenStep

\* HandleTCP implements Tunnel: it delivers one chunk at a time, returns once and
\* with what has been delivered each way by then, however it ends, and nothing is
\* delivered behind its return, when the bill has been made.
THEOREM IsATunnel == Spec => Abstract!Spec
<1>1. Init => Abstract!Init
  BY DEF Init, NewPeer, Abstract!Init, Returned
<1>2. TunnelInv /\ [Next]_vars => [Abstract!Next]_<<remote.got, client.got, Returned>>
  <2> SUFFICES ASSUME TunnelInv, [Next]_vars
               PROVE  Abstract!Next \/ UNCHANGED <<remote.got, client.got, Returned>>
    OBVIOUS
  <2>1. CASE main.pc = "done"
    <3>1. Returned' = Returned
      BY <2>1, ReturnedStays DEF Returned
    <3> QED BY <2>1, <3>1, ReturnedStays DEF NothingGiven
  <2>2. CASE main.pc # "done" /\ main'.pc # "done"
    <3>1. Returned = <<>> /\ Returned' = <<>>
      BY <2>2 DEF Returned
    <3> QED
      BY <3>1, GivenStep
      DEF NothingGiven, Abstract!Next, Abstract!MoveUp, Abstract!MoveDown, Abstract!Running
  <2>3. CASE main.pc # "done" /\ main'.pc = "done"
    <3>1. TunnelInv'
      BY TunnelNext
    <3>2. main'.nr = remote'.got /\ main'.nw = client'.got
      BY <2>3, <3>1 DEF TunnelInv, TypeOK, Peer, HandOver, Counts
    <3>3. NothingGiven
      <4>1. ~ReaderWrite
        BY <2>3 DEF ReaderWrite
      <4> QED BY <2>3, <4>1, GivenStep
    <3>4. Returned = <<>> /\ Returned' = <<[up |-> remote.got, down |-> client.got]>>
      BY <2>3, <3>2, <3>3 DEF Returned, NothingGiven
    <3> QED BY <3>3, <3>4 DEF NothingGiven, Abstract!Next, Abstract!End, Abstract!Running
  <2> QED BY <2>1, <2>2, <2>3
<1> QED BY <1>1, <1>2, TunnelInit, TunnelNext, PTL DEF Spec, Abstract!Spec

-----------------------------------------------------------------------------
(* No wake-up is lost.                                                     *)

\* Whoever waits for the other has set a deadline on the Read that the other may
\* be blocked in, and it has not been taken back: a reader that offers its result
\* has one on rc, and a main that waits for it one on the client's connection, if
\* that can have any.
PeerIsWoken ==
    /\ reader.pc \in {"send", "done"} => dl.rcRead # "none"
    /\ main.pc = "wait" /\ env.wakeable => dl.cRead # "none"

LEMMA WokenNext == TunnelInv /\ PeerIsWoken /\ [Next]_vars => PeerIsWoken'
<1> SUFFICES ASSUME TunnelInv, PeerIsWoken, [Next]_vars PROVE PeerIsWoken'
  OBVIOUS
<1>0. /\ DOMAIN dl = {"rcRead", "rcWrite", "cRead"}
      /\ DOMAIN reader = {"pc", "num", "err"}
      /\ DOMAIN main = {"pc", "round", "n", "nw", "nr"}
  BY DEF TunnelInv, TypeOK
<1>1. CASE ReaderRead \/ ReaderWrite
  BY <1>0, <1>1 DEF ReaderRead, ReaderWrite, PeerIsWoken
<1>2. CASE ReaderExit
  BY <1>0, <1>2 DEF ReaderExit, PeerIsWoken
<1>3. CASE MainRead \/ MainWrite
  <2>1. \A err \in Failure : CopyReturns(err) => main'.pc # "wait"
    BY <1>0 DEF CopyReturns, AfterCopy, Failure
  <2>2. ReadResult(remote, dl.rcRead) \in Failure \cup {"data", "blocked"}
    BY DEF ReadResult, Failure
  <2>3. ClientWriteResults \subseteq Failure \cup {"data"}
    BY DEF ClientWriteResults, Failure
  <2>4. main'.pc # "wait"
    BY <1>0, <1>3, <2>1, <2>2, <2>3 DEF MainRead, MainWrite
  <2> QED BY <1>3, <2>4 DEF MainRead, MainWrite, PeerIsWoken
<1>4. CASE RemoteEnded
  BY <1>0, <1>4 DEF RemoteEnded, ClientDeadline, PeerIsWoken
<1>5. CASE TakeResult \/ AwaitResult
  BY <1>0, <1>5 DEF TakeResult, AwaitResult, PeerIsWoken
<1>6. CASE Drain
  BY <1>0, <1>6 DEF Drain, PeerIsWoken
<1>7. CASE GiveUp \/ Abort
  BY <1>0, <1>7 DEF GiveUp, Abort, ClientDeadline, PeerIsWoken
<1>8. CASE ClientActs \/ RemoteActs \/ UNCHANGED vars
  BY <1>8 DEF ClientActs, RemoteActs, vars, PeerIsWoken
<1>9. ASSUME NEW d \in DOMAIN dl, Expire(d)
      PROVE  PeerIsWoken'
  BY <1>0, <1>9 DEF Expire, PeerIsWoken
<1> QED BY <1>1, <1>2, <1>3, <1>4, <1>5, <1>6, <1>7, <1>8, <1>9 DEF Next

\* Neither goroutine is ever left waiting for one that nothing will wake: the
\* deadlines that the reader and main set on each other's connection are not
\* overwritten by the drain loop's own, in any order of their steps.
THEOREM NoWakeUpIsLost == Spec => []PeerIsWoken
<1>1. Init => PeerIsWoken
  BY DEF Init, PeerIsWoken
<1> QED BY TunnelInit, TunnelNext, WokenNext, <1>1, PTL DEF Spec
=============================================================================
