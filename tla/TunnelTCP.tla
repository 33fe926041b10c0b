----------------------------- MODULE TunnelTCP -----------------------------
(***************************************************************************)
(* HandleTCP of pkgs/trojan/trojan_tcp.go: one TCP tunnel.                 *)
(*                                                                         *)
(* A reader goroutine copies from the client (r) to the remote (rc), the   *)
(* calling goroutine, here "main", copies from rc to the client (w; r and  *)
(* w are the two sides of one connection).  The reader hands its result    *)
(* over on the unbuffered channel errCh and main returns only after it.    *)
(* Each wakes the other, blocked in Read, by a read deadline on the        *)
(* other's connection.                                                     *)
(*                                                                         *)
(* Data is counted in chunks, one per Read.  A deadline is "none", "armed" *)
(* or "expired" and an armed one may expire at any time.  A Read on an     *)
(* expired deadline fails even when there is data; an end of stream comes  *)
(* after the data; a reset discards it.  Client and remote are modelled by *)
(* what HandleTCP can see of them.                                         *)
(***************************************************************************)
EXTENDS Integers

CONSTANTS
    MaxUp,          \* bound on the chunks the client sends
    MaxDown         \* bound on the chunks the remote sends

ASSUME ConstantsAssumption == MaxUp \in Nat /\ MaxDown \in Nat

VARIABLES
    env,            \* what w is and whether the peers read; fixed
    client,         \* the client's side of its connection
    remote,         \* the remote's side of rc
    dl,             \* deadlines: rc read, rc write and client read
    reader,         \* the reader goroutine
    main,           \* the calling goroutine
    cut             \* ghost: what was cut short, and why

vars == <<env, client, remote, dl, reader, main, cut>>

Deadline == {"none", "armed", "expired"}
Peer == [state : {"open", "fin", "reset"},  \* its sending side
         sent : Nat,                        \* chunks it has sent,
         unread : Nat,                      \* those not yet read from it,
         got : Nat,                         \* chunks it has been given,
         out : {"open", "closed"}]           \* our sending side to it
Failure == {"nil", "timeout", "error"}
Cut == {"abort", "grace", "idle"}

\* wakeable: w has SetReadDeadline (false for an HTTP/2 or 3 stream);
\* timed: a Write on w may fail with a deadline error.
Env == [wakeable : BOOLEAN, timed : BOOLEAN, clientReads : BOOLEAN,
        remoteReads : BOOLEAN]

TypeOK ==
    /\ env \in Env
    /\ client \in Peer /\ remote \in Peer
    /\ dl \in [rcRead : Deadline, rcWrite : Deadline, cRead : Deadline]
    /\ reader \in [pc : {"read", "write", "exit", "send", "done"},
                   num : Nat, err : Failure]
    /\ main \in [pc : {"read", "write", "eof", "select", "drain", "abort",
                       "wait", "done"},
                 round : {"first", "later"}, n : Nat, nw : Nat, nr : Nat]
    /\ cut \subseteq Cut

NewPeer == [state |-> "open", sent |-> 0, unread |-> 0, got |-> 0, out |-> "open"]

Init ==
    /\ env \in Env
    /\ client = NewPeer /\ remote = NewPeer
    /\ dl = [rcRead |-> "none", rcWrite |-> "none", cRead |-> "none"]
    /\ reader = [pc |-> "read", num |-> 0, err |-> "nil"]
    /\ main = [pc |-> "read", round |-> "first", n |-> 0, nw |-> 0, nr |-> 0]
    /\ cut = {}

-----------------------------------------------------------------------------
(* The peers and time, which are not code of this repository.              *)

Running == main.pc # "done"

\* A peer p becomes q: it sends a chunk, ends its stream, or resets its
\* connection, before or after the end of its stream.
PeerStep(p, q, max) ==
    \/ /\ p.state = "open" /\ p.sent < max
       /\ q = [p EXCEPT !.sent = p.sent + 1, !.unread = p.unread + 1]
    \/ p.state = "open" /\ q = [p EXCEPT !.state = "fin"]
    \/ p.state # "reset" /\ q = [p EXCEPT !.state = "reset", !.unread = 0]

ClientActs ==
    /\ Running
    /\ PeerStep(client, client', MaxUp)
    /\ UNCHANGED <<env, remote, dl, reader, main, cut>>

RemoteActs ==
    /\ Running
    /\ PeerStep(remote, remote', MaxDown)
    /\ UNCHANGED <<env, client, dl, reader, main, cut>>

\* Time runs out on a deadline.  Only wakeGrace bounds what is not idle.
Expire(d) ==
    /\ Running /\ dl[d] = "armed"
    /\ dl' = [dl EXCEPT ![d] = "expired"]
    /\ cut' = IF d = "rcRead" THEN cut ELSE cut \cup {"grace"}
    /\ UNCHANGED <<env, client, remote, reader, main>>

-----------------------------------------------------------------------------
(* What Read and Write return.                                             *)

\* A Read from p under deadline d: "data", or how copyBuffer's loop ends.
ReadResult(p, d) ==
    IF d = "expired" THEN "timeout"
    ELSE IF p.unread > 0 THEN "data"
    ELSE IF p.state = "fin" THEN "nil"
    ELSE IF p.state = "reset" THEN "error"
    ELSE "blocked"

Taken(p) == [p EXCEPT !.unread = p.unread - 1]
Given(p) == [p EXCEPT !.got = p.got + 1]
Closed(p) == [p EXCEPT !.out = "closed"]

\* The ways a Write on rc can end.
RemoteWriteResults ==
    IF remote.out = "closed" \/ remote.state = "reset" THEN {"error"}
    ELSE (IF env.remoteReads THEN {"data"} ELSE {})
           \cup (IF dl.rcWrite = "expired" THEN {"timeout"} ELSE {})

\* The ways a Write on w can end.
ClientWriteResults ==
    IF client.state = "reset" THEN {"error"}
    ELSE (IF env.clientReads THEN {"data"} ELSE {})
           \cup (IF env.timed THEN {"timeout"} ELSE {})

\* wakeReader and trySetReadDeadline: no-ops on an opaque w.
ClientDeadline(d) == IF env.wakeable THEN d ELSE dl.cRead

-----------------------------------------------------------------------------
(* The reader goroutine: copyBuffer(rc, r), then the hand-over.            *)

ReaderRead ==
    LET res == ReadResult(client, dl.cRead) IN
    /\ reader.pc = "read" /\ res # "blocked"
    /\ IF res = "data"
       THEN client' = Taken(client) /\ reader' = [reader EXCEPT !.pc = "write"]
       ELSE /\ reader' = [reader EXCEPT !.pc = "exit", !.err = res]
            /\ UNCHANGED client
    /\ UNCHANGED <<env, remote, dl, main, cut>>

ReaderWrite ==
    /\ reader.pc = "write"
    /\ \E res \in RemoteWriteResults :
        IF res = "data"
        THEN /\ remote' = Given(remote)
             /\ reader' = [reader EXCEPT !.pc = "read", !.num = reader.num + 1]
        ELSE /\ reader' = [reader EXCEPT !.pc = "exit", !.err = res]
             /\ UNCHANGED remote
    /\ UNCHANGED <<env, client, dl, main, cut>>

\* Clean or not, the reader closes rc's write side and ends main's Read; a
\* timeout counts as a clean exit.
ReaderExit ==
    /\ reader.pc = "exit"
    /\ remote' = Closed(remote)
    /\ dl' = [dl EXCEPT !.rcRead = "expired"]
    /\ reader' = [reader EXCEPT !.pc = "send",
                                !.err = IF reader.err = "error" THEN "error" ELSE "nil"]
    /\ UNCHANGED <<env, client, main, cut>>

-----------------------------------------------------------------------------
(* main: copyBuffer(w, rc), then one of three ways to end the tunnel.      *)

\* Where main goes when copyBuffer returns err: the first call decides how the
\* tunnel ends, a later one whether to go on draining.
AfterCopy(err) ==
    IF main.round = "later"
    THEN IF main.n = 0 \/ err # "timeout" THEN "done" ELSE "drain"
    ELSE CASE err = "nil" -> "eof"
           [] err = "timeout" -> "select"
           [] err = "error" -> "abort"

\* Mutant: a round of the drain loop replaces the count instead of adding to it.
CopyReturnsLastCount(err) ==
    LET idle == main.round = "later" /\ main.n = 0 /\ err = "timeout"
    IN /\ main' = [main EXCEPT !.pc = AfterCopy(err), !.nw = main.n, !.n = 0]
       /\ cut' = IF idle THEN cut \cup {"idle"} ELSE cut

\* Mutant: -1 marks that nothing has been copied.
CopyReturnsMark(err) ==
    /\ main' = [main EXCEPT !.pc = AfterCopy(err), !.nw = main.nw + main.n, !.n = -1]
    /\ UNCHANGED cut

\* copyBuffer returns err to main, with the n chunks that it copied.
CopyReturns(err) ==
    LET idle == main.round = "later" /\ main.n = 0 /\ err = "timeout"
    IN /\ main' = [main EXCEPT !.pc = AfterCopy(err), !.nw = main.nw + main.n, !.n = 0]
       /\ cut' = IF idle THEN cut \cup {"idle"} ELSE cut

MainRead ==
    LET res == ReadResult(remote, dl.rcRead) IN
    /\ main.pc = "read" /\ res # "blocked"
    /\ IF res = "data"
       THEN /\ remote' = Taken(remote)
            /\ main' = [main EXCEPT !.pc = "write"]
            /\ UNCHANGED cut
       ELSE CopyReturns(res) /\ UNCHANGED remote
    /\ UNCHANGED <<env, client, dl, reader>>

MainWrite ==
    /\ main.pc = "write"
    /\ \E res \in ClientWriteResults :
        IF res = "data"
        THEN /\ client' = Given(client)
             /\ main' = [main EXCEPT !.pc = "read", !.n = main.n + 1]
             /\ UNCHANGED cut
        ELSE CopyReturns(res) /\ UNCHANGED client
    /\ UNCHANGED <<env, remote, dl, reader>>

\* Mutant: the client's Read is interrupted at once.
RemoteEndedNoGrace ==
    /\ main.pc = "eof"
    /\ client' = Closed(client)
    /\ dl' = [dl EXCEPT !.cRead = ClientDeadline("expired")]
    /\ main' = [main EXCEPT !.pc = "wait"]
    /\ UNCHANGED <<env, remote, reader, cut>>

\* Mutant: the client's Read is not bounded.
RemoteEndedNoDeadline ==
    /\ main.pc = "eof"
    /\ client' = Closed(client)
    /\ main' = [main EXCEPT !.pc = "wait"]
    /\ UNCHANGED <<env, remote, dl, reader, cut>>

\* The remote ended its stream: half-close the client and leave it wakeGrace.
RemoteEnded ==
    /\ main.pc = "eof"
    /\ client' = Closed(client)
    /\ dl' = [dl EXCEPT !.cRead = ClientDeadline("armed")]
    /\ main' = [main EXCEPT !.pc = "wait"]
    /\ UNCHANGED <<env, remote, reader, cut>>

\* Mutant: main returns as soon as the reader is through.
TakeResultAndReturn ==
    /\ main.pc = "select" /\ reader.pc = "send"
    /\ reader' = [reader EXCEPT !.pc = "done"]
    /\ main' = [main EXCEPT !.nr = reader.num, !.pc = "done"]
    /\ client' = Closed(client)
    /\ UNCHANGED <<env, remote, dl, cut>>

\* The deadline that interrupted main is the reader's, who has its result
\* ready: go on with what the remote still sends, or return the failure.
TakeResult ==
    /\ main.pc = "select" /\ reader.pc = "send"
    /\ reader' = [reader EXCEPT !.pc = "done"]
    /\ main' = [main EXCEPT !.nr = reader.num,
                            !.pc = IF reader.err = "nil" THEN "drain" ELSE "done"]
    /\ client' = IF reader.err = "nil" THEN client ELSE Closed(client)
    /\ UNCHANGED <<env, remote, dl, cut>>

\* Another round of the drain loop, with a minute for the remote's next data.
Drain ==
    /\ main.pc = "drain"
    /\ dl' = [dl EXCEPT !.rcRead = "armed"]
    /\ main' = [main EXCEPT !.pc = "read", !.round = "later"]
    /\ UNCHANGED <<env, client, remote, reader, cut>>

\* Mutant: main does not wait for the reader's result.
GiveUpAndReturn ==
    /\ main.pc = "select" /\ reader.pc \notin {"exit", "send"}
    /\ client' = Closed(client)
    /\ dl' = [dl EXCEPT !.cRead = ClientDeadline("expired")]
    /\ main' = [main EXCEPT !.pc = "done"]
    /\ cut' = cut \cup {"abort"}
    /\ UNCHANGED <<env, remote, reader>>

\* The deadline was w's, and no result comes within a minute.  A reader that
\* can run is not delayed for a minute.
GiveUp ==
    /\ main.pc = "select" /\ reader.pc \notin {"exit", "send"}
    /\ client' = Closed(client)
    /\ dl' = [dl EXCEPT !.cRead = ClientDeadline("expired")]
    /\ main' = [main EXCEPT !.pc = "wait"]
    /\ cut' = cut \cup {"abort"}
    /\ UNCHANGED <<env, remote, reader>>

\* A Read or Write failed: end both directions.
Abort ==
    /\ main.pc = "abort"
    /\ remote' = Closed(remote)
    /\ dl' = [dl EXCEPT !.rcWrite = "armed", !.cRead = ClientDeadline("expired")]
    /\ main' = [main EXCEPT !.pc = "wait"]
    /\ cut' = cut \cup {"abort"}
    /\ UNCHANGED <<env, client, reader>>

\* r := <-errCh, and main returns: the buffers are freed and rc is closed.
AwaitResult ==
    /\ main.pc = "wait" /\ reader.pc = "send"
    /\ reader' = [reader EXCEPT !.pc = "done"]
    /\ main' = [main EXCEPT !.nr = reader.num, !.pc = "done"]
    /\ UNCHANGED <<env, client, remote, dl, cut>>

ReaderSteps == ReaderRead \/ ReaderWrite \/ ReaderExit
MainSteps == \/ MainRead \/ MainWrite \/ RemoteEnded \/ TakeResult \/ Drain
             \/ GiveUp \/ Abort \/ AwaitResult

Next ==
    \/ ReaderRead \/ ReaderWrite \/ ReaderExit
    \/ MainRead \/ MainWrite \/ RemoteEnded \/ TakeResult \/ Drain
    \/ GiveUp \/ Abort \/ AwaitResult
    \/ ClientActs \/ RemoteActs
    \/ \E d \in DOMAIN dl : Expire(d)

Spec == Init /\ [][Next]_vars

\* Goroutines that can run do run, and time passes.  Nothing is assumed of the
\* peers.
FairSpec ==
    /\ Spec
    /\ WF_vars(ReaderSteps) /\ WF_vars(MainSteps)
    /\ \A d \in {"rcRead", "rcWrite", "cRead"} : WF_vars(Expire(d))

-----------------------------------------------------------------------------
(* Properties.                                                             *)

\* HandleTCP returns, and with it frees the copy buffers, only after the reader
\* goroutine is through with its buffer, on every path.
BuffersOutliveReader == main.pc = "done" => reader.pc = "done"

\* The traffic that HandleTCP returns, which is what the user is billed, is what
\* was delivered in each direction, the rounds of the drain loop included.
TrafficIsDelivered ==
    main.pc = "done" => main.nr = remote.got /\ main.nw = client.got

\* Everything a client sends before it ends its stream reaches the remote, unless
\* the remote fails or main has to end the tunnel (a failure, or wakeGrace after
\* the remote's own end): the remote's half-close does not truncate it.
UploadComplete ==
    /\ main.pc = "done" /\ client.state = "fin"
    /\ remote.state # "reset" /\ cut \cap {"abort", "grace"} = {}
    => remote.got = client.sent

\* Everything a remote sends before it ends its stream reaches the client, also
\* when the client half-closes first, unless the client fails or the remote stays
\* silent for a minute after that half-close.
DownloadComplete ==
    /\ main.pc = "done" /\ remote.state = "fin"
    /\ client.state # "reset" /\ ~env.timed /\ cut \cap {"abort", "idle"} = {}
    => client.got = remote.sent

\* A tunnel ends when its client has ended its stream or failed: the reader's
\* deadline interrupts main's Read, and draining is bounded by silence.  It ends
\* when its remote has, even if the client stays silent, if main can set a
\* deadline on the client's connection.  Both need peers that read.  It ends after
\* a failed copy whatever the peers do: what wakeReader's comment promises ("a
\* silent peer cannot keep the reader goroutine blocked forever") for a wakeable w.
TunnelEnds ==
    \/ /\ main.pc = "abort" /\ env.wakeable
    \/ /\ client.state # "open" \/ (remote.state # "open" /\ env.wakeable)
       /\ env.clientReads /\ env.remoteReads
    ~> main.pc = "done"
=============================================================================
