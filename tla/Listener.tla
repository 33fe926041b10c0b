------------------------------ MODULE Listener ------------------------------
(***************************************************************************)
(* The listener wrapper of modules/listener/listener.go.                   *)
(*                                                                         *)
(* loop accepts connections from the wrapped ("inner") listener and gives  *)
(* each a goroutine that reads, byte by byte, what may be a trojan header. *)
(* A trojan connection is served by that goroutine; any other is offered,  *)
(* with the bytes already read put back, on the channel conns to the HTTP  *)
(* server, which takes it by Accept.  Close closes the channel closed and  *)
(* leaves the inner listener alone.                                        *)
(*                                                                         *)
(* A header has HeaderSize bytes, of which only "newline or not" and       *)
(* "Validate accepts it or not" are told apart.  What a client sends, and  *)
(* when, is a choice of the environment; the sniff deadline may expire at  *)
(* any time.                                                               *)
(***************************************************************************)
EXTENDS Integers, Sequences, SequencesExt

CONSTANTS
    Conns,          \* the connections that clients open
    HeaderSize,     \* trojan.HeaderLen+2
    QueueCap        \* the capacity of conns

ASSUME ConstantsAssumption ==
    HeaderSize \in Nat \ {0} /\ QueueCap \in Nat

VARIABLES
    loop,           \* the accept loop
    inner,          \* the wrapped listener
    closed,         \* the channel closed by Close
    server,         \* the HTTP server's accept loop
    queue,          \* the channel conns
    at,             \* where a connection is
    go,             \* a connection's goroutine
    dl,             \* a connection's read deadline
    n,              \* its goroutine's loop counter: the next index into b
    taken,          \* bytes that Read has taken from the client
    replay,         \* bytes that the rewound connection gives back
    holes           \* ghost: bytes of b that the sniff loop skipped

conn == <<at, go, dl, n, taken, replay, holes>>
vars == <<loop, inner, closed, server, queue, conn>>

TypeOK ==
    /\ loop \in {"accept", "sleep", "done"}
    /\ inner \in {"open", "closed"}
    /\ closed \in BOOLEAN
    /\ server \in {"serving", "stopped"}
    /\ queue \in Seq(Conns) /\ Len(queue) <= QueueCap
    /\ at \in [Conns -> {"new", "held", "queued", "served", "closed"}]
    /\ go \in [Conns -> {"none", "read", "check", "offer", "tunnel", "exit", "done"}]
    /\ dl \in [Conns -> {"none", "sniff", "expired", "server"}]
    /\ n \in [Conns -> 0 .. HeaderSize]
    /\ taken \in [Conns -> 0 .. HeaderSize]
    /\ replay \in [Conns -> 0 .. HeaderSize]
    /\ holes \in [Conns -> 0 .. HeaderSize]

Init ==
    /\ loop = "accept" /\ inner = "open" /\ closed = FALSE /\ server = "serving"
    /\ queue = <<>>
    /\ at = [c \in Conns |-> "new"]
    /\ go = [c \in Conns |-> "none"]
    /\ dl = [c \in Conns |-> "none"]
    /\ n = [c \in Conns |-> 0]
    /\ taken = [c \in Conns |-> 0]
    /\ replay = [c \in Conns |-> 0]
    /\ holes = [c \in Conns |-> 0]

-----------------------------------------------------------------------------
(* The accept loop.                                                        *)

\* l.Listener.Accept returns c, and its goroutine starts under sniffTimeout.
LoopAccept(c) ==
    /\ loop = "accept" /\ inner = "open" /\ at[c] = "new"
    /\ at' = [at EXCEPT ![c] = "held"]
    /\ go' = [go EXCEPT ![c] = "read"]
    /\ dl' = [dl EXCEPT ![c] = "sniff"]
    /\ UNCHANGED <<loop, inner, closed, server, queue, n, taken, replay, holes>>

\* It returns an error, as it always does once the inner listener is closed.
LoopError ==
    /\ loop = "accept"
    /\ loop' = IF closed THEN "done" ELSE "sleep"
    /\ UNCHANGED <<inner, closed, server, queue, conn>>

\* The back-off of 100 ms is over.
LoopWake ==
    /\ loop = "sleep" /\ loop' = "accept"
    /\ UNCHANGED <<inner, closed, server, queue, conn>>

\* Close closes the channel; called again it does nothing.
Close ==
    /\ ~closed /\ closed' = TRUE
    /\ UNCHANGED <<loop, inner, server, queue, conn>>

-----------------------------------------------------------------------------
(* A connection's goroutine: the outcomes of one Read of the sniff loop.   *)

Reading(c) == go[c] = "read" /\ dl[c] # "expired"

\* Mutant: the loop runs once too often.
AdvancePastEnd(c) ==
    /\ n' = [n EXCEPT ![c] = @ + 1]
    /\ IF n[c] = HeaderSize
       THEN /\ go' = [go EXCEPT ![c] = "check"]
            /\ dl' = [dl EXCEPT ![c] = "none"]
       ELSE UNCHANGED <<go, dl>>
    /\ UNCHANGED <<loop, inner, closed, server, queue, at, replay>>

\* The loop's increment; at the header's end the deadline is cleared.
Advance(c) ==
    /\ n' = [n EXCEPT ![c] = @ + 1]
    /\ IF n[c] + 1 = HeaderSize
       THEN /\ go' = [go EXCEPT ![c] = "check"]
            /\ dl' = [dl EXCEPT ![c] = "none"]
       ELSE UNCHANGED <<go, dl>>
    /\ UNCHANGED <<loop, inner, closed, server, queue, at, replay>>

\* One more byte of the header (at its last index even a newline).
ReadByte(c) ==
    /\ Reading(c)
    /\ taken' = [taken EXCEPT ![c] = @ + 1]
    /\ Advance(c)
    /\ UNCHANGED holes

\* Read returns (0, nil): the index moves on, past a byte that was not read.
ReadNothing(c) ==
    /\ Reading(c)
    /\ holes' = [holes EXCEPT ![c] = @ + 1]
    /\ Advance(c)
    /\ UNCHANGED taken

\* Mutant: the connection is offered with the sniff deadline still on it.
OfferWithDeadline(c, k) ==
    /\ go' = [go EXCEPT ![c] = "offer"]
    /\ replay' = [replay EXCEPT ![c] = k]
    /\ UNCHANGED dl

\* Clear the deadline and offer the connection with b[:k] put back.
Offer(c, k) ==
    /\ go' = [go EXCEPT ![c] = "offer"]
    /\ replay' = [replay EXCEPT ![c] = k]
    /\ dl' = [dl EXCEPT ![c] = "none"]

\* A newline where a header has none: not trojan.
ReadNewline(c) ==
    /\ Reading(c) /\ n[c] < HeaderSize - 1
    /\ taken' = [taken EXCEPT ![c] = @ + 1]
    /\ Offer(c, n[c] + 1)
    /\ UNCHANGED <<loop, inner, closed, server, queue, at, n, holes>>

\* Mutant: the byte that was not read is replayed too.
ReadErrorPlusOne(c) ==
    /\ go[c] = "read"
    /\ \E nr \in (IF dl[c] = "expired" THEN {0} ELSE {0, 1}) :
        taken' = [taken EXCEPT ![c] = @ + nr]
    /\ Offer(c, n[c] + 1)
    /\ UNCHANGED <<loop, inner, closed, server, queue, at, n, holes>>

\* Read fails with an error other than EOF, a byte read or not; an expired
\* deadline is such an error.
ReadError(c) ==
    /\ go[c] = "read"
    /\ \E nr \in (IF dl[c] = "expired" THEN {0} ELSE {0, 1}) :
        /\ taken' = [taken EXCEPT ![c] = @ + nr]
        /\ Offer(c, n[c] + nr)
    /\ UNCHANGED <<loop, inner, closed, server, queue, at, n, holes>>

\* The client closed its side before the header's end.
ReadEOF(c) ==
    /\ Reading(c)
    /\ at' = [at EXCEPT ![c] = "closed"]
    /\ go' = [go EXCEPT ![c] = "exit"]
    /\ UNCHANGED <<loop, inner, closed, server, queue, dl, n, taken, replay, holes>>

SniffTimeout(c) ==
    /\ dl[c] = "sniff" /\ go[c] = "read"
    /\ dl' = [dl EXCEPT ![c] = "expired"]
    /\ UNCHANGED <<loop, inner, closed, server, queue, at, go, n, taken, replay, holes>>

-----------------------------------------------------------------------------
(* The goroutine after the sniff.                                          *)

\* The terminator and the key are right.  A header with a hole in it is not.
HeaderValid(c) ==
    /\ go[c] = "check" /\ taken[c] = HeaderSize
    /\ go' = [go EXCEPT ![c] = "tunnel"]
    /\ UNCHANGED <<loop, inner, closed, server, queue, at, dl, n, taken, replay, holes>>

HeaderInvalid(c) ==
    /\ go[c] = "check"
    /\ Offer(c, HeaderSize)
    /\ UNCHANGED <<loop, inner, closed, server, queue, at, n, taken, holes>>

\* Mutant: the goroutine does not return after the send.
SendAndStay(c) ==
    /\ go[c] = "offer" /\ Len(queue) < QueueCap
    /\ queue' = Append(queue, c)
    /\ at' = [at EXCEPT ![c] = "queued"]
    /\ UNCHANGED <<loop, inner, closed, server, go, dl, n, taken, replay, holes>>

\* select, l.conns <- c.
Send(c) ==
    /\ go[c] = "offer" /\ Len(queue) < QueueCap
    /\ queue' = Append(queue, c)
    /\ at' = [at EXCEPT ![c] = "queued"]
    /\ go' = [go EXCEPT ![c] = "exit"]
    /\ UNCHANGED <<loop, inner, closed, server, dl, n, taken, replay, holes>>

\* Mutant: a full channel is not given up on.
GiveUpIfRoom(c) ==
    /\ go[c] = "offer" /\ closed /\ Len(queue) < QueueCap
    /\ at' = [at EXCEPT ![c] = "closed"]
    /\ go' = [go EXCEPT ![c] = "exit"]
    /\ UNCHANGED <<loop, inner, closed, server, queue, dl, n, taken, replay, holes>>

\* select, <-l.closed.
GiveUp(c) ==
    /\ go[c] = "offer" /\ closed
    /\ at' = [at EXCEPT ![c] = "closed"]
    /\ go' = [go EXCEPT ![c] = "exit"]
    /\ UNCHANGED <<loop, inner, closed, server, queue, dl, n, taken, replay, holes>>

\* HandleWithDialer returns; Consume, then c.Close.
TunnelEnds(c) ==
    /\ go[c] = "tunnel"
    /\ at' = [at EXCEPT ![c] = "closed"]
    /\ go' = [go EXCEPT ![c] = "exit"]
    /\ UNCHANGED <<loop, inner, closed, server, queue, dl, n, taken, replay, holes>>

\* The deferred SetReadDeadline, wherever the connection is by then.
Exit(c) ==
    /\ go[c] = "exit"
    /\ dl' = [dl EXCEPT ![c] = "none"]
    /\ go' = [go EXCEPT ![c] = "done"]
    /\ UNCHANGED <<loop, inner, closed, server, queue, at, n, taken, replay, holes>>

-----------------------------------------------------------------------------
(* The HTTP server and the owner of the inner listener.                    *)

\* Accept, c := <-l.conns.
AcceptConn ==
    /\ server = "serving" /\ queue # <<>>
    /\ at' = [at EXCEPT ![Head(queue)] = "served"]
    /\ queue' = Tail(queue)
    /\ UNCHANGED <<loop, inner, closed, server, go, dl, n, taken, replay, holes>>

\* Accept, <-l.closed: the server's accept loop ends.
AcceptClosed ==
    /\ server = "serving" /\ closed
    /\ server' = "stopped"
    /\ UNCHANGED <<loop, inner, closed, queue, conn>>

\* The server gives a connection a deadline of its own.
ServerDeadline(c) ==
    /\ at[c] = "served" /\ dl[c] = "none"
    /\ dl' = [dl EXCEPT ![c] = "server"]
    /\ UNCHANGED <<loop, inner, closed, server, queue, at, go, n, taken, replay, holes>>

InnerCloses ==
    /\ inner = "open" /\ inner' = "closed"
    /\ UNCHANGED <<loop, closed, server, queue, conn>>

Next ==
    \/ LoopError \/ LoopWake \/ Close \/ AcceptConn \/ AcceptClosed \/ InnerCloses
    \/ \E c \in Conns :
        \/ LoopAccept(c)
        \/ ReadByte(c) \/ ReadNothing(c) \/ ReadNewline(c) \/ ReadError(c) \/ ReadEOF(c)
        \/ SniffTimeout(c)
        \/ HeaderValid(c) \/ HeaderInvalid(c) \/ Send(c) \/ GiveUp(c)
        \/ TunnelEnds(c) \/ Exit(c)
        \/ ServerDeadline(c)

Spec == Init /\ [][Next]_vars

\* Time passes, goroutines that can run do run, the server accepts, and Accept on
\* a closed inner listener returns.  Nothing is assumed of the clients, of
\* tunnels, or of who calls Close.
FairSpec ==
    /\ Spec
    /\ WF_vars(inner = "closed" /\ LoopError) /\ WF_vars(LoopWake)
    /\ WF_vars(AcceptConn \/ AcceptClosed)
    /\ \A c \in Conns :
        /\ WF_vars(SniffTimeout(c))
        /\ WF_vars(dl[c] = "expired" /\ ReadError(c))
        /\ WF_vars(HeaderValid(c) \/ HeaderInvalid(c))
        /\ WF_vars(Send(c) \/ GiveUp(c))
        /\ WF_vars(Exit(c))

-----------------------------------------------------------------------------
(* Properties.                                                             *)

Handed(c) == at[c] \in {"queued", "served"}

\* A connection is handed to the HTTP server at most once, and its goroutine
\* neither reads it nor closes it afterwards.
HandedOverOnce ==
    /\ IsInjective(queue)
    /\ \A c \in Conns :
        /\ at[c] = "queued" <=> c \in ToSet(queue)
        /\ Handed(c) => go[c] \in {"exit", "done"}

\* The HTTP server and the tunnel get a connection without the sniff deadline
\* (the comment "must be cleared before any handoff"), on every path and not only
\* once the deferred call has run.
SniffDeadlineCleared ==
    \A c \in Conns :
        Handed(c) \/ go[c] = "tunnel" => dl[c] \notin {"sniff", "expired"}

\* The HTTP server reads exactly the bytes that the client sent: the rewound
\* connection gives back as many as were read, neither dropping one nor adding
\* one that is uninitialized; but a zero byte for every Read that returned (0, nil).
ReplayIsFaithful ==
    \A c \in Conns : Handed(c) => replay[c] = taken[c] + holes[c]

\* No goroutine of the wrapper is held for ever: not in the sniff loop by a
\* silent client; not in the offer, whether the channel is full, the server has
\* stopped, or Close comes at any point; and the loop returns once both the
\* wrapper and the inner listener are closed.
NobodyStaysBlocked ==
    /\ \A c \in Conns : /\ go[c] = "read" ~> go[c] # "read"
                       /\ go[c] = "offer" ~> go[c] = "done"
    /\ closed /\ inner = "closed" ~> loop = "done"

\* A connection on offer when the listener is closed ends up closed, or with the
\* server: it is not left behind in the channel.
OfferedIsNotStranded ==
    \A c \in Conns :
        closed /\ go[c] = "offer" ~> at[c] \in {"closed", "served"}
=============================================================================
