----------------------------- MODULE TunnelUDP -----------------------------
(***************************************************************************)
(* HandleUDP of pkgs/trojan/trojan_udp.go: one UDP session.                *)
(*                                                                         *)
(* A reader goroutine takes frames from the client (r) and sends each      *)
(* payload from the packet socket rc to the address that the frame names;  *)
(* the calling goroutine, "main", frames what rc receives to the client    *)
(* (w).  The reader hands its result over on the unbuffered channel errCh. *)
(* The two wake each other by deadlines: the reader interrupts main's      *)
(* ReadFrom by rc's read deadline, main the reader's WriteTo by rc's write *)
(* deadline and its Read by the client's read deadline.                    *)
(*                                                                         *)
(* A deadline is "none", "armed" or "expired"; a call on an expired one    *)
(* fails even when it could proceed.  The frames that the client has sent  *)
(* are kept in order, an address is one on the wire (SocksAddr), what it   *)
(* resolves to is its text, a payload is one unit of traffic.              *)
(*                                                                         *)
(* An address without a text makes the reader goroutine panic.  Nobody     *)
(* recovers it: its deferred function still waits to send on errCh, and    *)
(* when main has received, the panic goes on and ends the process.         *)
(***************************************************************************)
EXTENDS Sequences, SocksAddr

CONSTANTS
    Dests,          \* addresses that frames name
    NoDest,         \* not an address
    MaxUp,          \* bound on the frames the client sends
    MaxInbox        \* bound on what rc's socket holds; the rest is dropped

ASSUME ConstantsAssumption ==
    /\ Dests \subseteq WireAddr /\ NoDest \notin Dests /\ MaxUp \in Nat /\ MaxInbox \in Nat

VARIABLES
    env,            \* whether the client reads, and can be woken; fixed
    client,         \* the client's stream: open, ended or reset
    sent,           \* the frames of that stream
    inbox,          \* datagrams received by rc and not read
    out,            \* where datagrams were sent to
    dl,             \* deadlines: rc read, rc write and client read
    reader,         \* the reader goroutine
    cache,          \* its bb, the last address, and tt, what that resolved to
    main,           \* the calling goroutine
    faults          \* ghost: what has failed

vars == <<env, client, sent, inbox, out, dl, reader, cache, main, faults>>

\* "cut" frames end after the header, and nothing follows them.
Frame == [dst : Dests, form : {"whole", "badcrlf", "cut"}]
Deadline == {"none", "armed", "expired"}
Resolutions == Hosts \X Nat

TypeOK ==
    /\ env \in [wakeable : BOOLEAN, clientReads : BOOLEAN]
    /\ client \in {"open", "fin", "reset"}
    /\ sent \in Seq(Frame) /\ inbox \in Nat /\ out \in Seq(Resolutions)
    /\ dl \in [rcRead : Deadline, rcWrite : Deadline, cRead : Deadline]
    /\ reader \in [pc : {"frame", "payload", "write", "exit", "send", "done",
                         "panic", "dead"}, nr : Nat, err : {"nil", "error"}]
    /\ cache \in [bb : Dests \cup {NoDest}, tt : Resolutions \cup {NoDest}]
    /\ main \in [pc : {"arm", "read", "write", "cleanup", "wait", "done", "dead"},
                 nr : Nat, err : {"nil", "timeout", "error"}]
    /\ faults \subseteq {"client", "frame", "address", "send", "receive"}

Init ==
    /\ env \in [wakeable : BOOLEAN, clientReads : BOOLEAN]
    /\ client = "open" /\ sent = <<>> /\ inbox = 0 /\ out = <<>>
    /\ dl = [rcRead |-> "none", rcWrite |-> "none", cRead |-> "none"]
    /\ reader = [pc |-> "frame", nr |-> 0, err |-> "nil"]
    /\ cache = [bb |-> NoDest, tt |-> NoDest]
    /\ main = [pc |-> "arm", nr |-> 0, err |-> "nil"]
    /\ faults = {}

-----------------------------------------------------------------------------
(* The client, the remotes and time.                                       *)

Running == main.pc \notin {"done", "dead"}

ClientSends ==
    /\ Running /\ client = "open" /\ Len(sent) < MaxUp
    /\ \A i \in DOMAIN sent : sent[i].form # "cut"
    /\ \E f \in Frame :
        /\ sent' = Append(sent, f)
        /\ faults' = IF f.form = "whole" THEN faults ELSE faults \cup {"frame"}
    /\ UNCHANGED <<env, client, inbox, out, dl, reader, cache, main>>

ClientEnds ==
    /\ Running /\ client = "open" /\ client' = "fin"
    /\ UNCHANGED <<env, sent, inbox, out, dl, reader, cache, main, faults>>

ClientResets ==
    /\ Running /\ client # "reset" /\ client' = "reset"
    /\ faults' = faults \cup {"client"}
    /\ UNCHANGED <<env, sent, inbox, out, dl, reader, cache, main>>

RemoteSends ==
    /\ Running /\ inbox < MaxInbox /\ inbox' = inbox + 1
    /\ UNCHANGED <<env, client, sent, out, dl, reader, cache, main, faults>>

\* The timeout has passed since main armed it, without a datagram.
Expire ==
    /\ main.pc = "read" /\ inbox = 0 /\ dl.rcRead = "armed"
    /\ dl' = [dl EXCEPT !.rcRead = "expired"]
    /\ UNCHANGED <<env, client, sent, inbox, out, reader, cache, main, faults>>

-----------------------------------------------------------------------------
(* The reader goroutine.                                                   *)

ReaderFails(err) == reader' = [reader EXCEPT !.pc = "exit", !.err = err]

\* Mutant: a deadline is not recognised as a clean exit.
StreamEndsByTimeout(atEnd, errs) ==
    \/ dl.cRead = "expired" /\ ReaderFails("timeout")
    \/ dl.cRead # "expired" /\ client = "reset" /\ ReaderFails("error")
    \/ /\ dl.cRead # "expired" /\ client = "fin" /\ atEnd
       /\ \E err \in errs : ReaderFails(err)

\* A Read of the client ends without data: our own deadline and an end of the
\* stream between frames are clean exits; an end inside a frame is clean only
\* between two ReadFull calls.
StreamEnds(atEnd, errs) ==
    \/ dl.cRead = "expired" /\ ReaderFails("nil")
    \/ dl.cRead # "expired" /\ client = "reset" /\ ReaderFails("error")
    \/ /\ dl.cRead # "expired" /\ client = "fin" /\ atEnd
       /\ \E err \in errs : ReaderFails(err)

Readable == dl.cRead # "expired" /\ client # "reset"

\* Mutant: a new address is resolved only the first time.
ResolvedOnce(dst) ==
    [bb |-> dst, tt |-> IF cache.tt = NoDest THEN Text(dst) ELSE cache.tt]

\* bb and tt after resolving an address other than bb: ResolveUDPAddr takes the
\* bytes of an IP address, and the text of a domain.
Resolved(dst) == [bb |-> dst, tt |-> Text(dst)]

\* The frames taken so far are those counted in nr.
NextFrame == sent[reader.nr + 1]
HasFrame == reader.pc = "frame" /\ Readable /\ reader.nr < Len(sent)

\* The next frame's address, from the cache if it is that of the last frame, then
\* its length and terminator.
ReadFrame ==
    /\ HasFrame
    /\ cache.bb = NextFrame.dst \/ Text(NextFrame.dst) # NoText
    /\ cache' = IF cache.bb = NextFrame.dst THEN cache ELSE Resolved(NextFrame.dst)
    /\ IF NextFrame.form = "badcrlf"
       THEN ReaderFails("error")
       ELSE reader' = [reader EXCEPT !.pc = "payload", !.nr = reader.nr + 1]
    /\ UNCHANGED <<env, client, sent, inbox, out, dl, main, faults>>

\* The lookup of a domain fails.
ResolveFails ==
    /\ HasFrame /\ cache.bb # NextFrame.dst
    /\ NextFrame.dst.type = Domain /\ Text(NextFrame.dst) # NoText
    /\ ReaderFails("error")
    /\ faults' = faults \cup {"frame"}
    /\ UNCHANGED <<env, client, sent, inbox, out, dl, cache, main>>

\* String panics: no deadline for main is set on the way out.
ResolvePanics ==
    /\ HasFrame /\ cache.bb # NextFrame.dst
    /\ Text(NextFrame.dst) = NoText
    /\ reader' = [reader EXCEPT !.pc = "panic"]
    /\ UNCHANGED <<env, client, sent, inbox, out, dl, cache, main, faults>>

ReadFrameFails ==
    /\ reader.pc = "frame"
    /\ StreamEnds(reader.nr = Len(sent), {"nil"})
    /\ UNCHANGED <<env, client, sent, inbox, out, dl, cache, main, faults>>

ReadPayload ==
    /\ reader.pc = "payload" /\ Readable /\ sent[reader.nr].form = "whole"
    /\ reader' = [reader EXCEPT !.pc = "write"]
    /\ UNCHANGED <<env, client, sent, inbox, out, dl, cache, main, faults>>

ReadPayloadFails ==
    /\ reader.pc = "payload"
    /\ StreamEnds(sent[reader.nr].form = "cut", {"nil", "error"})
    /\ UNCHANGED <<env, client, sent, inbox, out, dl, cache, main, faults>>

WriteTo ==
    /\ reader.pc = "write" /\ dl.rcWrite # "expired"
    /\ out' = Append(out, cache.tt)
    /\ reader' = [reader EXCEPT !.pc = "frame"]
    /\ UNCHANGED <<env, client, sent, inbox, dl, cache, main, faults>>

\* main's deadline, which is a clean exit, or a failure of the socket.
WriteToFails ==
    /\ reader.pc = "write"
    /\ IF dl.rcWrite = "expired"
       THEN ReaderFails("nil") /\ UNCHANGED faults
       ELSE ReaderFails("error") /\ faults' = faults \cup {"send"}
    /\ UNCHANGED <<env, client, sent, inbox, out, dl, cache, main>>

\* After the loop: interrupt main's ReadFrom.
ReaderExit ==
    /\ reader.pc = "exit"
    /\ dl' = [dl EXCEPT !.rcRead = "expired"]
    /\ reader' = [reader EXCEPT !.pc = "send"]
    /\ UNCHANGED <<env, client, sent, inbox, out, cache, main, faults>>

-----------------------------------------------------------------------------
(* main.                                                                   *)

\* Every round of the loop starts by setting rc's read deadline, which replaces
\* whatever the reader has set.
Arm ==
    /\ main.pc = "arm"
    /\ dl' = [dl EXCEPT !.rcRead = "armed"]
    /\ main' = [main EXCEPT !.pc = "read"]
    /\ UNCHANGED <<env, client, sent, inbox, out, reader, cache, faults>>

MainFails(err) == main' = [main EXCEPT !.pc = "cleanup", !.err = err]

ReadFrom ==
    /\ main.pc = "read" /\ dl.rcRead # "expired" /\ inbox > 0
    /\ inbox' = inbox - 1
    /\ main' = [main EXCEPT !.pc = "write"]
    /\ UNCHANGED <<env, client, sent, out, dl, reader, cache, faults>>

\* wakeReader and trySetImmediateReadDeadline: no-ops on an opaque stream.
WokenClient == IF env.wakeable THEN "expired" ELSE dl.cRead

\* The datagram's source is not a *net.UDPAddr.
ReadFromOddAddr ==
    /\ main.pc = "read" /\ dl.rcRead # "expired" /\ inbox > 0
    /\ inbox' = inbox - 1
    /\ MainFails("error")
    /\ faults' = faults \cup {"address"}
    /\ dl' = [dl EXCEPT !.cRead = WokenClient]
    /\ UNCHANGED <<env, client, sent, out, reader, cache>>

\* The deadline, main's own or the reader's, or a failure of the socket.
ReadFromFails ==
    /\ main.pc = "read"
    /\ IF dl.rcRead = "expired"
       THEN MainFails("timeout") /\ UNCHANGED faults
       ELSE MainFails("error") /\ faults' = faults \cup {"receive"}
    /\ UNCHANGED <<env, client, sent, inbox, out, dl, reader, cache>>

MainWrite ==
    /\ main.pc = "write"
    /\ \/ /\ client # "reset" /\ env.clientReads
          /\ main' = [main EXCEPT !.pc = "arm"]
       \/ client = "reset" /\ MainFails("error")
    /\ UNCHANGED <<env, client, sent, inbox, out, dl, reader, cache, faults>>

\* Mutant: the reader is not woken.
CleanupNoWake ==
    /\ main.pc = "cleanup"
    /\ dl' = [dl EXCEPT !.rcWrite = "expired"]
    /\ main' = [main EXCEPT !.pc = "wait"]
    /\ UNCHANGED <<env, client, sent, inbox, out, reader, cache, faults>>

Cleanup ==
    /\ main.pc = "cleanup"
    /\ dl' = [dl EXCEPT !.rcWrite = "expired", !.cRead = WokenClient]
    /\ main' = [main EXCEPT !.pc = "wait"]
    /\ UNCHANGED <<env, client, sent, inbox, out, reader, cache, faults>>

\* Mutant: main's own timeout is reported.
ResultWithTimeout ==
    IF reader.err = "error" THEN "error"
    ELSE IF main.err = "timeout" THEN "error" ELSE main.err

\* The reader's failure first; main's own timeout is none.
Result ==
    IF reader.err = "error" THEN "error"
    ELSE IF main.err = "timeout" THEN "nil" ELSE main.err

\* Mutant: what the reader has counted is not returned when it failed.
AwaitResultOnSuccess ==
    /\ main.pc = "wait" /\ reader.pc = "send"
    /\ reader' = [reader EXCEPT !.pc = "done"]
    /\ main' = [pc |-> "done", nr |-> IF reader.err = "nil" THEN reader.nr ELSE 0,
                err |-> Result]
    /\ UNCHANGED <<env, client, sent, inbox, out, dl, cache, faults>>

\* Mutant: main returns without waiting when its own error is not a timeout.
AwaitNoResult ==
    /\ main.pc = "wait" /\ (reader.pc = "send" \/ main.err = "error")
    /\ reader' = IF reader.pc = "send" THEN [reader EXCEPT !.pc = "done"] ELSE reader
    /\ main' = [pc |-> "done", nr |-> reader.nr, err |-> Result]
    /\ UNCHANGED <<env, client, sent, inbox, out, dl, cache, faults>>

\* r := <-errCh, and HandleUDP returns; nw is always 0.
AwaitResult ==
    /\ main.pc = "wait" /\ reader.pc = "send"
    /\ reader' = [reader EXCEPT !.pc = "done"]
    /\ main' = [pc |-> "done", nr |-> reader.nr, err |-> Result]
    /\ UNCHANGED <<env, client, sent, inbox, out, dl, cache, faults>>

\* The deferred function of a reader that panics has sent: the process ends,
\* before HandleUDP returns or after.
AwaitPanic ==
    /\ main.pc = "wait" /\ reader.pc = "panic"
    /\ reader' = [reader EXCEPT !.pc = "dead"]
    /\ \/ main' = [pc |-> "done", nr |-> reader.nr, err |-> Result]
       \/ main' = [main EXCEPT !.pc = "dead"]
    /\ UNCHANGED <<env, client, sent, inbox, out, dl, cache, faults>>

ReaderSteps == \/ ReadFrame \/ ResolveFails \/ ResolvePanics \/ ReadFrameFails
               \/ ReadPayload \/ ReadPayloadFails \/ WriteTo \/ WriteToFails \/ ReaderExit
MainSteps == \/ Arm \/ ReadFrom \/ ReadFromOddAddr
             \/ (dl.rcRead = "expired" /\ ReadFromFails)
             \/ MainWrite \/ Cleanup \/ AwaitResult \/ AwaitPanic

Next ==
    \/ ReadFrame \/ ResolveFails \/ ResolvePanics \/ ReadFrameFails
    \/ ReadPayload \/ ReadPayloadFails \/ WriteTo \/ WriteToFails \/ ReaderExit
    \/ Arm \/ ReadFrom \/ ReadFromOddAddr \/ ReadFromFails \/ MainWrite
    \/ Cleanup \/ AwaitResult \/ AwaitPanic
    \/ ClientSends \/ ClientEnds \/ ClientResets \/ RemoteSends \/ Expire

Spec == Init /\ [][Next]_vars

\* Goroutines that can run do run, and time passes.  Nothing is assumed of the
\* client, of the remotes, or of the socket's failures.
FairSpec ==
    Spec /\ WF_vars(ReaderSteps) /\ WF_vars(MainSteps) /\ WF_vars(Expire)

-----------------------------------------------------------------------------
(* Properties.                                                             *)

\* A datagram goes to the host that its own frame names, in the order of the
\* frames, although bb and tt are carried over from one frame to the next, and to
\* the port of that frame as long as the length of the name fits the byte
\* arithmetic of Addr.String: a name of 253 bytes does not, and its low byte is lost.
DestinationIsNamed ==
    /\ Len(out) <= Len(sent)
    /\ \A i \in 1 .. Len(out) :
         LET dst == sent[i].dst IN
         /\ out[i][1] = dst.host
         /\ Fits(dst) => out[i][2] = Port(dst.hi, dst.lo)

\* HandleUDP frees the reader's buffers only when the reader is through, or on its
\* way to end the process.
BuffersOutliveReader == main.pc = "done" => reader.pc \in {"done", "dead"}

\* The upload traffic that HandleUDP returns covers every datagram sent, and at
\* most one frame beyond them: nr is counted before the payload is read.  Only a
\* frame whose name does not fit keeps it from returning, by ending the process.
UplinkIsBilled ==
    /\ main.pc = "done" => main.nr - Len(out) \in {0, 1}
    /\ main.pc = "dead" => \E i \in DOMAIN sent : ~Fits(sent[i].dst)

\* A session in which nothing has failed returns no error, however it ends: the
\* deadlines that the two goroutines set for each other are not reported.
CleanEndIsNil == main.pc = "done" /\ faults = {} => main.err = "nil"

\* A remote's silence for the timeout ends the session, whatever the client does,
\* and so does the end of main's loop, with a silent client too.
SessionEnds ==
    /\ env.wakeable /\ main.pc = "read" /\ inbox = 0
           ~> ~Running \/ inbox > 0
    /\ env.wakeable /\ main.pc = "cleanup" ~> ~Running

\* Once the reader is through, main sees its deadline and the session ends ("the
\* writer loop then sees a deadline timeout from its blocked ReadFrom").
ReaderEndsSession ==
    env.clientReads /\ reader.pc = "send" ~> main.pc = "done"
=============================================================================
