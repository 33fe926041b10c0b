-------------------------- MODULE TunnelUDPProofs --------------------------
(***************************************************************************)
(* Proofs about TunnelUDP: the hand-over on errCh, by a reader that panics *)
(* too, the address that each datagram goes to and the traffic counted,    *)
(* for any wire addresses and any number of frames and datagrams.          *)
(***************************************************************************)
EXTENDS TunnelUDP, TLAPS

\* main takes the reader's result once, and returns with it or goes down.
HandOver ==
    /\ reader.pc \in {"done", "dead"} <=> main.pc \in {"done", "dead"}
    /\ main.pc = "dead" => reader.pc = "dead"

\* nr counts the frames taken, at most one more than the datagrams sent.
Counts ==
    /\ reader.nr <= Len(sent)
    /\ reader.nr \in {Len(out), Len(out) + 1}
    /\ reader.pc = "frame" => reader.nr = Len(out)
    /\ reader.pc \in {"payload", "write"} => reader.nr = Len(out) + 1
    /\ main.pc = "done" => main.nr = reader.nr

\* A reader that panics has met a name that does not fit.
Panicked ==
    reader.pc \in {"panic", "dead"} =>
        reader.nr < Len(sent) /\ ~Fits(sent[reader.nr + 1].dst)

\* tt is what bb resolves to, and bb the address of the frame being read.
CacheIsText ==
    cache.bb # NoDest => Text(cache.bb) # NoText /\ cache.tt = Text(cache.bb)
Cached ==
    /\ CacheIsText
    /\ reader.pc \in {"payload", "write"} => cache.bb = sent[reader.nr].dst

Named == \A i \in 1 .. Len(out) : out[i] = Text(sent[i].dst)

SessionInv == HandOver /\ Counts /\ Panicked /\ Cached /\ Named

\* The parts of TypeOK.
ReaderType ==
    [pc : {"frame", "payload", "write", "exit", "send", "done", "panic", "dead"},
     nr : Nat, err : {"nil", "error"}]
CacheType == [bb : Dests \cup {NoDest}, tt : Resolutions \cup {NoDest}]
MainType ==
    [pc : {"arm", "read", "write", "cleanup", "wait", "done", "dead"},
     nr : Nat, err : {"nil", "timeout", "error"}]

-----------------------------------------------------------------------------
(* The text of an address.                                                 *)

\* An address that fits has the text that it spells; one without a text does not
\* fit; and any text is a port at the host that the address spells.
LEMMA TextFacts ==
    ASSUME NEW a \in WireAddr
    PROVE  /\ Fits(a) => Text(a) = <<a.host, Port(a.hi, a.lo)>>
           /\ Fits(a) => Text(a) # NoText
           /\ Text(a) # NoText => Text(a) \in Resolutions /\ Text(a)[1] = a.host
  <1> DEFINE end == Uint8(2 + a.len)
             port == Port(Data(a, end), Data(a, Uint8(end + 1)))
  <1>1. a.host \in Hosts /\ a.hi \in Nat /\ a.lo \in Nat /\ a.len \in 0 .. 255 /\ a.type \in Nat
    BY DEF WireAddr, Bytes, IPv4, Domain, IPv6
  <1>2. \A x, y \in Nat : Port(x, y) \in Nat
    BY DEF Port
  <1>3. ASSUME NEW n \in Nat, Text(a) = <<a.host, n>>
        PROVE  Text(a) \in Resolutions /\ Text(a) # NoText /\ Text(a)[1] = a.host
    <2>1. <<a.host, n>> \in Hosts \X Nat
      BY <1>1
    <2> QED
      BY <1>3, <2>1, TextAssumption DEF Resolutions
  <1>4. CASE a.type # Domain
    <2>1. Text(a) = <<a.host, Port(a.hi, a.lo)>>
      BY <1>4 DEF Text
    <2>2. Port(a.hi, a.lo) \in Nat
      BY <1>1, <1>2
    <2> QED
      BY <1>3, <2>1, <2>2
  <1>5. CASE a.type = Domain
    <2>1. Text(a) = IF end < 2 THEN NoText ELSE <<a.host, port>>
      BY <1>5 DEF Text
    <2>2. port \in Nat
      <3>1. \A i : Data(a, i) \in Nat
        BY <1>1 DEF Data, NameByte
      <3> QED
        BY <1>2, <3>1
    <2>3. Fits(a) => Text(a) = <<a.host, Port(a.hi, a.lo)>>
      <3> SUFFICES ASSUME Fits(a) PROVE Text(a) = <<a.host, Port(a.hi, a.lo)>>
        OBVIOUS
      <3>1. 2 + a.len + 1 <= 255
        BY <1>1, <1>5 DEF Fits, Bytes
      <3>2. end = 2 + a.len /\ Uint8(end + 1) = 2 + a.len + 1
        BY <1>1, <3>1 DEF Uint8
      <3>3. Data(a, 2 + a.len) = a.hi /\ Data(a, 2 + a.len + 1) = a.lo
        BY <1>1 DEF Data
      <3> QED
        BY <1>1, <2>1, <3>2, <3>3
    <2>4. Text(a) # NoText => Text(a) = <<a.host, port>>
      BY <2>1
    <2>5. Text(a) # NoText => Text(a) \in Resolutions /\ Text(a)[1] = a.host
      BY <1>3, <2>2, <2>4
    <2>6. Fits(a) => Text(a) # NoText
      <3>1. Port(a.hi, a.lo) \in Nat
        BY <1>1, <1>2
      <3> QED
        BY <1>3, <2>3, <3>1
    <2> QED
      BY <2>3, <2>5, <2>6
  <1> QED
    BY <1>4, <1>5

-----------------------------------------------------------------------------
(* What the reader's steps have in common.                                 *)

\* A frame that was sent names an address.
LEMMA FrameType ==
    ASSUME TypeOK, NEW i \in 1 .. Len(sent)
    PROVE  /\ sent[i] \in Frame /\ sent[i].dst \in Dests
           /\ sent[i].dst \in WireAddr /\ sent[i].dst # NoDest
  <1>1. sent \in Seq(Frame)
    BY DEF TypeOK
  <1>2. sent[i] \in Frame
    BY <1>1
  <1> QED
    BY <1>2, ConstantsAssumption DEF Frame

\* The reader's failure keeps its count.
LEMMA FailsType ==
    ASSUME TypeOK, NEW err \in {"nil", "error"}, ReaderFails(err)
    PROVE  reader' = [pc |-> "exit", nr |-> reader.nr, err |-> err] /\ reader.nr \in Nat
  BY DEF ReaderFails, TypeOK

\* A Read that ends without data ends the reader's loop.
LEMMA StreamEndsFails ==
    ASSUME NEW atEnd, NEW errs \in SUBSET {"nil", "error"}, StreamEnds(atEnd, errs)
    PROVE  \E err \in {"nil", "error"} : ReaderFails(err)
  BY DEF StreamEnds

\* The end of the reader's loop keeps the invariant, wherever it comes.
LEMMA FailsInv ==
    ASSUME TypeOK, SessionInv, NEW err \in {"nil", "error"}, ReaderFails(err),
           reader.pc \in {"frame", "payload", "write"},
           UNCHANGED <<env, client, sent, inbox, out, dl, main>>,
           cache' \in CacheType, CacheIsText',
           faults' \subseteq {"client", "frame", "address", "send", "receive"}
    PROVE  TypeOK' /\ SessionInv'
  <1>1. /\ reader' = [pc |-> "exit", nr |-> reader.nr, err |-> err]
        /\ reader.nr \in Nat
    BY FailsType
  <1>2. reader'.pc = "exit" /\ reader'.nr = reader.nr
    BY <1>1
  <1>3. reader' \in ReaderType
    BY <1>1 DEF ReaderType
  <1>4. TypeOK'
    BY <1>3 DEF TypeOK, ReaderType, CacheType, Resolutions
  <1>5. HandOver' /\ Cached' /\ Panicked'
    BY <1>2 DEF SessionInv, HandOver, Cached, Panicked
  <1>6. Counts'
    BY <1>2 DEF SessionInv, HandOver, Counts
  <1>7. Named'
    BY DEF SessionInv, Named
  <1> QED
    BY <1>4, <1>5, <1>6, <1>7 DEF SessionInv

\* The next frame is one that was sent.
LEMMA NextFrameType ==
    ASSUME TypeOK, HasFrame
    PROVE  /\ reader.pc = "frame" /\ reader.nr \in Nat /\ Len(sent) \in Nat
           /\ reader.nr < Len(sent) /\ reader.nr + 1 \in 1 .. Len(sent)
           /\ NextFrame \in Frame /\ NextFrame.dst \in Dests
           /\ NextFrame.dst \in WireAddr /\ NextFrame.dst # NoDest
  <1>1. /\ reader.pc = "frame" /\ reader.nr < Len(sent)
        /\ reader.nr \in Nat /\ Len(sent) \in Nat
    BY DEF HasFrame, TypeOK
  <1>2. reader.nr + 1 \in 1 .. Len(sent)
    BY <1>1
  <1> QED
    BY <1>1, <1>2, FrameType DEF NextFrame

-----------------------------------------------------------------------------
(* The reader's steps.                                                     *)

LEMMA ReadFrameInv ==
    ASSUME TypeOK, SessionInv, ReadFrame
    PROVE  TypeOK' /\ SessionInv'
  <1> DEFINE f == NextFrame
  <1>1. /\ HasFrame /\ (cache.bb = f.dst \/ Text(f.dst) # NoText)
        /\ cache' = IF cache.bb = f.dst THEN cache ELSE Resolved(f.dst)
        /\ IF f.form = "badcrlf" THEN ReaderFails("error")
           ELSE reader' = [reader EXCEPT !.pc = "payload", !.nr = reader.nr + 1]
        /\ UNCHANGED <<env, client, sent, inbox, out, dl, main, faults>>
    BY DEF ReadFrame
  <1>2. /\ reader.pc = "frame" /\ reader.nr \in Nat /\ Len(sent) \in Nat
        /\ reader.nr < Len(sent) /\ f = sent[reader.nr + 1]
        /\ f.dst \in Dests /\ f.dst \in WireAddr /\ f.dst # NoDest
    BY <1>1, NextFrameType DEF NextFrame
  <1>3. cache \in CacheType /\ CacheIsText
    BY DEF TypeOK, CacheType, SessionInv, Cached
  <1>4. /\ cache'.bb = f.dst /\ cache'.tt = Text(f.dst) /\ Text(f.dst) # NoText
        /\ cache' \in CacheType
    <2>1. CASE cache.bb = f.dst
      BY <1>1, <1>2, <1>3, <2>1 DEF CacheIsText
    <2>2. CASE cache.bb # f.dst
      <3>1. cache' = [bb |-> f.dst, tt |-> Text(f.dst)] /\ Text(f.dst) # NoText
        BY <1>1, <2>2 DEF Resolved
      <3>2. Text(f.dst) \in Resolutions
        BY <1>2, <3>1, TextFacts
      <3> QED
        BY <1>2, <3>1, <3>2 DEF CacheType
    <2> QED
      BY <2>1, <2>2
  <1>5. CacheIsText'
    BY <1>4 DEF CacheIsText
  <1>6. CASE f.form = "badcrlf"
    <2>1. faults' \subseteq {"client", "frame", "address", "send", "receive"}
      BY <1>1 DEF TypeOK
    <2> QED
      BY <1>1, <1>2, <1>4, <1>5, <1>6, <2>1, FailsInv
  <1>7. CASE f.form # "badcrlf"
    <2>1. reader' = [pc |-> "payload", nr |-> reader.nr + 1, err |-> reader.err]
      BY <1>1, <1>7 DEF TypeOK
    <2>2. reader'.pc = "payload" /\ reader'.nr = reader.nr + 1
      BY <2>1
    <2>3. reader' \in ReaderType
      BY <1>2, <2>1 DEF TypeOK, ReaderType
    <2>4. TypeOK'
      BY <1>1, <1>4, <2>3 DEF TypeOK, ReaderType, CacheType, Resolutions
    <2>5. HandOver' /\ Panicked'
      BY <1>1, <1>2, <2>2 DEF SessionInv, HandOver, Panicked
    <2>6. Counts'
      BY <1>1, <1>2, <2>2 DEF SessionInv, HandOver, Counts
    <2>7. Cached'
      BY <1>1, <1>2, <1>4, <1>5, <2>2 DEF Cached
    <2>8. Named'
      BY <1>1 DEF SessionInv, Named
    <2> QED
      BY <2>4, <2>5, <2>6, <2>7, <2>8 DEF SessionInv
  <1> QED
    BY <1>6, <1>7

LEMMA ResolveFailsInv ==
    ASSUME TypeOK, SessionInv, ResolveFails
    PROVE  TypeOK' /\ SessionInv'
  <1>1. /\ HasFrame /\ ReaderFails("error") /\ faults' = faults \cup {"frame"}
        /\ UNCHANGED <<env, client, sent, inbox, out, dl, cache, main>>
    BY DEF ResolveFails
  <1>2. cache' \in CacheType /\ CacheIsText'
        /\ faults' \subseteq {"client", "frame", "address", "send", "receive"}
    BY <1>1 DEF TypeOK, CacheType, SessionInv, Cached, CacheIsText
  <1> QED
    BY <1>1, <1>2, NextFrameType, FailsInv

\* The panic leaves the count as it is, at a frame whose name does not fit.
LEMMA ResolvePanicsInv ==
    ASSUME TypeOK, SessionInv, ResolvePanics
    PROVE  TypeOK' /\ SessionInv'
  <1>1. /\ HasFrame /\ Text(NextFrame.dst) = NoText
        /\ reader' = [reader EXCEPT !.pc = "panic"]
        /\ UNCHANGED <<env, client, sent, inbox, out, dl, cache, main, faults>>
    BY DEF ResolvePanics
  <1>2. /\ reader.pc = "frame" /\ reader.nr < Len(sent)
        /\ ~Fits(sent[reader.nr + 1].dst)
    BY <1>1, NextFrameType, TextFacts DEF NextFrame
  <1>3. reader'.pc = "panic" /\ reader'.nr = reader.nr
    BY <1>1 DEF TypeOK
  <1>4. TypeOK'
    <2>1. reader' \in ReaderType
      BY <1>1 DEF TypeOK, ReaderType
    <2> QED
      BY <1>1, <2>1 DEF TypeOK, ReaderType
  <1>5. HandOver' /\ Counts'
    BY <1>1, <1>2, <1>3 DEF SessionInv, HandOver, Counts
  <1>6. Panicked'
    BY <1>1, <1>2, <1>3 DEF Panicked
  <1>7. Cached'
    BY <1>1, <1>3 DEF SessionInv, Cached, CacheIsText
  <1>8. Named'
    BY <1>1 DEF SessionInv, Named
  <1> QED
    BY <1>4, <1>5, <1>6, <1>7, <1>8 DEF SessionInv

LEMMA ReadFailsInv ==
    ASSUME TypeOK, SessionInv, ReadFrameFails \/ ReadPayloadFails
    PROVE  TypeOK' /\ SessionInv'
  <1>1. /\ reader.pc \in {"frame", "payload"}
        /\ UNCHANGED <<env, client, sent, inbox, out, dl, cache, main, faults>>
    BY DEF ReadFrameFails, ReadPayloadFails
  <1>2. PICK err \in {"nil", "error"} : ReaderFails(err)
    <2>1. CASE ReadFrameFails
      BY <2>1, StreamEndsFails DEF ReadFrameFails
    <2>2. CASE ReadPayloadFails
      BY <2>2, StreamEndsFails DEF ReadPayloadFails
    <2> QED
      BY <2>1, <2>2
  <1>3. /\ cache' \in CacheType /\ CacheIsText'
        /\ faults' \subseteq {"client", "frame", "address", "send", "receive"}
    BY <1>1 DEF TypeOK, CacheType, SessionInv, Cached, CacheIsText
  <1> QED
    BY <1>1, <1>2, <1>3, FailsInv

LEMMA WriteToFailsInv ==
    ASSUME TypeOK, SessionInv, WriteToFails
    PROVE  TypeOK' /\ SessionInv'
  <1>1. /\ reader.pc = "write" /\ UNCHANGED <<env, client, sent, inbox, out, dl, cache, main>>
        /\ faults' \in {faults, faults \cup {"send"}}
    BY DEF WriteToFails
  <1>2. PICK err \in {"nil", "error"} : ReaderFails(err)
    BY DEF WriteToFails
  <1>3. /\ cache' \in CacheType /\ CacheIsText'
        /\ faults' \subseteq {"client", "frame", "address", "send", "receive"}
    BY <1>1 DEF TypeOK, CacheType, SessionInv, Cached, CacheIsText
  <1> QED
    BY <1>1, <1>2, <1>3, FailsInv

LEMMA WriteToInv ==
    ASSUME TypeOK, SessionInv, WriteTo
    PROVE  TypeOK' /\ SessionInv'
  <1>1. /\ reader.pc = "write" /\ out' = Append(out, cache.tt)
        /\ reader' = [reader EXCEPT !.pc = "frame"]
        /\ UNCHANGED <<env, client, sent, inbox, dl, cache, main, faults>>
    BY DEF WriteTo
  <1>2. /\ reader.nr = Len(out) + 1 /\ reader.nr <= Len(sent)
        /\ cache.bb = sent[reader.nr].dst /\ main.pc \notin {"done", "dead"}
    BY <1>1 DEF SessionInv, Counts, Cached, HandOver
  <1>3. reader.nr \in 1 .. Len(sent) /\ Len(out) \in Nat
    BY <1>2 DEF TypeOK
  <1>4. cache.tt \in Resolutions /\ cache.tt = Text(sent[reader.nr].dst)
    <2>1. /\ sent[reader.nr].dst \in WireAddr /\ cache.bb # NoDest
          /\ Text(cache.bb) # NoText /\ cache.tt = Text(cache.bb)
      BY <1>2, <1>3, FrameType DEF SessionInv, Cached, CacheIsText
    <2> QED
      BY <1>2, <2>1, TextFacts
  <1>5. /\ out' \in Seq(Resolutions) /\ Len(out') = Len(out) + 1
        /\ out'[Len(out) + 1] = cache.tt
        /\ \A i \in 1 .. Len(out) : out'[i] = out[i]
    BY <1>1, <1>4 DEF TypeOK
  <1>6. reader'.pc = "frame" /\ reader'.nr = reader.nr
    BY <1>1 DEF TypeOK
  <1>7. reader' \in ReaderType
    BY <1>1 DEF TypeOK, ReaderType
  <1>8. TypeOK'
    BY <1>1, <1>5, <1>7 DEF TypeOK, ReaderType, Resolutions
  <1>9. HandOver' /\ Cached' /\ Panicked'
    BY <1>1, <1>2, <1>6
    DEF SessionInv, HandOver, Cached, CacheIsText, Panicked
  <1>10. Counts'
    BY <1>1, <1>2, <1>3, <1>5, <1>6 DEF Counts
  <1>11. Named'
    <2> SUFFICES ASSUME NEW i \in 1 .. Len(out) + 1
                 PROVE  out'[i] = Text(sent[i].dst)
      BY <1>1, <1>5 DEF Named
    <2>1. CASE i = Len(out) + 1
      BY <1>2, <1>4, <1>5, <2>1
    <2>2. CASE i # Len(out) + 1
      <3>1. i \in 1 .. Len(out)
        BY <1>3, <2>2
      <3> QED
        BY <1>5, <3>1 DEF SessionInv, Named
    <2> QED
      BY <2>1, <2>2
  <1> QED
    BY <1>8, <1>9, <1>10, <1>11 DEF SessionInv

LEMMA ReaderInv ==
    ASSUME TypeOK, SessionInv, ReaderSteps
    PROVE  TypeOK' /\ SessionInv'
  <1>1. CASE ReadPayload
    <2>1. /\ reader.pc = "payload" /\ reader' = [reader EXCEPT !.pc = "write"]
          /\ UNCHANGED <<env, client, sent, inbox, out, dl, cache, main, faults>>
      BY <1>1 DEF ReadPayload
    <2>2. reader'.pc = "write" /\ reader'.nr = reader.nr
      BY <2>1 DEF TypeOK
    <2>3. TypeOK'
      BY <2>1 DEF TypeOK
    <2> QED
      BY <2>1, <2>2, <2>3 DEF SessionInv, HandOver, Counts, Panicked, Cached, CacheIsText, Named
  <1>2. CASE ReaderExit
    <2>1. /\ reader.pc = "exit" /\ reader' = [reader EXCEPT !.pc = "send"]
          /\ dl' = [dl EXCEPT !.rcRead = "expired"]
          /\ UNCHANGED <<env, client, sent, inbox, out, cache, main, faults>>
      BY <1>2 DEF ReaderExit
    <2>2. reader'.pc = "send" /\ reader'.nr = reader.nr
      BY <2>1 DEF TypeOK
    <2>3. TypeOK'
      <3>1. reader' \in [pc : {"send"}, nr : Nat, err : {"nil", "error"}]
        BY <2>1 DEF TypeOK
      <3>2. dl' \in [rcRead : Deadline, rcWrite : Deadline, cRead : Deadline]
        BY <2>1 DEF TypeOK, Deadline
      <3> QED
        BY <2>1, <3>1, <3>2 DEF TypeOK
    <2> QED
      BY <2>1, <2>2, <2>3 DEF SessionInv, HandOver, Counts, Panicked, Cached, CacheIsText, Named
  <1> QED
    BY <1>1, <1>2, ReadFrameInv, ResolveFailsInv, ResolvePanicsInv, ReadFailsInv,
       WriteToInv, WriteToFailsInv
    DEF ReaderSteps

-----------------------------------------------------------------------------
(* main, the peers and time.                                               *)

LEMMA MainInv ==
    ASSUME TypeOK, SessionInv, Arm \/ ReadFrom \/ ReadFromOddAddr \/ ReadFromFails
                               \/ MainWrite \/ Cleanup
    PROVE  TypeOK' /\ SessionInv'
  <1>1. /\ UNCHANGED <<env, client, sent, out, reader, cache>>
        /\ main.pc \in {"arm", "read", "write", "cleanup"}
    BY DEF Arm, ReadFrom, ReadFromOddAddr, ReadFromFails, MainWrite, Cleanup
  <1>2. \/ \E pc \in {"arm", "read", "write", "wait"} : main' = [main EXCEPT !.pc = pc]
        \/ \E err \in {"timeout", "error"} : MainFails(err)
    BY DEF Arm, ReadFrom, ReadFromOddAddr, ReadFromFails, MainWrite, Cleanup
  <1>3. /\ main' \in MainType
        /\ main'.pc \notin {"done", "dead"}
    <2>1. ASSUME NEW pc \in {"arm", "read", "write", "wait"}, main' = [main EXCEPT !.pc = pc]
          PROVE  <1>3!:
      BY <2>1 DEF TypeOK, MainType
    <2>2. ASSUME NEW err \in {"timeout", "error"}, MainFails(err)
          PROVE  <1>3!:
      <3>1. main' = [pc |-> "cleanup", nr |-> main.nr, err |-> err]
        BY <2>2 DEF MainFails, TypeOK
      <3> QED
        BY <3>1 DEF TypeOK, MainType
    <2> QED
      BY <1>2, <2>1, <2>2
  <1>4. inbox' \in Nat
    BY DEF Arm, ReadFrom, ReadFromOddAddr, ReadFromFails, MainWrite, Cleanup, TypeOK
  <1>5. faults' \subseteq {"client", "frame", "address", "send", "receive"}
    BY DEF Arm, ReadFrom, ReadFromOddAddr, ReadFromFails, MainWrite, Cleanup, TypeOK
  <1>6. dl' \in [rcRead : Deadline, rcWrite : Deadline, cRead : Deadline]
    <2>1. dl.cRead \in Deadline /\ dl.rcRead \in Deadline /\ WokenClient \in Deadline
      BY DEF TypeOK, WokenClient, Deadline
    <2>2. CASE Cleanup
      <3>1. dl' = [rcRead |-> dl.rcRead, rcWrite |-> "expired", cRead |-> WokenClient]
        BY <2>2 DEF Cleanup, TypeOK
      <3> QED
        BY <2>1, <3>1 DEF Deadline
    <2>3. CASE Arm \/ ReadFrom \/ ReadFromOddAddr \/ ReadFromFails \/ MainWrite
      BY <2>1, <2>3 DEF Arm, ReadFrom, ReadFromOddAddr, ReadFromFails, MainWrite,
         Deadline, TypeOK
    <2> QED
      BY <2>2, <2>3
  <1>7. TypeOK'
    BY <1>1, <1>3, <1>4, <1>5, <1>6 DEF TypeOK, MainType
  <1> QED
    BY <1>1, <1>3, <1>7 DEF SessionInv, HandOver, Counts, Panicked, Cached, CacheIsText, Named

LEMMA AwaitResultInv ==
    ASSUME TypeOK, SessionInv, AwaitResult
    PROVE  TypeOK' /\ SessionInv'
  <1>1. /\ main.pc = "wait" /\ reader.pc = "send"
        /\ reader' = [reader EXCEPT !.pc = "done"]
        /\ main' = [pc |-> "done", nr |-> reader.nr, err |-> Result]
        /\ UNCHANGED <<env, client, sent, inbox, out, dl, cache, faults>>
    BY DEF AwaitResult
  <1>2. Result \in {"nil", "timeout", "error"}
    BY DEF Result, TypeOK
  <1>3. reader'.pc = "done" /\ reader'.nr = reader.nr /\ reader.nr \in Nat
    BY <1>1 DEF TypeOK
  <1>4. main' \in [pc : {"done"}, nr : Nat, err : {"nil", "timeout", "error"}]
        /\ main'.pc = "done" /\ main'.nr = reader.nr
    BY <1>1, <1>2, <1>3
  <1>5. TypeOK'
    BY <1>1, <1>4 DEF TypeOK
  <1> QED
    BY <1>1, <1>3, <1>4, <1>5 DEF SessionInv, HandOver, Counts, Panicked, Cached, CacheIsText, Named

\* A reader that panics hands over too, before main returns or goes down.
LEMMA AwaitPanicInv ==
    ASSUME TypeOK, SessionInv, AwaitPanic
    PROVE  TypeOK' /\ SessionInv'
  <1>1. /\ main.pc = "wait" /\ reader.pc = "panic"
        /\ reader' = [reader EXCEPT !.pc = "dead"]
        /\ \/ main' = [pc |-> "done", nr |-> reader.nr, err |-> Result]
           \/ main' = [main EXCEPT !.pc = "dead"]
        /\ UNCHANGED <<env, client, sent, inbox, out, dl, cache, faults>>
    BY DEF AwaitPanic
  <1>2. Result \in {"nil", "timeout", "error"}
    BY DEF Result, TypeOK
  <1>3. reader'.pc = "dead" /\ reader'.nr = reader.nr /\ reader.nr \in Nat
    BY <1>1 DEF TypeOK
  <1>4. /\ main' \in MainType
        /\ \/ main'.pc = "done" /\ main'.nr = reader.nr
           \/ main'.pc = "dead"
    BY <1>1, <1>2, <1>3 DEF TypeOK, MainType
  <1>5. TypeOK'
    BY <1>1, <1>4 DEF TypeOK, MainType
  <1>6. HandOver' /\ Panicked'
    BY <1>1, <1>3, <1>4 DEF SessionInv, HandOver, Panicked
  <1>7. Counts'
    BY <1>1, <1>3, <1>4 DEF SessionInv, Counts
  <1> QED
    BY <1>1, <1>3, <1>5, <1>6, <1>7 DEF SessionInv, Cached, CacheIsText, Named

LEMMA ClientSendsInv ==
    ASSUME TypeOK, SessionInv, ClientSends
    PROVE  TypeOK' /\ SessionInv'
  <1>1. PICK f \in Frame : /\ sent' = Append(sent, f)
                           /\ faults' \in {faults, faults \cup {"frame"}}
    BY DEF ClientSends
  <1>2. UNCHANGED <<env, client, inbox, out, dl, reader, cache, main>>
    BY DEF ClientSends
  <1>3. /\ sent \in Seq(Frame) /\ sent' \in Seq(Frame) /\ Len(sent) \in Nat
        /\ Len(sent') = Len(sent) + 1
        /\ \A i \in 1 .. Len(sent) : sent'[i] = sent[i]
    BY <1>1 DEF TypeOK
  <1>4. TypeOK'
    BY <1>1, <1>2, <1>3 DEF TypeOK
  <1>5. reader.nr \in Nat /\ Len(out) \in Nat
    BY DEF TypeOK
  <1>6. HandOver' /\ Counts'
    BY <1>2, <1>3, <1>5 DEF SessionInv, HandOver, Counts
  <1>7. Cached'
    <2>1. reader.pc \in {"payload", "write"} => reader.nr \in 1 .. Len(sent)
      BY <1>3, <1>5 DEF SessionInv, Counts
    <2> QED
      BY <1>2, <1>3, <2>1 DEF SessionInv, Cached, CacheIsText
  <1>8. Panicked'
    <2>1. reader.pc \in {"panic", "dead"} => reader.nr + 1 \in 1 .. Len(sent)
      BY <1>3, <1>5 DEF SessionInv, Panicked
    <2> QED
      BY <1>2, <1>3, <1>5, <2>1 DEF SessionInv, Panicked
  <1>9. Named'
    <2>1. Len(out) <= Len(sent)
      BY <1>3, <1>5 DEF SessionInv, Counts
    <2>2. \A i \in 1 .. Len(out) : i \in 1 .. Len(sent)
      BY <1>3, <1>5, <2>1
    <2> QED
      BY <1>2, <1>3, <2>2 DEF SessionInv, Named
  <1> QED
    BY <1>4, <1>6, <1>7, <1>8, <1>9 DEF SessionInv

LEMMA OutsideInv ==
    ASSUME TypeOK, SessionInv,
           ClientEnds \/ ClientResets \/ RemoteSends \/ Expire \/ UNCHANGED vars
    PROVE  TypeOK' /\ SessionInv'
  <1>1. UNCHANGED <<env, sent, out, reader, cache, main>>
    BY DEF ClientEnds, ClientResets, RemoteSends, Expire, vars
  <1>2. TypeOK'
    BY DEF ClientEnds, ClientResets, RemoteSends, Expire, vars, TypeOK, Deadline
  <1> QED
    BY <1>1, <1>2 DEF SessionInv, HandOver, Counts, Panicked, Cached, CacheIsText, Named

-----------------------------------------------------------------------------
(* The theorems.                                                           *)

LEMMA Inductive == Spec => [](TypeOK /\ SessionInv)
  <1>1. Init => TypeOK /\ SessionInv
    BY DEF Init, TypeOK, Deadline, SessionInv, HandOver, Counts, Panicked, Cached,
       CacheIsText, Named
  <1>2. TypeOK /\ SessionInv /\ [Next]_vars => (TypeOK /\ SessionInv)'
    BY ReaderInv, MainInv, AwaitResultInv, AwaitPanicInv, ClientSendsInv, OutsideInv
       DEF Next, ReaderSteps
  <1> QED
    BY <1>1, <1>2, PTL DEF Spec

\* The session's state keeps its types for any addresses and numbers of frames.
THEOREM TypeCorrect == Spec => []TypeOK
  BY Inductive, PTL

\* HandleUDP returns, and frees its buffers, only after the reader's hand-over,
\* also when the reader panics.
THEOREM NoUseAfterFree == Spec => []BuffersOutliveReader
  <1>1. TypeOK /\ SessionInv => BuffersOutliveReader
    BY DEF SessionInv, HandOver, BuffersOutliveReader
  <1> QED
    BY <1>1, Inductive, PTL

\* Every datagram goes to the host that its own frame names, for any sequence of
\* wire addresses, cached, replaced and used again, and to that frame's port unless
\* the name is too long for the byte arithmetic of Addr.String.
THEOREM SentAsNamed == Spec => []DestinationIsNamed
  <1>1. TypeOK /\ SessionInv => DestinationIsNamed
    <2> SUFFICES ASSUME TypeOK, SessionInv PROVE DestinationIsNamed
      OBVIOUS
    <2>1. Len(out) \in Nat /\ Len(sent) \in Nat /\ reader.nr \in Nat
      BY DEF TypeOK
    <2>2. Len(out) <= Len(sent)
      BY <2>1 DEF SessionInv, Counts
    <2>3. ASSUME NEW i \in 1 .. Len(out)
          PROVE  /\ out[i][1] = sent[i].dst.host
                 /\ Fits(sent[i].dst) => out[i][2] = Port(sent[i].dst.hi, sent[i].dst.lo)
      <3>1. i \in 1 .. Len(sent) /\ out[i] \in Resolutions
        BY <2>1, <2>2 DEF TypeOK
      <3>2. out[i] = Text(sent[i].dst) /\ sent[i].dst \in WireAddr
        BY <3>1, FrameType DEF SessionInv, Named
      <3>3. out[i] # NoText
        BY <3>1, TextAssumption DEF Resolutions
      <3>4. out[i][1] = sent[i].dst.host
        BY <3>2, <3>3, TextFacts
      <3>5. Fits(sent[i].dst)
                => out[i] = <<sent[i].dst.host, Port(sent[i].dst.hi, sent[i].dst.lo)>>
        BY <3>2, TextFacts
      <3> QED
        BY <3>4, <3>5
    <2> QED
      BY <2>2, <2>3 DEF DestinationIsNamed
  <1> QED
    BY <1>1, Inductive, PTL

\* The upload traffic returned is that of the datagrams sent, and of one more at
\* most; only a frame whose name does not fit ends a session without a return.
THEOREM UplinkAsSent == Spec => []UplinkIsBilled
  <1>1. TypeOK /\ SessionInv => UplinkIsBilled
    <2> SUFFICES ASSUME TypeOK, SessionInv PROVE UplinkIsBilled
      OBVIOUS
    <2>1. Len(out) \in Nat /\ Len(sent) \in Nat /\ reader.nr \in Nat
      BY DEF TypeOK
    <2>2. main.pc = "done" => main.nr - Len(out) \in {0, 1}
      BY <2>1 DEF SessionInv, Counts
    <2>3. main.pc = "dead" => \E i \in DOMAIN sent : ~Fits(sent[i].dst)
      <3> SUFFICES ASSUME main.pc = "dead" PROVE \E i \in DOMAIN sent : ~Fits(sent[i].dst)
        OBVIOUS
      <3>1. reader.nr < Len(sent) /\ ~Fits(sent[reader.nr + 1].dst)
        BY DEF SessionInv, HandOver, Panicked
      <3>2. reader.nr + 1 \in DOMAIN sent
        BY <2>1, <3>1 DEF TypeOK
      <3> QED
        BY <3>1, <3>2
    <2> QED
      BY <2>2, <2>3 DEF UplinkIsBilled
  <1> QED
    BY <1>1, Inductive, PTL

-----------------------------------------------------------------------------
(* Errors.                                                                 *)

\* Nothing is wrong without a fault that is to blame for it.
Blamed ==
    faults = {} =>
        /\ client # "reset"
        /\ \A i \in 1 .. Len(sent) : sent[i].form = "whole"
        /\ reader.err = "nil"
        /\ main.err # "error"

\* main's own deadline is not a result.
NoTimeoutLeft == main.pc = "done" => main.err # "timeout"

\* What a step keeps of the invariant when it changes no error.
LEMMA BlamedKept ==
    ASSUME TypeOK, Blamed, NoTimeoutLeft, faults \subseteq faults',
           client' = client \/ client' # "reset", sent' = sent,
           reader'.err = reader.err, main'.err = main.err, main'.pc # "done" \/ main' = main
    PROVE  Blamed' /\ NoTimeoutLeft'
  BY DEF Blamed, NoTimeoutLeft

LEMMA BlamedReader ==
    ASSUME TypeOK, SessionInv, Blamed, NoTimeoutLeft, ReaderSteps
    PROVE  Blamed' /\ NoTimeoutLeft'
  <1>1. UNCHANGED <<client, sent, main>> /\ faults \subseteq faults'
    BY DEF ReaderSteps, ReadFrame, ResolveFails, ResolvePanics, ReadFrameFails,
       ReadPayload, ReadPayloadFails, WriteTo, WriteToFails, ReaderExit
  <1>2. NoTimeoutLeft'
    BY <1>1 DEF NoTimeoutLeft
  <1>3. ASSUME faults' = {} PROVE reader'.err = "nil"
    <2>1. faults = {}
      BY <1>1, <1>3
    <2>2. /\ client # "reset" /\ reader.err = "nil"
          /\ \A i \in 1 .. Len(sent) : sent[i].form = "whole"
      BY <2>1 DEF Blamed
    <2>3. CASE ReadFrame
      <3>1. reader.nr + 1 \in 1 .. Len(sent)
        BY <2>3, NextFrameType DEF ReadFrame
      <3>2. NextFrame.form = "whole"
        BY <2>2, <3>1 DEF NextFrame
      <3>3. reader' = [reader EXCEPT !.pc = "payload", !.nr = reader.nr + 1]
        BY <1>3, <2>3, <3>2 DEF ReadFrame
      <3> QED
        BY <2>2, <3>3 DEF TypeOK
    <2>4. CASE ReadFrameFails
      <3>1. \E err \in {"nil"} : ReaderFails(err)
        BY <2>2, <2>4 DEF ReadFrameFails, StreamEnds
      <3> QED
        BY <3>1, FailsType
    <2>5. CASE ReadPayloadFails
      <3>1. reader.nr \in 1 .. Len(sent)
        BY <2>5 DEF ReadPayloadFails, SessionInv, Counts, TypeOK
      <3>2. sent[reader.nr].form # "cut"
        BY <2>2, <3>1
      <3>3. ReaderFails("nil")
        BY <2>2, <2>5, <3>2 DEF ReadPayloadFails, StreamEnds
      <3> QED
        BY <3>3, FailsType
    <2>6. CASE WriteToFails
      <3>1. ReaderFails("nil")
        BY <1>3, <2>6 DEF WriteToFails
      <3> QED
        BY <3>1, FailsType
    <2>7. CASE ResolvePanics \/ ReadPayload \/ WriteTo \/ ReaderExit
      BY <2>2, <2>7 DEF ResolvePanics, ReadPayload, WriteTo, ReaderExit, TypeOK
    <2>8. ~ResolveFails
      BY <1>3 DEF ResolveFails
    <2> QED
      BY <2>3, <2>4, <2>5, <2>6, <2>7, <2>8 DEF ReaderSteps
  <1> QED
    BY <1>1, <1>2, <1>3 DEF Blamed

LEMMA BlamedMain ==
    ASSUME TypeOK, Blamed, NoTimeoutLeft,
           Arm \/ ReadFrom \/ ReadFromOddAddr \/ ReadFromFails \/ MainWrite \/ Cleanup
    PROVE  Blamed' /\ NoTimeoutLeft'
  <1>1. UNCHANGED <<client, sent, reader>> /\ faults \subseteq faults'
    BY DEF Arm, ReadFrom, ReadFromOddAddr, ReadFromFails, MainWrite, Cleanup
  <1>2. \/ \E pc \in {"arm", "read", "write", "wait"} : main' = [main EXCEPT !.pc = pc]
        \/ MainFails("timeout")
        \/ MainFails("error") /\ (client = "reset" \/ faults' # {})
    BY DEF Arm, ReadFrom, ReadFromOddAddr, ReadFromFails, MainWrite, Cleanup
  <1>3. /\ main'.pc # "done"
        /\ main'.err = "error" => main.err = "error" \/ client = "reset" \/ faults' # {}
    <2>1. CASE \E pc \in {"arm", "read", "write", "wait"} : main' = [main EXCEPT !.pc = pc]
      BY <2>1 DEF TypeOK
    <2>2. ASSUME NEW err \in {"timeout", "error"}, MainFails(err)
          PROVE  main' = [pc |-> "cleanup", nr |-> main.nr, err |-> err]
      BY <2>2 DEF MainFails, TypeOK
    <2> QED
      BY <1>2, <2>1, <2>2
  <1> QED
    BY <1>1, <1>3 DEF Blamed, NoTimeoutLeft

LEMMA BlamedRest ==
    ASSUME TypeOK, Blamed, NoTimeoutLeft,
           \/ AwaitResult \/ AwaitPanic \/ ClientSends \/ ClientEnds \/ ClientResets
           \/ RemoteSends \/ Expire \/ UNCHANGED vars
    PROVE  Blamed' /\ NoTimeoutLeft'
  <1>1. CASE AwaitResult \/ AwaitPanic
    <2>1. /\ UNCHANGED <<client, sent, faults>>
          /\ \E pc \in {"done", "dead"} : reader' = [reader EXCEPT !.pc = pc]
          /\ \/ main' = [pc |-> "done", nr |-> reader.nr, err |-> Result]
             \/ main' = [main EXCEPT !.pc = "dead"]
      BY <1>1 DEF AwaitResult, AwaitPanic
    <2>2. Result # "timeout" /\ (Result = "error" => reader.err = "error" \/ main.err = "error")
      BY DEF Result, TypeOK
    <2>3. reader'.err = reader.err
      BY <2>1 DEF TypeOK
    <2>4. main'.err = Result \/ (main'.pc = "dead" /\ main'.err = main.err)
      <3>1. CASE main' = [main EXCEPT !.pc = "dead"]
        BY <3>1 DEF TypeOK
      <3> QED
        BY <2>1, <3>1
    <2> QED
      BY <2>1, <2>2, <2>3, <2>4 DEF Blamed, NoTimeoutLeft
  <1>2. CASE ClientSends
    <2>1. PICK f \in Frame :
            /\ sent' = Append(sent, f)
            /\ faults' = IF f.form = "whole" THEN faults ELSE faults \cup {"frame"}
      BY <1>2 DEF ClientSends
    <2>2. UNCHANGED <<client, reader, main>>
      BY <1>2 DEF ClientSends
    <2>3. /\ sent \in Seq(Frame) /\ Len(sent) \in Nat
          /\ Len(sent') = Len(sent) + 1 /\ sent'[Len(sent) + 1] = f
          /\ \A i \in 1 .. Len(sent) : sent'[i] = sent[i]
      BY <2>1 DEF TypeOK
    <2>4. ASSUME faults' = {}, NEW i \in 1 .. Len(sent') PROVE sent'[i].form = "whole"
      <3>1. faults = {} /\ f.form = "whole"
        BY <2>1, <2>4
      <3>2. i \in 1 .. Len(sent) \/ i = Len(sent) + 1
        BY <2>3
      <3> QED
        BY <2>3, <3>1, <3>2 DEF Blamed
    <2>5. faults' = {} => faults = {}
      BY <2>1
    <2> QED
      BY <2>2, <2>4, <2>5 DEF Blamed, NoTimeoutLeft
  <1>3. CASE ClientResets
    BY <1>3 DEF ClientResets, Blamed, NoTimeoutLeft
  <1>4. CASE ClientEnds \/ RemoteSends \/ Expire \/ UNCHANGED vars
    BY <1>4, BlamedKept DEF ClientEnds, RemoteSends, Expire, vars
  <1> QED
    BY <1>1, <1>2, <1>3, <1>4

\* A session without a fault returns no error: the deadlines that the goroutines
\* set for each other are never reported, however the session ends.
THEOREM CleanEnds == Spec => []CleanEndIsNil
  <1>1. Init => Blamed /\ NoTimeoutLeft
    BY DEF Init, Blamed, NoTimeoutLeft
  <1>2. TypeOK /\ SessionInv /\ Blamed /\ NoTimeoutLeft /\ [Next]_vars
            => (Blamed /\ NoTimeoutLeft)'
    BY BlamedReader, BlamedMain, BlamedRest DEF Next, ReaderSteps
  <1>3. TypeOK /\ Blamed /\ NoTimeoutLeft => CleanEndIsNil
    BY DEF TypeOK, Blamed, NoTimeoutLeft, CleanEndIsNil
  <1> QED
    BY <1>1, <1>2, <1>3, Inductive, PTL DEF Spec

-----------------------------------------------------------------------------
(* HandleUDP is a tunnel as Request takes it to be.                        *)

\* What HandleUDP returns, once it has: the download is never counted.
Returned == IF main.pc = "done" THEN <<[up |-> main.nr, down |-> 0]>> ELSE <<>>

Abstract == INSTANCE Tunnel WITH up <- reader.nr, down <- 0, results <- Returned

\* Only a frame that is taken counts, and neither main nor the hand-over does.
LEMMA CountedStep ==
    ASSUME TypeOK, SessionInv, [Next]_vars
    PROVE  \/ reader'.nr = reader.nr
           \/ ReadFrame /\ reader'.nr = reader.nr + 1 /\ main' = main
  <1>0. DOMAIN reader = {"pc", "nr", "err"}
    BY DEF TypeOK
  <1>1. CASE ReadFrame
    <2>1. UNCHANGED main
      BY <1>1 DEF ReadFrame
    <2>2. \/ ReaderFails("error")
          \/ reader' = [reader EXCEPT !.pc = "payload", !.nr = reader.nr + 1]
      BY <1>1 DEF ReadFrame
    <2> QED
      BY <1>0, <1>1, <2>1, <2>2 DEF ReaderFails
  <1>2. CASE \/ ResolveFails \/ ResolvePanics \/ AwaitPanic \/ ReadFrameFails \/ ReadPayload \/ ReadPayloadFails \/ WriteTo
             \/ WriteToFails \/ ReaderExit \/ AwaitResult
    BY <1>0, <1>2
    DEF ResolveFails, ResolvePanics, AwaitPanic, ReadFrameFails, ReadPayload,
        ReadPayloadFails, WriteTo, WriteToFails, ReaderExit, AwaitResult, StreamEnds,
        ReaderFails
  <1>3. CASE \/ Arm \/ ReadFrom \/ ReadFromOddAddr \/ ReadFromFails \/ MainWrite
             \/ Cleanup \/ ClientSends \/ ClientEnds \/ ClientResets \/ RemoteSends
             \/ Expire \/ UNCHANGED vars
    BY <1>3
    DEF Arm, ReadFrom, ReadFromOddAddr, ReadFromFails, MainWrite, Cleanup, ClientSends,
        ClientEnds, ClientResets, RemoteSends, Expire, vars
  <1> QED
    BY <1>1, <1>2, <1>3 DEF Next

\* When main has returned, its result stands and nothing more is counted.
LEMMA ReturnedStays ==
    ASSUME TypeOK, SessionInv, [Next]_vars, main.pc = "done"
    PROVE  main' = main /\ reader'.nr = reader.nr
  <1>1. reader.pc \in {"done", "dead"}
    BY DEF SessionInv, HandOver
  <1>2. main' = main
    BY <1>1
    DEF Next, vars, ReadFrame, ResolveFails, ResolvePanics, ReadFrameFails, ReadPayload,
        ReadPayloadFails, WriteTo, WriteToFails, ReaderExit, Arm, ReadFrom,
        ReadFromOddAddr, ReadFromFails, MainWrite, Cleanup, AwaitResult, AwaitPanic,
        ClientSends, ClientEnds, ClientResets, RemoteSends, Expire
  <1> QED
    BY <1>1, <1>2, CountedStep DEF ReadFrame, HasFrame

\* HandleUDP implements Tunnel: frames are counted one by one, it returns once, with
\* the count that the reader goroutine has reached by then, on every way out, and
\* nothing is counted behind its return, when the bill has been made.
THEOREM IsATunnel == Spec => Abstract!Spec
  <1>1. Init => Abstract!Init
    BY DEF Init, Abstract!Init, Returned
  <1>2. TypeOK /\ SessionInv /\ [Next]_vars
          => [Abstract!Next]_<<reader.nr, 0, Returned>>
    <2> SUFFICES ASSUME TypeOK, SessionInv, [Next]_vars
                 PROVE  Abstract!Next \/ (reader'.nr = reader.nr /\ Returned' = Returned)
      OBVIOUS
    <2>1. CASE main.pc = "done"
      BY <2>1, ReturnedStays DEF Returned
    <2>2. CASE main.pc # "done" /\ main'.pc # "done"
      <3>1. Returned = <<>> /\ Returned' = <<>>
        BY <2>2 DEF Returned
      <3> QED
        BY <3>1, CountedStep DEF Abstract!Next, Abstract!MoveUp, Abstract!Running
    <2>3. CASE main.pc # "done" /\ main'.pc = "done"
      <3>1. AwaitResult \/ AwaitPanic
        <4>1. DOMAIN main = {"pc", "nr", "err"}
          BY DEF TypeOK
        <4> QED
          BY <2>3, <4>1
          DEF Next, vars, ReadFrame, ResolveFails, ResolvePanics, ReadFrameFails,
              ReadPayload, ReadPayloadFails, WriteTo, WriteToFails, ReaderExit, Arm,
              ReadFrom, ReadFromOddAddr, ReadFromFails, MainWrite, MainFails, Cleanup,
              ClientSends, ClientEnds, ClientResets, RemoteSends, Expire
      <3>2. main'.nr = reader.nr
        <4>1. main' # [main EXCEPT !.pc = "dead"]
          BY <2>3 DEF TypeOK
        <4> QED
          BY <3>1, <4>1 DEF AwaitResult, AwaitPanic
      <3>3. reader'.nr = reader.nr
        BY <3>1, CountedStep DEF AwaitResult, AwaitPanic, ReadFrame, HasFrame
      <3>4. Returned = <<>> /\ Returned' = <<[up |-> reader.nr, down |-> 0]>>
        BY <2>3, <3>2 DEF Returned
      <3> QED
        BY <3>3, <3>4 DEF Abstract!Next, Abstract!End, Abstract!Running
    <2> QED
      BY <2>1, <2>2, <2>3
  <1> QED
    BY <1>1, <1>2, Inductive, PTL DEF Spec, Abstract!Spec

-----------------------------------------------------------------------------
(* Nobody waits for what nothing wakes.                                    *)

\* main never blocks in ReadFrom without a deadline, and when it waits for the
\* reader's result, the reader's WriteTo and, if the client's connection can have
\* one, its Read have an expired deadline.
NoEndlessWait ==
    /\ main.pc = "read" => dl.rcRead # "none"
    /\ main.pc = "wait" =>
           dl.rcWrite = "expired" /\ (env.wakeable => dl.cRead = "expired")

LEMMA WaitNext ==
    ASSUME TypeOK, NoEndlessWait, [Next]_vars
    PROVE  NoEndlessWait'
  <1>0. /\ DOMAIN dl = {"rcRead", "rcWrite", "cRead"}
        /\ DOMAIN main = {"pc", "nr", "err"}
    BY DEF TypeOK
  <1>1. CASE ReaderSteps
    <2>1. /\ UNCHANGED <<env, main>> /\ dl'.rcWrite = dl.rcWrite /\ dl'.cRead = dl.cRead
          /\ dl'.rcRead \in {dl.rcRead, "expired"}
      BY <1>0, <1>1
      DEF ReaderSteps, ReadFrame, ResolveFails, ResolvePanics, ReadFrameFails,
          ReadPayload, ReadPayloadFails, WriteTo, WriteToFails, ReaderExit
    <2> QED
      BY <2>1 DEF NoEndlessWait
  <1>2. CASE Arm
    BY <1>0, <1>2 DEF Arm, NoEndlessWait
  <1>3. CASE \/ ReadFrom \/ ReadFromOddAddr \/ ReadFromFails \/ MainWrite
             \/ AwaitResult \/ AwaitPanic
    <2>1. \A err : MainFails(err) => main'.pc = "cleanup"
      BY <1>0 DEF MainFails
    <2>2. CASE ReadFrom \/ ReadFromOddAddr \/ ReadFromFails
      BY <1>0, <2>1, <2>2 DEF ReadFrom, ReadFromOddAddr, ReadFromFails, NoEndlessWait
    <2>3. CASE MainWrite
      BY <1>0, <2>1, <2>3 DEF MainWrite, NoEndlessWait
    <2>4. CASE AwaitResult \/ AwaitPanic
      BY <1>0, <2>4 DEF AwaitResult, AwaitPanic, NoEndlessWait
    <2> QED
      BY <1>3, <2>2, <2>3, <2>4
  <1>4. CASE Cleanup
    BY <1>0, <1>4 DEF Cleanup, WokenClient, NoEndlessWait
  <1>5. CASE ClientSends \/ ClientEnds \/ ClientResets \/ RemoteSends \/ UNCHANGED vars
    BY <1>5 DEF ClientSends, ClientEnds, ClientResets, RemoteSends, vars, NoEndlessWait
  <1>6. CASE Expire
    BY <1>0, <1>6 DEF Expire, NoEndlessWait
  <1> QED
    BY <1>1, <1>2, <1>3, <1>4, <1>5, <1>6 DEF Next, ReaderSteps

\* main is never blocked for good: ReadFrom always has a deadline, in every round
\* and whatever the reader has set, and the wait for the reader's result has
\* interrupted the reader first.
THEOREM WaitsAreBounded == Spec => []NoEndlessWait
  <1>1. Init => NoEndlessWait
    BY DEF Init, NoEndlessWait
  <1>2. TypeOK /\ NoEndlessWait /\ [Next]_vars => NoEndlessWait'
    BY WaitNext
  <1> QED
    BY <1>1, <1>2, TypeCorrect, PTL DEF Spec
=============================================================================
