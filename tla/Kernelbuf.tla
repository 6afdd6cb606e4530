------------------------------ MODULE Kernelbuf ------------------------------
(***************************************************************************)
(* The legacy socket transport of src/factory: one Remote_Rserver (node A) *)
(* writes kernels through basic_okernelbuf (src/factory/ext/kernelbuf.hh), *)
(* which frames every packet with a size field, and its poll callback     *)
(* flushes them when the socket is writable; the peer (node B) fills its  *)
(* input stream from the socket and parses it with Kernel_packet::read    *)
(* (src/factory/socket_server.hh).                                         *)
(*                                                                         *)
(* Bytes are numbers in 0..ByteBase-1 and the size field is HdrSize bytes *)
(* in network (big-endian) order, as sysx::Bytes writes it; the code has  *)
(* four bytes of base 256.  A kernel serialises to the bytes Payload[k].  *)
(* The base stream buffer writes its put area whole or not at all         *)
(* (EAGAIN); partial writes are the subject of the Fildesbuf module.      *)
(***************************************************************************)
EXTENDS Naturals, Sequences, SequencesExt

CONSTANTS
    Kernel,         \* the kernels A sends, each once
    Payload,        \* Payload[k]: the bytes k's type id and body serialise to
    ByteBase,       \* the values of a byte
    HdrSize,        \* sizeof(Packet_size)
    PeerTraffic     \* whether B also sends to A, so that A gets In events

ASSUME /\ ByteBase \in Nat \ {0, 1} /\ HdrSize \in Nat \ {0}
       /\ Payload \in [Kernel -> Seq(0..ByteBase-1) \ {<<>>}]
       /\ PeerTraffic \in BOOLEAN

VARIABLES
    obuf,       \* A's basic_okernelbuf: [state, beg (_begin), pbuf (put area)]
    armed,      \* A's socket is polled for Out (_poller[fd]->writing())
    inbound,    \* data from B is waiting on A's socket
    pipe,       \* bytes A has written to the socket and B has not read
    wcount,     \* how many bytes A has written to the socket
    ipkt,       \* B's Kernel_packet and Foreign_stream: [st, size, in]
    sent,       \* the kernels A's send() has written, in order
    received    \* the payloads B's Kernel_packet::read has completed

vars == <<obuf, armed, inbound, pipe, wcount, ipkt, sent, received>>

Byte == 0..ByteBase-1

\* The packet size field wraps like uint32_t.
SizeMod == ByteBase ^ HdrSize

\* sysx::Bytes<size_type>(s).to_network_format(): most significant first.
Enc(s) == [i \in 1..HdrSize |-> (s \div ByteBase ^ (HdrSize - i)) % ByteBase]

\* The size read back from HdrSize bytes in network order.
RECURSIVE Dec(_)
Dec(bs) == IF bs = <<>> THEN 0 ELSE Dec(Front(bs)) * ByteBase + Last(bs)

\* Write the bytes bs over seq from offset at (seekpos, then xsputn).
Patch(seq, at, bs) ==
    [i \in 1..Len(seq) |-> IF at < i /\ i <= at + Len(bs) THEN bs[i - at] ELSE seq[i]]

-----------------------------------------------------------------------------
(* basic_okernelbuf over its base stream buffer.                           *)

\* What the base sync() may write of m bytes: all, or nothing (-1).
SyncResult(m) == IF m = 0 THEN {0} ELSE {-1, m}

\* begin_packet(), called by xsputn before the bytes are written: a
\* finalised packet starts a new one; a new packet records _begin and
\* writes a size of 0 as a placeholder.
BeginPacket(w) ==
    LET st == IF w.state = "FINALISING" THEN "WRITING_SIZE" ELSE w.state
    IN  IF st = "WRITING_SIZE"
        THEN [state |-> "WRITING_PAYLOAD", beg |-> Len(w.pbuf),
              pbuf |-> w.pbuf \o Enc(0)]
        ELSE [w EXCEPT !.state = st]

\* Mutant: end_packet() writes the payload's size, not the packet's.
EndPacketPayloadSize(w) ==
    IF w.state = "WRITING_PAYLOAD"
    THEN LET s == Len(w.pbuf) - w.beg
         IN  [w EXCEPT !.state = "FINALISING",
                       !.pbuf = IF s = HdrSize THEN SubSeq(w.pbuf, 1, w.beg)
                                ELSE Patch(w.pbuf, w.beg, Enc(s - HdrSize))]
    ELSE w

\* end_packet(): the packet's size s counts the size field; an empty
\* packet is taken back with pbump(-s), otherwise s is written over the
\* placeholder at _begin.
EndPacket(w) ==
    IF w.state = "WRITING_PAYLOAD"
    THEN LET s == Len(w.pbuf) - w.beg
         IN  [w EXCEPT !.state = "FINALISING",
                       !.pbuf = IF s = HdrSize THEN SubSeq(w.pbuf, 1, w.beg)
                                ELSE Patch(w.pbuf, w.beg, Enc(s % SizeMod))]
    ELSE w

\* finalise(): only a finalised packet is written, by the base sync(),
\* which writes n bytes; the state returns to WRITING_SIZE when all of
\* them were written.  Anything else returns -1.
Finalise(w, n) ==
    IF w.state = "FINALISING"
    THEN [buf |-> [w EXCEPT !.state = IF n = Len(w.pbuf) THEN "WRITING_SIZE" ELSE @,
                            !.pbuf = IF n > 0 THEN SubSeq(w.pbuf, n + 1, Len(w.pbuf)) ELSE @],
          wrote |-> IF n > 0 THEN SubSeq(w.pbuf, 1, n) ELSE <<>>,
          ret |-> IF n = Len(w.pbuf) THEN 0 ELSE -1]
    ELSE [buf |-> w, wrote |-> <<>>, ret |-> -1]

\* sync(): finalise() and then end_packet(), so the first flush of a
\* packet only frames it and the next one writes it.
KSync(w, n) ==
    LET f == Finalise(w, n)
    IN  [f EXCEPT !.buf = EndPacket(f.buf)]

-----------------------------------------------------------------------------
(* Node A: Remote_Rserver and its Socket_server.                           *)

\* Kernel_packet::write(): the type id and the kernel go through xsputn,
\* and so begin_packet(), then out.flush() calls sync(), which only
\* frames the packet, as finalise() has nothing finalised to write.
WritePacket(w, k) ==
    LET b == BeginPacket(w)
    IN  KSync([b EXCEPT !.pbuf = @ \o Payload[k]], -1).buf

\* process_kernels() pops kernel k for the upstream server: send(k)
\* writes its packet, then _poller[fd]->writing() arms Out.
Send(k) ==
    /\ k \notin ToSet(sent)
    /\ obuf' = WritePacket(obuf, k)
    /\ armed' = TRUE
    /\ sent' = Append(sent, k)
    /\ UNCHANGED <<inbound, pipe, wcount, ipkt, received>>

\* Node B writes to A's socket.
PeerSends ==
    /\ PeerTraffic /\ ~inbound
    /\ inbound' = TRUE
    /\ UNCHANGED <<obuf, armed, pipe, wcount, ipkt, sent, received>>

\* process_event()'s on_overflow: Out again after an overflow, otherwise
\* the events become DEFAULT_EVENTS (Hup | In).
ProcessEvent(overflow) == armed' = overflow

\* The poller reports an event on A's socket, In when B's data is there,
\* Out when writing is armed and the socket accepts data, and
\* process_event() runs handle_event(): the reading part takes B's data;
\* the writing part flushes the stream (sync(), whose base sync() writes
\* n bytes), and a failed flush is an overflow.
HandleEvent(in, out, n) ==
    /\ in \/ out
    /\ in => inbound
    /\ out => armed
    /\ n \in SyncResult(Len(obuf.pbuf))
    /\ inbound' = (inbound /\ ~in)
    /\ IF out
       THEN LET r == KSync(obuf, n)
            IN  /\ obuf' = r.buf
                /\ pipe' = pipe \o r.wrote
                /\ wcount' = wcount + Len(r.wrote)
                /\ ProcessEvent(r.ret # 0)
       ELSE /\ ProcessEvent(FALSE)
            /\ UNCHANGED <<obuf, pipe, wcount>>
    /\ UNCHANGED <<ipkt, sent, received>>

-----------------------------------------------------------------------------
(* Node B: handle_event's reading part with Kernel_packet::read.           *)

\* The packet size counts the size field; payloadsize() is unsigned.
PayloadSize(size) == (size - HdrSize) % SizeMod

\* Mutant: read() returns after reading the size, not trying the payload.
PacketReadSizeOnly(r) ==
    IF r.st = "READING_SIZE" /\ HdrSize <= Len(r.in)
    THEN [r EXCEPT !.size = Dec(SubSeq(r.in, 1, HdrSize)),
                   !.in = SubSeq(r.in, HdrSize + 1, Len(r.in)),
                   !.st = "READING_PACKET"]
    ELSE IF r.st = "READING_PACKET" /\ PayloadSize(r.size) <= Len(r.in)
    THEN LET p == PayloadSize(r.size)
         IN  [r EXCEPT !.got = Append(@, SubSeq(r.in, 1, p)),
                       !.in = SubSeq(r.in, p + 1, Len(r.in)),
                       !.st = "COMPLETE"]
    ELSE r

\* Kernel_packet::read(): with the size field complete, read it; then,
\* with the whole payload there, read the kernel (read_and_send_object
\* takes payloadsize() bytes).  r.got collects the payloads read.
PacketRead(r) ==
    LET r1 == IF r.st = "READING_SIZE" /\ HdrSize <= Len(r.in)
              THEN [r EXCEPT !.size = Dec(SubSeq(r.in, 1, HdrSize)),
                             !.in = SubSeq(r.in, HdrSize + 1, Len(r.in)),
                             !.st = "READING_PACKET"]
              ELSE r
        p == PayloadSize(r1.size)
    IN  IF r1.st = "READING_PACKET" /\ p <= Len(r1.in)
        THEN [r1 EXCEPT !.got = Append(@, SubSeq(r1.in, 1, p)),
                        !.in = SubSeq(r1.in, p + 1, Len(r1.in)),
                        !.st = "COMPLETE"]
        ELSE r1

\* reset_reading_state().
ResetReadingState(r) == [r EXCEPT !.st = "READING_SIZE", !.size = 0]

\* handle_event's loop: read packets while the last one completed and
\* input is left, resetting the packet state after each.
RECURSIVE ReadLoop(_)
ReadLoop(r) ==
    IF r.in = <<>> THEN r
    ELSE LET q == PacketRead(r)
         IN  IF q.st = "COMPLETE"
             THEN ReadLoop(ResetReadingState(q))
             ELSE q

\* An In event at B: _istream.fill() reads the m bytes the socket has
\* (any nonempty prefix of what A wrote), then the loop above.
ReadEvent(m) ==
    /\ 1 <= m /\ m <= Len(pipe)
    /\ LET r == ReadLoop([ipkt EXCEPT !.in = @ \o SubSeq(pipe, 1, m)] @@ [got |-> <<>>])
       IN  /\ ipkt' = [st |-> r.st, size |-> r.size, in |-> r.in]
           /\ received' = received \o r.got
    /\ pipe' = SubSeq(pipe, m + 1, Len(pipe))
    /\ UNCHANGED <<obuf, armed, inbound, wcount, sent>>

-----------------------------------------------------------------------------

Init ==
    /\ obuf = [state |-> "WRITING_SIZE", beg |-> 0, pbuf |-> <<>>]
    /\ armed = FALSE /\ inbound = FALSE
    /\ pipe = <<>> /\ wcount = 0
    /\ ipkt = [st |-> "READING_SIZE", size |-> 0, in |-> <<>>]
    /\ sent = <<>> /\ received = <<>>

Next ==
    \/ \E k \in Kernel : Send(k)
    \/ PeerSends
    \/ \E in, out \in BOOLEAN, n \in -1..Len(obuf.pbuf) : HandleEvent(in, out, n)
    \/ \E m \in 1..Len(pipe) : ReadEvent(m)

\* A's Out events come while writing is armed, and a write eventually
\* succeeds because B keeps reading its socket; B handles its In events.
FlushSucceeds == HandleEvent(FALSE, TRUE, Len(obuf.pbuf))

Fairness ==
    /\ WF_vars(FlushSucceeds)
    /\ WF_vars(\E m \in 1..Len(pipe) : ReadEvent(m))

Spec == Init /\ [][Next]_vars /\ Fairness

-----------------------------------------------------------------------------
(* Properties.                                                             *)

\* The bytes of the first i packets A's send() framed.
FramedLen(i) == i * HdrSize + Len(FlattenSeq([j \in 1..i |-> Payload[sent[j]]]))

\* Spec 4.2: a kernel is sent as its size followed by its bytes, so the
\* peer reads exactly the kernels sent, in order: what Kernel_packet::read
\* has completed is always a prefix of the payloads Remote_Rserver::send
\* wrote.  About begin_packet's placeholder, end_packet's size patch and
\* the peer's reading of the size before the payload.
PeerReceivesSent ==
    IsPrefix(received, [i \in 1..Len(sent) |-> Payload[sent[i]]])

\* Once the bytes of the i-th packet have all been written to the socket,
\* the peer eventually completes it, however the bytes are split between
\* its reads.  About Kernel_packet::read trying the payload right after
\* the size, and handle_event's loop reading while packets complete.
WrittenIsReceived ==
    \A i \in 1..Cardinality(Kernel) :
        (i <= Len(sent) /\ wcount >= FramedLen(i)) ~> Len(received) >= i

\* Spec 5: partial writes leave the connection registered for write
\* readiness until flushed, so every kernel send() has framed eventually
\* reaches the peer.  About on_overflow setting DEFAULT_EVENTS after an
\* event whose writing part did not run.
SentIsReceived ==
    \A k \in Kernel : k \in ToSet(sent) ~> Payload[k] \in ToSet(received)
=============================================================================
