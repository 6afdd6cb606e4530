----------------------------- MODULE Fildesbuf -----------------------------
(***************************************************************************)
(* sysx::basic_fildesbuf (src/sysx/fildesbuf.hh): a stream buffer over a  *)
(* file descriptor, with a growing put area flushed by sync() and a get    *)
(* area refilled by underflow().  One buffer writes into a pipe and        *)
(* another reads from it.                                                  *)
(*                                                                         *)
(* Bytes are numbered in the order the writer puts them, so a sequence of  *)
(* numbers shows duplication, loss and reordering at once.  write() on the *)
(* descriptor may write fewer bytes than asked (non-blocking I/O) or fail; *)
(* read() may return any part of what the pipe holds before it returns -1  *)
(* (EAGAIN, EINTR).                                                        *)
(***************************************************************************)
EXTENDS Naturals, Sequences, SequencesExt

CONSTANTS
    MaxBytes,       \* how many bytes the writer puts
    PBufSize,       \* the put area's initial size (the constructor's pbufsize)
    PartialWrites   \* whether write() may write a part of what it is given

ASSUME MaxBytes \in Nat /\ PBufSize \in Nat /\ PartialWrites \in BOOLEAN

VARIABLES
    put,        \* the bytes the writer has handed to sputc, in order
    pbuf,       \* the put area between pbase() and pptr()
    psize,      \* _pbuf.size(): epptr() - pbase()
    pipe,       \* the bytes written to the descriptor and not yet read
    gbuf,       \* the get area between eback() and egptr()
    gpos,       \* gptr() - eback()
    got         \* the bytes the reader has taken from the get area

vars == <<put, pbuf, psize, pipe, gbuf, gpos, got>>

Byte == 1..MaxBytes

\* What _fd.write(pbase(), m) may return.
WriteResult(m) ==
    IF m = 0 THEN {0}
    ELSE IF PartialWrites THEN {-1} \cup 1..m ELSE {-1, m}

-----------------------------------------------------------------------------
(* The writer.                                                             *)

\* sputc(c): store at pptr() when there is room, otherwise overflow(c):
\* pgrow() doubles _pbuf and keeps the offset, then c is stored if the
\* grown area has room (it has none when the size was 0).
Put ==
    /\ Len(put) < MaxBytes
    /\ LET c == Len(put) + 1
           room == IF Len(pbuf) < psize THEN psize ELSE 2 * psize
       IN  /\ put' = Append(put, c)
           /\ psize' = room
           /\ pbuf' = IF Len(pbuf) < room THEN Append(pbuf, c) ELSE pbuf
    /\ UNCHANGED <<pipe, gbuf, gpos, got>>

\* sync() (from pubsync, overflow(eof) or the destructor): write the put
\* area, and when n > 0 bytes were written, pbump(-n): pptr() moves back
\* by n while the bytes stay where they are.
Sync(n) ==
    /\ n \in WriteResult(Len(pbuf))
    /\ pipe' = IF n > 0 THEN pipe \o SubSeq(pbuf, 1, n) ELSE pipe
    /\ pbuf' = IF n > 0 THEN SubSeq(pbuf, 1, Len(pbuf) - n) ELSE pbuf
    /\ UNCHANGED <<put, psize, gbuf, gpos, got>>

-----------------------------------------------------------------------------
(* The reader.                                                             *)

\* sbumpc(): take the byte at gptr() when the get area has one.
Get ==
    /\ gpos < Len(gbuf)
    /\ got' = Append(got, gbuf[gpos + 1])
    /\ gpos' = gpos + 1
    /\ UNCHANGED <<put, pbuf, psize, pipe, gbuf>>

\* underflow() once gptr() == egptr(): setg(eback(), eback(), eback()),
\* then do_fill() reads while read() returns more than 0, growing the get
\* area when it is full; k is how much it has read when read() stops.
Underflow(k) ==
    /\ gpos = Len(gbuf)
    /\ k \in 0..Len(pipe)
    /\ gbuf' = SubSeq(pipe, 1, k)
    /\ gpos' = 0
    /\ pipe' = SubSeq(pipe, k + 1, Len(pipe))
    /\ UNCHANGED <<put, pbuf, psize, got>>

Init ==
    /\ put = <<>>
    /\ pbuf = <<>>
    /\ psize = PBufSize
    /\ pipe = <<>>
    /\ gbuf = <<>>
    /\ gpos = 0
    /\ got = <<>>

Next ==
    \/ Put
    \/ \E n \in -1..MaxBytes : Sync(n)
    \/ Get
    \/ \E k \in 0..MaxBytes : Underflow(k)

Spec == Init /\ [][Next]_vars

-----------------------------------------------------------------------------
(* Properties.                                                             *)

\* Spec 4.1 / 4.2: the reader receives exactly the bytes written, in
\* order, so the bytes it has taken are a prefix of those put.  About
\* sync() after a write() that wrote only part of the put area.
ReceivedIsPrefix == IsPrefix(got, put)
=============================================================================
