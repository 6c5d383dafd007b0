----------------------------- MODULE LineCodec ------------------------------
(***************************************************************************)
(* The v4 server's command line codec (SeedLinkCodec::decode) and the     *)
(* reader that drives it: tcp_read pulling items from a FramedRead over    *)
(* the client's socket.  TCP may split the client's bytes anywhere, so the *)
(* reader sees them as reads of any size; the client may close its side,  *)
(* which the reader sees as a read of 0 bytes.                             *)
(*                                                                         *)
(* Bytes are "a" (any command character), CR and LF; a line is the bytes  *)
(* before its terminator, as CommandV4::parse receives them.               *)
(***************************************************************************)
EXTENDS Naturals, Sequences, SequencesExt

CONSTANTS
    MaxLen,     \* MAX_COMMAND_LINE_LENGTH
    MaxBytes    \* bound on the bytes the client sends

CR == "CR"
LF == "LF"
Bytes == {"a", CR, LF}

\* Items the decoder and the reader produce.
None == [k |-> "none", l |-> <<>>]
TooLong == [k |-> "long", l |-> <<>>]
IoErr == [k |-> "io", l |-> <<>>]
EndOfStream == [k |-> "end", l |-> <<>>]
Line(l) == [k |-> "line", l |-> l]

-----------------------------------------------------------------------------
(* SeedLinkCodec::decode                                                   *)

\* The codec's state: next_index and is_discarding.
Fresh == [next |-> 0, disc |-> FALSE]

\* The first position in from..to holding CR or LF, or 0.
NewlineAt(buf, from, to) ==
    LET ps == {p \in from..to : buf[p] \in {CR, LF}}
    IN IF ps = {} THEN 0 ELSE Min(ps)

\* without_carriage_return.
WithoutCarriageReturn(l) == IF l # <<>> /\ Last(l) = CR THEN Front(l) ELSE l

\* buf.advance(n).
Advance(buf, n) == SubSeq(buf, n + 1, Len(buf))

\* decode: look for CR or LF in buf[next_index..read_to], read_to being at
\* most MAX_COMMAND_LINE_LENGTH.  Discarding, skip past it (or past
\* read_to) and go on; otherwise split the line off (CR LF counts as one
\* terminator only when LF is already in the buffer) and yield it, or
\* nothing for an empty line.  With no terminator, a buffer longer than
\* the limit is an error and starts discarding; else remember read_to.
RECURSIVE Decode(_, _)
Decode(st, buf) ==
    LET readTo == IF MaxLen < Len(buf) THEN MaxLen ELSE Len(buf)
        p == NewlineAt(buf, st.next + 1, readTo)
    IN IF st.disc /\ p # 0 THEN Decode(Fresh, Advance(buf, p))
       ELSE IF st.disc
       THEN IF Len(buf) = readTo
            THEN [st |-> [next |-> 0, disc |-> TRUE], buf |-> <<>>, res |-> None]
            ELSE Decode([next |-> 0, disc |-> TRUE], Advance(buf, readTo))
       ELSE IF p # 0
       THEN LET q == IF buf[p] = CR /\ p < Len(buf) /\ buf[p + 1] = LF THEN p + 1 ELSE p
                l == WithoutCarriageReturn(SubSeq(buf, 1, q - 1))
            IN [st |-> Fresh, buf |-> Advance(buf, q),
                res |-> IF l = <<>> THEN None ELSE Line(l)]
       ELSE IF Len(buf) > MaxLen
       THEN [st |-> [st EXCEPT !.disc = TRUE], buf |-> buf, res |-> TooLong]
       ELSE [st |-> [st EXCEPT !.next = readTo], buf |-> buf, res |-> None]

\* Decoder::decode_eof (tokio-util's default): decode, and when that yields
\* nothing with bytes left in the buffer, the error "bytes remaining on
\* stream".
DecodeEof(st, buf) ==
    LET d == Decode(st, buf)
    IN IF d.res = None /\ d.buf # <<>> THEN [d EXCEPT !.res = IoErr] ELSE d

-----------------------------------------------------------------------------
(* Reference                                                               *)

\* The lines of b: the text between terminators CR LF, CR or LF (spec,
\* section 4), each with the length of the terminator that ends it; a tail
\* without a terminator is left out.
RECURSIVE Terminated(_, _)
Terminated(b, cur) ==
    IF b = <<>> THEN <<>>
    ELSE IF Head(b) = CR /\ Len(b) > 1 /\ b[2] = LF
    THEN <<[l |-> cur, t |-> 2]>> \o Terminated(Advance(b, 2), <<>>)
    ELSE IF Head(b) \in {CR, LF}
    THEN <<[l |-> cur, t |-> 1]>> \o Terminated(Tail(b), <<>>)
    ELSE Terminated(Tail(b), Append(cur, Head(b)))

\* The command lines of b: its nonempty lines, in order.
CommandLines(b) ==
    LET cmds == SelectSeq(Terminated(b, <<>>), LAMBDA x : x.l # <<>>)
    IN [i \in DOMAIN cmds |-> cmds[i].l]

\* Every line of b, with its terminator, fits MAX_COMMAND_LINE_LENGTH
\* ("including the <CR><LF> terminator"), and so does the tail.
WithinLimit(b) ==
    LET ls == Terminated(b, <<>>)
        tail == Len(b) - FoldLeft(LAMBDA n, x : n + Len(x.l) + x.t, 0, ls)
    IN /\ \A i \in DOMAIN ls : Len(ls[i].l) + ls[i].t <= MaxLen
       /\ tail <= MaxLen

-----------------------------------------------------------------------------
(* The client's socket, FramedRead and tcp_read                            *)

VARIABLES
    sent,      \* every byte the client has sent
    sock,      \* bytes sent and not yet read by the server
    fin,       \* the client has closed its side
    st,        \* the codec: next_index and is_discarding
    buf,       \* FramedRead's read buffer
    readable,  \* FramedRead's is_readable
    eof,       \* FramedRead's eof
    parsed,    \* the lines tcp_read has handed to CommandV4::parse
    done       \* tcp_read has left its loop

vars == <<sent, sock, fin, st, buf, readable, eof, parsed, done>>
client == <<sent, sock, fin>>

\* FramedRead::new with SeedLinkCodec::new: nothing read, nothing decoded.
Init ==
    /\ sent = <<>> /\ sock = <<>> /\ fin = FALSE
    /\ st = Fresh /\ buf = <<>>
    /\ readable = FALSE /\ eof = FALSE
    /\ parsed = <<>> /\ done = FALSE

\* The client writes one more byte.
ClientSends(x) ==
    /\ ~fin
    /\ Len(sent) < MaxBytes
    /\ sent' = Append(sent, x) /\ sock' = Append(sock, x)
    /\ UNCHANGED <<fin, st, buf, readable, eof, parsed, done>>

\* The client shuts its side down.
ClientCloses ==
    /\ ~fin
    /\ fin' = TRUE
    /\ UNCHANGED <<sent, sock, st, buf, readable, eof, parsed, done>>

\* tcp_read with the item the stream yields: a line goes on to the parser
\* and the loop continues; nothing (the end of the stream),
\* CommandLineTooLong and an I/O error end the loop.
TcpRead(item) ==
    IF item.k = "line"
    THEN parsed' = Append(parsed, item.l) /\ UNCHANGED done
    ELSE done' = TRUE /\ UNCHANGED parsed

\* FramedRead::poll_next, not readable: read what the socket holds (any
\* nonempty part of it), or, once the client has closed and everything is
\* read, the 0-byte read that sets eof; a second one ends the stream.
PollRead ==
    /\ ~done /\ ~readable
    /\ \/ \E n \in 1..Len(sock) :
             /\ buf' = buf \o SubSeq(sock, 1, n)
             /\ sock' = Advance(sock, n)
             /\ readable' = TRUE /\ eof' = FALSE
             /\ UNCHANGED <<parsed, done>>
       \/ /\ sock = <<>> /\ fin /\ ~eof
          /\ eof' = TRUE /\ readable' = TRUE
          /\ UNCHANGED <<sock, buf, parsed, done>>
       \/ /\ sock = <<>> /\ fin /\ eof
          /\ TcpRead(EndOfStream)
          /\ UNCHANGED <<sock, buf, readable, eof>>
    /\ UNCHANGED <<sent, fin, st>>

\* FramedRead::poll_next, readable and not at eof: decode; a line or an
\* error is yielded to tcp_read, nothing makes the stream read again.
PollDecode ==
    /\ ~done /\ readable /\ ~eof
    /\ LET d == Decode(st, buf) IN
       /\ st' = d.st /\ buf' = d.buf
       /\ IF d.res = None
          THEN readable' = FALSE /\ UNCHANGED <<parsed, done>>
          ELSE TcpRead(d.res) /\ UNCHANGED readable
    /\ UNCHANGED <<client, eof>>

\* FramedRead::poll_next at eof: decode_eof; nothing ends the stream.
PollDecodeEof ==
    /\ ~done /\ readable /\ eof
    /\ LET d == DecodeEof(st, buf) IN
       /\ st' = d.st /\ buf' = d.buf
       /\ readable' = (d.res # None)
       /\ TcpRead(IF d.res = None THEN EndOfStream ELSE d.res)
    /\ UNCHANGED <<client, eof>>

Next ==
    \/ \E x \in Bytes : ClientSends(x)
    \/ ClientCloses
    \/ PollRead \/ PollDecode \/ PollDecodeEof

\* tokio runs the reader whenever it can make progress.
Spec == Init /\ [][Next]_vars /\ WF_vars(PollRead \/ PollDecode \/ PollDecodeEof)

-----------------------------------------------------------------------------
(* Properties                                                              *)

TypeOK ==
    /\ sent \in Seq(Bytes) /\ sock \in Seq(Bytes) /\ buf \in Seq(Bytes)
    /\ st \in [next : 0..MaxLen, disc : BOOLEAN]
    /\ parsed \in Seq(Seq(Bytes))
    /\ {fin, readable, eof, done} \subseteq BOOLEAN

\* "Empty command lines are ignored" (SeedLinkCodec's doc comment): when a
\* client has sent lines within the limit and closed its side, and the
\* reader has finished, every command line the client sent has reached the
\* parser, in order.
CommandLinesAllParsed ==
    (done /\ fin /\ WithinLimit(sent)) => parsed = CommandLines(sent)
====
