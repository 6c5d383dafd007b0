---------------------------- MODULE ServerActors ----------------------------
(***************************************************************************)
(* The v4 SeedLink server of slink-server: the accept loop, one client     *)
(* actor per TCP connection (a reader and a writer sharing one tokio task) *)
(* and the main loop that owns the client handles and the dispatcher with  *)
(* its per-client station negotiator.                                      *)
(*                                                                         *)
(* Peers send command texts.  A line is abstracted to its kind and its     *)
(* position in the peer's stream: [k |-> kind, i |-> index].  The kind is  *)
(* what the codec and CommandV4::parse make of the text (KindOf): EMPTY    *)
(* for an empty line, LONG for a line over MAX_COMMAND_LINE_LENGTH, and    *)
(* otherwise the outcome of Command::from_str (module CommandV4).          *)
(* Bytes are abstracted to whole lines: the kernel socket buffer `sock`    *)
(* and the FramedRead buffer `buf` hold lines, and one read moves a        *)
(* nonempty prefix of `sock` into `buf`.                                   *)
(***************************************************************************)
EXTENDS Naturals, Sequences, SequencesExt, CommandV4

CONSTANTS
    Clients,        \* TCP peers (model values); each gets one ClientId
    Texts,          \* the command lines peers may send (terminator stripped)
    MaxLineLength,  \* MAX_COMMAND_LINE_LENGTH
    MaxLines,       \* lines a peer sends at most
    MainCap,        \* capacity of the main loop inbox (64 in the code)
    WriterCap,      \* capacity of a client's writer inbox (64 in the code)
    InternalBound,  \* bound on the unbounded reader->writer channel
    PeerHalfCloses  \* whether peers may shut down their sending side

ASSUME /\ MaxLines \in Nat \ {0}
       /\ InternalBound >= MaxLines
       /\ MainCap \in Nat \ {0}
       /\ WriterCap \in Nat \ {0}
       /\ InternalBound \in Nat \ {0}
       /\ PeerHalfCloses \in BOOLEAN

AllKinds == {"HELLO", "STATION", "SELECT", "DATA", "INFOID", "USERAGENT",
             "BYE", "FOO", "SLPROTO", "BADARGS", "INFOERR", "PANIC",
             "AUTH", "END", "ENDFETCH", "INFOOTHER",
             "EMPTY", "LONG"}

\* SeedLinkCodec::decode then CommandV4::parse: an empty line yields no
\* command; a line whose terminator is not within the first
\* MAX_COMMAND_LINE_LENGTH bytes is CommandLineTooLong.
KindOf(t) ==
    IF t = <<>> THEN "EMPTY"
    ELSE IF Len(t) + 1 > MaxLineLength THEN "LONG"
    ELSE ParseCommand(t)
Kind == [t \in Texts |-> KindOf(t)]
Kinds == {Kind[t] : t \in Texts}

VARIABLES
    conn,      \* peer side of the TCP connection: "none", "open", "fin"
    lines,     \* kinds of the lines the peer has sent, in order
    sock,      \* lines in the kernel receive buffer, not yet read
    buf,       \* lines in the FramedRead buffer, not yet decoded
    readable,  \* FramedRead is_readable: decode before reading the socket
    eof,       \* FramedRead eof: the socket returned 0 bytes
    locked,    \* SeedLinkCodec protocol_version_locked
    rpc,       \* reader (tcp_read): "poll", "fwd", "spin", "done"
    fwd,       \* the message tcp_read is awaiting to send to the main loop
    internal,  \* reader->writer channel of protocol errors (line indices)
    wdone,     \* tcp_write has returned (its receivers are dropped)
    task,      \* client task: "none","oneshot","started","running",
               \*   "disc","ended","aborted","panicked"
    winbox,    \* writer inbox: replies queued by the main loop
    out,       \* replies written to the TCP stream, in order
    inbox,     \* the main loop inbox (ToServer messages)
    reg,       \* main loop client map: "never", "in", "out"
    neg,       \* ClientHandle.negotiator: "None", "Station", "Select"
    selects,   \* Len(ClientHandle.selects)
    ua,        \* ClientHandle.useragent_info was set
    why,       \* why the main loop removed the client (history)
    mainUp,    \* main_loop has not panicked
    overlong   \* the reader ended on CommandLineTooLong (history)

peer    == <<conn, lines, sock>>
reader  == <<buf, readable, eof, locked, rpc, fwd>>
writer  == <<internal, wdone, winbox, out>>
mainv   == <<inbox, reg, neg, selects, ua, why, mainUp>>
vars    == <<peer, reader, writer, mainv, task, overlong>>

Line == [k : AllKinds, i : 1..MaxLines]
Reply == [i : 1..MaxLines, k : AllKinds, r : {"OK", "ERR", "HELLO", "INFO",
                                               "INFOERR", "PROTOERR"}]
NoMsg == [t |-> "none"]
Msg == [t : {"new", "disc"}, c : Clients]
       \cup [t : {"cmd"}, c : Clients, k : AllKinds, i : 1..MaxLines]
       \cup [t : {"errinfo"}, c : Clients, i : 1..MaxLines]

-----------------------------------------------------------------------------
(* Helpers                                                                 *)

\* The client task is alive and its reader/writer pair is running.
Running(c) == task[c] = "running"

\* tcp_read returns: the loop ended and its internal sender is dropped.
ReaderReturns(c) == rpc' = [rpc EXCEPT ![c] = "done"]

\* SeedLinkCodec::lock_protocol_version.
LockProtocolVersion(c) == [locked EXCEPT ![c] = TRUE]

\* ServerData::add_client: insert the handle into the map.
AddClient(c) == [reg EXCEPT ![c] = "in"]

\* A reply the writer will write for line l.
ReplyTo(l, r) == [i |-> l.i, k |-> l.k, r |-> r]

\* ServerData::log_remove_client: remove the handle; dropping it aborts the
\* client task (ClientHandle::drop calls JoinHandle::abort).
\* An abort takes effect at the task's next yield point: a task that has
\* already returned stays as it is, and so does a reader spinning on SLPROTO,
\* which never yields.
AbortTask(c) ==
    IF task[c] \in {"ended", "panicked"} \/ (task[c] = "running" /\ rpc[c] = "spin")
    THEN task[c] ELSE "aborted"
RemoveClient(c, reason) ==
    /\ reg' = [reg EXCEPT ![c] = "out"]
    /\ why' = [why EXCEPT ![c] = reason]
    /\ task' = [task EXCEPT ![c] = AbortTask(c)]

\* The receiver lives in tcp_write, which client_loop runs once started.
ReceiverAlive(c) == task[c] \in {"started", "running"} /\ ~wdone[c]

\* ClientHandle::send: try_send on the writer inbox; a full inbox or a
\* dropped receiver is a BrokenPipe error, upon which the main loop removes
\* the client.
SendToClient(c, rep) ==
    IF ReceiverAlive(c) /\ Len(winbox[c]) < WriterCap
    THEN /\ winbox' = [winbox EXCEPT ![c] = Append(@, rep)]
         /\ UNCHANGED <<reg, why, task>>
    ELSE /\ RemoveClient(c, IF ReceiverAlive(c) THEN "overflow" ELSE "gone")
         /\ UNCHANGED winbox

-----------------------------------------------------------------------------
(* Peer and accept loop                                                    *)

\* A peer opens a TCP connection.
Connect(c) ==
    /\ conn[c] = "none"
    /\ conn' = [conn EXCEPT ![c] = "open"]
    /\ UNCHANGED <<lines, sock, reader, writer, mainv, task, overlong>>

\* A peer sends one command line.
SendLine(c, t) ==
    /\ conn[c] = "open"
    /\ Len(lines[c]) < MaxLines
    /\ lines' = [lines EXCEPT ![c] = Append(@, Kind[t])]
    /\ sock' = [sock EXCEPT ![c] = Append(@, [k |-> Kind[t], i |-> Len(lines[c]) + 1])]
    /\ UNCHANGED <<conn, reader, writer, mainv, task, overlong>>

\* A peer shuts down its sending side and keeps reading.
HalfClose(c) ==
    /\ PeerHalfCloses
    /\ conn[c] = "open"
    /\ conn' = [conn EXCEPT ![c] = "fin"]
    /\ UNCHANGED <<lines, sock, reader, writer, mainv, task, overlong>>

\* accept_loop: accept, take the next ClientId, spawn_client.  spawn_client
\* hands the ClientHandle to the new task over a oneshot channel.
Accept(c) ==
    /\ conn[c] # "none"
    /\ task[c] = "none"
    /\ task' = [task EXCEPT ![c] = "oneshot"]
    /\ UNCHANGED <<peer, reader, writer, mainv, overlong>>

\* Mutant: NewClient is not sent before the client loop starts.
StartClientSilent(c) ==
    /\ task[c] = "oneshot"
    /\ task' = [task EXCEPT ![c] = "started"]
    /\ UNCHANGED <<peer, reader, writer, mainv, overlong>>

\* start_client: receive the handle and forward it to the main loop as
\* NewClient before talking to the TCP connection.
StartClient(c) ==
    /\ task[c] = "oneshot"
    /\ mainUp
    /\ Len(inbox) < MainCap
    /\ inbox' = Append(inbox, [t |-> "new", c |-> c])
    /\ task' = [task EXCEPT ![c] = "started"]
    /\ UNCHANGED <<peer, reader, writer, reg, neg, selects, ua, why, overlong, mainUp>>

\* client_loop: set TCP keepalive (which may fail), split the stream and run
\* tcp_read and tcp_write under try_join.
ClientLoop(c) ==
    /\ task[c] = "started"
    /\ \/ task' = [task EXCEPT ![c] = "running"]
       \/ task' = [task EXCEPT ![c] = "disc"]   \* set_tcp_keepalive failed
    /\ UNCHANGED <<peer, reader, writer, mainv, overlong>>

\* try_join has completed: tcp_read and tcp_write both returned Ok.
ClientLoopDone(c) ==
    /\ Running(c)
    /\ rpc[c] = "done"
    /\ wdone[c]
    /\ task' = [task EXCEPT ![c] = "disc"]
    /\ UNCHANGED <<peer, reader, writer, mainv, overlong>>

\* Mutant: the DisconnectClient message is not sent.
SendDisconnectLost(c) ==
    /\ task[c] = "disc"
    /\ task' = [task EXCEPT ![c] = "ended"]
    /\ UNCHANGED <<peer, reader, writer, mainv, overlong>>

\* start_client: inform the main loop about the client loop termination.
SendDisconnect(c) ==
    /\ task[c] = "disc"
    /\ mainUp
    /\ Len(inbox) < MainCap
    /\ inbox' = Append(inbox, [t |-> "disc", c |-> c])
    /\ task' = [task EXCEPT ![c] = "ended"]
    /\ UNCHANGED <<peer, reader, writer, reg, neg, selects, ua, why, overlong, mainUp>>

\* ServerHandle::send once main_loop is gone: the send fails and the sender
\* panics ("Main loop has shut down."), be it start_client with NewClient
\* or DisconnectClient, or tcp_read forwarding a command.
SendToDeadMain(c) ==
    /\ ~mainUp
    /\ \/ task[c] \in {"oneshot", "disc"}
       \/ Running(c) /\ rpc[c] = "fwd"
    /\ task' = [task EXCEPT ![c] = "panicked"]
    /\ UNCHANGED <<peer, reader, writer, mainv, overlong>>

-----------------------------------------------------------------------------
(* Reader: tcp_read driving FramedRead<ReadHalf, SeedLinkCodec>            *)

\* FramedRead::poll_next, not readable: read more bytes from the socket.  A
\* read returns a nonempty prefix of what the peer has sent; at the peer's
\* FIN it returns 0 bytes, which sets eof, or ends the stream when eof was
\* already set.
ReadSocket(c) ==
    /\ Running(c)
    /\ rpc[c] = "poll"
    /\ ~readable[c]
    /\ \/ /\ sock[c] # <<>>
          /\ \E n \in 1..Len(sock[c]) :
                /\ buf' = [buf EXCEPT ![c] = @ \o SubSeq(sock[c], 1, n)]
                /\ sock' = [sock EXCEPT ![c] = SubSeq(@, n + 1, Len(@))]
          /\ readable' = [readable EXCEPT ![c] = TRUE]
          /\ eof' = [eof EXCEPT ![c] = FALSE]
          /\ UNCHANGED rpc
       \/ /\ sock[c] = <<>> /\ conn[c] = "fin" /\ ~eof[c]
          /\ eof' = [eof EXCEPT ![c] = TRUE]
          /\ readable' = [readable EXCEPT ![c] = TRUE]
          /\ UNCHANGED <<buf, sock, rpc>>
       \/ /\ sock[c] = <<>> /\ conn[c] = "fin" /\ eof[c]
          /\ ReaderReturns(c)
          /\ UNCHANGED <<buf, sock, readable, eof>>
    /\ UNCHANGED <<conn, lines, locked, fwd, writer, mainv, task, overlong>>

\* SeedLinkCodec::decode (decode_eof at eof) found no command line: the
\* buffer holds no line, or the line found is empty (decode returns
\* Ok(None) after splitting it off).  FramedRead then reads the socket
\* again; at eof the stream ends, with "bytes remaining on stream" if the
\* buffer still holds lines after an empty one.  Either way tcp_read
\* returns.
DecodeNone(c) ==
    /\ Running(c)
    /\ rpc[c] = "poll"
    /\ readable[c]
    /\ \/ buf[c] = <<>>
       \/ buf[c] # <<>> /\ Head(buf[c]).k = "EMPTY"
    /\ buf' = [buf EXCEPT ![c] = IF @ = <<>> THEN @ ELSE Tail(@)]
    /\ IF eof[c]
       THEN ReaderReturns(c) /\ UNCHANGED readable
       ELSE readable' = [readable EXCEPT ![c] = FALSE] /\ UNCHANGED rpc
    /\ UNCHANGED <<peer, eof, locked, fwd, writer, mainv, task, overlong>>

\* The codec yields CommandLineTooLong: tcp_read sends a Generic error to
\* the writer and breaks out of its loop.
DecodeTooLong(c) ==
    /\ Running(c)
    /\ rpc[c] = "poll"
    /\ readable[c]
    /\ buf[c] # <<>>
    /\ Head(buf[c]).k = "LONG"
    /\ internal' = [internal EXCEPT ![c] = Append(@, ReplyTo(Head(buf[c]), "PROTOERR"))]
    /\ overlong' = [overlong EXCEPT ![c] = TRUE]
    /\ ReaderReturns(c)
    /\ UNCHANGED <<peer, buf, readable, eof, locked, fwd, wdone, winbox, out,
                   mainv, task>>

\* CommandV4::parse panics ("DATA" without arguments indexes split[1], an
\* empty SELECT word unwraps None); the panic ends the client task, reader
\* and writer alike.
DecodePanic(c) ==
    /\ Running(c)
    /\ rpc[c] = "poll"
    /\ readable[c]
    /\ buf[c] # <<>>
    /\ Head(buf[c]).k = "PANIC"
    /\ task' = [task EXCEPT ![c] = "panicked"]
    /\ UNCHANGED <<peer, reader, writer, mainv, overlong>>

\* A parse error (ParseError::ProtocolError).  Errors with the info flag go
\* to the main loop as ErrorInfo, the others to the writer.  tcp_read then
\* discards the None that FramedRead yields after an error, which also
\* clears is_readable.
DecodeError(c) ==
    /\ Running(c)
    /\ rpc[c] = "poll"
    /\ readable[c]
    /\ buf[c] # <<>>
    /\ Head(buf[c]).k \in {"BADARGS", "INFOERR"}
    /\ buf' = [buf EXCEPT ![c] = Tail(@)]
    /\ IF Head(buf[c]).k = "INFOERR"
       THEN /\ fwd' = [fwd EXCEPT ![c] = [t |-> "errinfo", c |-> c,
                                          i |-> Head(buf[c]).i]]
            /\ rpc' = [rpc EXCEPT ![c] = "fwd"]
            /\ UNCHANGED <<internal, readable>>
       ELSE /\ internal' = [internal EXCEPT ![c] =
                               Append(@, ReplyTo(Head(buf[c]), "PROTOERR"))]
            /\ readable' = [readable EXCEPT ![c] = FALSE]
            /\ UNCHANGED <<fwd, rpc>>
    /\ UNCHANGED <<peer, eof, locked, wdone, winbox, out, mainv, task, overlong>>

\* A parsed command.  SLPROTO tries to switch the codec's protocol version
\* and then `continue`s the while-let loop without fetching the next
\* frame.  Unknown commands lock the version and are answered by the writer
\* directly; every other command except HELLO locks the version, and all of
\* them are forwarded to the main loop.
DecodeCommand(c) ==
    /\ Running(c)
    /\ rpc[c] = "poll"
    /\ readable[c]
    /\ buf[c] # <<>>
    /\ LET l == Head(buf[c]) IN
       /\ l.k \notin {"EMPTY", "LONG", "PANIC", "BADARGS", "INFOERR"}
       /\ buf' = [buf EXCEPT ![c] = Tail(@)]
       /\ CASE l.k = "SLPROTO" ->
                 /\ rpc' = [rpc EXCEPT ![c] = "spin"]
                 /\ internal' = [internal EXCEPT ![c] =
                        IF locked[c] THEN Append(@, ReplyTo(l, "PROTOERR")) ELSE @]
                 /\ UNCHANGED <<locked, fwd>>
            [] l.k = "FOO" ->
                 /\ locked' = LockProtocolVersion(c)
                 /\ internal' = [internal EXCEPT ![c] = Append(@, ReplyTo(l, "PROTOERR"))]
                 /\ UNCHANGED <<rpc, fwd>>
            [] OTHER ->
                 /\ locked' = IF l.k = "HELLO" THEN locked ELSE LockProtocolVersion(c)
                 /\ fwd' = [fwd EXCEPT ![c] = [t |-> "cmd", c |-> c, k |-> l.k, i |-> l.i]]
                 /\ rpc' = [rpc EXCEPT ![c] = "fwd"]
                 /\ UNCHANGED internal
    /\ UNCHANGED <<peer, readable, eof, wdone, winbox, out, mainv, task, overlong>>

\* Mutant: is_readable is cleared after every forwarded command.
ForwardPausing(c) ==
    /\ Running(c)
    /\ rpc[c] = "fwd"
    /\ mainUp
    /\ Len(inbox) < MainCap
    /\ inbox' = Append(inbox, fwd[c])
    /\ fwd' = [fwd EXCEPT ![c] = NoMsg]
    /\ rpc' = [rpc EXCEPT ![c] = "poll"]
    /\ readable' = [readable EXCEPT ![c] = FALSE]
    /\ UNCHANGED <<peer, buf, eof, locked, writer, reg, neg, selects, ua, why,
                   task, overlong, mainUp>>

\* ServerHandle::send(...).await: wait for room in the main loop inbox.
\* After an ErrorInfo, tcp_read discards FramedRead's post-error None.
Forward(c) ==
    /\ Running(c)
    /\ rpc[c] = "fwd"
    /\ mainUp
    /\ Len(inbox) < MainCap
    /\ inbox' = Append(inbox, fwd[c])
    /\ fwd' = [fwd EXCEPT ![c] = NoMsg]
    /\ rpc' = [rpc EXCEPT ![c] = "poll"]
    /\ readable' = [readable EXCEPT ![c] = IF fwd[c].t = "errinfo" THEN FALSE ELSE @]
    /\ UNCHANGED <<peer, buf, eof, locked, writer, reg, neg, selects, ua, why,
                   task, overlong, mainUp>>

\* The `continue` after SLPROTO re-enters the loop body with the same
\* command: once the version is locked every round queues another error.
SpinSlProto(c) ==
    /\ Running(c)
    /\ rpc[c] = "spin"
    /\ locked[c]
    /\ Len(internal[c]) < InternalBound
    /\ internal' = [internal EXCEPT ![c] = Append(@, Last(@))]
    /\ UNCHANGED <<peer, reader, wdone, winbox, out, mainv, task, overlong>>

-----------------------------------------------------------------------------
(* Writer: tcp_write selects over its inbox and the reader's channel       *)
(* tcp_read and tcp_write are joined in one task: while tcp_read spins     *)
(* without yielding, tcp_write is never polled.                            *)

WriterPolled(c) == Running(c) /\ ~wdone[c] /\ rpc[c] # "spin"

\* A FromServer message from the main loop is written to the stream.
WriteReply(c) ==
    /\ WriterPolled(c)
    /\ winbox[c] # <<>>
    /\ out' = [out EXCEPT ![c] = Append(@, Head(winbox[c]))]
    /\ winbox' = [winbox EXCEPT ![c] = Tail(@)]
    /\ UNCHANGED <<peer, reader, internal, wdone, mainv, task, overlong>>

\* An InternalMessage::ProtocolError from the reader is written.
WriteError(c) ==
    /\ WriterPolled(c)
    /\ internal[c] # <<>>
    /\ out' = [out EXCEPT ![c] = Append(@, Head(internal[c]))]
    /\ internal' = [internal EXCEPT ![c] = Tail(@)]
    /\ UNCHANGED <<peer, reader, wdone, winbox, mainv, task, overlong>>

\* The reader's channel is closed and drained: recv() yields None and
\* tcp_write breaks out of its loop, whatever its inbox still holds.
WriterExit(c) ==
    /\ WriterPolled(c)
    /\ internal[c] = <<>>
    /\ rpc[c] = "done"
    /\ wdone' = [wdone EXCEPT ![c] = TRUE]
    /\ UNCHANGED <<peer, reader, internal, winbox, out, mainv, task, overlong>>

-----------------------------------------------------------------------------
(* Main loop: main_loop receives one ToServer message at a time            *)

\* The head of the inbox is a message about client c.
Received(t, c) == inbox # <<>> /\ Head(inbox).t = t /\ Head(inbox).c = c

\* The head of the inbox is command k from c, whose handle is in the map.
ReceivedCmd(k, c) ==
    /\ Received("cmd", c)
    /\ Head(inbox).k = k
    /\ reg[c] = "in"

\* The reply to the command at the head of the inbox.
Answer(r) == [i |-> Head(inbox).i, k |-> Head(inbox).k, r |-> r]

\* State::next of the station negotiator.
NegNext(s, k) ==
    CASE s = "Station" /\ k = "SELECT" -> "Select"
      [] s = "Station" /\ k = "DATA"   -> "Finished"
      [] s = "Select"  /\ k = "SELECT" -> "Select"
      [] s = "Select"  /\ k = "DATA"   -> "Finished"
      [] OTHER                         -> "Error"

\* ToServer::NewClient: ServerData::add_client.
MainNewClient(c) ==
    /\ Received("new", c)
    /\ inbox' = Tail(inbox)
    /\ reg' = AddClient(c)
    /\ UNCHANGED <<peer, reader, writer, neg, selects, ua, why, task, overlong, mainUp>>

\* ToServer::DisconnectClient: log_remove_client, a no-op for a client no
\* longer in the map.
MainDisconnect(c) ==
    /\ Received("disc", c)
    /\ inbox' = Tail(inbox)
    /\ IF reg[c] = "in" THEN RemoveClient(c, "disc") ELSE UNCHANGED <<reg, why, task>>
    /\ UNCHANGED <<peer, reader, writer, neg, selects, ua, overlong, mainUp>>

\* A Command or ErrorInfo of a client that is not in the map is dropped.
MainIgnore(c) ==
    /\ \/ Received("cmd", c)
       \/ Received("errinfo", c)
    /\ reg[c] # "in"
    /\ inbox' = Tail(inbox)
    /\ UNCHANGED <<peer, reader, writer, reg, neg, selects, ua, why, task, overlong, mainUp>>

\* ToServer::ErrorInfo: answer with an INFO error packet.
MainErrorInfo(c) ==
    /\ Received("errinfo", c)
    /\ reg[c] = "in"
    /\ inbox' = Tail(inbox)
    /\ SendToClient(c, [i |-> Head(inbox).i, k |-> "INFOERR", r |-> "INFOERR"])
    /\ UNCHANGED <<peer, reader, internal, wdone, out, neg, selects, ua, overlong, mainUp>>

\* BYE: the main loop removes the client without a reply.
MainBye(c) ==
    /\ ReceivedCmd("BYE", c)
    /\ inbox' = Tail(inbox)
    /\ RemoveClient(c, "bye")
    /\ UNCHANGED <<peer, reader, writer, neg, selects, ua, overlong, mainUp>>

\* USERAGENT: record the user agent and answer OK.
MainUserAgent(c) ==
    /\ ReceivedCmd("USERAGENT", c)
    /\ inbox' = Tail(inbox)
    /\ ua' = [ua EXCEPT ![c] = TRUE]
    /\ SendToClient(c, Answer("OK"))
    /\ UNCHANGED <<peer, reader, internal, wdone, out, neg, selects, overlong, mainUp>>

\* Dispatcher STATION: refused while a negotiation is open; otherwise the
\* backend's inventory_streams either fails (ERR) or opens a negotiator.
MainStation(c) ==
    /\ ReceivedCmd("STATION", c)
    /\ inbox' = Tail(inbox)
    /\ \/ /\ neg[c] # "None"
          /\ SendToClient(c, Answer("ERR"))
          /\ UNCHANGED neg
       \/ /\ neg[c] = "None"
          /\ SendToClient(c, Answer("ERR"))     \* inventory_streams failed
          /\ UNCHANGED neg
       \/ /\ neg[c] = "None"
          /\ neg' = [neg EXCEPT ![c] = "Station"]
          /\ SendToClient(c, Answer("OK"))
    /\ UNCHANGED <<peer, reader, internal, wdone, out, selects, ua, overlong, mainUp>>

\* Dispatcher SELECT: feed the negotiator, if any.
MainSelect(c) ==
    /\ ReceivedCmd("SELECT", c)
    /\ inbox' = Tail(inbox)
    /\ IF neg[c] = "None"
       THEN SendToClient(c, Answer("ERR")) /\ UNCHANGED neg
       ELSE LET s == NegNext(neg[c], "SELECT") IN
            /\ neg' = [neg EXCEPT ![c] = s]
            /\ SendToClient(c, Answer(IF s = "Error" THEN "ERR" ELSE "OK"))
    /\ UNCHANGED <<peer, reader, internal, wdone, out, selects, ua, overlong, mainUp>>

\* Mutant: DATA without an open negotiation is accepted.
MainDataUnchecked(c) ==
    /\ ReceivedCmd("DATA", c)
    /\ inbox' = Tail(inbox)
    /\ selects' = [selects EXCEPT ![c] = @ + 1]
    /\ neg' = [neg EXCEPT ![c] = "None"]
    /\ SendToClient(c, Answer("OK"))
    /\ UNCHANGED <<peer, reader, internal, wdone, out, ua, overlong, mainUp>>

\* Mutant: the negotiator is left in place (no take()) after DATA.
MainDataKeepNegotiator(c) ==
    /\ ReceivedCmd("DATA", c)
    /\ inbox' = Tail(inbox)
    /\ IF neg[c] = "None"
       THEN SendToClient(c, Answer("ERR")) /\ UNCHANGED <<neg, selects>>
       ELSE LET s == NegNext(neg[c], "DATA") IN
            /\ neg' = [neg EXCEPT ![c] = s]
            /\ selects' = [selects EXCEPT ![c] = IF s = "Error" THEN @ ELSE @ + 1]
            /\ SendToClient(c, Answer(IF s = "Error" THEN "ERR" ELSE "OK"))
    /\ UNCHANGED <<peer, reader, internal, wdone, out, ua, overlong, mainUp>>

\* Dispatcher DATA: feed the negotiator; on success move its selection to
\* ClientHandle.selects (negotiator.take()) and answer OK.
MainData(c) ==
    /\ ReceivedCmd("DATA", c)
    /\ inbox' = Tail(inbox)
    /\ IF neg[c] = "None"
       THEN SendToClient(c, Answer("ERR")) /\ UNCHANGED <<neg, selects>>
       ELSE LET s == NegNext(neg[c], "DATA") IN
            IF s = "Error"
            THEN /\ neg' = [neg EXCEPT ![c] = s]
                 /\ SendToClient(c, Answer("ERR"))
                 /\ UNCHANGED selects
            ELSE /\ selects' = [selects EXCEPT ![c] = @ + 1]
                 /\ neg' = [neg EXCEPT ![c] = "None"]
                 /\ SendToClient(c, Answer("OK"))
    /\ UNCHANGED <<peer, reader, internal, wdone, out, ua, overlong, mainUp>>

\* Dispatcher HELLO and INFO ID: answer with the server identification.
MainHello(c) ==
    /\ ReceivedCmd("HELLO", c)
    /\ inbox' = Tail(inbox)
    /\ SendToClient(c, Answer("HELLO"))
    /\ UNCHANGED <<peer, reader, internal, wdone, out, neg, selects, ua, overlong, mainUp>>

MainInfoId(c) ==
    /\ ReceivedCmd("INFOID", c)
    /\ inbox' = Tail(inbox)
    /\ SendToClient(c, Answer("INFO"))
    /\ UNCHANGED <<peer, reader, internal, wdone, out, neg, selects, ua, overlong, mainUp>>

\* AUTH falls into the dispatcher's catch-all arm, which returns Ok(())
\* without answering.
MainUnhandled(c) ==
    /\ ReceivedCmd("AUTH", c)
    /\ inbox' = Tail(inbox)
    /\ UNCHANGED <<peer, reader, writer, reg, neg, selects, ua, why, task, overlong, mainUp>>

\* Clients whose NewClient, and so whose ClientHandle, is still queued in
\* the main loop inbox.
Queued == {inbox[j].c : j \in {j \in DOMAIN inbox : inbox[j].t = "new"}}

\* Mutant: the handles still queued in the inbox are not dropped.
MainLoopPanicsKeepQueued ==
    /\ mainUp' = FALSE
    /\ inbox' = <<>>
    /\ reg' = [d \in Clients |-> IF reg[d] = "in" THEN "out" ELSE reg[d]]
    /\ why' = [d \in Clients |-> IF reg[d] = "in" THEN "panic" ELSE why[d]]
    /\ task' = [d \in Clients |-> IF reg[d] = "in" THEN AbortTask(d) ELSE task[d]]
    /\ UNCHANGED <<peer, reader, writer, neg, selects, ua, overlong>>

\* main_loop panics: the task's future is dropped with its client map and
\* its inbox receiver, whose drop drains the queued messages.  Every
\* ClientHandle in the map or in the queue is dropped, which aborts that
\* client's task.
MainLoopPanics ==
    /\ mainUp' = FALSE
    /\ inbox' = <<>>
    /\ reg' = [d \in Clients |-> IF reg[d] = "in" THEN "out" ELSE reg[d]]
    /\ why' = [d \in Clients |-> IF reg[d] = "in" THEN "panic" ELSE why[d]]
    /\ task' = [d \in Clients |-> IF reg[d] = "in" \/ d \in Queued
                                   THEN AbortTask(d) ELSE task[d]]
    /\ UNCHANGED <<peer, reader, writer, neg, selects, ua, overlong>>

\* END and ENDFETCH reach todo!() in the dispatcher.
MainTodoEnd(c) ==
    /\ \E k \in {"END", "ENDFETCH"} : ReceivedCmd(k, c)
    /\ MainLoopPanics

\* INFO with an item other than ID reaches todo!() in the dispatcher.
MainTodoInfo(c) ==
    /\ ReceivedCmd("INFOOTHER", c)
    /\ MainLoopPanics

-----------------------------------------------------------------------------
(* Specification                                                           *)

\* spawn_main_loop: an empty inbox, an empty client map, and the main loop
\* task running.
SpawnMainLoop ==
    /\ inbox = <<>>
    /\ reg = [c \in Clients |-> "never"]
    /\ neg = [c \in Clients |-> "None"]
    /\ selects = [c \in Clients |-> 0]
    /\ ua = [c \in Clients |-> FALSE]
    /\ mainUp = TRUE

Init ==
    /\ conn = [c \in Clients |-> "none"]
    /\ lines = [c \in Clients |-> <<>>]
    /\ sock = [c \in Clients |-> <<>>]
    /\ buf = [c \in Clients |-> <<>>]
    /\ readable = [c \in Clients |-> FALSE]
    /\ eof = [c \in Clients |-> FALSE]
    /\ locked = [c \in Clients |-> FALSE]
    /\ rpc = [c \in Clients |-> "poll"]
    /\ fwd = [c \in Clients |-> NoMsg]
    /\ internal = [c \in Clients |-> <<>>]
    /\ wdone = [c \in Clients |-> FALSE]
    /\ task = [c \in Clients |-> "none"]
    /\ winbox = [c \in Clients |-> <<>>]
    /\ out = [c \in Clients |-> <<>>]
    /\ SpawnMainLoop
    /\ why = [c \in Clients |-> "none"]
    /\ overlong = [c \in Clients |-> FALSE]

\* The steps of each actor of the server.
Lifecycle(c) ==
    \/ Accept(c) \/ StartClient(c) \/ ClientLoop(c) \/ ClientLoopDone(c)
    \/ SendDisconnect(c) \/ SendToDeadMain(c)
Reader(c) ==
    \/ ReadSocket(c) \/ DecodeNone(c) \/ DecodeTooLong(c) \/ DecodePanic(c)
    \/ DecodeError(c) \/ DecodeCommand(c) \/ Forward(c) \/ SpinSlProto(c)
Writer(c) == WriteReply(c) \/ WriteError(c) \/ WriterExit(c)
Main(c) ==
    \/ MainNewClient(c) \/ MainDisconnect(c) \/ MainIgnore(c)
    \/ MainErrorInfo(c) \/ MainBye(c) \/ MainUserAgent(c) \/ MainStation(c)
    \/ MainSelect(c) \/ MainData(c) \/ MainHello(c) \/ MainInfoId(c)
    \/ MainUnhandled(c) \/ MainTodoEnd(c) \/ MainTodoInfo(c)

\* The steps of the peers.
PeerStep(c) ==
    \/ Connect(c) \/ HalfClose(c)
    \/ \E t \in Texts : SendLine(c, t)

Next == \E c \in Clients :
            Lifecycle(c) \/ Reader(c) \/ Writer(c) \/ Main(c) \/ PeerStep(c)

\* Tokio polls every woken task, try_join polls both halves of a client
\* task, and select! picks among ready branches at random: every actor of
\* the server that can step eventually does.  Peers owe nothing.
Fairness == \A c \in Clients : /\ WF_vars(Lifecycle(c)) /\ WF_vars(Reader(c))
                               /\ WF_vars(Writer(c)) /\ WF_vars(Main(c))

Spec == Init /\ [][Next]_vars /\ Fairness

-----------------------------------------------------------------------------
(* Properties                                                              *)

TypeOK ==
    /\ conn \in [Clients -> {"none", "open", "fin"}]
    /\ lines \in [Clients -> Seq(Kinds)]
    /\ mainUp \in BOOLEAN
    /\ sock \in [Clients -> Seq(Line)]
    /\ buf \in [Clients -> Seq(Line)]
    /\ readable \in [Clients -> BOOLEAN]
    /\ eof \in [Clients -> BOOLEAN]
    /\ locked \in [Clients -> BOOLEAN]
    /\ rpc \in [Clients -> {"poll", "fwd", "spin", "done"}]
    /\ fwd \in [Clients -> Msg \cup {NoMsg}]
    /\ internal \in [Clients -> Seq(Reply)]
    /\ wdone \in [Clients -> BOOLEAN]
    /\ task \in [Clients -> {"none", "oneshot", "started", "running", "disc",
                             "ended", "aborted", "panicked"}]
    /\ winbox \in [Clients -> Seq(Reply)]
    /\ out \in [Clients -> Seq(Reply)]
    /\ inbox \in Seq(Msg)
    /\ reg \in [Clients -> {"never", "in", "out"}]
    /\ neg \in [Clients -> {"None", "Station", "Select", "Error"}]
    /\ selects \in [Clients -> 0..MaxLines]
    /\ ua \in [Clients -> BOOLEAN]
    /\ why \in [Clients -> {"none", "disc", "bye", "overflow", "gone", "panic"}]
    /\ overlong \in [Clients -> BOOLEAN]

\* A client's commands reach the main loop on the same channel as, and
\* after, the NewClient that start_client sends before client_loop runs:
\* the main loop drops a Command or ErrorInfo only of a client it has
\* already removed, never of one it has not registered yet.
CommandsNeverPrecedeRegistration ==
    [][\A c \in Clients : MainIgnore(c) => reg[c] = "out"]_vars

\* What a client reads is a valid negotiation: every OK to a DATA command is
\* preceded by an OK to a STATION command, and no other DATA OK lies
\* between them (the dispatcher's negotiator check, State::next and the
\* negotiator.take() on DATA, across reader, main loop and writer).
IsOk(r, k) == r.k = k /\ r.r = "OK"
DataOkOnlyAfterStation ==
    \A c \in Clients : \A j \in 1..Len(out[c]) :
        IsOk(out[c][j], "DATA") =>
            \E m \in 1..(j - 1) :
                /\ IsOk(out[c][m], "STATION")
                /\ \A n \in (m + 1)..(j - 1) : ~IsOk(out[c][n], "DATA")

\* Line n of client c has been answered on the TCP stream.
Answered(c, n) == \E j \in 1..Len(out[c]) : out[c][j].i = n

\* Lines the protocol answers: not BYE, an empty line, or an SLPROTO that
\* tcp_read handles without a reply.
NeedsReply(k) == k \notin {"BYE", "EMPTY", "SLPROTO"}

\* Every command line that the server answers is eventually answered, unless
\* the main loop removed the client on BYE or on a full writer inbox, the
\* client loop never ran (setting TCP keepalive failed), or an earlier line
\* was over-long (tcp_read gives up on the connection).  This
\* is the promise of the codec ("Empty lines are ignored"), of tcp_read
\* ("resume the stream and don't disconnect the client") and of the spec's
\* example "SLPROTO 4.0\r\nINFO id\r\n" answered by an INFO packet.
Excused(c, n) ==
    \/ why[c] \in {"bye", "overflow"}
    \/ task[c] \in {"disc", "ended"} /\ rpc[c] # "done"
    \/ \E m \in DOMAIN lines[c] : m < n /\ lines[c][m] = "LONG"
AnsweredEventually ==
    \A c \in Clients : \A n \in 1..MaxLines :
        (n <= Len(lines[c]) /\ NeedsReply(lines[c][n]))
            ~> (Answered(c, n) \/ Excused(c, n))

\* start_client informs the main loop when the client loop terminates, so a
\* client task that has stopped is eventually removed from the main loop's
\* map (and its handle dropped).
Stopped(c) == task[c] \in {"disc", "ended", "panicked"}
DeregisteredEventually ==
    \A c \in Clients : (Stopped(c) /\ reg[c] = "in") ~> (reg[c] = "out")

\* When the main loop panics (todo!() on END, ENDFETCH or an INFO item other
\* than ID), no client task is left holding its TCP connection to a server
\* that can no longer answer it: the handles in the map and in the inbox
\* queue are dropped, which aborts those tasks, and every other task fails
\* its next ServerHandle::send.  A task spinning on SLPROTO is excepted (it
\* never yields, see slproto_spin).
Gone(c) == task[c] \in {"none", "ended", "aborted", "panicked"}
ClientsEndWithMainLoop ==
    ~mainUp ~> \A c \in Clients : Gone(c) \/ rpc[c] = "spin"
====
