------------------------------ MODULE V3Client ------------------------------
(***************************************************************************)
(* The SeedLink v3 client session as slink-tool and chain-plugin drive    *)
(* it: greet_raw (say_hello), an optional request_info, configure with the *)
(* per-station Negotiator, then the packets() loop with its keepalive      *)
(* timer, over the phase-aware SeedLinkCodec and FramedRead, against a v3  *)
(* server.                                                                 *)
(*                                                                         *)
(* Bytes are symbols of a small alphabet, and the packet layout is scaled  *)
(* down: an 8-byte header becomes 4, a 512-byte record 1, the signature    *)
(* SLINFO becomes SLI.  The codec compares its buffer with the same        *)
(* literals and counts bytes the same way, so its control is unchanged.   *)
(***************************************************************************)
EXTENDS Naturals, Sequences, SequencesExt

CONSTANTS
    Configs,       \* Seq of selector counts: one StreamConfig per station
    Banners,       \* first HELLO response lines the server may send
    Descriptions,  \* second HELLO response lines the server may send
    InfoItems,     \* the -i argument: "NONE" (absent), "ID", "STATIONS", ...
    Modes,         \* "DATA" (real time) or "FETCH" (dial-up)
    BatchFlags,    \* the -b flag
    KeepAlives,    \* whether slink-tool's -k flag is given
    Programs,      \* the clients: "slink-tool", "chain-plugin"
    MaxInfos,      \* bound on INFO commands the client sends
    MaxPackets     \* bound on data packets the server streams

-----------------------------------------------------------------------------
(* Wire symbols and the constants of v3/packet.rs (scaled)                 *)

CR == "cr"
LF == "lf"
CRLF == <<CR, LF>>
SIGNATURE == <<"S", "L">>
INFO_SIGNATURE == <<"S", "L", "I">>
OK_SIGNATURE == <<"O", "K">>
ERROR_SIGNATURE == <<"E", "R", "R", "O", "R">>
END_SIGNATURE == <<"E", "N", "D">>
HEADER_SIZE == 4
RECORD_SIZE == 1
\* The last header byte of an info packet: "*" means more packets follow.
INFO_TERMINATION_FLAG == "*"

\* Frame (frame.rs): Line and the packets carry their bytes.
Fr(k, b) == [k |-> k, b |-> b]
OkFrame == Fr("Ok", <<>>)
ErrorFrame == Fr("Error", <<>>)
EndFrame == Fr("End", <<>>)
NoFrame == Fr("None", <<>>)
\* An info packet: header SLI + flag, record "x" (XML) or "e" (channel ERR).
InfoPacket(flag, rec) == Fr("Info", INFO_SIGNATURE \o <<flag, rec>>)
DataPacket == Fr("Data", SIGNATURE \o <<"0", "0", "d">>)

-----------------------------------------------------------------------------
(* SeedLinkCodec::decode (v3/connection/seedlink.rs)                       *)

\* The outcome of one decode call: a frame or NoFrame, and what is left in
\* the codec's buf and in FramedRead's buffer src.
Result(f, buf, src) == [f |-> f, buf |-> buf, src |-> src]

\* try_to_finalize_frame_buffer: with bytes_missing bytes in src, the frame
\* is buf and those bytes; otherwise nothing is consumed.
FinalizeFrameBuffer(kind, buf, src, missing) ==
    IF Len(src) < missing THEN Result(NoFrame, buf, src)
    ELSE Result(Fr(kind, buf \o SubSeq(src, 1, missing)), <<>>,
                SubSeq(src, missing + 1, Len(src)))

\* Bytes of an info packet still missing once SLINFO is buffered.
InfoRest == HEADER_SIZE + RECORD_SIZE - Len(INFO_SIGNATURE)

\* Mutant: the header is one byte short.
FinalizePacketShortHeader(buf, src) ==
    LET m  == IF Len(buf) < HEADER_SIZE - 1 THEN HEADER_SIZE - 1 - Len(buf) ELSE 0
        hb == buf \o SubSeq(src, 1, m)
    IN IF Len(src) < m THEN Result(NoFrame, buf, src)
       ELSE FinalizeFrameBuffer(
               IF SubSeq(hb, 1, Len(INFO_SIGNATURE)) = INFO_SIGNATURE THEN "Info" ELSE "Data",
               hb, SubSeq(src, m + 1, Len(src)), RECORD_SIZE)

\* try_finalize_packet_frame: complete the header, then take RECORD_SIZE
\* bytes as an info packet if the header starts with SLINFO, else as a
\* data packet.  An incomplete header consumes nothing.
FinalizePacket(buf, src) ==
    LET m  == IF Len(buf) < HEADER_SIZE THEN HEADER_SIZE - Len(buf) ELSE 0
        hb == buf \o SubSeq(src, 1, m)
    IN IF Len(src) < m THEN Result(NoFrame, buf, src)
       ELSE FinalizeFrameBuffer(
               IF SubSeq(hb, 1, Len(INFO_SIGNATURE)) = INFO_SIGNATURE THEN "Info" ELSE "Data",
               hb, SubSeq(src, m + 1, Len(src)), RECORD_SIZE)

\* Mutant: the line is taken without popping its last byte.
RECURSIVE HandShakingLoopKeepCR(_, _)
HandShakingLoopKeepCR(buf, src) ==
    IF src = <<>> THEN Result(NoFrame, buf, src)
    ELSE IF Head(src) = LF
         THEN Result(CASE buf = OK_SIGNATURE    -> OkFrame
                       [] buf = ERROR_SIGNATURE -> ErrorFrame
                       [] OTHER                 -> Fr("Line", buf), <<>>, Tail(src))
         ELSE LET nb == Append(buf, Head(src)) IN
              CASE nb = END_SIGNATURE  -> Result(EndFrame, <<>>, Tail(src))
                [] nb = INFO_SIGNATURE -> FinalizeFrameBuffer("Info", nb, Tail(src), InfoRest)
                [] OTHER               -> HandShakingLoopKeepCR(nb, Tail(src))

\* The HandShaking loop: take bytes one by one; on LF pop the byte before
\* it (the CR) and classify the line; as soon as the buffer equals END or
\* SLINFO, stop there, without waiting for a line end.
RECURSIVE HandShakingLoop(_, _)
HandShakingLoop(buf, src) ==
    IF src = <<>> THEN Result(NoFrame, buf, src)
    ELSE IF Head(src) = LF
         THEN LET line == IF buf = <<>> THEN buf ELSE Front(buf) IN
              Result(CASE line = OK_SIGNATURE    -> OkFrame
                       [] line = ERROR_SIGNATURE -> ErrorFrame
                       [] OTHER                  -> Fr("Line", line), <<>>, Tail(src))
         ELSE LET nb == Append(buf, Head(src)) IN
              CASE nb = END_SIGNATURE  -> Result(EndFrame, <<>>, Tail(src))
                [] nb = INFO_SIGNATURE -> FinalizeFrameBuffer("Info", nb, Tail(src), InfoRest)
                [] OTHER               -> HandShakingLoop(nb, Tail(src))

\* The DataTransfer loop: take bytes until the buffer is SL (a packet
\* follows) or END.  A buffer that starts otherwise never matches again.
RECURSIVE DataTransferLoop(_, _)
DataTransferLoop(buf, src) ==
    IF src = <<>> THEN Result(NoFrame, buf, src)
    ELSE LET nb == Append(buf, Head(src)) IN
         CASE nb = SIGNATURE     -> FinalizePacket(nb, Tail(src))
           [] nb = END_SIGNATURE -> Result(EndFrame, <<>>, Tail(src))
           [] OTHER              -> DataTransferLoop(nb, Tail(src))

\* Mutant: decode does not resume a packet whose header is buffered.
DecodeDataTransferNoResume(buf, src) == DataTransferLoop(buf, src)

\* decode in DataTransfer: a buffered SL resumes the packet.
DecodeDataTransfer(buf, src) ==
    IF Len(buf) >= Len(SIGNATURE) /\ SubSeq(buf, 1, Len(SIGNATURE)) = SIGNATURE
    THEN FinalizePacket(buf, src)
    ELSE DataTransferLoop(buf, src)

\* decode in HandShaking: a buffered SLINFO resumes the info packet.
DecodeHandShaking(buf, src) ==
    IF buf = INFO_SIGNATURE THEN FinalizeFrameBuffer("Info", buf, src, InfoRest)
    ELSE HandShakingLoop(buf, src)

Decode(ph, buf, src) ==
    IF ph = "HandShaking" THEN DecodeHandShaking(buf, src)
    ELSE DecodeDataTransfer(buf, src)

\* The bytes a v3 server writes for a frame: lines end with CR LF, END
\* and packets are written bare.
Encode(f) ==
    CASE f.k = "Ok"    -> OK_SIGNATURE \o CRLF
      [] f.k = "Error" -> ERROR_SIGNATURE \o CRLF
      [] f.k = "End"   -> END_SIGNATURE
      [] f.k = "Line"  -> f.b \o CRLF
      [] OTHER         -> f.b
EncodeAll(fs) == FlattenSeq([i \in 1..Len(fs) |-> Encode(fs[i])])

\* SeedLinkInfoPacketV3::is_err and ::is_last.
IsErr(f) == f.b[HEADER_SIZE + 1] = "e"
IsLast(f) == f.b[HEADER_SIZE] # INFO_TERMINATION_FLAG

-----------------------------------------------------------------------------
(* The HELLO preflight (connection.rs setup_connection, util.rs)           *)

\* The literal "seedlink", scaled like the packet signatures.
SEEDLINK_ID == <<"s", "l">>
Digits == {"0", "1", "2", "3", "4", "5", "6", "7", "8", "9"}
DigitValue(c) == CHOOSE v \in 0..9 : <<"0", "1", "2", "3", "4", "5", "6", "7", "8", "9">>[v + 1] = c

\* str::to_lowercase over the banner alphabet.
Lower(t) == [i \in DOMAIN t |-> CASE t[i] = "S" -> "s" [] t[i] = "L" -> "l"
                                  [] t[i] = "X" -> "x" [] OTHER -> t[i]]

\* The index of the first occurrence of sep in t, 0 if there is none.
FirstAt(t, sep) ==
    LET I == {i \in 1..(Len(t) - Len(sep) + 1) : SubSeq(t, i, i + Len(sep) - 1) = sep}
    IN IF I = {} THEN 0 ELSE Min(I)

\* f32::from_str on text of digits, '.' and letters: digits with at most
\* one point and at least one digit ("inf" and "nan" have no letters here).
IsF32(t) ==
    /\ \A i \in DOMAIN t : t[i] \in Digits \cup {"."}
    /\ Cardinality({i \in DOMAIN t : t[i] = "."}) <= 1
    /\ \E i \in DOMAIN t : t[i] \in Digits

\* u8::from_str: the value, or -1 for an error (empty, not digits, > 255).
ParseU8(t) ==
    IF t # <<>> /\ \A i \in DOMAIN t : t[i] \in Digits
    THEN LET v == FoldLeft(LAMBDA a, c : a * 10 + DigitValue(c), 0, t)
         IN IF v <= 255 THEN v ELSE -1
    ELSE -1

\* parse_hello_response: split the first line at the first " v"; the
\* three characters after it must parse as f32 and the text before it
\* must be "seedlink" in any case.  The result is that version text, or
\* <<>> for InvalidData.
ParseHelloResponse(first) ==
    LET i    == FirstAt(first, <<" ", "v">>)
        rest == SubSeq(first, i + 2, Len(first))
    IN IF /\ i > 0 /\ Len(rest) >= 3 /\ IsF32(SubSeq(rest, 1, 3))
          /\ Lower(SubSeq(first, 1, i - 1)) = SEEDLINK_ID
       THEN SubSeq(rest, 1, 3) ELSE <<>>

\* Mutant: the major version is the first character of the version text.
MajorVersionFirstChar(ver) == ParseU8(SubSeq(ver, 1, 1))

\* setup_connection: the text before the first '.' parsed as u8.
MajorVersion(ver) ==
    LET d == FirstAt(ver, <<".">>)
    IN ParseU8(IF d = 0 THEN ver ELSE SubSeq(ver, 1, d - 1))

\* setup_connection with no version asked for in the URL: the peer's
\* major version must be one of AVAILABLE_CLIENT_PROTO_VERSIONS = [3];
\* anything else, a parse error included, fails connect.
PeerSelectsV3(first) ==
    LET ver == ParseHelloResponse(first)
    IN ver # <<>> /\ MajorVersion(ver) = 3

-----------------------------------------------------------------------------
(* State                                                                   *)

VARIABLES
    args,              \* slink-tool's arguments: info, mode, batch
    pc,                \* where slink-tool and the session are
    state,             \* FramedConnectionV3.state
    batch_cmd_mode,    \* FramedConnectionV3.batch_cmd_mode
    expect_info_resp,  \* FramedConnectionV3.expect_info_resp
    open,              \* FramedTcpConnection.open
    phase,             \* SeedLinkCodec.session_phase
    cbuf,              \* SeedLinkCodec.buf
    rbuf,              \* FramedRead's read buffer
    sti,               \* the station configure is negotiating
    sli,               \* the selector negotiate_streams is sending
    accepted,          \* accepted_sta_cnt
    infos,             \* INFO commands written so far
    c2s,               \* commands written and not yet read by the server
    wire,              \* bytes written by the server, not yet read
    server,            \* the server's session: batch, streaming, mode, ...
    sent,              \* history: frames the server wrote
    recv,              \* history: frames the decoder delivered
    preline            \* make_preflight_request's first response line

vars == <<args, pc, state, batch_cmd_mode, expect_info_resp, open, phase, cbuf,
          rbuf, sti, sli, accepted, infos, c2s, wire, server, sent, recv, preline>>
client == <<preline, pc, state, batch_cmd_mode, expect_info_resp, open, phase, sti, sli,
            accepted, infos>>

\* pc values at which the session awaits read_frame.
Reading == {"hello1", "hello2", "infoRead", "batchRead", "staRead", "selRead",
            "actRead", "packets"}

\* The next decode: the frame FramedRead would yield from its buffer.
Next_ == Decode(phase, cbuf, rbuf)

\* slink-tool's arguments: -i, real time or dial-up (-d), -b and -k.
SlinkToolArgs == [info : InfoItems, mode : Modes, batch : BatchFlags, keepalive : KeepAlives]

\* chain-plugin's session: greet_raw, no INFO, configure(RealTime, None,
\* batch), packets(None) with no keepalive; data packets go to the FIFO.
ChainPluginArgs == [info : {"NONE"}, mode : {"DATA"}, batch : BatchFlags, keepalive : {FALSE}]

\* The program runs Client::open and connect on a new TCP connection to a
\* server whose HELLO banner is one of Banners.
Init ==
    /\ args \in UNION {IF p = "slink-tool" THEN SlinkToolArgs ELSE ChainPluginArgs : p \in Programs}
    /\ pc = "preflight"
    /\ state = "Initialized"
    /\ batch_cmd_mode = FALSE
    /\ expect_info_resp = FALSE
    /\ open = TRUE
    /\ phase = "HandShaking"
    /\ cbuf = <<>> /\ rbuf = <<>>
    /\ sti = 1 /\ sli = 1 /\ accepted = 0 /\ infos = 0
    /\ c2s = <<>> /\ wire = <<>>
    /\ server \in {[banner |-> b, batch |-> FALSE, streaming |-> FALSE, mode |-> "DATA",
                   npk |-> 0, ended |-> FALSE, closed |-> FALSE] : b \in Banners}
    /\ sent = <<>> /\ recv = <<>>
    /\ preline = <<>>

Write(cmds) == c2s' = c2s \o cmds

\* say_bye: write the BYE command.
SayBye == Write(<<"BYE">>)

\* ActualFramedConnection::shutdown: shut the write half down, ignoring
\* its error; the connection is no longer open.
CloseWrite == open' = FALSE

\* FramedConnectionV3::shutdown: BYE, close the write half, state Closed.
Shutdown == SayBye /\ CloseWrite /\ state' = "Closed"

-----------------------------------------------------------------------------
(* The session (v3/connection/mod.rs, negotiate.rs, connection.rs packets) *)

\* FramedRead::poll_next when decode has no frame: read whatever part of
\* the server's bytes has arrived into the read buffer.  decode has
\* already moved the bytes it looked at into its own buffer.
SocketRead ==
    /\ pc \in Reading
    /\ Next_.f = NoFrame
    /\ wire # <<>>
    /\ \E n \in 1..Len(wire) :
          /\ rbuf' = Next_.src \o SubSeq(wire, 1, n)
          /\ wire' = SubSeq(wire, n + 1, Len(wire))
    /\ cbuf' = Next_.buf
    /\ UNCHANGED <<args, client, c2s, server, sent, recv>>

\* read_frame yields the next frame; each Read action below handles it.
TakeFrame ==
    /\ Next_.f # NoFrame
    /\ cbuf' = Next_.buf /\ rbuf' = Next_.src
    /\ recv' = Append(recv, Next_.f)
    /\ UNCHANGED <<args, wire, server, sent>>

\* slink-tool unwraps the error: the program stops.
Fail == pc' = "failed"

\* make_preflight_request: write "hello" on the new TCP connection.
Preflight ==
    /\ pc = "preflight"
    /\ Write(<<"HELLO">>)
    /\ pc' = "pre1"
    /\ UNCHANGED <<preline, args, state, batch_cmd_mode, expect_info_resp, open, phase,
                   cbuf, rbuf, sti, sli, accepted, infos, wire, server, sent, recv>>

\* read_line, straight from the socket up to and including LF; the line is
\* what str::lines makes of it (without LF, and without a CR before it).
\* After the second line setup_connection picks the protocol version:
\* v3 creates the FramedConnectionV3, anything else fails connect, which
\* slink-tool unwraps.
PreflightLine ==
    LET i     == FirstAt(wire, <<LF>>)
        bytes == SubSeq(wire, 1, i - 1)
        line  == IF bytes # <<>> /\ Last(bytes) = CR THEN Front(bytes) ELSE bytes
    IN /\ pc \in {"pre1", "pre2"}
       /\ i > 0
       /\ wire' = SubSeq(wire, i + 1, Len(wire))
       /\ recv' = Append(recv, Fr("Line", line))
       /\ IF pc = "pre1" THEN pc' = "pre2" /\ preline' = line
          ELSE /\ IF PeerSelectsV3(preline) THEN pc' = "hello" ELSE Fail
               /\ UNCHANGED preline
       /\ UNCHANGED <<args, state, batch_cmd_mode, expect_info_resp, open, phase, cbuf,
                      rbuf, sti, sli, accepted, infos, c2s, server, sent>>

\* say_hello: refuse from HandShaking on, write HELLO.
SayHello ==
    /\ pc = "hello"
    /\ state = "Initialized"
    /\ Write(<<"HELLO">>)
    /\ pc' = "hello1"
    /\ UNCHANGED <<preline, args, state, batch_cmd_mode, expect_info_resp, open, phase, cbuf,
                   rbuf, sti, sli, accepted, infos, wire, server, sent, recv>>

\* read_line_frame, twice: anything but a Line is InvalidData.
HelloLine(f) ==
    /\ pc \in {"hello1", "hello2"}
    /\ IF f.k = "Line" THEN pc' = IF pc = "hello1" THEN "hello2" ELSE "info"
                       ELSE Fail
    /\ UNCHANGED <<preline, state, batch_cmd_mode, expect_info_resp, open, phase, sti, sli,
                   accepted, infos, c2s>>

\* Mutant: try_send_info without the concurrent-request check.
TrySendInfoUnguarded(item) ==
    /\ infos < MaxInfos
    /\ Write(<<item>>)
    /\ infos' = infos + 1

\* try_send_info: refuse while an INFO response is expected, else write
\* the INFO command.
TrySendInfo(item) ==
    /\ ~expect_info_resp
    /\ infos < MaxInfos
    /\ Write(<<item>>)
    /\ infos' = infos + 1

\* slink-tool's match on -i: each InfoItem calls its request_*_info_raw,
\* which is request_info with that INFO command.
InfoCommand ==
    ("ID" :> "INFOID") @@ ("STATIONS" :> "INFOSTATIONS") @@ ("STREAMS" :> "INFOSTREAMS")
    @@ ("CONNECTIONS" :> "INFOCONNECTIONS")
InfoCommands == Range(InfoCommand)

\* request_info: try_send_info, then expect_info_resp is set.  A refusal
\* is a ClientError that slink-tool only logs.
RequestInfo ==
    /\ pc = "info"
    /\ IF args.info = "NONE" \/ expect_info_resp
       THEN pc' = "cfg" /\ UNCHANGED <<expect_info_resp, infos, c2s>>
       ELSE /\ TrySendInfo(InfoCommand[args.info])
            /\ expect_info_resp' = TRUE
            /\ pc' = "infoRead"
    /\ UNCHANGED <<preline, args, state, batch_cmd_mode, open, phase, cbuf, rbuf, sti, sli,
                   accepted, wire, server, sent, recv>>

\* The request_info loop: other frames are ignored; an info packet on the
\* ERR channel returns UnsupportedCommand at once (slink-tool logs it);
\* the last packet clears expect_info_resp.
InfoFrame(f) ==
    /\ pc = "infoRead"
    /\ IF f.k # "Info" THEN UNCHANGED <<pc, expect_info_resp>>
       ELSE IF IsErr(f) THEN pc' = "cfg" /\ UNCHANGED expect_info_resp
       ELSE IF IsLast(f) THEN pc' = "cfg" /\ expect_info_resp' = FALSE
       ELSE UNCHANGED <<pc, expect_info_resp>>
    /\ UNCHANGED <<preline, state, batch_cmd_mode, open, phase, sti, sli, accepted, infos, c2s>>

\* configure: with no stream configs return at once (slink-tool then shuts
\* down); with -b write BATCH and await its answer; else start
\* HandShaking.
Configure ==
    /\ pc = "cfg"
    /\ IF Len(Configs) = 0
       THEN /\ Shutdown
            /\ pc' = "done" /\ UNCHANGED batch_cmd_mode
       ELSE IF args.batch
       THEN /\ Write(<<"BATCH">>) /\ pc' = "batchRead"
            /\ UNCHANGED <<state, open, batch_cmd_mode>>
       ELSE /\ state' = "HandShaking" /\ pc' = "sta"
            /\ UNCHANGED <<c2s, open, batch_cmd_mode>>
    /\ UNCHANGED <<preline, args, expect_info_resp, phase, cbuf, rbuf, sti, sli, accepted,
                   infos, wire, server, sent, recv>>

\* The answer to BATCH: OK enables batch command mode; ERROR is
\* UnsupportedCommand, any other frame InvalidData.
BatchAnswer(f) ==
    /\ pc = "batchRead"
    /\ IF f.k = "Ok"
       THEN batch_cmd_mode' = TRUE /\ state' = "HandShaking" /\ pc' = "sta"
       ELSE Fail /\ UNCHANGED <<batch_cmd_mode, state>>
    /\ UNCHANGED <<preline, expect_info_resp, open, phase, sti, sli, accepted, infos, c2s>>

\* The action command negotiate_data_transfer_mode writes: DATA for real
\* time, FETCH for dial-up.
ActionCmd == args.mode

\* Negotiator::negotiate for station sti: write STATION.  In batch mode
\* write every SELECT and the action command without awaiting answers,
\* and count the station as accepted; else await the answer to STATION.
Station ==
    /\ pc = "sta"
    /\ sti <= Len(Configs)
    /\ IF batch_cmd_mode
       THEN /\ Write(<<"STATION">> \o [i \in 1..Configs[sti] |-> "SELECT"] \o <<ActionCmd>>)
            /\ accepted' = accepted + 1 /\ sti' = sti + 1
            /\ UNCHANGED pc
       ELSE /\ Write(<<"STATION">>) /\ pc' = "staRead"
            /\ UNCHANGED <<accepted, sti>>
    /\ UNCHANGED <<preline, args, state, batch_cmd_mode, expect_info_resp, open, phase, cbuf,
                   rbuf, sli, infos, wire, server, sent, recv>>

\* The answer to STATION: OK goes on to the selectors (negotiate_streams
\* returns at once without any); ERROR omits the station.
StationAnswer(f) ==
    /\ pc = "staRead"
    /\ CASE f.k = "Ok"    -> /\ pc' = IF Configs[sti] = 0 THEN "act" ELSE "sel"
                             /\ sli' = 1 /\ UNCHANGED sti
         [] f.k = "Error" -> pc' = "sta" /\ sti' = sti + 1 /\ UNCHANGED sli
         [] OTHER         -> Fail /\ UNCHANGED <<sti, sli>>
    /\ UNCHANGED <<preline, state, batch_cmd_mode, expect_info_resp, open, phase, accepted,
                   infos, c2s>>

\* negotiate_streams: write SELECT for selector sli.
Select ==
    /\ pc = "sel"
    /\ Write(<<"SELECT">>)
    /\ pc' = "selRead"
    /\ UNCHANGED <<preline, args, state, batch_cmd_mode, expect_info_resp, open, phase, cbuf,
                   rbuf, sti, sli, accepted, infos, wire, server, sent, recv>>

\* The answer to SELECT: OK and ERROR both go on to the next selector.
SelectAnswer(f) ==
    /\ pc = "selRead"
    /\ IF f.k \in {"Ok", "Error"}
       THEN /\ pc' = IF sli = Configs[sti] THEN "act" ELSE "sel"
            /\ sli' = sli + 1
       ELSE Fail /\ UNCHANGED sli
    /\ UNCHANGED <<preline, state, batch_cmd_mode, expect_info_resp, open, phase, sti, accepted,
                   infos, c2s>>

\* Mutant: the action command is written without awaiting its answer.
ActionNoAnswer ==
    /\ pc = "act"
    /\ Write(<<ActionCmd>>)
    /\ pc' = "sta" /\ accepted' = accepted + 1 /\ sti' = sti + 1
    /\ UNCHANGED <<preline, args, state, batch_cmd_mode, expect_info_resp, open, phase, cbuf,
                   rbuf, sli, infos, wire, server, sent, recv>>

\* negotiate_data_transfer_mode: write DATA or FETCH and await the answer.
Action ==
    /\ pc = "act"
    /\ Write(<<ActionCmd>>)
    /\ pc' = "actRead"
    /\ UNCHANGED <<preline, args, state, batch_cmd_mode, expect_info_resp, open, phase, cbuf,
                   rbuf, sti, sli, accepted, infos, wire, server, sent, recv>>

\* The answer to the action command: OK accepts the station; ERROR is a
\* ClientError that fails configure.
ActionAnswer(f) ==
    /\ pc = "actRead"
    /\ IF f.k = "Ok"
       THEN pc' = "sta" /\ accepted' = accepted + 1 /\ sti' = sti + 1
       ELSE Fail /\ UNCHANGED <<accepted, sti>>
    /\ UNCHANGED <<preline, state, batch_cmd_mode, expect_info_resp, open, phase, sli, infos, c2s>>

\* Mutant: END is not written when stations were accepted.
EndConfigureNoEnd ==
    /\ pc = "sta"
    /\ sti > Len(Configs)
    /\ IF accepted = 0
       THEN state' = "Initialized" /\ UNCHANGED phase
       ELSE state' = "DataTransfer" /\ phase' = "DataTransfer"
    /\ pc' = "packets"
    /\ UNCHANGED <<preline, args, batch_cmd_mode, expect_info_resp, open, cbuf, rbuf, sti, sli,
                   accepted, infos, wire, server, sent, recv, c2s>>

\* The end of configure: with no station accepted back to Initialized;
\* else DataTransfer, the codec switches phase and END is written.
\* slink-tool then starts the packets() stream either way.
EndConfigure ==
    /\ pc = "sta"
    /\ sti > Len(Configs)
    /\ IF accepted = 0
       THEN state' = "Initialized" /\ UNCHANGED <<phase, c2s>>
       ELSE state' = "DataTransfer" /\ phase' = "DataTransfer" /\ Write(<<"END">>)
    /\ pc' = "packets"
    /\ UNCHANGED <<preline, args, batch_cmd_mode, expect_info_resp, open, cbuf, rbuf, sti, sli,
                   accepted, infos, wire, server, sent, recv>>

\* packets(): a data packet is yielded; an info packet acknowledges the
\* keepalive; END shuts the connection down (BYE) and ends the stream;
\* any other frame is InvalidData.
PacketFrame(f) ==
    /\ pc = "packets"
    /\ CASE f.k = "Data" -> UNCHANGED <<pc, expect_info_resp, open, state, c2s>>
         [] f.k = "Info" -> expect_info_resp' = FALSE
                            /\ UNCHANGED <<pc, open, state, c2s>>
         [] f.k = "End"  -> /\ Shutdown
                            /\ pc' = "done" /\ UNCHANGED expect_info_resp
         [] OTHER        -> Fail /\ UNCHANGED <<expect_info_resp, open, state, c2s>>
    /\ UNCHANGED <<preline, batch_cmd_mode, phase, sti, sli, accepted, infos>>

\* The keepalive branch of packets(): try_send_keep_alive writes INFO ID
\* unless a response is expected (the ClientError is dropped), and sets
\* expect_info_resp.  With the flag already set the tick changes nothing.
SendKeepAlive ==
    /\ pc = "packets"
    /\ args.keepalive
    /\ TrySendInfo("INFOID")
    /\ expect_info_resp' = TRUE
    /\ UNCHANGED <<preline, args, pc, state, batch_cmd_mode, open, phase, cbuf, rbuf, sti, sli,
                   accepted, wire, server, sent, recv>>

ReadHelloLine == TakeFrame /\ HelloLine(Next_.f)
ReadInfoFrame == TakeFrame /\ InfoFrame(Next_.f)
ReadBatchAnswer == TakeFrame /\ BatchAnswer(Next_.f)
ReadStationAnswer == TakeFrame /\ StationAnswer(Next_.f)
ReadSelectAnswer == TakeFrame /\ SelectAnswer(Next_.f)
ReadActionAnswer == TakeFrame /\ ActionAnswer(Next_.f)
ReadPacket == TakeFrame /\ PacketFrame(Next_.f)

-----------------------------------------------------------------------------
(* The v3 server (SeedLink 3.1 as spec.md 4.4 describes it)                *)

\* The responses a server may write to a command.  In batch mode STATION,
\* SELECT and the action commands are not answered.
Respond(cmd) ==
    CASE cmd = "HELLO" -> {<<Fr("Line", server.banner), Fr("Line", d)>> : d \in Descriptions}
      [] cmd = "INFOID" -> {<<InfoPacket(" ", "x")>>, <<InfoPacket(" ", "e")>>}
      [] cmd \in InfoCommands \ {"INFOID"} ->
             {<<InfoPacket("*", "x"), InfoPacket(" ", "x")>>, <<InfoPacket(" ", "e")>>}
      [] cmd = "BATCH" -> {<<OkFrame>>, <<ErrorFrame>>}
      [] cmd \in {"STATION", "SELECT", "DATA", "FETCH"} ->
             IF server.batch THEN {<<>>} ELSE {<<OkFrame>>, <<ErrorFrame>>}
      [] OTHER -> {<<>>}

ServerWrite(fs) == sent' = sent \o fs /\ wire' = wire \o EncodeAll(fs)

\* The server reads the next command and writes its response.
Serve ==
    /\ c2s # <<>>
    /\ ~server.closed
    /\ LET cmd == Head(c2s) IN
       \E fs \in Respond(cmd) :
          /\ c2s' = Tail(c2s)
          /\ ServerWrite(fs)
          /\ server' = [server EXCEPT
                          !.batch = @ \/ (cmd = "BATCH" /\ fs = <<OkFrame>>),
                          !.streaming = @ \/ cmd = "END",
                          !.mode = IF cmd \in {"DATA", "FETCH"} THEN cmd ELSE @,
                          !.closed = cmd = "BYE"]
    /\ UNCHANGED <<args, client, cbuf, rbuf, recv>>

\* After END the server streams data packets ...
Stream ==
    /\ server.streaming /\ ~server.closed
    /\ server.npk < MaxPackets
    /\ ServerWrite(<<DataPacket>>)
    /\ server' = [server EXCEPT !.npk = @ + 1]
    /\ UNCHANGED <<args, client, cbuf, rbuf, c2s, recv>>

\* ... and in dial-up (FETCH) mode ends with END once it has sent them.
EndOfFetch ==
    /\ server.streaming /\ ~server.closed /\ ~server.ended
    /\ server.mode = "FETCH"
    /\ server.npk = MaxPackets
    /\ ServerWrite(<<EndFrame>>)
    /\ server' = [server EXCEPT !.ended = TRUE]
    /\ UNCHANGED <<args, client, cbuf, rbuf, c2s, recv>>

-----------------------------------------------------------------------------

Session ==
    \/ Preflight \/ PreflightLine \/ SayHello \/ ReadHelloLine \/ RequestInfo \/ ReadInfoFrame
    \/ Configure \/ ReadBatchAnswer \/ Station \/ ReadStationAnswer
    \/ Select \/ ReadSelectAnswer \/ Action \/ ReadActionAnswer
    \/ EndConfigure \/ ReadPacket \/ SendKeepAlive

Server == Serve \/ Stream \/ EndOfFetch

Next == Session \/ SocketRead \/ Server

\* The session is one task that runs whenever it is not awaiting; the
\* socket delivers what the server wrote; the server answers.
Fairness ==
    /\ WF_vars(Session)
    /\ WF_vars(SocketRead)
    /\ WF_vars(Serve) /\ WF_vars(Stream) /\ WF_vars(EndOfFetch)

Spec == Init /\ [][Next]_vars /\ Fairness

-----------------------------------------------------------------------------
(* Properties                                                              *)

Frames ==
    {OkFrame, ErrorFrame, EndFrame, DataPacket}
    \cup {Fr("Line", l) : l \in Banners \cup Descriptions}
    \cup {InfoPacket(fl, r) : fl \in {"*", " "}, r \in {"x", "e"}}

TypeOK ==
    /\ pc \in Reading \cup {"preflight", "pre1", "pre2", "hello", "info", "cfg", "sta", "sel", "act", "done", "failed"}
    /\ state \in {"Initialized", "HandShaking", "DataTransfer", "Closed"}
    /\ phase \in {"HandShaking", "DataTransfer"}
    /\ {batch_cmd_mode, expect_info_resp, open} \subseteq BOOLEAN
    /\ sti \in 1..(Len(Configs) + 1)
    /\ accepted \in 0..Len(Configs)
    /\ infos \in 0..MaxInfos
    /\ sent \in Seq(Frames)
    /\ recv \in Seq(Frames)

\* The codec delivers exactly the frames the server wrote, whole and in
\* order, however the bytes are split between socket reads: SeedLinkCodec
\* with FramedRead refines FrameChannel.
FC == INSTANCE FrameChannel WITH sent <- sent, recv <- recv
RefinesFrameChannel == FC!Spec

\* INFO commands written and not yet answered by a last (or ERR) packet.
OutstandingInfos ==
    Len(SelectSeq(c2s, LAMBDA c : c \in InfoCommands))
    + Len(SelectSeq(SubSeq(sent, Len(recv) + 1, Len(sent)),
                    LAMBDA f : f.k = "Info" /\ IsLast(f)))

\* expect_info_resp keeps INFO requests apart (spec 4.4: a second
\* concurrent INFO is refused): request_info and the keepalive timer of
\* packets() never have two INFO commands unanswered at once.
InfoRequestsNeverOverlap == OutstandingInfos <= 1

\* When configure switches the codec to DataTransfer, no answer to a
\* handshake command is still on its way: everything not yet read is a
\* packet or END, which the DataTransfer decoder can frame.
NoLinePendingInDataPhase ==
    phase = "DataTransfer" =>
        \A k \in (Len(recv) + 1)..Len(sent) : sent[k].k \in {"Info", "Data", "End"}

\* The decoder never stalls: eventually the session has read every frame
\* the server wrote, unless it stopped (done, or failed on an error).
AllFramesEventuallyRead ==
    <>[](Len(recv) = Len(sent) \/ pc \in {"done", "failed"})

\* A dial-up session ends: once configure has had a station accepted in
\* FETCH mode, the server's END after its buffered packets reaches
\* packets(), which says BYE and ends the stream, whatever keepalive
\* INFO packets are interleaved and however the bytes are split.  (With
\* every station refused no END is written, and packets() waits for ever.)
DialUpSessionEnds ==
    (pc = "packets" /\ args.mode = "FETCH" /\ accepted > 0) ~> pc \in {"done", "failed"}

\* The keepalive flag is cleared by the INFO response (spec 4.4): while
\* expect_info_resp is set, an INFO request is really unanswered.
ExpectMeansOutstanding == expect_info_resp => OutstandingInfos > 0

\* setup_connection only hands the socket to a v3 session when the
\* server's banner reads "SeedLink v3.<d>..." (any case): no framed
\* command is written, and no frame decoded, for a server of another
\* version or an unreadable banner.
SessionOnlyWithV3Server ==
    pc \notin {"preflight", "pre1", "pre2", "failed"} =>
        \E n \in 0..Len(server.banner) :
            /\ Len(server.banner) >= n + 5
            /\ Lower(SubSeq(server.banner, 1, n)) = SEEDLINK_ID
            /\ SubSeq(server.banner, n + 1, n + 4) = <<" ", "v", "3", ".">>
            /\ server.banner[n + 5] \in Digits
====
