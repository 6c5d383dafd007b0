# TLA+ models of slink (SeedLink v3/v4 client and server)

This directory holds TLA+ models of the SeedLink protocol engine in this
repository. It also holds the TLC configurations that check them.

- The library lives under `src/src/`: commands, codecs, the v3 client session, the connection facade and the state database.
- The server lives under `src/slink-server/src/`: actors, the dispatcher, the negotiator and the selection.

`PROJECT.json` lists every component, run, mutant, finding and hazard, and
maps every definition to the source lines it models.

## 1. The system

The spec (`spec.md` §2) names eleven components. Each is listed with its state and operations.

| # | Component | Source | State | Operations |
|---|-----------|--------|-------|------------|
| C1 | Wire primitives | `src/packet.rs`, `src/v4/error.rs` | none (constants) | none |
| C2 | Command grammar | `src/v3/cmd`, `src/v4/cmd` | none (pure parse) | parse / to_string |
| C3 | Inventory and selection | `src/*inventory.rs`, `slink-server/src/select.rs` | `Select`: per-stream `selected`, `excluded`, filter, seq, time window | `apply`, `set_seq_num`, `set_time`; client `Inventory`: `insert`, `get` |
| C4 | v3 framed codec | `src/v3/connection/seedlink.rs` | phase, buffer | decode lines, then 520-byte packets |
| C5 | v4 line codec | `slink-server/src/seedlink.rs` | buffer, `next_index`, `is_discarding`, version, lock | `decode`, `try_set_protocol_version`, `lock_protocol_version` |
| C6 | v3 client session | `src/v3/connection/*.rs` | state (HandShaking/DataTransfer), negotiator, batch flag, keepalive and INFO flags | `say_hello`, `configure`, `request_info`, keepalive, `ack` |
| C7 | Packet types | `src/v3/packet.rs`, `src/v4/packet.rs` | none (byte views) | v4: `parse`, `pack_info`, `pack_ms_record`, `pack_packet_with_seq_num`; accessors |
| C8 | v4 server actors | `slink-server/src/{accept,client,server,dispatch}.rs` | see below | accept, client task, reader, writer, main loop, dispatch |
| C9 | v4 station negotiator | `slink-server/src/negotiate.rs` | `State`, `Select` | `next` |
| C10 | State database | `src/state.rs` | sqlite rows (sid → seq) | `store`, `seq_num`, `state` |
| C11 | Connection facade | `src/connection.rs`, `src/util.rs` | stream configs, version, packet stream | `connect`, version selection, `recover_state`, `packets` |

### How the server parts interact

1. The accept loop (`accept.rs`) gives each TCP connection a `ClientId` and calls `spawn_client`.
2. `spawn_client` hands the new task its own `ClientHandle` over a oneshot.
3. The task (`start_client`) forwards the handle to the main loop as `NewClient`. It then runs `client_loop`:
   - it sets TCP keepalive, which may fail;
   - it runs `tcp_read` and `tcp_write` in the same task under `try_join!`.
4. `tcp_read` drives tokio-util's `FramedRead` over the v4 codec.
   - It awaits `ServerHandle::send` to forward commands to the main loop. The main inbox is bounded at 64.
   - It sends protocol errors straight to the writer. This channel is unbounded.
5. `tcp_write` selects at random between its inbox and the reader's channel. The inbox is bounded at 64, and the main loop `try_send`s to it; a full inbox disconnects the client.
6. The main loop keeps a map of handles. Dropping a handle aborts its task.
7. The main loop dispatches each command. The dispatcher keeps the per-client negotiator `None | Station | Select`.
8. When `client_loop` returns, `start_client` sends `DisconnectClient`.

### Hazards

These behaviours are hard to test (`PROJECT.json` → `hazards`):

- The reader's interaction with `FramedRead`'s `is_readable` flag:
  - an empty line stalls the lines buffered after it;
  - so does the line after a parse error.
- The `continue` after `SLPROTO`, which never fetches the next frame.
- The writer leaving while replies are still queued.
- A panic in the codec ending a task without `DisconnectClient`.
- The order of `NewClient` against the commands on the shared inbox.
- The main loop's `todo!()` on END, ENDFETCH and INFO items other than ID:
  one client's command drops every client's handle, and clients that are
  still starting then panic in `ServerHandle::send`.
- AUTH, which the dispatcher's catch-all never answers.
- The negotiator's sequence STATION → SELECT* → DATA.
- Backpressure at the writer inbox.
- On the client side:
  - the keepalive tick racing `read_frame` in `packets()`;
  - a stale `expect_info_resp` after an INFO error;
  - the codec's phase switch while answers are still in flight;
  - a header split across reads;
  - restarts that rebuild the resume point from the state file;
  - an INFO station list naming one station twice, which leaves a stale
    entry in the client `Inventory`.

## 2. Plan

The modules are built in this order. Items 1-4 and 6-9 are in place; item 5 lists what is left out.

1. **ServerActors** (C8 with C5's and C9's effect on it). Done.
2. **ServerSelect** (C3 and C9). Done:
   - what `Select::apply`, `set_seq_num` and `set_time` do to a small set of streams;
   - properties from the spec §3 invariants: a stream is selected iff a pattern matched, and filter and exclusion are exclusive.
3. **V3Client** with **FrameChannel** (C4, C6, the packets() loop of C11, the flows of slink-tool and chain-plugin). Done: the session against a nondeterministic v3 server, over the byte-level codec, refining an abstract frame channel.
4. **ClientState** (C10, `recover_state` of C11). Done: restarts of slink-tool `-x` over the persistent table.
5. Not modelled (see below for items 6-9), and why:
   - the v3 command texts (`src/src/v3/cmd`). The client sends them as fixed strings, and V3Client models each one as the command it stands for.
   - a passing run for ClientState. The project's runs are spent on the questions above. ClientState's definitions are mapped, and its one run finds the lexicographic recovery bug.
   - `configure_from_state_db` (C11). No program calls it. It configures with `self.stream_configs` and drops the configs it built from the database, which is listed as a hazard.
   - the v4 error type (`src/src/v4/error.rs`). It is only the texts `ERROR <CODE>: <description>`, which the server sends as error lines. The models keep only the fact that a line is an error.
   - URL parsing (`parse_slink_url`, `url_to_tcp_connection_info`). It relies on the `url` crate, and slink-tool always builds a `slink://` URL, so no protocol version is ever requested.

Not modelled at all:
- the example Redis server and the server binary, which only wire a backend into the library's server (ServerActors models that server);
- chain-plugin's FIFO creation and daemonising;
- the serde deserialisation of the v3 and v4 inventories, apart from the v4 `StreamId`;
- the per-field `From` conversions between the v3, v4 and generic inventory types;
- the v3 miniSEED record parsing behind `SeedLinkPacketV3`.

6. **LineCodec** (C5 at byte level, with tcp_read and FramedRead). Done.
7. **CommandV4** (C2: the v4 command grammar on texts), composed into
   ServerActors and ServerSelect. Done.
8. **PacketV4** (C7: the v4 packet layout on bytes). Done.
9. **Inventory** (C3: the client library's station inventory). Done.

## 3. ServerActors

`ServerActors.tla` models the v4 server of C8 at line granularity. A peer
(`Connect`, `SendLine`, `HalfClose`) sends command texts from the constant
`Texts`, sequences of characters. `KindOf` classifies each text as
`SeedLinkCodec::decode` and `CommandV4::parse` do:

- `EMPTY` for an empty line;
- `LONG` for a line whose terminator falls past `MaxLineLength`
  (`MAX_COMMAND_LINE_LENGTH`);
- otherwise the outcome of `ParseCommand` (module CommandV4, section 8):
  a command, `FOO` for Unknown, `BADARGS`, `INFOERR`, or `PANIC`.

The model carries the line's kind and its position in the stream.
`MC_ServerActors` names one text per kind (`THello`, `TStation`, ... `TLong`), and an
ASSUME checks that each text reaches the kind it is named for.

- Accept loop and client task: `Accept`, `StartClient` (NewClient),
  `ClientLoop`, `ClientLoopDone`, `SendDisconnect`.
- `tcp_read` with `FramedRead`'s `is_readable`/`eof`: `ReadSocket`,
  `DecodeNone`, `DecodeTooLong`, `DecodePanic`, `DecodeError` (with the
  skipped `next()`), `DecodeCommand`, `Forward`, `SpinSlProto`.
- `tcp_write`'s random select: `WriteReply`, `WriteError`, `WriterExit`.
- The main loop and the dispatcher: one `Main*` action per message and
  command, with the negotiator of C9 (`NegNext`) and the bounded writer
  inbox (`SendToClient`, `try_send`).
- AUTH falls into the dispatcher's catch-all (`MainUnhandled`), which gives
  no answer.
- END, ENDFETCH (`MainTodoEnd`) and INFO items other than ID
  (`MainTodoInfo`) reach `todo!()`. The main loop panics (`MainLoopPanics`):
  - `mainUp` becomes false and the inbox is gone;
  - every registered client is removed, and its task is aborted as dropping
    its handle does (`AbortTask`);
  - dropping the inbox receiver drains the queued messages, so a client whose
    `NewClient` is still queued (`Queued`) loses its handle and is aborted too.
- A task that then calls `ServerHandle::send` panics ("Main loop has shut
  down.", `SendToDeadMain`). This covers a task still starting, one ending,
  and a reader forwarding a command.
- The server binary unwraps the main loop's join handle (`main.rs`), so the
  process exits as well. The model stops at the library's behaviour.

Fairness is weak fairness on each actor of each client (`Lifecycle`,
`Reader`, `Writer`, `Main`): tokio polls every task that is ready, and
`select!` polls both branches. The peer has no fairness: it may stop.

| Run | Expect | What it shows |
|-----|--------|---------------|
| `server_safety` | pass | One client, every kind, half-close. `DataOkOnlyAfterStation`: every DATA OK the client reads follows a STATION OK with no other DATA OK between. `CommandsNeverPrecedeRegistration`: the main loop drops commands only of clients it has removed. |
| `server_two_clients` | pass | The same two properties with two clients sharing the inbox (STATION, DATA and END). END reaches the main loop's panic while the other client is starting or forwarding. `ClientsEndWithMainLoop`: once the main loop has panicked, every client's task eventually ends, except one already spinning on SLPROTO (which never sends). No symmetry: the run checks a liveness property, which TLC does not check soundly under symmetry. |
| `server_answers` | pass | `AnsweredEventually` for the texts that are answered and neither stall, end nor kill the reader or the main loop, without half-close. |
| `server_lifecycle` | pass | `DeregisteredEventually`: a stopped task is removed from the map, with half-close. |
| `slproto_spin` | violation | `AnsweredEventually` for SLPROTO then INFO id: the `continue` re-handles SLPROTO for ever. |
| `panic_leak` | violation | `DeregisteredEventually` for DATA without arguments and for SELECT followed by a space (an empty pattern): the panic in the codec skips DisconnectClient. |
| `pending_replies_dropped` | violation | `AnsweredEventually` for HELLO then an over-long line: the writer leaves with the HELLO reply still queued. |

`MaxLines` 2-3, a main inbox of 2 and a writer inbox of 1 are enough to
fill both inboxes and to put a command on each side of every other one.
The empty line's effect on later lines is shown at byte level by
LineCodec (section 7), not here.

## 4. ServerSelect

`ServerSelect.tla` models one negotiation of one client:

1. `Init` is the `Select` that STATION builds (`Select::new` with `StreamSelect::from`).
2. `SelectCmd(arg)` is `StationNegotiator::next` on a SELECT whose argument text `arg` parses. It folds `Select::apply` (`Apply`) over the parsed patterns in order. An argument that does not parse never reaches the negotiator; the reader answers it (ServerActors).
3. `DataCmd(a)` is `next` on a DATA whose arguments `a` went through `CommandV4::parse` (`ParseData`). It applies `set_seq_num` and, with a start time, `set_time`.

SELECT arguments are texts, parsed as the code parses them (the operators
are in CommandV4, section 8):

- `Split` is `str::split` on one character;
- `ParsePattern` is `SelectPattern::from_str`. A filter is kept only with exactly one `:`, and a format only with exactly one `.`. The checks come in the code's order. An empty stream part is the outcome "panic" (`chars().next().unwrap()`);
- `ParseSelect` is `Select::from_str`: words split at single spaces, and the first failing word decides the outcome;
- `Display` is `SelectPattern`'s `fmt`.

Stream identifiers are records of the four codes (`IdOf`), with the format and subformat (`FormatOf`, `SubFormatOf`). `apply` matches the text their Display gives, and so does the model: `StreamIdDisplay` joins the codes with `_` (an empty location code leaves a leading `_`), and `FormatCode`/`SubFormatCode` are one character each. `ParseStreamId` is the v4 inventory's `StreamId::deserialize`, by which a backend's ids reach the server; an ASSUME in `MC_ServerSelect` checks that every id of the model reads back from its text (so `IdOf` holds only ids the server can load) and that a `--` location, an empty source and a three-field id are refused. These texts, the format strings and the patterns are short character sequences. Pattern matching is modelled by what it does:

- `CreateRegex` translates `create_regex`: `*` → `.*`, `?` → `.`.
- `MatchHere`/`MatchStar` are a backtracking matcher for the regex subset this produces.
- `IsMatch` is the unanchored `Regex::is_match`.

`MC_ServerSelect` has:

- two stations: A with streams `_B_H_Z` and `_B_H_N` (miniSEED 2, data, shown as 2D), and B with stream `0_L_H_Z` (miniSEED 3, event, 3E);
- thirteen SELECT argument texts:
  - `B_H_?`, `*Z.2?:f`, `!B_H_Z`, `Z:g` and `!*N`;
  - `BH?`, a pattern written without the delimiters, which matches nothing;
  - `B_H_? !B_H_Z`, two patterns in one command;
  - `*Z.2D.x` and `!*N:f:g`, which are accepted with a part dropped;
  - `!*N:f` and `Z:`, which are refused;
  - `.2D` and `Z ` (trailing space), which panic;
- three DATA forms: `ALL t1`, `NEXT`, `7`;
- up to three SELECTs.

Deadlock checking is off: DATA ends the negotiation.

| Run | Expect | What it shows |
|-----|--------|---------------|
| `select_safety` | pass | `TypeOK`. `SelectionFollowsGlob`: after any SELECTs, a stream is excluded iff an applied `!pattern` matches it as a glob found anywhere in its id and format, and its filter comes from a pattern that matches it that way. The glob reference is a separate RECURSIVE definition. Since the applied patterns only grow, it also means that no later SELECT undoes an exclusion. `AppliedPatternsWellFormed`: every pattern the parser hands to `apply` is one the spec §4 grammar can state (never `!` with a filter), and `Display` then `from_str` gives it back. |

Five divergences surfaced while the module was written. They are recorded as hazards in `PROJECT.json` and kept out of the runs:

- `SELECT Z:g` then `SELECT !B_H_Z` leaves `_B_H_Z` both filtered and excluded. The spec §3 invariant says filter presence implies not excluded. `is_selected()` ignores the filter of an excluded stream, so nothing downstream is wrong.
- `SELECT BH?` then DATA: `has_selected()` is true though no pattern matched, because every stream starts selected. Spec §8 says it is true iff a pattern matched.
- `DATA ALL t1` commits seq Next and no time window. The inverted DATA parse yields `Data::default()` for DATA with arguments. This has the same root cause as `panic_leak`.
- A word with two `:` or two `.` is accepted, and the extra parts are dropped. `!*N:f:g` is applied as the exclusion `!*N`, although spec §4 makes `!` and a filter exclusive. `AppliedPatternsWellFormed` still holds, because the applied pattern has no filter.
- `SELECT ` with a trailing space, a double space, or a word starting with `.` panics in the codec. This is the task-ending panic that `panic_leak` shows; that run sends `SELECT ` as well as DATA.

Not modelled:

- regex metacharacters in patterns. An invalid regex makes `create_regex(..).unwrap()` panic the main loop; this is listed as a hazard.

## 5. V3Client and FrameChannel

`V3Client.tla` models slink-tool and chain-plugin as v3 clients, from
`greet_raw` to the `packets()` loop, over the real codec. `MC_V3Client.tla`
instantiates it. The two programs differ only in their arguments:

- `SlinkToolArgs`: `-i`, real time or dial-up, `-b`, and `-k` (a keepalive interval or none);
- `ChainPluginArgs`: no INFO, real time, `-b`, and `packets(None)`, so no keepalive. The data packets it writes to the FIFO are the data frames `PacketFrame` takes.

**Codec.** `SeedLinkCodec::decode` is translated line by line into RECURSIVE
operators over sequences of symbols:

- `HandShakingLoop`: on LF, pop the byte before it and classify the line (OK, ERROR, Line); stop as soon as the buffer equals END or SLINFO;
- `DataTransferLoop`: stop when the buffer equals SL or END;
- `FinalizePacket`: complete the header, then take the record;
- `FinalizeFrameBuffer`: take the bytes the frame still misses.

The packet layout is scaled down. The header is 4 symbols instead of 8, the
record 1 instead of 512, and SLINFO becomes SLI. The decoder compares the
same literals and counts the same way, so its control flow is unchanged.

`SocketRead` is FramedRead reading an arbitrary non-empty prefix of what the
server has written, so every split of the byte stream is explored.
`TakeFrame` is one `read_frame` that yields a frame.

**Preflight.** `connect` writes `hello` on the new socket and reads two lines
straight from it (`Preflight`, `PreflightLine`). `parse_hello_response` and
`setup_connection` then pick the protocol version from the first line.

The banner is a sequence of symbols, and its parsing is modelled by what the
code does:

- split at the first ` v`;
- the `f32` test on the next three characters;
- the case-insensitive `seedlink` literal, scaled to `sl`;
- the major version before the first `.`, parsed as `u8`.

Any version other than 3 fails `connect`, which slink-tool unwraps.

**Session.** `pc` follows slink-tool's `main`. Each step is one action:

| Code | Action |
|------|--------|
| `say_hello` | `SayHello` |
| the two `read_line_frame` calls | `HelloLine` |
| slink-tool's `-i` match and `request_*_info_raw` | `InfoCommand` (ID, STATIONS, STREAMS, CONNECTIONS) |
| `request_info` | `RequestInfo`, `InfoFrame` |
| `try_send_info` | `TrySendInfo` |
| `configure` | `Configure`, `BatchAnswer`, `EndConfigure` |
| `Negotiator` | `Station`, `StationAnswer`, `Select`, `SelectAnswer`, `Action`, `ActionAnswer` |
| `packets()` | `PacketFrame`, `SendKeepAlive` |
| `shutdown` (on END, or with no stream configs) | `Shutdown` = `SayBye` ∧ `CloseWrite` ∧ state Closed |

Every `unwrap` of an error is `Fail`. Each read action is `TakeFrame`
conjoined with the handler applied to the decoded frame.

**Server.** The v3 server is not part of this repository. It is modelled as
an environment that follows spec §4.4:

- it answers HELLO with two lines;
- it answers INFO with one or two info packets, or with an ERR packet;
- it answers BATCH, STATION, SELECT and DATA/FETCH with OK or ERROR, and answers nothing in batch mode;
- after END it streams up to `MaxPackets` data packets, and in FETCH mode ends with END.

**Fairness.** Weak fairness on the session, the socket and the server:

- the session is one task that always runs when it is not waiting;
- TCP delivers what was written;
- the server answers.

Deadlock checking is off. A real-time session waits for data for ever once
the server has sent its packets.

| Run | Expect | What it shows |
|-----|--------|---------------|
| `v3_session` | pass | `TypeOK`. `RefinesFrameChannel`: the frames the session reads are those the server wrote, whole and in order, under every split of the bytes (`FrameChannel.tla` is the abstract channel, instantiated with the refinement mapping sent ← sent, recv ← recv). `InfoRequestsNeverOverlap`: `request_info` and the keepalive never have two INFO commands unanswered. `NoLinePendingInDataPhase`: when `configure` switches the codec to DataTransfer, no handshake answer is still unread. `AllFramesEventuallyRead`: the decoder never stalls. `DialUpSessionEnds`: once a station is accepted in FETCH mode, the session reaches the server's END and shuts down (its mutant, which skips writing END, hangs in `packets()`). It is stated for an accepted station because with every station refused `packets()` waits for ever, a hazard. `SessionOnlyWithV3Server`: a framed session starts only when the banner reads `SeedLink v3.<digit>` in any case. This is checked against a reference form of the banner over five banners: v3.1, v4.0, `v31.`, a wrong identifier and a truncated version. |
| `keepalive_flag_stuck` | violation | `ExpectMeansOutstanding`. An INFO request answered on the ERR channel returns from `request_info` at `mod.rs:178` with `expect_info_resp` still set. slink-tool only logs the error. After that every keepalive tick is refused by `try_send_info`, and no INFO ID heartbeat is ever sent. Spec §4.4 says the response clears the flag. |

**Bounds** (`v3_session.cfg`):

- two stations, with one selector and with none;
- one HELLO description;
- both programs: for slink-tool, `-i` absent or STATIONS, DATA or FETCH, batch or not, keepalive on or off; for chain-plugin, batch or not;
- at most 2 INFO commands and 2 data packets.

These bounds reach every path through the negotiator:

- OK/ERROR on STATION and SELECT, and ERROR on the action;
- a refused BATCH;
- a two-packet INFO answer split at any byte;
- keepalive INFO packets interleaved with data packets and END.

The run has 104,368 distinct states and takes about two minutes; most of it is the check of the three temporal properties.

**Not modelled:**

- TIME (time-window) mode, which slink-tool never uses;
- the text of sequence numbers and times, which leaves the control flow unchanged;
- a server that ends lines with a bare LF or sends a line beginning with END or SLI. Both are listed as hazards.

## 6. ClientState

`ClientState.tla` models repeated runs of `slink-tool -x`. The state file
(`db`, sid → seq) survives a stop; the in-memory `StreamConfigs` (`configs`)
do not.

A run goes through these actions in order:

1. `Start`: a new Connection with empty StreamConfigs.
2. `AddStream`: one step per `-S` entry (`StreamConfigs::add_stream` with its selectors).
3. `Recover`: `recover_state`, a fold of `MergeRow` over `StateDB::state`'s rows in sid order.
4. `Configure`: DATA with `from_str_radix` of each recovered seq_num.
5. `Receive`: slink-tool's packet loop. The sequence number is parsed from the packet header: `Header` is the server's six hex digits, and `SequenceNumber` is `from_str_radix`. It is then stored with `Store`, which is `StateDB::store` (REPLACE INTO).

`Stop` may end the run at any point. `Produce` is the server's ring buffer
gaining a packet.

Hex text is modelled by what it does:

- `Hex` is `format!("{:x}")`, as a sequence of digit values;
- `StrLess` is the byte-wise `&str <`;
- `FromHex` is `from_str_radix(.., 16)`.

The digits 0-9a-f sort in ASCII order as their values do, so comparing digit
sequences compares the text.

Stream ids are FDSN source ids as byte sequences (`SidText`, the text
`ms_record.sid()` gives, e.g. `FDSN:GE_A__B_H_Z`):

- `ParseSid` is `FDSNSourceId::parse` with `NSLC::parse`: one `:` before the
  NSLC, which `SplitN` (`splitn(4, '_')`) splits so that the channel keeps its
  `_`-joined band, source and subsource;
- `SidDisplay` is the text `store` writes back;
- `SidOrder` is `ORDER BY sid`, the streams sorted by `StrLess` on their text;
- `MergeRow` keys a row by the parsed network and station codes, as
  `recover_state` does.

An ASSUME in `ClientState` checks that every sid of the configuration
parses, is stored as the same text, and names its stream's station.

| Run | Expect | What it shows |
|-----|--------|---------------|
| `recover_lexicographic` | violation | `RecoveredSeqIsNewest`. Two streams of one station are stored with 15 ("f") and 16 ("10"). After a restart, `recover_state` keeps "f", because "10" < "f" as text. The session then asks for DATA f and receives again what it had already stored. The spec (§4.8) promises that seq_num is set iff the stored value is greater. |

The configuration has two stations, one of them with two streams. Server
sequence numbers start at 14 and go up to 17, so they cross from one hex
digit to two. There are at most two process starts.

This module has only the violation run above. Its
definitions are mapped, and its hazards are listed in `PROJECT.json`:

- the 24-bit wrap of v3 sequence numbers;
- the key built by concatenating network and station codes;
- `configure_from_state_db` discarding the configs it builds.

## 7. LineCodec

`LineCodec.tla` models the bytes of one v4 connection from the client to
`CommandV4::parse`. The bytes are `a` (any command character), CR and LF.

- The client: `ClientSends(x)` one byte, and `ClientCloses`.
- `Decode` is `SeedLinkCodec::decode` as an operator, loop included
  (`RECURSIVE`): `next_index`, `is_discarding`, the search up to `read_to`,
  the CR LF merge only when the LF is buffered, `without_carriage_return`,
  `Ok(None)` for an empty line, and `CommandLineTooLong` past the limit.
  `DecodeEof` is tokio-util's default `decode_eof`, which turns `None`
  with bytes left into the I/O error "bytes remaining on stream".
- `FramedRead::poll_next` is three actions: `PollRead` (a read of any
  nonempty prefix of what the socket holds, or the 0-byte reads at close),
  `PollDecode` and `PollDecodeEof`.
- `TcpRead` is what `tcp_read` does with the item: a line goes to the
  parser (`parsed`), and the end of the stream, an I/O error or a too-long
  line ends the loop. Every line parses; parse errors are ServerActors'.

`CommandLinesAllParsed` compares `parsed` with a reference split of
everything the client sent (`Terminated`, `CommandLines`): its nonempty
lines, in order, once the client has closed and the reader has finished,
when no line exceeds the limit (`WithinLimit`).

| Run | Expect | What it shows |
|-----|--------|---------------|
| `blank_line_loss` | violation | The client sends CR CR `a` CR and closes. The first decode drops one empty line and returns `None`, so FramedRead reads again and sees EOF. `decode_eof` drops the second empty line and returns `None` with `a` CR still buffered. FramedRead then yields "bytes remaining on stream", and `a` is never parsed. While the socket stays open, the same lines wait for the client's next bytes. |

The limit is 3 instead of 255 and the client sends at most 5 bytes. Every
split of the bytes into reads is explored. The bounds put lines below, at
and above the limit in one connection.

Two codec behaviours are listed as hazards without a run. `read_to` lets
a line of limit-1 characters with CR LF through, one byte over the
documented limit. The discarding mode is unreachable, because `tcp_read`
breaks on the first `CommandLineTooLong`.

## 8. CommandV4

`CommandV4.tla` is the v4 command grammar of `src/src/v4/cmd` as operators
on texts. A text is a sequence of one-character strings. The module has no
state. Its operators are used by ServerActors (`KindOf`) and by
ServerSelect (SELECT arguments).

- `SplitCommand` is `splitn(2, [' ', '\t'])`, and `Lower` is
  `to_lowercase`.
- `ParseCommand` is `Command::from_str`. It dispatches on the lower-cased
  verb, and `CheckCmdLength` is `check_cmd_length`.
  - DATA keeps the code's inverted `split.len() == 2` test: with an argument
    it yields `Data::default()`, and without one it indexes `split[1]` and
    panics.
  - INFO errors carry the info flag (`INFOERR`).
  - An unknown verb is `FOO` (Command::Unknown).
- The argument grammars:
  - `ParseAuth` is `AuthMethod::from_str`: userpass takes 2 credentials,
    token takes 1;
  - `ParseInfo` is `Info::from_str`, with the item and the station, stream
    and format pattern checks;
  - `ParseSlProto` and `ParseU8` are `SlProto::from_str` with `u8::from_str`
    (an optional `+`, at most 255);
  - `ParseStation` is `Station::from_str` (trim, nonempty);
  - `ParseUserAgent` and `ParseUserAgentInfo` are `UserAgent::from_str`:
    each space-separated word splits at `/` into exactly two parts;
  - `ParsePattern`, `ParseSelect` and `Display` are the SELECT grammar
    (section 4).

- `ParseSequenceNumber`, `DataFromStr` and `DataDisplay` are DATA's
  argument grammar (`src/src/v4/cmd/data.rs`): `SequenceNumber::from_str`
  (`all`, `next` in any case, or a decimal u64 with an optional `+`), and
  `Data::from_str`, which splits at single spaces into at most three words
  and parses the two times as ISO 8601 in UTC. A time text is abstracted to
  `T`, one digit for the instant, and the offset (`Z` or `+` and a digit of
  hours); `is_utc` holds for `Z` and for `+0`. `Command::from_str` never
  calls `Data::from_str` (the inverted length test), so this grammar is
  reachable only through the library API. `split` never yields an empty
  list, so the `is_empty` branch is dead: an empty argument fails as a
  sequence number.

No run checks the module alone. An ASSUME in `MC_ServerSelect` checks that
`DataFromStr` reads back what `DataDisplay` writes after `data `, for every
kind of sequence number and every number of times. It also checks that an
empty argument, a fourth word and a non-zero offset are refused, and that
`+7`, `NEXT` and a `+0` offset are accepted. The ASSUME in `MC_ServerActors` evaluates
`ParseCommand` on one text per outcome each time TLC starts a ServerActors
run. `select_safety` exercises the SELECT grammar.

## 9. PacketV4

`PacketV4.tla` is the v4 packet layout of `src/src/v4/packet.rs` as
operators on byte sequences (a byte is 0..255; characters are their ASCII
codes). It has no state.

- `Code` and `DataFormats` are `DataFormat` with `code()`;
  `FormatFromBytes` is `TryFrom<[u8; 2]>` through `from_str`.
- `ToLE` and `FromLE` are `to_le_bytes` and `from_le_bytes` (u32 and u64).
- `Parse` is `SeedLinkPacket::parse`, with its checks in the code's order:
  the signature's UTF-8 and value, the format code, `len_payload = 0`, and
  the station id's UTF-8. Every slice indexes the buffer without a length
  check, so a buffer too short for the part about to be read is `Panic`
  where the code panics. `payload` is `payload_raw`: everything after the
  station id.
- `PackInfo` is `pack_info` (used through `pack_info_ok` and
  `pack_info_err` by the server's writer, `client.rs` 337-342).
- `PackMsRecord` is `pack_ms_record` for a record's network, station,
  payload and format version; `PackWithSeqNum` is
  `pack_packet_with_seq_num`, which splices a sequence number into bytes
  8..16.

No run checks the module alone. Four ASSUMEs in `MC_ServerActors` are
evaluated each time TLC starts a ServerActors run, over bounded inputs
(INFO payloads of 1 and 2 bytes, a 2-byte record payload; sequence numbers 1, 256, 65536 and 16777217,
which carry into the second, third and fourth byte; TLC's integers are 32
bits wide, so larger u64 values are out of reach):

- the format codes round-trip through `FormatFromBytes`;
- `Parse` of a `PackInfo` packet gives back the format, the length, sequence
  number 0, no station id and the text; no prefix of it shorter than 17
  bytes parses (each one panics or errs);
- `Parse` of `PackWithSeqNum(PackMsRecord(...))` gives back the format of
  the version, the station id `NET_STA`, the payload and the spliced
  sequence number;
- `pack_ms_record` refuses a non-ASCII station id, an empty payload and an
  unknown version.

What the operators show about the code, without a run of their own:
`parse` does not compare `len_payload` with the bytes that follow, so a
truncated or padded packet parses; and `parse` and
`pack_packet_with_seq_num` panic on a short buffer rather than return an
error. The server never parses v4 packets, and a backend packs them, so
neither is reachable from a client's input in ServerActors.

## 10. Inventory

`Inventory.tla` is the client library's `Inventory` (`src/src/inventory.rs`
425-515): a list of stations plus a `HashMap` from station id to list
index. `Station`'s `PartialEq` and `Hash` look at the id only, so a station
is a record `[id, v]`, where `v` stands for everything else about it. An
inventory is `[stations, idx]`. The module has no state.

- `Empty` is `Inventory::default`, `Size` is `len`, and `Get` is `get`,
  which returns `{}` for `None`.
- `Insert` is `insert`. A known id has its indexed entry replaced, and the
  old station is returned. A new id is appended and indexed.
- `FromList` is the three `From` conversions from station lists. They keep
  the list as given and collect the index from (id, position) pairs, so the
  later of two equal ids wins.

No run checks the module alone. Two ASSUMEs in `MC_ServerSelect` check it
over every sequence of up to three inserts of three stations (two sharing an
id), starting from `default()` and from a one-station list.

- The first compares the module with a reference map that keeps the last
  station inserted per id. `get` agrees with the map, `len` counts the ids,
  and `insert` returns the replaced station.
- The second records what happens when a server's INFO list names a
  station twice. The index keeps the later entry, `insert` replaces only
  that one, and the earlier entry stays in the list that `Deref` iterates.
  So `len` and iteration count a station that `get` never returns. No
  program in the repository builds or walks an `Inventory`. slink-tool
  prints the raw INFO XML, so this only matters to users of the library.
  It is listed as a hazard.
