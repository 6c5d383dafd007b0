---------------------------- MODULE ClientState -----------------------------
(***************************************************************************)
(* Resumable consumption with the client's state database, as slink-tool   *)
(* -x drives it: each run adds its -S streams to the Connection's          *)
(* StreamConfigs, merges the stored sequence numbers into them             *)
(* (recover_state), configures the session with them and stores the       *)
(* sequence number of every data packet it receives (StateDB::store).  The *)
(* process may be stopped at any point and started again; the SQLite file  *)
(* survives, the in-memory StreamConfigs do not.                           *)
(*                                                                         *)
(* Sequence numbers are naturals; their hex text (format!("{:x}")) is a    *)
(* sequence of digit values 0..15, whose order is that of the ASCII        *)
(* characters 0-9a-f, so comparing digit sequences is comparing the text.  *)
(***************************************************************************)
EXTENDS Naturals, Sequences, SequencesExt, FiniteSets, TLC

CONSTANTS
    Stations,       \* stations of the server (model values)
    Streams,        \* streams (FDSN source ids) of those stations
    StationOf,      \* Streams -> Stations
    NetOf, StaOf,   \* Stations -> Seq(Byte): network and station codes
    SidText,        \* Streams -> Seq(Byte): the FDSN source id ms_record.sid() gives
    Args,           \* the -S list: Seq of [st |-> station, nsel |-> selectors]
    AddSelectArgs,  \* recover_state's add_select_args (FALSE in slink-tool)
    StartSeq,       \* Stations -> Nat: the server's first sequence number
    MaxSeq,         \* bound on sequence numbers the server reaches
    MaxRuns         \* bound on process starts

ASSUME /\ StationOf \in [Streams -> Stations]
       /\ AddSelectArgs \in BOOLEAN

-----------------------------------------------------------------------------
(* Hex text of sequence numbers                                            *)

\* format!("{:x}", n): the digits of n in base 16, most significant first,
\* without padding.
RECURSIVE Hex(_)
Hex(n) == IF n < 16 THEN <<n>> ELSE Hex(n \div 16) \o <<n % 16>>

\* i32::from_str_radix(s, 16).
FromHex(s) == FoldLeft(LAMBDA acc, d : acc * 16 + d, 0, s)

\* The v3 packet header's sequence number field as the server writes it:
\* six hex digits, zero-padded.
Header(n) == [i \in 1..6 |-> (n \div (16 ^ (6 - i))) % 16]

\* SeedLinkGenericDataPacketV3::sequence_number: from_str_radix(16) of the
\* header after the "SL" signature.
SequenceNumber(hdr) == FromHex(hdr)

\* &str < &str: byte-wise lexicographic order, a proper prefix first.
RECURSIVE StrLess(_, _)
StrLess(a, b) ==
    IF b = <<>> THEN FALSE
    ELSE IF a = <<>> THEN TRUE
    ELSE IF Head(a) # Head(b) THEN Head(a) < Head(b)
    ELSE StrLess(Tail(a), Tail(b))

-----------------------------------------------------------------------------
(* FDSN source identifiers (util.rs), as ASCII codes                       *)

NS_SEP == 58    \* ':'
SEP == 95       \* '_'

\* s.splitn(n, d): at most n fields, the last one keeping every further d.
RECURSIVE SplitN(_, _, _)
SplitN(s, d, n) ==
    IF n = 1 \/ \A i \in DOMAIN s : s[i] # d THEN <<s>>
    ELSE LET i == CHOOSE i \in DOMAIN s : s[i] = d /\ \A j \in 1..(i - 1) : s[j] # d
         IN <<SubSeq(s, 1, i - 1)>> \o SplitN(SubSeq(s, i + 1, Len(s)), d, n - 1)

\* FDSNSourceId::parse: exactly one ':' before the NSLC, which
\* NSLC::parse splits into four fields with splitn(4, '_'), so the channel
\* keeps its band, source and subsource joined by '_'.  ok is FALSE for
\* InvalidStreamId.
ParseSid(t) ==
    LET ns == SplitN(t, NS_SEP, Len(t) + 1)
        f == SplitN(ns[Len(ns)], SEP, 4)
    IN IF Len(ns) # 2 \/ Len(f) # 4 THEN [ok |-> FALSE]
       ELSE [ok |-> TRUE, ns |-> ns[1], net |-> f[1], sta |-> f[2], loc |-> f[3], cha |-> f[4]]

\* FDSNSourceId's Display, the text StateDB::store writes.
SidDisplay(id) ==
    id.ns \o <<NS_SEP>> \o id.net \o <<SEP>> \o id.sta \o <<SEP>> \o id.loc \o <<SEP>> \o id.cha

\* ORDER BY sid: the streams in the order of their stored text.
SidOrder == SetToSortSeq(Streams, LAMBDA a, b : StrLess(SidText[a], SidText[b]))

\* Every record's sid parses (store's parse::<FDSNSourceId>()? would fail,
\* and slink-tool unwraps it), is stored as the same text, and names the
\* network and station of its stream's station.
ASSUME \A s \in Streams :
          LET id == ParseSid(SidText[s]) IN
          /\ id.ok
          /\ SidDisplay(id) = SidText[s]
          /\ id.net = NetOf[StationOf[s]] /\ id.sta = StaOf[StationOf[s]]

-----------------------------------------------------------------------------
(* StreamConfigs                                                           *)

\* The map key: network and station code concatenated.
Key(st) == NetOf[st] \o StaOf[st]

\* StreamConfig::new.  seq = <<>> stands for seq_num None (the text of a
\* number is never empty).
NewStreamConfig(st, nsel) == [st |-> st, nsel |-> nsel, seq |-> <<>>]

\* StreamConfigs::add_stream as slink-tool calls it for one -S entry:
\* add_stream(net, sta, None), then once per selector: an existing key only
\* gains the selectors, a new key gets a new StreamConfig.
AddStreamEntry(cfgs, e) ==
    IF Key(e.st) \in DOMAIN cfgs
    THEN [cfgs EXCEPT ![Key(e.st)].nsel = @ + e.nsel]
    ELSE (Key(e.st) :> NewStreamConfig(e.st, e.nsel)) @@ cfgs

\* StateDB::state: the rows (sid, seq) ordered by sid.
StateRows(db) ==
    LET sids == SelectSeq(SidOrder, LAMBDA s : s \in DOMAIN db)
    IN [i \in 1..Len(sids) |-> <<sids[i], db[sids[i]]>>]

\* recover_state's loop body for one row: the row's key is the network
\* and station code of its parsed sid; a row of a configured key
\* (optionally) adds its SELECT argument, then replaces the seq_num unless
\* its hex text is smaller than the text already recorded.
MergeRow(cfgs, row) ==
    LET id == ParseSid(SidText[row[1]])
        k == id.net \o id.sta
        c == IF AddSelectArgs THEN [cfgs[k] EXCEPT !.nsel = @ + 1] ELSE cfgs[k]
    IN IF k \notin DOMAIN cfgs THEN cfgs
       ELSE IF c.seq # <<>> /\ StrLess(Hex(row[2]), c.seq)
            THEN [cfgs EXCEPT ![k] = c]
            ELSE [cfgs EXCEPT ![k] = [c EXCEPT !.seq = Hex(row[2])]]

\* Connection::recover_state.
RecoverState(cfgs, db) == FoldLeft(MergeRow, cfgs, StateRows(db))

-----------------------------------------------------------------------------
(* slink-tool with -x                                                      *)

VARIABLES
    db,       \* the SQLite stream table: sid -> seq (persistent)
    pc,       \* where main() is: "start", "add", "configure", "stream"
    ai,       \* the next -S entry to add
    configs,  \* Connection.stream_configs: key -> StreamConfig
    head,     \* server: Stations -> the next sequence number it produces
    pos,      \* server: Stations -> the next sequence number it sends us
    runs      \* process starts so far

vars == <<db, pc, ai, configs, head, pos, runs>>
server == <<head, pos>>

\* An empty state file: StateDB::open creates the table.
Init ==
    /\ db = <<>>
    /\ pc = "start" /\ ai = 1
    /\ configs = <<>>
    /\ head = StartSeq /\ pos = StartSeq
    /\ runs = 0

\* main(): connect, greet and open the state database; a new Connection
\* starts with no StreamConfigs.
Start ==
    /\ pc = "start"
    /\ runs < MaxRuns
    /\ pc' = "add" /\ ai' = 1 /\ configs' = <<>>
    /\ runs' = runs + 1
    /\ UNCHANGED <<db, server>>

\* The -S loop: one entry with its selectors per step.
AddStream ==
    /\ pc = "add"
    /\ ai <= Len(Args)
    /\ configs' = AddStreamEntry(configs, Args[ai])
    /\ ai' = ai + 1
    /\ UNCHANGED <<db, pc, server, runs>>

\* con.recover_state(state_db, false) once every entry is added.
Recover ==
    /\ pc = "add"
    /\ ai > Len(Args)
    /\ configs' = RecoverState(configs, db)
    /\ pc' = "configure"
    /\ UNCHANGED <<db, ai, server, runs>>

\* configure: each station's DATA carries from_str_radix of its seq_num;
\* the server then sends from that number, or, without one, from the next
\* packet it produces.
Configure ==
    /\ pc = "configure"
    /\ pos' = [st \in Stations |->
                 IF Key(st) \notin DOMAIN configs THEN pos[st]
                 ELSE IF configs[Key(st)].seq = <<>> THEN head[st]
                 ELSE FromHex(configs[Key(st)].seq)]
    /\ pc' = "stream"
    /\ UNCHANGED <<db, ai, configs, head, runs>>

\* The server's ring buffer gains a packet of station st.
Produce(st) ==
    /\ head[st] < MaxSeq
    /\ head' = [head EXCEPT ![st] = @ + 1]
    /\ UNCHANGED <<db, pc, ai, configs, pos, runs>>

\* StateDB::store: REPLACE INTO stream(sid, seq): last writer wins.
Store(d, s, n) == (s :> n) @@ d

\* The packet loop: a data packet of stream s arrives; its header's
\* sequence number is stored for the record's sid.
Receive(s) ==
    LET st == StationOf[s] IN
    /\ pc = "stream"
    /\ Key(st) \in DOMAIN configs
    /\ pos[st] < head[st]
    /\ db' = Store(db, s, SequenceNumber(Header(pos[st])))
    /\ pos' = [pos EXCEPT ![st] = @ + 1]
    /\ UNCHANGED <<pc, ai, configs, head, runs>>

\* The process is stopped (Ctrl-C, kill, a panic on unwrap): the state
\* file keeps every committed store.
Stop ==
    /\ pc # "start"
    /\ pc' = "start"
    /\ UNCHANGED <<db, ai, configs, server, runs>>

Next ==
    \/ Start \/ AddStream \/ Recover \/ Configure \/ Stop
    \/ \E st \in Stations : Produce(st)
    \/ \E s \in Streams : Receive(s)

Spec == Init /\ [][Next]_vars

-----------------------------------------------------------------------------
(* Properties                                                              *)

TypeOK ==
    /\ DOMAIN db \subseteq Streams /\ \A s \in DOMAIN db : db[s] \in 0..MaxSeq
    /\ pc \in {"start", "add", "configure", "stream"}
    /\ ai \in 1..(Len(Args) + 1)
    /\ head \in [Stations -> 0..MaxSeq] /\ pos \in [Stations -> 0..MaxSeq]
    /\ runs \in 0..MaxRuns

\* The largest sequence number stored for the streams of station st.
NewestStored(st) ==
    LET ns == {db[s] : s \in {x \in DOMAIN db : StationOf[x] = st}}
    IN CHOOSE n \in ns : \A m \in ns : m <= n

\* recover_state takes, per station, the newest of the sequence numbers
\* the previous runs stored for its streams ("set the config's seq_num iff
\* it is strictly greater", spec 6): right after recovery each configured
\* station with stored rows resumes from the largest of them.
RecoveredSeqIsNewest ==
    pc = "configure" =>
        \A st \in {c.st : c \in Range(configs)} :
            (\E s \in DOMAIN db : StationOf[s] = st) =>
                FromHex(configs[Key(st)].seq) = NewestStored(st)
====
