-------------------------- MODULE MC_ServerActors --------------------------
(* Model-checking instance of ServerActors: the client model values and   *)
(* the command texts each run lets the peers send, written as sequences   *)
(* of characters, with the kind each is meant to reach.                    *)
EXTENDS ServerActors, TLC

CONSTANTS c1, c2

THello     == <<"H","E","L","L","O">>
TStation   == <<"S","T","A","T","I","O","N"," ","A","B">>
TSelect    == <<"S","E","L","E","C","T"," ","B","H","?">>
TData      == <<"D","A","T","A"," ","7">>
TInfoId    == <<"I","N","F","O"," ","I","D">>
TUserAgent == <<"U","S","E","R","A","G","E","N","T"," ","a","/","1">>
TBye       == <<"b","y","e">>
TFoo       == <<"C","A","T">>
TSlProto   == <<"S","L","P","R","O","T","O"," ","4",".","0">>
TBadArgs   == <<"H","E","L","L","O"," ","x">>
TInfoErr   == <<"I","N","F","O">>
TPanic     == <<"D","A","T","A">>
TSelPanic  == <<"S","E","L","E","C","T"," ">>
TEmpty     == <<>>
TLong      == <<"S","T","A","T","I","O","N"," ","A","B","C","D","E","F","G","H">>
TAuth      == <<"A","U","T","H"," ","t","o","k","e","n"," ","t">>
TEnd       == <<"E","N","D">>
TEndFetch  == <<"E","N","D","F","E","T","C","H">>
TInfoOther == <<"I","N","F","O"," ","S","T","A","T","I","O","N","S">>

\* Each text reaches the kind it is named for (MaxLineLength = 16).
ASSUME /\ KindOf(THello) = "HELLO"         /\ KindOf(TStation) = "STATION"
       /\ KindOf(TSelect) = "SELECT"       /\ KindOf(TData) = "DATA"
       /\ KindOf(TInfoId) = "INFOID"       /\ KindOf(TUserAgent) = "USERAGENT"
       /\ KindOf(TBye) = "BYE"             /\ KindOf(TFoo) = "FOO"
       /\ KindOf(TSlProto) = "SLPROTO"     /\ KindOf(TBadArgs) = "BADARGS"
       /\ KindOf(TInfoErr) = "INFOERR"     /\ KindOf(TPanic) = "PANIC"
       /\ KindOf(TEmpty) = "EMPTY"         /\ KindOf(TLong) = "LONG"
       /\ KindOf(TAuth) = "AUTH"           /\ KindOf(TEnd) = "END"
       /\ KindOf(TEndFetch) = "ENDFETCH"   /\ KindOf(TInfoOther) = "INFOOTHER"
       /\ KindOf(TSelPanic) = "PANIC"

\* Every text.
TextsAll == {THello, TStation, TSelect, TData, TInfoId, TUserAgent, TBye,
             TFoo, TSlProto, TBadArgs, TInfoErr, TPanic, TEmpty, TLong,
             TAuth, TEnd, TEndFetch, TInfoOther}
\* All texts except those that stall, end or kill the reader or the main
\* loop, or that the dispatcher leaves unanswered.
TextsAnswered == {THello, TStation, TSelect, TData, TInfoId, TUserAgent,
                  TBye, TFoo}
\* STATION and DATA, whose order DataOkOnlyAfterStation is about, and END,
\* which panics the main loop under the other client.
TextsNegotiate == {TStation, TData, TEnd}
TextsSlProto == {TSlProto, TInfoId}
\* DATA without arguments, and SELECT with an empty pattern.
TextsPanic == {TPanic, TSelPanic}
TextsLong == {THello, TLong}

Symm == Permutations({c1, c2})

-----------------------------------------------------------------------------
(* The v4 packet codec (PacketV4), whose pack_info frames the writer's    *)
(* INFO replies, checked against the layout each time a run starts.       *)

P4 == INSTANCE PacketV4

\* JSON payloads "{" and "{}", a network GE, a station A.
P4Payloads == {<<123>>, <<123, 125>>}
P4Net == <<71, 69>>
P4Sta == <<65>>

\* Every DataFormat reads back from its code.
ASSUME \A f \in P4!DataFormats : P4!FormatFromBytes(P4!Code[f]) = f

\* An INFO packet parses back to its format, length and payload, with
\* sequence number 0 and no station id; no prefix of it shorter than the
\* header parses.
ASSUME \A s \in P4Payloads, f \in {"JsonSeedLinkInfo", "JsonSeedLinkError"} :
          LET b == P4!PackInfo(s, f).bytes IN
          /\ P4!Parse(b) = [t |-> "ok", format |-> f, len_payload |-> Len(s), seq_num |-> 0,
                            len_sta_id |-> 0, sta_id |-> <<>>, payload |-> s]
          /\ \A k \in 0..16 : P4!Parse(SubSeq(b, 1, k)).t # "ok"

\* A record packed with one sequence number and respliced with another
\* parses to the second number, the station id NET_STA and the payload,
\* across the byte boundaries of the little-endian encoding.
ASSUME \A ver \in {2, 3}, n1 \in {0, 255}, n2 \in {1, 256, 65536, 16777217} :
          LET b == P4!PackWithSeqNum(P4!PackMsRecord(P4Net, P4Sta, <<7, 8>>, ver, n1).bytes,
                                     n2).bytes
              r == P4!Parse(b)
          IN /\ r.t = "ok" /\ r.seq_num = n2 /\ r.len_payload = 2 /\ r.payload = <<7, 8>>
             /\ r.sta_id = P4Net \o <<95>> \o P4Sta
             /\ r.format = IF ver = 2 THEN "MiniSeed2xDataGeneric" ELSE "MiniSeed3xDataGeneric"

\* pack_ms_record refuses a non-ASCII station id, a record without raw
\* bytes and a format version other than 2 and 3.
ASSUME /\ P4!PackMsRecord(P4Net, <<200>>, <<7>>, 2, 0).t = "err"
       /\ P4!PackMsRecord(P4Net, P4Sta, <<>>, 2, 0).t = "err"
       /\ P4!PackMsRecord(P4Net, P4Sta, <<7>>, 4, 0).t = "err"
====
